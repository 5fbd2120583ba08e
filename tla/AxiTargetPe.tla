---------------------------- MODULE AxiTargetPe ----------------------------
(***************************************************************************)
(* axi_target_pe, the AXI/ACE target protocol engine, on top of the state  *)
(* machine handling of axi::fsm::base.                                     *)
(*                                                                         *)
(* A phase announced by the initiator waits in fw_peq (AxiChannel!fw).     *)
(* nb_fw feeds it to the transaction's state machine, whose callbacks      *)
(* limit the number of outstanding transactions, schedule the handshakes,  *)
(* hand the request to the operation and send the responses.  Two queues   *)
(* bring scheduled time points back to the state machine: fsm_event_queue  *)
(* (no delay, first in first out) and fsm_clk_queue (a number of clock     *)
(* cycles).  Four threads start and send the responses.                    *)
(*                                                                         *)
(* Clock cycles are not counted: an event of fsm_clk_queue and a request   *)
(* in req2resp_fifo become due after any time, which is what a random      *)
(* (negative) delay parameter gives.                                       *)
(***************************************************************************)
EXTENDS AxiChannel, AxiFsm, SequencesExt

CONSTANTS
  Coherent,        (* base::coherent, the flavor is ACE or ACE-Lite.       *)
  MaxOutstanding,  (* max_outstanding_tx, 0 for no limit.                  *)
  RdInterleaving,  (* rd_data_interleaving.                                *)
  AcceptDelays,    (* what rd_addr_accept_delay and wr_data_accept_delay   *)
                   (* can yield: "zero", "cycles" or both (random).        *)
  BeatDelays,      (* the same for rd_data_beat_delay.                     *)
  ConstantLatency, (* rd_resp_delay and wr_resp_delay are not random.      *)
  BeatFifoSize,    (* capacity of rd/wr_resp_beat_fifo, 128 in the code.   *)
  UMax             (* the largest unsigned, 2^32 - 1 in the code.          *)

DelayKinds == {"zero", "cycles"}

ASSUME TargetAssumption ==
  /\ Coherent \in BOOLEAN
  /\ MaxOutstanding \in Nat
  /\ RdInterleaving \in BOOLEAN
  /\ ConstantLatency \in BOOLEAN
  /\ AcceptDelays \subseteq DelayKinds
  /\ BeatDelays \subseteq DelayKinds
  /\ BeatFifoSize \in Nat \ {0}
  /\ UMax \in Nat \ {0}

VARIABLES
  active,      (* domain of active_fsm: the payloads that have a handle.   *)
  fsm,         (* the state of the payload's (last) state machine.         *)
  beat,        (* fsm_handle::beat_count.                                  *)
  evq,         (* fsm_event_queue: time points due in this order.          *)
  clkq,        (* fsm_clk_queue, split by payload.                         *)
  cnt,         (* outstanding_cnt per command.                             *)
  outst,       (* outstanding_rd_tx and outstanding_wr_tx.                 *)
  stalledTx,   (* stalled_tx per command.                                  *)
  stalledTp,   (* stalled_tp per command.                                  *)
  req2resp,    (* rd/wr_req2resp_fifo: requests being operated on, the     *)
               (* oldest first.                                            *)
  overdue,     (* How many of the oldest reads in it have counted down to  *)
               (* zero and been pushed back for lack of room.              *)
  respFifo,    (* rd/wr_resp_fifo, one entry each.                         *)
  rdResp,      (* rd_resp: the right to run a read response.               *)
  rdStart,     (* start_rd_resp_thread: where it waits, for which payload. *)
  activeRdId,  (* active_rdresp_id.                                        *)
  beatFifo,    (* rd/wr_resp_beat_fifo: response beats to send.            *)
  respCh,      (* rd_resp_ch and wr_resp_ch: the response channels.        *)
  tgtAlarm     (* History: the logged errors and throws, and "Discarded"   *)
               (* for an event a state machine did not react to.           *)

tgtVars == <<active, fsm, beat, evq, clkq, cnt, outst, stalledTx, stalledTp,
             req2resp, overdue, respFifo, rdResp, rdStart, activeRdId, beatFifo,
             respCh, tgtAlarm>>

Scheduled == [tp : TimePoints, tx : Tx]
TgtAlarms == {"NoFsm", "Discarded", "EarlyResponse", "TooManyOutstanding"}

TgtTypeOK ==
  /\ active \subseteq Tx
  /\ fsm \in [Tx -> FsmStates]
  /\ beat \in [Tx -> Nat]
  /\ evq \in Seq(Scheduled)
  /\ clkq \in [Tx -> Seq(TimePoints)]
  /\ cnt \in [Cmds -> 0..UMax]
  /\ outst \in [Cmds -> 0..UMax]
  /\ stalledTx \in [Cmds -> Tx \union {NoTx}]
  /\ stalledTp \in [Cmds -> TimePoints \union {CB_CNT}]
  /\ \A c \in Cmds :
       IF stalledTx[c] = NoTx THEN stalledTp[c] = CB_CNT
       ELSE Cmd[stalledTx[c]] = c /\ stalledTp[c] \in {"EndPartReqE", "EndReqE"}
  /\ req2resp \in [Cmds -> Seq(Tx)]
  /\ overdue \in Nat
  /\ respFifo \in [Cmds -> Seq(Tx)]
  /\ rdResp \in Nat
  /\ rdStart \in [pc : {"read"}, tx : {NoTx}]
                 \union [pc : {"sem", "id"}, tx : Tx]
  /\ activeRdId \subseteq Ids
  /\ beatFifo \in [Cmds -> Seq(Scheduled)]
  /\ respCh \in [Cmds -> Nat]
  /\ tgtAlarm \subseteq TgtAlarms

TgtInit ==
  /\ active = {}
  /\ fsm = [t \in Tx |-> "Idle"]
  /\ beat = [t \in Tx |-> 0]
  /\ evq = << >>
  /\ clkq = [t \in Tx |-> << >>]
  /\ cnt = [c \in Cmds |-> 0]
  /\ outst = [c \in Cmds |-> 0]
  /\ stalledTx = [c \in Cmds |-> NoTx]
  /\ stalledTp = [c \in Cmds |-> CB_CNT]
  /\ req2resp = [c \in Cmds |-> << >>]
  /\ overdue = 0
  /\ respFifo = [c \in Cmds |-> << >>]
  /\ rdResp = 1
  /\ rdStart = [pc |-> "read", tx |-> NoTx]
  /\ activeRdId = {}
  /\ beatFifo = [c \in Cmds |-> << >>]
  /\ respCh = [c \in Cmds |-> 1]
  /\ tgtAlarm = {}

-----------------------------------------------------------------------------
(* Helpers.                                                                *)

\* ++ and -- of an unsigned.
Inc(n) == IF n = UMax THEN 0 ELSE n + 1
Dec(n) == IF n = 0 THEN UMax ELSE n - 1

\* base::schedule: time point tp of payload t is put into one of the queues;
\* q and k are the queues' contents before.
Schedule(kinds, tp, t, q, k) ==
  \/ /\ "zero" \in kinds
     /\ evq' = Append(q, [tp |-> tp, tx |-> t])
     /\ clkq' = k
  \/ /\ "cycles" \in kinds
     /\ clkq' = [k EXCEPT ![t] = Append(@, tp)]
     /\ evq' = q

\* Nothing is scheduled.
KeepQueues(q, k) == evq' = q /\ clkq' = k

\* Variables of the request side and of the response side.
admitVars   == <<cnt, outst, stalledTx, stalledTp>>
respondVars == <<overdue, respFifo, rdStart>>

-----------------------------------------------------------------------------
(* The request phase.                                                      *)

\* Mutants: every beat is counted; a parked request is answered nevertheless.
CountBeats(t) == Inc(cnt[Cmd[t]])
ParkAndAnswer(t, endTp) ==
  /\ stalledTx' = [stalledTx EXCEPT ![Cmd[t]] = t]
  /\ stalledTp' = [stalledTp EXCEPT ![Cmd[t]] = endTp]
  /\ Schedule(AcceptDelays, endTp, t, evq, clkq)
  /\ UNCHANGED outst

\* Leaving Idle (RequestPhaseBeg) counts the transaction and clears its beats.
CountRequest(t) == IF fsm[t] = "Idle" THEN Inc(cnt[Cmd[t]]) ELSE cnt[Cmd[t]]
BeatsAtBegin(t) == IF fsm[t] = "Idle" \/ t \notin active THEN 0 ELSE beat[t]

\* More transactions than max_outstanding_tx are counted.
OverLimit(n) == MaxOutstanding > 0 /\ n > MaxOutstanding

\* The request is parked in the stall slot of its command ...
Park(t, endTp) ==
  /\ stalledTx' = [stalledTx EXCEPT ![Cmd[t]] = t]
  /\ stalledTp' = [stalledTp EXCEPT ![Cmd[t]] = endTp]
  /\ UNCHANGED <<outst, evq, clkq>>

\* ... or accepted, and counted for the statistics with its first beat.
Accept(t, endTp, beats) ==
  /\ outst' = IF beats = 0 THEN [outst EXCEPT ![Cmd[t]] = Inc(@)] ELSE outst
  /\ Schedule(AcceptDelays, endTp, t, evq, clkq)
  /\ UNCHANGED <<stalledTx, stalledTp>>

\* The phase BEGIN_(PARTIAL_)REQ: nb_fw finds or creates the handle and feeds
\* BegPartReqE or BegReqE to it.  Leaving Idle runs RequestPhaseBeg, entering
\* the request state runs the callback of the same name: above the limit the
\* first beat is parked in the stall slot of its command, otherwise its end is
\* scheduled.
BeginRequest(t, tp) ==
  LET event == EventOf(tp, Coherent, FALSE)
      beats == BeatsAtBegin(t)
      endTp == IF tp = "BegPartReqE" THEN "EndPartReqE" ELSE "EndReqE"
      stall == beats = 0 /\ OverLimit(CountRequest(t))
  IN
  /\ active' = active \union {t}
  /\ beat' = [beat EXCEPT ![t] = beats]
  /\ fsm' = [fsm EXCEPT ![t] = After(@, event)]
  /\ IF Accepts(fsm[t], event)
       THEN /\ cnt' = [cnt EXCEPT ![Cmd[t]] = CountRequest(t)]
            /\ \/ stall  /\ Park(t, endTp)
               \/ ~stall /\ Accept(t, endTp, beats)
            /\ UNCHANGED tgtAlarm
       ELSE /\ tgtAlarm' = tgtAlarm \union {"Discarded"}
            /\ UNCHANGED <<admitVars, evq, clkq>>
  /\ UNCHANGED <<bw, req2resp, respondVars, rdResp, activeRdId, beatFifo,
                 respCh>>

\* Leaving PartialRequest: the beat is acknowledged and counted.
EndPartReqCb(t, q, k) ==
  /\ bw' = Put(bw, t, "END_PARTIAL_REQ")
  /\ beat' = [beat EXCEPT ![t] = @ + 1]
  /\ KeepQueues(q, k)
  /\ UNCHANGED <<admitVars, req2resp, rdResp, activeRdId, beatFifo, respCh,
                 tgtAlarm>>

\* Leaving Request: the request is acknowledged and handed to the operation.
EndReqCb(t, q, k) ==
  /\ bw' = Put(bw, t, "END_REQ")
  /\ req2resp' = [req2resp EXCEPT ![Cmd[t]] = Append(@, t)]
  /\ KeepQueues(q, k)
  /\ UNCHANGED <<beat, admitVars, rdResp, activeRdId, beatFifo, respCh,
                 tgtAlarm>>

-----------------------------------------------------------------------------
(* The response phase.                                                     *)

\* Entering PartialResponse or Response: the beat is queued for the sending
\* thread, and lost with an error message when the queue is full.
BegRespCb(t, tp, q, k) ==
  LET c == Cmd[t]
      full == Len(beatFifo[c]) >= BeatFifoSize
  IN
  /\ beatFifo' = IF full THEN beatFifo
                 ELSE [beatFifo EXCEPT ![c] = Append(@, [tp |-> tp, tx |-> t])]
  /\ tgtAlarm' = IF full THEN tgtAlarm \union {"TooManyOutstanding"}
                 ELSE tgtAlarm
  /\ KeepQueues(q, k)
  /\ UNCHANGED <<bw, beat, admitVars, req2resp, rdResp, activeRdId, respCh>>

\* Mutants: one partial beat too many; always the read channel.
NextRespBeatLate(t, n) ==
  IF n < BurstLen[t] THEN "BegPartRespE" ELSE "BegRespE"
FreeRdChannel(c) == respCh' = [respCh EXCEPT !["rd"] = @ + 1]

\* The response beat that follows the first n ones.
NextRespBeat(t, n) ==
  IF n < BurstLen[t] - 1 THEN "BegPartRespE" ELSE "BegRespE"

\* rd_resp_ch.post() or wr_resp_ch.post().
FreeChannel(c) == respCh' = [respCh EXCEPT ![c] = @ + 1]

\* Leaving PartialResponse: the channel is free again and the next beat is
\* scheduled.  With rd_data_beat_delay = 0 the event is only synchronised to
\* the clock, process_fsm_event moves it to fsm_clk_queue with 0 cycles.
EndPartRespCb(t, q, k) ==
  LET beats == beat[t] + 1 IN
  /\ FreeChannel(Cmd[t])
  /\ beat' = [beat EXCEPT ![t] = beats]
  /\ Schedule({"cycles"}, NextRespBeat(t, beats), t, q, k)
  /\ UNCHANGED <<bw, admitVars, req2resp, rdResp, activeRdId, beatFifo,
                 tgtAlarm>>

\* Mutants: the slot is cleared but the answer is not scheduled; the answer is
\* scheduled but the slot is not cleared, or only half of it.
LetInForgotten(c, q, k) ==
  /\ KeepQueues(q, k)
  /\ stalledTx' = [stalledTx EXCEPT ![c] = NoTx]
  /\ stalledTp' = [stalledTp EXCEPT ![c] = CB_CNT]
LetInKept(c, q, k) ==
  /\ Schedule(AcceptDelays, stalledTp[c], stalledTx[c], q, k)
  /\ UNCHANGED <<stalledTx, stalledTp>>
LetInHalf(c, q, k) ==
  /\ Schedule(AcceptDelays, stalledTp[c], stalledTx[c], q, k)
  /\ stalledTx' = stalledTx
  /\ stalledTp' = [stalledTp EXCEPT ![c] = CB_CNT]

\* The stalled request of command c is let in.
LetIn(c, q, k) ==
  /\ Schedule(AcceptDelays, stalledTp[c], stalledTx[c], q, k)
  /\ stalledTx' = [stalledTx EXCEPT ![c] = NoTx]
  /\ stalledTp' = [stalledTp EXCEPT ![c] = CB_CNT]

\* Leaving Response: channel, response right, counters and id are released and
\* a stalled request of the same command is let in.
EndRespCb(t, q, k) ==
  LET c == Cmd[t] IN
  /\ FreeChannel(c)
  /\ rdResp' = IF rdResp < 1 THEN rdResp + 1 ELSE rdResp
  /\ cnt' = [cnt EXCEPT ![c] = Dec(@)]
  /\ outst' = [outst EXCEPT ![c] = Dec(@)]
  /\ activeRdId' = IF c = "rd" THEN activeRdId \ {Id[t]} ELSE activeRdId
  /\ IF stalledTx[c] # NoTx
       THEN LetIn(c, q, k)
       ELSE KeepQueues(q, k) /\ UNCHANGED <<stalledTx, stalledTp>>
  /\ UNCHANGED <<bw, beat, req2resp, beatFifo, tgtAlarm>>

-----------------------------------------------------------------------------
(* base::react and the queues that drive it.                               *)

\* Mutant: only the acknowledge frees.
FreesOnAck(tp) == tp = "Ack"

\* The time point after which the handle goes back to the pool.
Frees(tp) == tp = "Ack" \/ (tp = "EndRespE" /\ ~Coherent)

Quiet(q, k) ==
  /\ KeepQueues(q, k)
  /\ UNCHANGED <<bw, beat, admitVars, req2resp, rdResp, activeRdId, beatFifo,
                 respCh>>

\* The state machine of t reacts to time point tp, which was taken from one of
\* the queues (q and k are what is left of them).
React(t, tp, q, k) ==
  LET event == EventOf(tp, Coherent, FALSE)
      alarm == IF t \notin active THEN "NoFsm"
               ELSE IF ~Accepts(fsm[t], event) THEN "Discarded"
               ELSE IF fsm[t] = "Request" /\ tp # "EndReqE" THEN "EarlyResponse"
               ELSE "none"
  IN
  /\ fsm' = IF t \in active THEN [fsm EXCEPT ![t] = After(@, event)] ELSE fsm
  /\ active' = IF Frees(tp) THEN active \ {t} ELSE active
  /\ IF alarm # "none"
       THEN Quiet(q, k) /\ tgtAlarm' = tgtAlarm \union {alarm}
       ELSE \/ tp = "EndPartReqE"  /\ EndPartReqCb(t, q, k)
            \/ tp = "EndReqE"      /\ EndReqCb(t, q, k)
            \/ tp \in {"BegPartRespE", "BegRespE"} /\ BegRespCb(t, tp, q, k)
            \/ tp = "EndPartRespE" /\ EndPartRespCb(t, q, k)
            \/ tp = "EndRespE"     /\ EndRespCb(t, q, k)
            \/ tp = "Ack"          /\ Quiet(q, k) /\ UNCHANGED tgtAlarm
  /\ UNCHANGED respondVars

\* base::nb_fw, called by fw_peq without delay.
NbFw(t) ==
  /\ fw[t] # << >>
  /\ fw' = Drop(fw, t)
  /\ LET phase == Head(fw[t]) IN
     \/ /\ phase = "BEGIN_PARTIAL_REQ"
        /\ BeginRequest(t, IF Cmd[t] = "wr" THEN "BegPartReqE" ELSE "BegReqE")
     \/ phase = "BEGIN_REQ"        /\ BeginRequest(t, "BegReqE")
     \/ phase = "END_PARTIAL_RESP" /\ React(t, "EndPartRespE", evq, clkq)
     \/ phase = "END_RESP"         /\ React(t, "EndRespE", evq, clkq)
     \/ phase = "ACK"              /\ React(t, "Ack", evq, clkq)

\* base::process_fsm_event.
ProcessFsmEvent ==
  /\ evq # << >>
  /\ React(Head(evq).tx, Head(evq).tp, Tail(evq), clkq)
  /\ UNCHANGED fw

\* base::process_fsm_clk_queue: an entry of t has counted down to zero.
ProcessFsmClkQueue(t) ==
  /\ clkq[t] # << >>
  /\ React(t, Head(clkq[t]), evq, [clkq EXCEPT ![t] = Tail(@)])
  /\ UNCHANGED fw

-----------------------------------------------------------------------------
(* The clocked method and the threads.                                     *)

fsmVars == <<active, fsm, beat>>

\* Mutant: the rotation loses the order of the requests.
DoneUnordered(c) == DOMAIN req2resp[c]

\* The requests that can be let in next.  With a constant latency they are due in
\* the order they came, but those that were overdue together are served in no
\* particular order: every clock edge re-pushes all entries, behind those that
\* were pushed since the edge before.
Done(c) ==
  IF ~ConstantLatency THEN DOMAIN req2resp[c]
  ELSE DOMAIN req2resp[c]
         \intersect (IF c = "rd" /\ overdue > 0 THEN 1..overdue ELSE {1})

\* process_req2resp_fifos: the operation on t has finished (its latency has
\* elapsed or operation_resp was called) and rd/wr_resp_fifo has room.
ProcessReq2Resp(t) ==
  LET c == Cmd[t] IN
  /\ respFifo[c] = << >>
  /\ \E i \in Done(c) :
       /\ req2resp[c][i] = t
       /\ req2resp' = [req2resp EXCEPT ![c] = RemoveAt(@, i)]
       /\ overdue' = IF c = "rd" /\ i <= overdue THEN overdue - 1 ELSE overdue
  /\ respFifo' = [respFifo EXCEPT ![c] = << t >>]
  /\ UNCHANGED <<linkVars, fsmVars, evq, clkq, admitVars, rdResp, rdStart,
                 activeRdId, beatFifo, respCh, tgtAlarm>>

\* Mutant: the id is not looked up.
IdFreeAlways(i) == i \in Ids

\* No read response with this id is running.
IdFree(i) == i \notin activeRdId

\* start_rd_resp_thread waits for another read response to end.
RdStartBlocked ==
  \/ rdStart.pc = "sem" /\ rdResp = 0
  \/ rdStart.pc = "id" /\ ~IdFree(Id[rdStart.tx])

\* process_req2resp_fifos without room: nb_write of a read whose latency has
\* elapsed fails and the entry is pushed back.  rd_resp_fifo stays full over a
\* clock edge only if the thread that reads it waits; the reader of
\* wr_resp_fifo never does.
PushBackOverdue ==
  /\ ConstantLatency
  /\ respFifo["rd"] # << >> /\ RdStartBlocked
  /\ overdue < Len(req2resp["rd"])
  /\ overdue' = overdue + 1
  /\ UNCHANGED <<linkVars, fsmVars, evq, clkq, admitVars, req2resp, respFifo,
                 rdResp, rdStart, activeRdId, beatFifo, respCh, tgtAlarm>>

\* Mutant: the sense of the parameter is swapped.
ExclusiveSwapped == RdInterleaving \/ BeatDelays = {"zero"}

\* A read response needs the exclusive right to respond unless beats of
\* different transactions may interleave.
Exclusive == ~RdInterleaving \/ BeatDelays = {"zero"}

startRdRest == <<linkVars, fsmVars, admitVars, req2resp, overdue, beatFifo,
                 respCh, tgtAlarm>>

\* start_rd_resp_thread: take the next read from rd_resp_fifo ...
StartRdRead ==
  /\ rdStart.pc = "read" /\ respFifo["rd"] # << >>
  /\ respFifo' = [respFifo EXCEPT !["rd"] = Tail(@)]
  /\ rdStart' = [pc |-> IF Exclusive THEN "sem" ELSE "id",
                 tx |-> Head(respFifo["rd"])]
  /\ UNCHANGED <<startRdRest, evq, clkq, rdResp, activeRdId>>

\* ... get the right to respond ...
StartRdSem ==
  /\ rdStart.pc = "sem" /\ rdResp > 0
  /\ rdResp' = rdResp - 1
  /\ rdStart' = [pc |-> "id", tx |-> rdStart.tx]
  /\ UNCHANGED <<startRdRest, evq, clkq, respFifo, activeRdId>>

\* ... and wait for a running response with the same id, then start.
StartRdBegin ==
  LET t == rdStart.tx IN
  /\ rdStart.pc = "id" /\ IdFree(Id[t])
  /\ activeRdId' = activeRdId \union {Id[t]}
  /\ Schedule(BeatDelays, IF BurstLen[t] = 1 THEN "BegRespE" ELSE "BegPartRespE",
              t, evq, clkq)
  /\ rdStart' = [pc |-> "read", tx |-> NoTx]
  /\ UNCHANGED <<startRdRest, respFifo, rdResp>>

\* start_wr_resp_thread.
StartWr ==
  /\ respFifo["wr"] # << >>
  /\ respFifo' = [respFifo EXCEPT !["wr"] = Tail(@)]
  /\ Schedule({"zero"}, "BegRespE", Head(respFifo["wr"]), evq, clkq)
  /\ UNCHANGED <<startRdRest, rdResp, rdStart, activeRdId>>

\* send_rd_resp_beat_thread and send_wr_resp_beat_thread: the next beat is
\* sent when the response channel is free.  The beat stays in the modelled
\* queue while the thread waits for the channel.
SendRespBeat(c) ==
  /\ beatFifo[c] # << >> /\ respCh[c] > 0
  /\ LET e == Head(beatFifo[c]) IN
       bw' = Put(bw, e.tx, IF c = "wr" \/ e.tp = "BegRespE" THEN "BEGIN_RESP"
                           ELSE "BEGIN_PARTIAL_RESP")
  /\ beatFifo' = [beatFifo EXCEPT ![c] = Tail(@)]
  /\ respCh' = [respCh EXCEPT ![c] = @ - 1]
  /\ UNCHANGED <<fw, fsmVars, evq, clkq, admitVars, req2resp, respondVars,
                 rdResp, activeRdId, tgtAlarm>>

TgtNext ==
  \/ \E t \in Tx : NbFw(t) \/ ProcessFsmClkQueue(t) \/ ProcessReq2Resp(t)
  \/ ProcessFsmEvent \/ PushBackOverdue
  \/ \E c \in Cmds : SendRespBeat(c)
  \/ StartRdRead \/ StartRdSem \/ StartRdBegin
  \/ StartWr

\* Every queue is served: SystemC runs each notified method and thread.  Of the
\* requests whose latency has elapsed one is let in whenever there is room.
TgtFairness ==
  /\ \A t \in Tx : WF_<<linkVars, tgtVars>>(NbFw(t))
  /\ \A t \in Tx : WF_<<linkVars, tgtVars>>(ProcessFsmClkQueue(t))
  /\ WF_<<linkVars, tgtVars>>(ProcessFsmEvent)
  /\ \A c \in Cmds : WF_<<linkVars, tgtVars>>(
       \E t \in Tx : Cmd[t] = c /\ ProcessReq2Resp(t))
  /\ \A c \in Cmds : WF_<<linkVars, tgtVars>>(SendRespBeat(c))
  /\ WF_<<linkVars, tgtVars>>(StartRdRead)
  /\ WF_<<linkVars, tgtVars>>(StartRdSem)
  /\ WF_<<linkVars, tgtVars>>(StartRdBegin)
  /\ WF_<<linkVars, tgtVars>>(StartWr)
=============================================================================
