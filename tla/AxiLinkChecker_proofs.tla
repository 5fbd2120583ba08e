------------------------ MODULE AxiLinkChecker_proofs ------------------------
(***************************************************************************)
(* What the protocol checker in the link sees: the request and response    *)
(* beats one at a time, the responses with one id in the order of their    *)
(* requests, and bursts of the right length.                               *)
(*                                                                         *)
(* The order rests on a pipeline.  From the announcement of its request to *)
(* the announcement of its response a transaction passes five places, and  *)
(* at each of them, and on the way to the next, the requests with one id   *)
(* stay in line.                                                           *)
(***************************************************************************)
EXTENDS AxiLinkResponse_proofs

-----------------------------------------------------------------------------
(* When the responses keep the order of the requests.                      *)

\* No two payloads of a command have the same id.
IdsApart == \A t, u \in Tx : Cmd[t] = Cmd[u] /\ Id[t] = Id[u] => t = u

\* At most four reads are accepted at a time: two of them are overdue together
\* only if a third one waits in rd_resp_fifo, a fourth one in
\* start_rd_resp_thread and a fifth one keeps that thread waiting.
FewReads == MaxOutstanding \in 1..4 \/ Cardinality(OfCmd("rd")) <= 4

\* One request per id at a time, or requests that become due in their order.
KeepsOrder == IdSerializing \/ IdsApart \/ (ConstantLatency /\ FewReads)

-----------------------------------------------------------------------------
(* Where a transaction is.                                                 *)

\* The request waits for the first beat of the response and is in none of the
\* FIFOs: start_rd_resp_thread or start_wr_resp_thread has scheduled the beat.
Started(t) ==
  /\ fsm[t] = "WaitForResponse" /\ rdStart.tx # t
  /\ t \notin Range(req2resp[Cmd[t]]) \union Range(respFifo[Cmd[t]])

PlacedInv == \A t \in Tx :
  /\ Started(t) => ~NotDue(t)
  /\ Cmd[t] = "wr" /\ fsm[t] = "WaitForResponse" => clkq[t] = << >>

\* With id serialization a call that is past id_mtx holds it.
MutexInv ==
  IdSerializing => \A t \in Tx : ini[t] \notin {"idle", "id"} => HoldsId(t)

\* What start_rd_resp_thread waits for is in the hands of a running response.
BlockerInv ==
  /\ \A i \in activeRdId : \E t \in Tx : OwnsId(t) /\ Id[t] = i
  /\ rdResp = 0 => Holders # {}

\* No two reads are overdue together, so the oldest one is served next.
OverdueInv == ConstantLatency /\ FewReads => overdue <= 1

PipeInv == PlacedInv /\ MutexInv /\ BlockerInv /\ OverdueInv

-----------------------------------------------------------------------------
(* The channels, as the checker sees them.                                 *)

\* A request beat of t is not answered yet.
Asks(t) == ini[t] = "send" /\ bw[t] = << >>

\* Response beat p of t is not acknowledged yet.
AnswersWith(t, p) == bw[t] \in {<<p>>, <<"END_REQ", p>>}

Answers(t) == \E p \in RespBegins : AnswersWith(t, p)

ReqChannelInv == \A c \in Cmds :
  /\ \A t \in OfCmd(c) : Asks(t) =>
       /\ reqBeat[c] = IF LastBeat(t) THEN "BEGIN_REQ" ELSE "BEGIN_PARTIAL_REQ"
       /\ reqId[c] = Id[t]
  /\ (\A t \in OfCmd(c) : ~Asks(t)) => reqBeat[c] = NoBeat /\ reqId[c] = NoId

RespChannelInv == \A c \in Cmds :
  /\ \A t \in OfCmd(c) : \A p \in RespBegins : AnswersWith(t, p) =>
       respBeat[c] = p /\ respId[c] = Id[t]
  /\ (\A t \in OfCmd(c) : ~Answers(t)) => respBeat[c] = NoBeat /\ respId[c] = NoId

-----------------------------------------------------------------------------
(* The order of the transactions.                                          *)

\* The last beat of the response has been announced.
Sent(t) == fsm[t] = "Response" /\ NotQueued(t, Cmd[t])

\* 1  the request is announced      2  in rd/wr_req2resp_fifo
\* 3  in rd/wr_resp_fifo            4  start_rd_resp_thread has taken the read,
\* 5  the response runs                the response of the write is scheduled
\* 0  none of these: no request, or the response is over
Place(t) ==
  IF Asks(t) /\ LastBeat(t) THEN 1
  ELSE IF fsm[t] = "WaitForResponse"
    THEN IF t \in Range(req2resp[Cmd[t]]) THEN 2
         ELSE IF t \in Range(respFifo[Cmd[t]]) THEN 3
         ELSE IF rdStart.tx = t \/ Cmd[t] = "wr" THEN 4 ELSE 5
  ELSE IF Responding(t) /\ ~Sent(t) THEN 5 ELSE 0

\* The queues of two transactions at the same place.
InLine(t, u) ==
  \/ Place(t) = 2 /\ Precedes(req2resp[Cmd[t]], t, u)
  \/ Cmd[t] = "wr" /\ Place(t) = 4 /\ PrecedesTx(evq, t, u)
  \/ Cmd[t] = "wr" /\ Place(t) = 5 /\ PrecedesTx(beatFifo["wr"], t, u)

Ahead(t, u) == Place(t) > Place(u) \/ (Place(t) = Place(u) /\ InLine(t, u))

\* The transactions of a command and an id in the order the checker has noted.
InOrder(s, c, i) ==
  /\ IsInjective(s)
  /\ Range(s) = {t \in OfCmd(c) : Id[t] = i /\ Place(t) # 0}
  /\ \A j, k \in DOMAIN s : j < k => Ahead(s[j], s[k])

OrderInv == \A c \in Cmds, i \in Ids : InOrder(openTx[c][i], c, i)

NoneOutOfOrder == "response" \notin complaints

OrderedInv == ReqChannelInv /\ RespChannelInv /\ OrderInv /\ NoneOutOfOrder

-----------------------------------------------------------------------------
(* The beats the checker counts.                                           *)

\* One write sends its beats at a time.
WritesApart ==
  ~WrInterleaving \/ \A t, u \in Tx : Cmd[t] = "wr" /\ Cmd[u] = "wr" => t = u

\* The first caller in the list of the write channel has sent its beats so far,
\* the others none.
SendingInv ==
  /\ IsInjective(chnl["wr"])
  /\ \A t \in Range(chnl["wr"]) : Cmd[t] = "wr" /\ ini[t] \in {"chnl", "send"}
  /\ \A t \in Range(chnl["wr"]) : ~HoldsChnl(t) => ini[t] = "chnl" /\ sent[t] = 0
  /\ \A t \in Tx : ini[t] = "id" => sent[t] = 0
  /\ \A t \in Tx : ini[t] \in {"chnl", "send"} => sent[t] <= BurstLen[t] - 1

\* The announced beats of the writer t, before the last one.
WriteBeats(t) ==
  IF ini[t] = "chnl" THEN sent[t] ELSE IF LastBeat(t) THEN 0 ELSE sent[t] + 1

WriteCountInv ==
  wrReqBeats = IF chnl["wr"] = << >> THEN 0 ELSE WriteBeats(Head(chnl["wr"]))

\* The response of the read t runs, and its last beat has not been announced.
Running(t) == OwnsId(t) /\ ~Sent(t)

\* The announced beats of the response of t, before the last one.
Announced(t) ==
  beat[t] + IF fsm[t] = "PartialResponse" /\ NotQueued(t, "rd") THEN 1 ELSE 0

ReadCountInv ==
  /\ \A t \in Tx : Running(t) => rdRespBeats[Id[t]] = Announced(t)
  /\ \A i \in Ids : (\A t \in Tx : Id[t] = i => ~Running(t)) => rdRespBeats[i] = 0

CountedInv == SendingInv /\ WriteCountInv /\ ReadCountInv

-----------------------------------------------------------------------------
(* What the steps of a state machine leave of the queues.                  *)

LEMMA ScheduleKeeps ==
  ASSUME NEW q, NEW k, QueueTypes(q, k), NEW t \in Tx, NEW tp \in TimePoints,
         NEW kinds, Schedule(kinds, tp, t, q, k)
  PROVE  /\ \A u \in Tx \ {t} : clkq'[u] = k[u]
         /\ \A u, v : PrecedesTx(q, u, v) => PrecedesTx(evq', u, v)
<1> DEFINE e == [tp |-> tp, tx |-> t]
<1>1. e \in Scheduled
  BY DEF Scheduled
<1>2. evq' = q \/ evq' = Append(q, e)
  BY DEF Schedule
<1> HIDE DEF e
<1>3. \A u, v : PrecedesTx(q, u, v) => PrecedesTx(evq', u, v)
  BY <1>1, <1>2, PrecedesTxAppend DEF QueueTypes
<1>4. \A u \in Tx \ {t} : clkq'[u] = k[u]
  BY DEF Schedule, QueueTypes
<1> QED
  BY <1>3, <1>4

\* The other transactions that wait for their response stay where they are.
LEMMA FsmQueues ==
  ASSUME TypeOK, TokenInv, NEW t \in Tx, FsmStep(t)
  PROVE  \A u \in Tx \ {t} :
           /\ fsm[u] = "WaitForResponse" =>
                (NotDue(u)' <=> NotDue(u)) /\ clkq'[u] = clkq[u]
           /\ \A v : PrecedesTx(evq, u, v) => PrecedesTx(evq', u, v)
<1>1. QueueTypes(evq, clkq) /\ stalledTx \in [Cmds -> Tx \union {NoTx}]
  BY DEF TypeOK, TgtTypeOK, QueueTypes
<1>2. ASSUME UNCHANGED <<evq, clkq>>
      PROVE  \A u : /\ (NotDue(u)' <=> NotDue(u)) /\ clkq'[u] = clkq[u]
                    /\ \A v : PrecedesTx(evq, u, v) => PrecedesTx(evq', u, v)
  BY <1>2 DEF NotDue, NotIn
<1>3. ASSUME NEW w \in Tx, NEW tp \in TimePoints, NEW kinds,
             Schedule(kinds, tp, w, evq, clkq)
      PROVE  /\ \A u \in Tx \ {w} : (NotDue(u)' <=> NotDue(u)) /\ clkq'[u] = clkq[u]
             /\ \A u, v : PrecedesTx(evq, u, v) => PrecedesTx(evq', u, v)
  <2>1. \A u \in Tx \ {w} : NotDue(u)' <=> NotDue(u)
    BY <1>1, <1>3, ScheduledDue DEF NotDue
  <2> QED
    BY <1>1, <1>3, <2>1, ScheduleKeeps
<1>4. CASE BeginStep(t)
  <2>1. PICK end \in {"EndPartReqE", "EndReqE"} :
          Park(t, end) \/ Accept(t, end, BeatsAtBegin(t))
    BY <1>4 DEF BeginStep
  <2>2. CASE Park(t, end)
    <3>1. UNCHANGED <<evq, clkq>>
      BY <2>2 DEF Park
    <3> QED
      BY <1>2, <3>1
  <2>3. CASE Accept(t, end, BeatsAtBegin(t))
    <3>1. Schedule(AcceptDelays, end, t, evq, clkq) /\ end \in TimePoints
      BY <2>3 DEF Accept, TimePoints
    <3> QED
      BY <1>3, <3>1
  <2> QED
    BY <2>1, <2>2, <2>3
<1>5. CASE DiscardStep(t) \/ AckStep(t)
  <2>1. UNCHANGED <<evq, clkq>>
    BY <1>5 DEF DiscardStep, AckStep, Quiet, KeepQueues
  <2> QED
    BY <1>2, <2>1
<1>6. CASE EndPartRespStep(t)
  <2>1. \E tp \in TimePoints : Schedule({"cycles"}, tp, t, evq, clkq)
    BY <1>6 DEF EndPartRespStep, EndPartRespCb, NextRespBeat, TimePoints
  <2> QED
    BY <1>3, <2>1
<1>7. CASE EndRespStep(t)
  <2> DEFINE w == stalledTx[Cmd[t]]
  <2>1. \/ w # NoTx /\ LetIn(Cmd[t], evq, clkq)
        \/ w = NoTx /\ KeepQueues(evq, clkq)
    BY <1>7 DEF EndRespStep, EndRespCb
  <2>2. CASE w = NoTx
    <3>1. UNCHANGED <<evq, clkq>>
      BY <2>1, <2>2 DEF KeepQueues
    <3> QED
      BY <1>2, <3>1
  <2>3. CASE w # NoTx
    <3>1. Cmd[t] \in Cmds
      BY ChannelAssumption DEF ChannelAssumption
    <3>2. /\ w \in Tx /\ fsm[w] \in {"PartialRequest", "Request"}
          /\ stalledTp[Cmd[t]] \in DueIn(w, fsm[w])
      BY <1>1, <2>3, <3>1 DEF TokenInv, ParkedInv
    <3>3. stalledTp[Cmd[t]] \in TimePoints
      BY <3>2 DEF DueIn, TimePoints
    <3>4. Schedule(AcceptDelays, stalledTp[Cmd[t]], w, evq, clkq)
      BY <2>1, <2>3 DEF LetIn
    <3> HIDE DEF w
    <3> QED
      BY <1>3, <3>2, <3>3, <3>4
  <2> QED
    BY <2>2, <2>3
<1>8. ASSUME NEW tp, NEW q, NEW k, DueStep(t, tp, q, k)
      PROVE  \A u \in Tx \ {t} :
               /\ (NotDue(u)' <=> NotDue(u)) /\ clkq'[u] = clkq[u]
               /\ \A v : PrecedesTx(evq, u, v) => PrecedesTx(evq', u, v)
  <2>1. /\ LeftOver(t, q, k) /\ evq' = q /\ clkq' = k /\ Taken(t, tp, q, k)
    BY <1>8
    DEF DueStep, EndPartReqStep, EndReqStep, BegRespStep, EndPartReqCb, EndReqCb,
        BegRespCb, KeepQueues
  <2>2. \A u \in Tx \ {t} : NotDue(u)' <=> NotDue(u)
    BY <2>1, KeptDue DEF KeepQueues
  <2>3. \A u \in Tx \ {t} : k[u] = clkq[u]
    BY <1>1, <2>1 DEF Taken, QueueTypes
  <2>4. \A u \in Tx \ {t} : \A v : PrecedesTx(evq, u, v) => PrecedesTx(q, u, v)
    BY <1>1, <2>1, PrecedesTxTail DEF Taken, QueueTypes
  <2> QED
    BY <2>1, <2>2, <2>3, <2>4
<1> QED
  BY <1>4, <1>5, <1>6, <1>7, <1>8 DEF FsmStep

\* What a step of the state machine of t does to the request FIFO: only the end
\* of a request puts t into it.
LEMMA FsmFrame ==
  ASSUME TypeOK, TokenInv, NEW t \in Tx, FsmStep(t)
  PROVE  /\ \A u \in Tx \ {t} : fsm'[u] = fsm[u]
         /\ UNCHANGED <<respFifo, rdStart, overdue>>
         /\ \/ /\ fsm[t] = "Request" /\ fsm'[t] = "WaitForResponse"
               /\ req2resp' = [req2resp EXCEPT ![Cmd[t]] = Append(@, t)]
               /\ clkq'[t] = << >>
            \/ fsm'[t] # "WaitForResponse" /\ UNCHANGED req2resp
<1>1. fsm \in [Tx -> FsmStates]
  BY DEF TypeOK, TgtTypeOK
<1>2. ASSUME NEW s, Becomes(t, s)
      PROVE  fsm'[t] = s /\ \A u \in Tx \ {t} : fsm'[u] = fsm[u]
  BY <1>1, <1>2 DEF Becomes
<1>3. CASE BeginStep(t)
  <2>1. PICK s \in {"PartialRequest", "Request"} : Becomes(t, s)
    BY <1>3 DEF BeginStep
  <2>2. UNCHANGED <<respFifo, rdStart, overdue, req2resp>>
    BY <1>3 DEF BeginStep, respondVars
  <2> QED
    BY <1>2, <2>1, <2>2
<1>4. CASE DiscardStep(t)
  BY <1>4 DEF DiscardStep, respondVars
<1>5. CASE EndPartRespStep(t)
  BY <1>2, <1>5 DEF EndPartRespStep, EndPartRespCb, respondVars
<1>6. CASE EndRespStep(t)
  <2>1. PICK s \in {"WaitAck", "Idle"} : Becomes(t, s)
    BY <1>6 DEF EndRespStep
  <2>2. UNCHANGED <<respFifo, rdStart, overdue, req2resp>>
    BY <1>6 DEF EndRespStep, EndRespCb, respondVars
  <2> QED
    BY <1>2, <2>1, <2>2
<1>7. CASE AckStep(t)
  BY <1>2, <1>7 DEF AckStep, Quiet, respondVars
<1>8. ASSUME NEW tp, NEW q, NEW k, EndPartReqStep(t, q, k)
      PROVE  /\ \A u \in Tx \ {t} : fsm'[u] = fsm[u]
             /\ UNCHANGED <<respFifo, rdStart, overdue, req2resp>>
             /\ fsm'[t] # "WaitForResponse"
  BY <1>2, <1>8 DEF EndPartReqStep, EndPartReqCb, respondVars
<1>9. ASSUME NEW q, NEW k, EndReqStep(t, q, k)
      PROVE  /\ \A u \in Tx \ {t} : fsm'[u] = fsm[u]
             /\ UNCHANGED <<respFifo, rdStart, overdue>>
             /\ fsm[t] = "Request" /\ fsm'[t] = "WaitForResponse"
             /\ req2resp' = [req2resp EXCEPT ![Cmd[t]] = Append(@, t)]
             /\ clkq'[t] = << >>
  BY <1>2, <1>9
  DEF EndReqStep, EndReqCb, respondVars, LeftOver, NotIn, KeepQueues
<1>10. ASSUME NEW tp, NEW q, NEW k, BegRespStep(t, tp, q, k)
      PROVE  /\ \A u \in Tx \ {t} : fsm'[u] = fsm[u]
             /\ UNCHANGED <<respFifo, rdStart, overdue, req2resp>>
             /\ fsm'[t] # "WaitForResponse"
  <2>1. PICK s \in {"Response", "PartialResponse"} : Becomes(t, s)
    BY <1>10 DEF BegRespStep
  <2>2. UNCHANGED <<respFifo, rdStart, overdue, req2resp>>
    BY <1>10 DEF BegRespStep, BegRespCb, respondVars
  <2> QED
    BY <1>2, <2>1, <2>2
<1> QED
  BY <1>3, <1>4, <1>5, <1>6, <1>7, <1>8, <1>9, <1>10 DEF FsmStep, DueStep

-----------------------------------------------------------------------------
(* Where a transaction is.                                                 *)

LEMMA PlacedFsm ==
  ASSUME TypeOK, TokenInv, PlacedInv, NEW t \in Tx, FsmStep(t)
  PROVE  PlacedInv'
<1>1. /\ req2resp \in [Cmds -> Seq(Tx)] /\ \A u \in Tx : Cmd[u] \in Cmds
  BY ChannelAssumption DEF ChannelAssumption, TypeOK, TgtTypeOK
<1>2. /\ \A u \in Tx \ {t} : fsm'[u] = fsm[u]
      /\ UNCHANGED <<respFifo, rdStart>>
      /\ \/ /\ fsm[t] = "Request" /\ fsm'[t] = "WaitForResponse"
            /\ req2resp' = [req2resp EXCEPT ![Cmd[t]] = Append(@, t)]
            /\ clkq'[t] = << >>
         \/ fsm'[t] # "WaitForResponse" /\ UNCHANGED req2resp
  BY FsmFrame
<1>3. \A u \in Tx \ {t} : fsm[u] = "WaitForResponse" =>
        (NotDue(u)' <=> NotDue(u)) /\ clkq'[u] = clkq[u]
  BY FsmQueues
<1>4. /\ \A u \in Tx : Range(req2resp[Cmd[u]]) \subseteq Range(req2resp'[Cmd[u]])
      /\ fsm'[t] = "WaitForResponse" => t \in Range(req2resp'[Cmd[t]])
  <2>1. CASE fsm'[t] # "WaitForResponse" /\ UNCHANGED req2resp
    BY <2>1
  <2>2. CASE req2resp' = [req2resp EXCEPT ![Cmd[t]] = Append(@, t)]
    <3>1. Range(Append(req2resp[Cmd[t]], t)) = Range(req2resp[Cmd[t]]) \union {t}
      BY <1>1, RangeAppend
    <3>2. /\ req2resp'[Cmd[t]] = Append(req2resp[Cmd[t]], t)
          /\ \A c \in Cmds : c # Cmd[t] => req2resp'[c] = req2resp[c]
      BY <1>1, <2>2
    <3> QED
      BY <1>1, <3>1, <3>2
  <2> QED
    BY <1>2, <2>1, <2>2
<1>5. ASSUME NEW u \in Tx
      PROVE  /\ Started(u)' => ~NotDue(u)'
             /\ Cmd[u] = "wr" /\ fsm'[u] = "WaitForResponse" => clkq'[u] = << >>
  <2>1. CASE u = t
    BY <1>2, <1>4, <2>1 DEF Started
  <2>2. CASE u # t
    <3>1. fsm'[u] = fsm[u]
      BY <1>2, <2>2
    <3>2. Started(u)' => Started(u)
      BY <1>2, <1>4, <3>1 DEF Started
    <3>3. Started(u) => fsm[u] = "WaitForResponse"
      BY DEF Started
    <3> QED
      BY <1>3, <2>2, <3>1, <3>2, <3>3 DEF PlacedInv
  <2> QED
    BY <2>1, <2>2
<1> QED
  BY <1>5 DEF PlacedInv

LEMMA Req2RespEffect ==
  ASSUME TypeOK, NEW t \in Tx, ProcessReq2Resp(t)
  PROVE  /\ \E i \in Done(Cmd[t]) :
              /\ i \in 1..Len(req2resp[Cmd[t]]) /\ req2resp[Cmd[t]][i] = t
              /\ req2resp' = [req2resp EXCEPT ![Cmd[t]] = RemoveAt(@, i)]
         /\ respFifo[Cmd[t]] = << >> /\ respFifo' = [respFifo EXCEPT ![Cmd[t]] = << t >>]
         /\ UNCHANGED <<linkVars, fsm, evq, clkq, rdStart, beatFifo>>
<1> DEFINE c == Cmd[t]
<1>1. PICK i \in Done(c) :
        /\ req2resp[c][i] = t
        /\ req2resp' = [req2resp EXCEPT ![c] = RemoveAt(@, i)]
  BY DEF ProcessReq2Resp
<1>2. req2resp[c] \in Seq(Tx)
  BY ChannelAssumption DEF ChannelAssumption, TypeOK, TgtTypeOK
<1>3. i \in DOMAIN req2resp[c]
  BY DEF Done
<1>4. i \in 1..Len(req2resp[c])
  BY <1>2, <1>3
<1> QED
  BY <1>1, <1>4 DEF ProcessReq2Resp, fsmVars

\* The threads hand a request on, and the last one schedules its response.
LEMMA PlacedThread ==
  ASSUME TypeOK, TokenInv, PlacedInv, ThreadStep
  PROVE  PlacedInv'
<1>1. /\ req2resp \in [Cmds -> Seq(Tx)] /\ respFifo \in [Cmds -> Seq(Tx)]
      /\ QueueTypes(evq, clkq) /\ \A u \in Tx : Cmd[u] \in Cmds
  BY ChannelAssumption DEF ChannelAssumption, TypeOK, TgtTypeOK, QueueTypes
<1>2. UNCHANGED fsm
  BY DEF ThreadStep, ProcessReq2Resp, PushBackOverdue, SendRespBeat, StartRdRead,
         StartRdSem, StartRdBegin, StartWr, startRdRest, fsmVars
<1>3. ASSUME UNCHANGED <<evq, clkq>>, \A u \in Tx : Started(u)' => Started(u)
      PROVE  PlacedInv'
  BY <1>2, <1>3 DEF PlacedInv, NotDue, NotIn
<1>4. ASSUME NEW t \in Tx, ProcessReq2Resp(t) PROVE PlacedInv'
  <2> DEFINE c == Cmd[t]
  <2>1. PICK i \in 1..Len(req2resp[c]) :
          /\ req2resp[c][i] = t
          /\ req2resp' = [req2resp EXCEPT ![c] = RemoveAt(@, i)]
    BY <1>4, Req2RespEffect
  <2>2. /\ respFifo[c] = << >> /\ respFifo' = [respFifo EXCEPT ![c] = << t >>]
        /\ UNCHANGED <<evq, clkq, rdStart>>
    BY <1>4, Req2RespEffect
  <2>3. Range(req2resp[c]) \ {t} \subseteq Range(RemoveAt(req2resp[c], i))
    BY <1>1, <2>1, PrecedesRemoveAt
  <2>4. t \in Range(<< t >>) /\ Range(<< >>) = {}
    BY DEF Range
  <2>5. \A u \in Tx : Started(u)' => Started(u)
    <3>1. \A u \in Tx : Range(req2resp[Cmd[u]]) \union Range(respFifo[Cmd[u]]) \subseteq
            Range(req2resp'[Cmd[u]]) \union Range(respFifo'[Cmd[u]])
      BY <1>1, <2>1, <2>2, <2>3, <2>4
    <3> QED
      BY <1>2, <2>2, <3>1 DEF Started
  <2> QED
    BY <1>3, <2>2, <2>5
<1>5. CASE PushBackOverdue \/ \E c \in Cmds : SendRespBeat(c)
  <2>1. UNCHANGED <<evq, clkq, req2resp, respFifo, rdStart>>
    BY <1>5 DEF PushBackOverdue, SendRespBeat, respondVars
  <2> QED
    BY <1>2, <1>3, <2>1 DEF Started
<1>6. CASE StartRdRead
  <2> DEFINE h == Head(respFifo["rd"])
  <2>1. /\ respFifo["rd"] # << >> /\ rdStart'.tx = h
        /\ respFifo' = [respFifo EXCEPT !["rd"] = Tail(@)]
        /\ UNCHANGED <<evq, clkq, req2resp>> /\ rdStart.tx = NoTx
    BY <1>6 DEF StartRdRead, startRdRest, TypeOK, TgtTypeOK
  <2>2. \A u \in Range(respFifo["rd"]) : u = h \/ u \in Range(Tail(respFifo["rd"]))
    BY <1>1, <2>1, RangeHeadTail DEF Cmds
  <2> HIDE DEF h
  <2>3. \A u \in Tx : Started(u)' => Started(u)
    BY <1>1, <1>2, <2>1, <2>2, ChannelAssumption DEF ChannelAssumption, Started, Cmds
  <2> QED
    BY <1>3, <2>1, <2>3
<1>7. CASE StartRdSem
  <2>1. UNCHANGED <<evq, clkq, req2resp, respFifo>> /\ rdStart'.tx = rdStart.tx
    BY <1>7 DEF StartRdSem, startRdRest
  <2> QED
    BY <1>2, <1>3, <2>1 DEF Started
<1>8. ASSUME NEW t \in Tx, NEW tp \in TimePoints, NEW kinds,
             Schedule(kinds, tp, t, evq, clkq), Cmd[t] = "wr" => clkq' = clkq,
             \A u \in Tx \ {t} : Started(u)' => Started(u)
      PROVE  PlacedInv'
  <2>1. /\ ~NotDue(t)'
        /\ \A u \in Tx \ {t} : (NotDue(u)' <=> NotDue(u)) /\ clkq'[u] = clkq[u]
    <3>1. ~NotDue(t)' /\ \A u \in Tx \ {t} : NotDue(u)' <=> NotDue(u)
      BY <1>1, <1>8, ScheduledDue DEF NotDue
    <3> QED
      BY <1>1, <1>8, <3>1, ScheduleKeeps
  <2> QED
    BY <1>2, <1>8, <2>1 DEF PlacedInv
<1>9. CASE StartRdBegin
  <2>1. PICK t \in Tx : t = rdStart.tx
    BY <1>9 DEF StartRdBegin, TypeOK, TgtTypeOK
  <2>2. /\ UNCHANGED <<req2resp, respFifo>> /\ t # NoTx
        /\ \E tp \in TimePoints : Schedule(BeatDelays, tp, t, evq, clkq)
    BY <1>9, <2>1, ChannelAssumption
    DEF ChannelAssumption, StartRdBegin, startRdRest, TimePoints
  <2>3. Cmd[t] = "rd"
    BY <2>1, <2>2 DEF TokenInv, WaitingInv
  <2>4. \A u \in Tx \ {t} : Started(u)' => Started(u)
    BY <1>2, <2>1, <2>2 DEF Started
  <2> QED
    BY <1>8, <2>2, <2>3, <2>4
<1>10. CASE StartWr
  <2> DEFINE h == Head(respFifo["wr"])
  <2>1. /\ respFifo["wr"] # << >> /\ UNCHANGED <<req2resp, rdStart>>
        /\ respFifo' = [respFifo EXCEPT !["wr"] = Tail(@)]
        /\ Schedule({"zero"}, "BegRespE", h, evq, clkq)
    BY <1>10 DEF StartWr, startRdRest
  <2>2. /\ h \in Tx /\ h \in Range(respFifo["wr"])
        /\ \A u \in Range(respFifo["wr"]) : u = h \/ u \in Range(Tail(respFifo["wr"]))
    BY <1>1, <2>1, RangeHeadTail, RangeTail DEF Cmds
  <2> HIDE DEF h
  <2>3. clkq' = clkq /\ "BegRespE" \in TimePoints
    BY <2>1 DEF Schedule, TimePoints
  <2>4. \A u \in Tx \ {h} : Started(u)' => Started(u)
    BY <1>1, <1>2, <2>1, <2>2 DEF Started, Cmds
  <2> QED
    BY <1>8, <2>1, <2>2, <2>3, <2>4
<1> QED
  BY <1>4, <1>5, <1>6, <1>7, <1>9, <1>10 DEF ThreadStep

-----------------------------------------------------------------------------
(* The mutex of an id.                                                     *)

LEMMA MutexNext ==
  ASSUME IniTypeOK, MutexInv, IniNext
  PROVE  MutexInv'
<1> SUFFICES ASSUME IdSerializing, NEW u \in Tx, ini'[u] \notin {"idle", "id"}
             PROVE  HoldsId(u)'
  BY DEF MutexInv
<1> USE DEF HoldsId
<1>1. /\ ini \in [Tx -> IniPcs] /\ idMtx \in [Ids -> Seq(Tx)] /\ Id[u] \in Ids
      /\ \A v \in Tx : Id[v] \in Ids
  BY ChannelAssumption DEF ChannelAssumption, IniTypeOK
<1>2. PICK t \in Tx :
        \/ Transport(t) \/ GetId(t) \/ SendRequest(t) \/ BeatAccepted(t)
        \/ RequestAccepted(t) \/ ResponseBeat(t) \/ SendAck(t) \/ Finish(t)
  BY DEF IniNext
<1>3. ASSUME UNCHANGED idMtx,
             \/ ini'[u] = ini[u]
             \/ u = t /\ (HoldsId(t) \/ ini[t] \notin {"idle", "id"})
      PROVE  HoldsId(u)'
  BY <1>3 DEF MutexInv
<1>4. CASE Transport(t)
  <2>1. /\ ini' = [ini EXCEPT ![t] = "id"]
        /\ idMtx' = [idMtx EXCEPT ![Id[t]] = Append(@, t)]
    BY <1>4 DEF Transport, Goto
  <2>2. u # t /\ ini[u] \notin {"idle", "id"}
    BY <1>1, <2>1
  <2>3. HoldsId(u)
    BY <2>2 DEF MutexInv
  <2>4. CASE Id[t] = Id[u]
    <3>1. idMtx'[Id[u]] = Append(idMtx[Id[u]], t)
      BY <1>1, <2>1, <2>4
    <3>2. idMtx[Id[u]] \in Seq(Tx)
      BY <1>1
    <3> QED
      BY <2>3, <3>1, <3>2, AppendHead
  <2>5. CASE Id[t] # Id[u]
    <3>1. idMtx'[Id[u]] = idMtx[Id[u]]
      BY <1>1, <2>1, <2>5
    <3> QED
      BY <2>3, <3>1
  <2> QED
    BY <2>4, <2>5
<1>5. CASE GetId(t)
  BY <1>1, <1>3, <1>5 DEF GetId, Goto
<1>6. CASE SendRequest(t)
  BY <1>1, <1>3, <1>6 DEF SendRequest, Goto
<1>7. CASE BeatAccepted(t)
  BY <1>1, <1>3, <1>7 DEF BeatAccepted, Goto
<1>8. CASE RequestAccepted(t)
  BY <1>1, <1>3, <1>8 DEF RequestAccepted, Goto
<1>9. CASE ResponseBeat(t)
  BY <1>1, <1>3, <1>9 DEF ResponseBeat, Goto
<1>10. CASE SendAck(t)
  BY <1>1, <1>3, <1>10 DEF SendAck, Goto
<1>11. CASE Finish(t)
  <2>1. /\ ini[t] = "fin" /\ ini' = [ini EXCEPT ![t] = "idle"]
        /\ idMtx' = [idMtx EXCEPT ![Id[t]] = Release(@)]
    BY <1>11 DEF Finish, Goto
  <2>2. u # t /\ ini[u] \notin {"idle", "id"}
    BY <1>1, <2>1
  <2>3. HoldsId(u) /\ HoldsId(t)
    BY <2>1, <2>2 DEF MutexInv
  <2>4. Id[t] # Id[u]
    BY <2>2, <2>3
  <2>5. idMtx'[Id[u]] = idMtx[Id[u]]
    BY <1>1, <2>1, <2>4
  <2> QED
    BY <2>3, <2>5
<1> QED
  BY <1>2, <1>4, <1>5, <1>6, <1>7, <1>8, <1>9, <1>10, <1>11

-----------------------------------------------------------------------------
(* Who keeps start_rd_resp_thread waiting.                                 *)

LEMMA BlockerKept ==
  ASSUME BlockerInv, activeRdId' \subseteq activeRdId, rdResp' = 0 => rdResp = 0,
         \A u \in Tx : OwnsId(u) => OwnsId(u)', Holders \subseteq Holders'
  PROVE  BlockerInv'
<1>1. ASSUME NEW i \in activeRdId' PROVE \E t \in Tx : OwnsId(t)' /\ Id[t] = i
  BY DEF BlockerInv
<1>2. rdResp' = 0 => Holders' # {}
  BY DEF BlockerInv
<1> QED
  BY <1>1, <1>2 DEF BlockerInv

LEMMA BlockerFsm ==
  ASSUME TypeOK, TokenInv, BlockerInv, NEW t \in Tx, FsmStep(t)
  PROVE  BlockerInv'
<1>1. CASE ~EndRespStep(t)
  <2>1. UNCHANGED activeRdId
    BY <1>1
    DEF FsmStep, BeginStep, DiscardStep, EndPartRespStep, AckStep, DueStep,
        EndPartReqStep, EndReqStep, BegRespStep, EndPartReqCb, EndReqCb, BegRespCb,
        EndPartRespCb, Quiet
  <2>2. /\ Holders' = Holders /\ UNCHANGED rdResp
        /\ \A u \in Tx : OwnsId(u)' <=> OwnsId(u)
    BY <1>1, RightKept
  <2> QED
    BY <2>1, <2>2, BlockerKept
<1>2. CASE EndRespStep(t)
  <2>1. /\ rdResp' = (IF rdResp < 1 THEN rdResp + 1 ELSE rdResp)
        /\ activeRdId' = IF Cmd[t] = "rd" THEN activeRdId \ {Id[t]} ELSE activeRdId
    BY <1>2 DEF EndRespStep, EndRespCb
  <2>2. rdResp' # 0
    BY <2>1 DEF TypeOK, TgtTypeOK
  <2>3. /\ \A u \in Tx \ {t} : fsm'[u] = fsm[u]
        /\ \A u \in Tx \ {t} :
             fsm[u] = "WaitForResponse" => (NotDue(u)' <=> NotDue(u))
    BY FsmFrame, FsmQueues
  <2>4. \A u \in Tx \ {t} : OwnsId(u)' <=> OwnsId(u)
    BY <2>3, OwnsFrame
  <2>5. ASSUME NEW i \in activeRdId' PROVE \E u \in Tx : OwnsId(u)' /\ Id[u] = i
    <3>1. PICK u \in Tx : OwnsId(u) /\ Id[u] = i
      BY <2>1 DEF BlockerInv
    <3>2. u # t
      BY <2>1, <3>1 DEF OwnsId
    <3> QED
      BY <2>4, <3>1, <3>2
  <2> QED
    BY <2>2, <2>5 DEF BlockerInv
<1> QED
  BY <1>1, <1>2

LEMMA BlockerThread ==
  ASSUME TypeOK, TokenInv, BlockerInv, ThreadStep
  PROVE  BlockerInv'
<1>1. CASE /\ UNCHANGED <<fsm, evq, clkq, rdResp, activeRdId>>
           /\ Holders \subseteq Holders'
  <2>1. \A u \in Tx : OwnsId(u)' <=> OwnsId(u)
    BY <1>1 DEF OwnsId, Responding, NotDue, NotIn
  <2> QED
    BY <1>1, <2>1, BlockerKept
<1>2. ASSUME UNCHANGED <<fsm, evq, clkq, rdStart>>
      PROVE  Holders' = Holders
  BY <1>2 DEF Holders, OwnsId, Responding, NotDue, NotIn
<1>3. CASE \E t \in Tx : ProcessReq2Resp(t)
  BY <1>1, <1>2, <1>3 DEF ProcessReq2Resp, fsmVars
<1>4. CASE PushBackOverdue \/ \E c \in Cmds : SendRespBeat(c)
  BY <1>1, <1>2, <1>4 DEF PushBackOverdue, SendRespBeat, fsmVars, respondVars
<1>5. CASE StartRdRead
  <2>1. rdStart.pc = "read" /\ UNCHANGED <<fsm, evq, clkq, rdResp, activeRdId>>
    BY <1>5 DEF StartRdRead, startRdRest, fsmVars
  <2>2. Holders \subseteq Holders'
    BY <2>1 DEF Holders, OwnsId, Responding, NotDue, NotIn
  <2> QED
    BY <1>1, <2>1, <2>2
<1>6. CASE StartRdSem
  <2>1. /\ rdStart' = [pc |-> "id", tx |-> rdStart.tx] /\ rdStart.tx \in Tx
        /\ UNCHANGED <<fsm, evq, clkq, activeRdId>>
    BY <1>6 DEF StartRdSem, startRdRest, fsmVars, TypeOK, TgtTypeOK
  <2>2. Holders' # {}
    BY <2>1 DEF Holders
  <2>3. \A u \in Tx : OwnsId(u)' <=> OwnsId(u)
    BY <2>1 DEF OwnsId, Responding, NotDue, NotIn
  <2> QED
    BY <2>1, <2>2, <2>3 DEF BlockerInv
<1>7. CASE StartRdBegin
  <2>1. /\ Holders' = Holders /\ UNCHANGED rdResp
        /\ \A u \in Tx : OwnsId(u) => OwnsId(u)'
    BY <1>7, RightUsed
  <2>2. PICK t \in Tx : t = rdStart.tx
    BY <1>7 DEF StartRdBegin, TypeOK, TgtTypeOK
  <2>3. /\ activeRdId' = activeRdId \union {Id[t]} /\ UNCHANGED fsm /\ t # NoTx
        /\ \E tp \in TimePoints : Schedule(BeatDelays, tp, t, evq, clkq)
    BY <1>7, <2>2, ChannelAssumption
    DEF ChannelAssumption, StartRdBegin, startRdRest, fsmVars, TimePoints
  <2>4. QueueTypes(evq, clkq) /\ Cmd[t] = "rd" /\ fsm[t] = "WaitForResponse"
    BY <2>2, <2>3 DEF TokenInv, WaitingInv, TypeOK, TgtTypeOK, QueueTypes
  <2>5. ~NotDue(t)'
    BY <2>3, <2>4, ScheduledDue
  <2>6. OwnsId(t)'
    BY <2>3, <2>4, <2>5 DEF OwnsId
  <2>7. ASSUME NEW i \in activeRdId' PROVE \E u \in Tx : OwnsId(u)' /\ Id[u] = i
    BY <2>1, <2>3, <2>6 DEF BlockerInv
  <2> QED
    BY <2>1, <2>7 DEF BlockerInv
<1>8. CASE StartWr
  <2>1. /\ UNCHANGED <<fsm, rdResp, rdStart, activeRdId>> /\ respFifo["wr"] # << >>
        /\ Schedule({"zero"}, "BegRespE", Head(respFifo["wr"]), evq, clkq)
    BY <1>8 DEF StartWr, startRdRest, fsmVars
  <2>2. PICK t \in Tx : t = Head(respFifo["wr"])
    BY <2>1, MemberType, RangeTail DEF TypeOK, TgtTypeOK, Cmds
  <2>3. QueueTypes(evq, clkq) /\ "BegRespE" \in TimePoints
    BY DEF TypeOK, TgtTypeOK, QueueTypes, TimePoints
  <2>4. t \in Range(respFifo["wr"])
    BY <2>1, <2>2, RangeTail DEF TypeOK, TgtTypeOK, Cmds
  <2>5. Cmd[t] = "wr"
    BY <2>4 DEF TokenInv, WaitingInv, Cmds
  <2>6. \A u \in Tx \ {t} : NotDue(u)' <=> NotDue(u)
    BY <2>1, <2>2, <2>3, ScheduledDue DEF NotDue
  <2>7. \A u \in Tx : OwnsId(u)' <=> OwnsId(u)
    BY <2>1, <2>5, <2>6, OwnsFrame DEF OwnsId
  <2>8. Holders' = Holders
    BY <2>1, <2>7, HoldersFrame
  <2> QED
    BY <2>1, <2>7, <2>8, BlockerKept
<1> QED
  BY <1>3, <1>4, <1>5, <1>6, <1>7, <1>8 DEF ThreadStep

-----------------------------------------------------------------------------
(* Overdue reads.                                                          *)

LEMMA FiveElements ==
  ASSUME NEW a \in Tx, NEW b \in Tx, NEW c \in Tx, NEW d \in Tx, NEW e \in Tx,
         a # b, c \notin {a, b}, d \notin {a, b, c}, e \notin {a, b, c, d}
  PROVE  Cardinality({a, b, c, d, e}) = 5
<1>1. Cardinality({a}) = 1 /\ IsFiniteSet({a})
  BY FS_Singleton
<1>2. ASSUME NEW S \in SUBSET Tx, IsFiniteSet(S), NEW x \in Tx, x \notin S
      PROVE  IsFiniteSet(S \union {x}) /\ Cardinality(S \union {x}) = Cardinality(S) + 1
  BY <1>2, FS_AddElement
<1>3. Cardinality({a, b}) = 2 /\ IsFiniteSet({a, b})
  <2>1. {a, b} = {a} \union {b} /\ b \notin {a}
    OBVIOUS
  <2> QED
    BY <1>1, <1>2, <2>1
<1>4. Cardinality({a, b, c}) = 3 /\ IsFiniteSet({a, b, c})
  <2>1. {a, b, c} = {a, b} \union {c}
    OBVIOUS
  <2> QED
    BY <1>2, <1>3, <2>1
<1>5. Cardinality({a, b, c, d}) = 4 /\ IsFiniteSet({a, b, c, d})
  <2>1. {a, b, c, d} = {a, b, c} \union {d}
    OBVIOUS
  <2> QED
    BY <1>2, <1>4, <2>1
<1>6. {a, b, c, d, e} = {a, b, c, d} \union {e}
  OBVIOUS
<1> QED
  BY <1>2, <1>5, <1>6

\* A response keeps start_rd_resp_thread waiting.
LEMMA Blocker ==
  ASSUME TypeOK, TokenInv, BlockerInv, RdStartBlocked
  PROVE  /\ rdStart.tx \in Tx /\ \E u \in Tx : OwnsId(u)
<1>1. rdStart.tx \in Tx
  BY DEF RdStartBlocked, TypeOK, TgtTypeOK
<1>2. CASE rdStart.pc = "sem" /\ rdResp = 0
  <2>1. PICK u \in Tx : OwnsId(u) \/ rdStart = [pc |-> "id", tx |-> u]
    BY <1>2 DEF BlockerInv, Holders
  <2>2. rdStart # [pc |-> "id", tx |-> u]
    BY <1>2
  <2> QED
    BY <1>1, <2>1, <2>2
<1>3. CASE rdStart.pc = "id" /\ ~IdFree(Id[rdStart.tx])
  BY <1>1, <1>3 DEF BlockerInv, IdFree
<1> QED
  BY <1>2, <1>3 DEF RdStartBlocked

\* A second read can only be overdue with five accepted ones.
LEMMA FiveReads ==
  ASSUME TypeOK, TokenInv, CountersFit, LimitInv, BlockerInv, FewReads,
         respFifo["rd"] # << >>, RdStartBlocked
  PROVE  Len(req2resp["rd"]) < 2
<1> SUFFICES ASSUME Len(req2resp["rd"]) >= 2 PROVE FALSE
  BY DEF TypeOK, TgtTypeOK, Cmds
<1>1. req2resp["rd"] \in Seq(Tx) /\ respFifo["rd"] \in Seq(Tx) /\ "rd" \in Cmds
  BY DEF TypeOK, TgtTypeOK, Cmds
<1>2. PICK g \in Tx : OwnsId(g)
  BY Blocker
<1>3. PICK e \in Tx : e = rdStart.tx
  BY Blocker
<1>4. PICK d \in Tx : d \in Range(respFifo["rd"])
  BY <1>1, RangeTail, MemberType
<1>5. PICK a \in Tx, b \in Tx : {a, b} \subseteq Range(req2resp["rd"]) /\ a # b
  <2>1. 1 \in DOMAIN req2resp["rd"] /\ 2 \in DOMAIN req2resp["rd"]
    BY <1>1
  <2>2. IsInjective(req2resp["rd"])
    BY <1>1 DEF TokenInv, WaitingInv
  <2>3. req2resp["rd"][1] # req2resp["rd"][2]
    BY <2>1, <2>2 DEF IsInjective
  <2>4. req2resp["rd"][1] \in Tx /\ req2resp["rd"][2] \in Tx
    BY <1>1, <2>1
  <2> QED
    BY <2>1, <2>3, <2>4 DEF Range
<1>6. \A u \in {a, b} :
        /\ Cmd[u] = "rd" /\ fsm[u] = "WaitForResponse" /\ NotDue(u)
        /\ u # d /\ u # e
  <2>1. \A u \in Range(req2resp["rd"]) :
          /\ Cmd[u] = "rd" /\ fsm[u] = "WaitForResponse" /\ NotDue(u)
          /\ u \notin Range(respFifo["rd"]) /\ rdStart.tx # u
    BY <1>1 DEF TokenInv, WaitingInv
  <2> QED
    BY <1>3, <1>4, <1>5, <2>1
<1>7. Cmd[d] = "rd" /\ fsm[d] = "WaitForResponse" /\ NotDue(d) /\ d # e
  BY <1>1, <1>3, <1>4 DEF TokenInv, WaitingInv
<1>8. Cmd[e] = "rd" /\ fsm[e] = "WaitForResponse" /\ NotDue(e)
  BY <1>3, ChannelAssumption DEF ChannelAssumption, TokenInv, WaitingInv
<1>9. /\ Cmd[g] = "rd"
      /\ Responding(g) \/ (fsm[g] = "WaitForResponse" /\ ~NotDue(g))
  BY <1>2 DEF OwnsId
<1>10. g \notin {a, b, d, e}
  BY <1>6, <1>7, <1>8, <1>9 DEF Responding
<1>11. {a, b, d, e, g} \subseteq AcceptedOf("rd")
  BY <1>6, <1>7, <1>8, <1>9 DEF AcceptedOf, OfCmd, Accepted, Responding
<1>12. Cardinality({a, b, d, e, g}) = 5
  <2>1. a # b /\ d \notin {a, b} /\ e \notin {a, b, d} /\ g \notin {a, b, d, e}
    BY <1>5, <1>6, <1>7, <1>10
  <2> QED
    BY <2>1, FiveElements
<1>13. /\ AcceptedOf("rd") \subseteq OfCmd("rd") /\ OfCmd("rd") \subseteq Tx
  BY DEF AcceptedOf, OfCmd
<1>14. IsFiniteSet(OfCmd("rd")) /\ IsFiniteSet(AcceptedOf("rd"))
  BY <1>13, FS_Subset DEF CountersFit
<1>15. /\ Cardinality(AcceptedOf("rd")) \in Nat
       /\ Cardinality(OfCmd("rd")) \in Nat
       /\ 5 <= Cardinality(AcceptedOf("rd"))
       /\ Cardinality(AcceptedOf("rd")) <= Cardinality(OfCmd("rd"))
  BY <1>11, <1>12, <1>13, <1>14, FS_Subset, FS_CardinalityType
<1>16. MaxOutstanding > 0 => Cardinality(AcceptedOf("rd")) <= MaxOutstanding
  BY <1>1, WithinLimit DEF AcceptedWithinLimit, AcceptedOf
<1> QED
  BY <1>15, <1>16 DEF FewReads

LEMMA OverdueNext ==
  ASSUME TypeOK, TokenInv, CountersFit, LimitInv, BlockerInv, OverdueInv, TgtNext
  PROVE  OverdueInv'
<1> SUFFICES ASSUME ConstantLatency, FewReads
             PROVE  overdue' <= 1
  BY DEF OverdueInv
<1>1. overdue \in Nat /\ overdue <= 1
  BY DEF OverdueInv, TypeOK, TgtTypeOK
<1>2. ASSUME NEW t \in Tx, FsmStep(t) PROVE overdue' <= 1
  BY <1>1, <1>2, FsmFrame
<1>3. ASSUME NEW t \in Tx, ProcessReq2Resp(t) PROVE overdue' <= 1
  <2>1. overdue' \in {overdue, overdue - 1}
    BY <1>3 DEF ProcessReq2Resp
  <2> QED
    BY <1>1, <2>1
<1>4. CASE PushBackOverdue
  <2>1. Len(req2resp["rd"]) < 2
    BY <1>4, FiveReads DEF PushBackOverdue
  <2>2. overdue < Len(req2resp["rd"]) /\ overdue' = overdue + 1
    BY <1>4 DEF PushBackOverdue
  <2>3. Len(req2resp["rd"]) \in Nat
    BY DEF TypeOK, TgtTypeOK, Cmds
  <2> QED
    BY <1>1, <2>1, <2>2, <2>3
<1>5. CASE \/ \E c \in Cmds : SendRespBeat(c)
           \/ StartRdRead \/ StartRdSem \/ StartRdBegin \/ StartWr
  BY <1>1, <1>5 DEF SendRespBeat, StartRdRead, StartRdSem, StartRdBegin, StartWr,
     startRdRest, respondVars
<1> QED
  BY <1>2, <1>3, <1>4, <1>5, TgtCases DEF ThreadStep

LEMMA PipeNext ==
  ASSUME TypeOK, TokenInv, CountersFit, LimitInv, PipeInv, [Next]_vars
  PROVE  PipeInv'
<1>1. CASE UNCHANGED tgtVars
  <2>1. UNCHANGED <<fsm, evq, clkq, req2resp, respFifo, rdStart, overdue, rdResp,
                    activeRdId>>
    BY <1>1 DEF tgtVars
  <2>2. PlacedInv'
    BY <2>1 DEF PipeInv, PlacedInv, Started, NotDue, NotIn
  <2>3. Holders' = Holders /\ \A u \in Tx : OwnsId(u)' <=> OwnsId(u)
    BY <2>1 DEF Holders, OwnsId, Responding, NotDue, NotIn
  <2>4. BlockerInv'
    BY <2>1, <2>3, BlockerKept DEF PipeInv
  <2>5. OverdueInv'
    BY <2>1 DEF PipeInv, OverdueInv
  <2>6. MutexInv'
    <3>1. CASE IniNext
      BY <3>1, MutexNext DEF PipeInv, TypeOK
    <3>2. CASE UNCHANGED iniVars
      BY <3>2 DEF iniVars, PipeInv, MutexInv, HoldsId
    <3> QED
      BY <3>1, <3>2 DEF Next, vars
  <2> QED
    BY <2>2, <2>4, <2>5, <2>6 DEF PipeInv
<1>2. CASE TgtNext /\ UNCHANGED iniVars
  <2>1. (\E t \in Tx : FsmStep(t)) \/ ThreadStep
    BY <1>2, TgtCases
  <2>2. PlacedInv' /\ BlockerInv'
    BY <2>1, PlacedFsm, PlacedThread, BlockerFsm, BlockerThread DEF PipeInv
  <2>3. OverdueInv'
    BY <1>2, OverdueNext DEF PipeInv
  <2>4. MutexInv'
    BY <1>2 DEF iniVars, PipeInv, MutexInv, HoldsId
  <2> QED
    BY <2>2, <2>3, <2>4 DEF PipeInv
<1> QED
  BY <1>1, <1>2 DEF Next, vars

LEMMA InitPipe == Init => PipeInv
<1> SUFFICES ASSUME Init PROVE PipeInv
  OBVIOUS
<1>1. /\ fsm = [t \in Tx |-> "Idle"] /\ ini = [t \in Tx |-> "idle"]
      /\ activeRdId = {} /\ rdResp = 1 /\ overdue = 0
  BY DEF Init, TgtInit, IniInit
<1> QED
  BY <1>1 DEF PipeInv, PlacedInv, Started, MutexInv, BlockerInv, OverdueInv

\* Where the transactions are between their request and their response.
THEOREM PipeInvariant ==
  ASSUME CountersFit
  PROVE  Spec => []PipeInv
<1>1. TypeOK /\ TokenInv /\ LimitInv /\ PipeInv /\ [Next]_vars => PipeInv'
  BY PipeNext
<1> QED
  BY <1>1, InitPipe, TokenInvariant, LimitInvariant, PTL DEF Spec

-----------------------------------------------------------------------------
(* What the checker does with a phase that it sees.                        *)

LEMMA WatchFw ==
  ASSUME LinkTypeOK, Watch, NEW t \in Tx, NEW p \in FwPhases, fw' = Put(fw, t, p)
  PROVE  Observe(t, p)
<1> DEFINE calls == {u \in Tx : Len(fw'[u]) > Len(fw[u])}
<1>1. fw[t] \in Seq(FwPhases) /\ fw'[t] = Append(fw[t], p)
  BY DEF LinkTypeOK, Put
<1>2. Len(fw'[t]) > Len(fw[t]) /\ Last(fw'[t]) = p
  BY <1>1 DEF Last
<1>3. \A u \in Tx \ {t} : fw'[u] = fw[u] /\ Len(fw[u]) \in Nat
  BY DEF LinkTypeOK, Put
<1>4. calls = {t}
  BY <1>2, <1>3
<1>5. (CHOOSE u \in calls : TRUE) = t
  BY <1>4
<1>6. Observe(CHOOSE u \in calls : TRUE, Last(fw'[CHOOSE u \in calls : TRUE]))
  BY <1>4 DEF Watch
<1> QED
  BY <1>2, <1>5, <1>6

LEMMA WatchBw ==
  ASSUME LinkTypeOK, Watch, NEW t \in Tx, NEW p \in BwPhases, bw' = Put(bw, t, p),
         UNCHANGED fw
  PROVE  Observe(t, p)
<1> DEFINE calls == {u \in Tx : Len(bw'[u]) > Len(bw[u])}
<1>1. bw[t] \in Seq(BwPhases) /\ bw'[t] = Append(bw[t], p)
  BY DEF LinkTypeOK, Put
<1>2. Len(bw'[t]) > Len(bw[t]) /\ Last(bw'[t]) = p
  BY <1>1 DEF Last
<1>3. \A u \in Tx \ {t} : bw'[u] = bw[u] /\ Len(bw[u]) \in Nat
  BY DEF LinkTypeOK, Put
<1>4. calls = {t}
  BY <1>2, <1>3
<1>5. (CHOOSE u \in calls : TRUE) = t
  BY <1>4
<1>6. {u \in Tx : Len(fw'[u]) > Len(fw[u])} = {}
  BY DEF LinkTypeOK
<1>7. Observe(CHOOSE u \in calls : TRUE, Last(bw'[CHOOSE u \in calls : TRUE]))
  BY <1>4, <1>6 DEF Watch
<1> QED
  BY <1>2, <1>5, <1>7

LEMMA WatchNone ==
  ASSUME LinkTypeOK, Watch, NEW t \in Tx,
         UNCHANGED fw \/ (fw[t] # << >> /\ fw' = Drop(fw, t)),
         UNCHANGED bw \/ (bw[t] # << >> /\ bw' = Drop(bw, t))
  PROVE  UNCHANGED checkerVars
<1>1. ASSUME NEW P, NEW q \in [Tx -> Seq(P)], NEW r,
             r = q \/ (q[t] # << >> /\ r = Drop(q, t))
      PROVE  {u \in Tx : Len(r[u]) > Len(q[u])} = {}
  <2>1. \A u \in Tx : Len(q[u]) \in Nat
    BY <1>1
  <2>2. CASE r = q
    BY <2>1, <2>2
  <2>3. CASE q[t] # << >> /\ r = Drop(q, t)
    <3>1. \A u \in Tx \ {t} : r[u] = q[u]
      BY <1>1, <2>3 DEF Drop
    <3>2. r[t] = Tail(q[t]) /\ q[t] \in Seq(P)
      BY <1>1, <2>3 DEF Drop
    <3>3. Len(r[t]) = Len(q[t]) - 1
      BY <2>3, <3>2
    <3> QED
      BY <2>1, <3>1, <3>3
  <2> QED
    BY <1>1, <2>2, <2>3
<1>2. {u \in Tx : Len(fw'[u]) > Len(fw[u])} = {}
  BY <1>1 DEF LinkTypeOK
<1>3. {u \in Tx : Len(bw'[u]) > Len(bw[u])} = {}
  BY <1>1 DEF LinkTypeOK
<1> QED
  BY <1>2, <1>3 DEF Watch

LEMMA ObserveRequest ==
  ASSUME CheckerTypeOK, NEW t \in Tx, NEW p \in ReqBegins, Observe(t, p),
         reqBeat[Cmd[t]] = NoBeat, reqId[Cmd[t]] = NoId,
         Cmd[t] = "rd" => p = "BEGIN_REQ"
  PROVE  /\ reqBeat' = [reqBeat EXCEPT ![Cmd[t]] = p]
         /\ reqId' = [reqId EXCEPT ![Cmd[t]] = Id[t]]
         /\ openTx' = IF p = "BEGIN_REQ"
                      THEN [openTx EXCEPT ![Cmd[t]][Id[t]] = Append(@, t)]
                      ELSE openTx
         /\ wrReqBeats' = IF Cmd[t] = "rd" THEN wrReqBeats
                          ELSE IF p = "BEGIN_REQ" THEN 0 ELSE wrReqBeats + 1
         /\ complaints' = complaints \union
              If(Cmd[t] = "wr" /\ p = "BEGIN_REQ" /\ wrReqBeats + 1 # BurstLen[t],
                 "beats")
         /\ UNCHANGED <<respBeat, respId, rdRespBeats>>
<1>1. Cmd[t] \in {"rd", "wr"} /\ respBeat[Cmd[t]] \in RespBegins \union {NoBeat}
  BY ChannelAssumption DEF ChannelAssumption, CheckerTypeOK, Cmds
<1>2. p # reqBeat[Cmd[t]] /\ p # respBeat[Cmd[t]]
  BY <1>1 DEF ReqBegins, RespBegins, NoBeat
<1>3. BeginRequestBeat(t, p)
  BY <1>2 DEF Observe, ReqBegins, RespBegins
<1>4. ~IllegalPhase(Cmd[t], p)
  BY DEF IllegalPhase, ReqBegins, ReqEnds, RespBegins, RespEnds, NoBeat
<1>5. /\ reqBeat' = [reqBeat EXCEPT ![Cmd[t]] = p]
      /\ reqId' = [reqId EXCEPT ![Cmd[t]] = Id[t]]
      /\ UNCHANGED <<respBeat, respId, rdRespBeats>>
  BY <1>1, <1>3 DEF BeginRequestBeat
<1>6. /\ openTx' = IF p = "BEGIN_REQ"
                   THEN [openTx EXCEPT ![Cmd[t]][Id[t]] = Append(@, t)] ELSE openTx
      /\ wrReqBeats' = IF Cmd[t] = "rd" THEN wrReqBeats
                       ELSE IF p = "BEGIN_REQ" THEN 0 ELSE wrReqBeats + 1
  BY <1>1, <1>3 DEF BeginRequestBeat
<1>7. complaints' = complaints \union
        If(Cmd[t] = "wr" /\ p = "BEGIN_REQ" /\ wrReqBeats + 1 # BurstLen[t], "beats")
  BY <1>1, <1>3, <1>4 DEF BeginRequestBeat, If
<1> QED
  BY <1>5, <1>6, <1>7

LEMMA ObserveRequestEnd ==
  ASSUME CheckerTypeOK, NEW t \in Tx, NEW p \in ReqEnds, Observe(t, p),
         reqBeat[Cmd[t]] = BeginOf[p]
  PROVE  /\ reqBeat' = [reqBeat EXCEPT ![Cmd[t]] = NoBeat]
         /\ reqId' = [reqId EXCEPT ![Cmd[t]] = NoId]
         /\ UNCHANGED <<respBeat, respId, openTx, wrReqBeats, rdRespBeats, complaints>>
<1>1. /\ Cmd[t] \in Cmds /\ reqBeat[Cmd[t]] \in ReqBegins \union {NoBeat}
      /\ respBeat[Cmd[t]] \in RespBegins \union {NoBeat}
  BY ChannelAssumption DEF ChannelAssumption, CheckerTypeOK
<1>2. p # reqBeat[Cmd[t]] /\ p # respBeat[Cmd[t]]
  BY <1>1 DEF ReqBegins, RespBegins, NoBeat, ReqEnds
<1>3. EndBeat(t, p)
  BY <1>2 DEF Observe, ReqBegins, RespBegins, ReqEnds
<1>4. ~IllegalPhase(Cmd[t], p)
  BY DEF IllegalPhase, ReqBegins, ReqEnds, RespBegins, RespEnds
<1>5. p \notin RespEnds
  BY DEF ReqEnds, RespEnds
<1> QED
  BY <1>3, <1>4, <1>5 DEF EndBeat, If

LEMMA ObserveResponse ==
  ASSUME CheckerTypeOK, NEW t \in Tx, NEW p \in RespBegins, Observe(t, p),
         respBeat[Cmd[t]] = NoBeat, respId[Cmd[t]] = NoId,
         Cmd[t] = "wr" => p = "BEGIN_RESP"
  PROVE  LET c == Cmd[t]
             i == Id[t]
             final == p = "BEGIN_RESP"
             first == openTx[c][i] # << >> /\ Head(openTx[c][i]) = t
         IN
         /\ respBeat' = [respBeat EXCEPT ![c] = p]
         /\ respId' = [respId EXCEPT ![c] = i]
         /\ openTx' = IF final /\ openTx[c][i] # << >>
                      THEN [openTx EXCEPT ![c][i] = Tail(@)] ELSE openTx
         /\ rdRespBeats' =
              IF c = "wr" THEN rdRespBeats
              ELSE [rdRespBeats EXCEPT ![i] = IF final THEN 0 ELSE rdRespBeats[i] + 1]
         /\ complaints' = complaints \union If(~first, "response") \union
              If(c = "rd" /\ final /\ rdRespBeats[i] + 1 # BurstLen[t], "beats")
         /\ UNCHANGED <<reqBeat, reqId, wrReqBeats>>
<1> DEFINE c == Cmd[t]
           i == Id[t]
           final == p = "BEGIN_RESP"
           first == openTx[c][i] # << >> /\ Head(openTx[c][i]) = t
<1>1. Cmd[t] \in {"rd", "wr"} /\ reqBeat[Cmd[t]] \in ReqBegins \union {NoBeat}
  BY ChannelAssumption DEF ChannelAssumption, CheckerTypeOK, Cmds
<1>2. p # reqBeat[Cmd[t]] /\ p # respBeat[Cmd[t]]
  BY <1>1 DEF ReqBegins, RespBegins, NoBeat
<1>3. BeginResponseBeat(t, p)
  BY <1>2 DEF Observe, ReqBegins, RespBegins
<1>4. ~IllegalPhase(Cmd[t], p)
  BY DEF IllegalPhase, ReqBegins, ReqEnds, RespBegins, RespEnds, NoBeat
<1>5. /\ respBeat' = [respBeat EXCEPT ![c] = p]
      /\ respId' = [respId EXCEPT ![c] = i]
      /\ UNCHANGED <<reqBeat, reqId, wrReqBeats>>
  BY <1>1, <1>3 DEF BeginResponseBeat
<1>6. /\ openTx' = IF final /\ openTx[c][i] # << >>
                   THEN [openTx EXCEPT ![c][i] = Tail(@)] ELSE openTx
      /\ rdRespBeats' =
           IF c = "wr" THEN rdRespBeats
           ELSE [rdRespBeats EXCEPT ![i] = IF final THEN 0 ELSE rdRespBeats[i] + 1]
  BY <1>1, <1>3 DEF BeginResponseBeat
<1>7. complaints' = complaints \union If(~first, "response") \union
        If(c = "rd" /\ final /\ rdRespBeats[i] + 1 # BurstLen[t], "beats")
  BY <1>1, <1>3, <1>4 DEF BeginResponseBeat, If
<1> QED
  BY <1>5, <1>6, <1>7

LEMMA ObserveResponseEnd ==
  ASSUME CheckerTypeOK, NEW t \in Tx, NEW p \in RespEnds, Observe(t, p),
         respBeat[Cmd[t]] = BeginOf[p]
  PROVE  /\ respBeat' = [respBeat EXCEPT ![Cmd[t]] = NoBeat]
         /\ respId' = [respId EXCEPT ![Cmd[t]] = NoId]
         /\ UNCHANGED <<reqBeat, reqId, openTx, wrReqBeats, rdRespBeats, complaints>>
<1>1. /\ Cmd[t] \in Cmds /\ reqBeat[Cmd[t]] \in ReqBegins \union {NoBeat}
      /\ respBeat[Cmd[t]] \in RespBegins \union {NoBeat}
  BY ChannelAssumption DEF ChannelAssumption, CheckerTypeOK
<1>2. p # reqBeat[Cmd[t]] /\ p # respBeat[Cmd[t]]
  BY <1>1 DEF ReqBegins, RespBegins, NoBeat, RespEnds
<1>3. EndBeat(t, p)
  BY <1>2 DEF Observe, ReqBegins, RespBegins, RespEnds
<1>4. ~IllegalPhase(Cmd[t], p)
  BY DEF IllegalPhase, ReqBegins, ReqEnds, RespBegins, RespEnds
<1>5. p \notin ReqEnds
  BY DEF ReqEnds, RespEnds
<1> QED
  BY <1>3, <1>4, <1>5 DEF EndBeat, If

\* The checker does not know the acknowledge of ACE.
LEMMA ObserveAck ==
  ASSUME CheckerTypeOK, NEW t \in Tx, Observe(t, "ACK")
  PROVE  /\ complaints' = complaints \union {"phase"}
         /\ UNCHANGED <<reqBeat, reqId, respBeat, respId, openTx, wrReqBeats,
                        rdRespBeats>>
<1>1. "ACK" \notin ReqBegins \union RespBegins \union ReqEnds \union RespEnds
  BY DEF ReqBegins, RespBegins, ReqEnds, RespEnds
<1>2. CASE "ACK" = reqBeat[Cmd[t]] \/ "ACK" = respBeat[Cmd[t]]
  BY <1>2 DEF Observe
<1>3. CASE ~("ACK" = reqBeat[Cmd[t]] \/ "ACK" = respBeat[Cmd[t]])
  <2>1. EndBeat(t, "ACK") /\ IllegalPhase(Cmd[t], "ACK")
    BY <1>1, <1>3 DEF Observe, IllegalPhase
  <2> QED
    BY <1>1, <2>1 DEF EndBeat, If
<1> QED
  BY <1>2, <1>3

-----------------------------------------------------------------------------
(* What the checker sees of the steps.                                     *)

AskSame(u) == (Asks(u)' <=> Asks(u)) /\ (Asks(u) => sent'[u] = sent[u])
AnswerSame(u) == \A p \in RespBegins : AnswersWith(u, p)' <=> AnswersWith(u, p)

\* No phase is announced, and no beat is answered.
Unseen == UNCHANGED checkerVars /\ \A u \in Tx : AskSame(u) /\ AnswerSame(u)

\* A request beat of t is announced, when no other one of its command is.
RequestSeen(t, p) ==
  /\ reqBeat' = [reqBeat EXCEPT ![Cmd[t]] = p]
  /\ reqId' = [reqId EXCEPT ![Cmd[t]] = Id[t]]
  /\ openTx' = IF p = "BEGIN_REQ"
               THEN [openTx EXCEPT ![Cmd[t]][Id[t]] = Append(@, t)] ELSE openTx
  /\ wrReqBeats' = IF Cmd[t] = "rd" THEN wrReqBeats
                   ELSE IF p = "BEGIN_REQ" THEN 0 ELSE wrReqBeats + 1
  /\ complaints' = complaints \union
       If(Cmd[t] = "wr" /\ p = "BEGIN_REQ" /\ wrReqBeats + 1 # BurstLen[t], "beats")
  /\ UNCHANGED <<respBeat, respId, rdRespBeats>>
  /\ p = (IF LastBeat(t) THEN "BEGIN_REQ" ELSE "BEGIN_PARTIAL_REQ")
  /\ Asks(t)' /\ sent'[t] = sent[t] /\ \A u \in OfCmd(Cmd[t]) : ~Asks(u)
  /\ \A u \in Tx \ {t} : AskSame(u)
  /\ \A u \in Tx : AnswerSame(u)

\* The request beat of t is answered.
RequestEndSeen(t) ==
  /\ reqBeat' = [reqBeat EXCEPT ![Cmd[t]] = NoBeat]
  /\ reqId' = [reqId EXCEPT ![Cmd[t]] = NoId]
  /\ UNCHANGED <<respBeat, respId, openTx, wrReqBeats, rdRespBeats, complaints>>
  /\ Asks(t) /\ ~Asks(t)'
  /\ \A u \in Tx \ {t} : AskSame(u)
  /\ \A u \in Tx : AnswerSame(u)

\* A response beat of t is announced, when no other one of its command is.
ResponseSeen(t, p) ==
  LET c == Cmd[t]
      i == Id[t]
      final == p = "BEGIN_RESP"
      first == openTx[c][i] # << >> /\ Head(openTx[c][i]) = t
  IN
  /\ respBeat' = [respBeat EXCEPT ![c] = p]
  /\ respId' = [respId EXCEPT ![c] = i]
  /\ openTx' = IF final /\ openTx[c][i] # << >>
               THEN [openTx EXCEPT ![c][i] = Tail(@)] ELSE openTx
  /\ rdRespBeats' =
       IF c = "wr" THEN rdRespBeats
       ELSE [rdRespBeats EXCEPT ![i] = IF final THEN 0 ELSE rdRespBeats[i] + 1]
  /\ complaints' = complaints \union If(~first, "response") \union
       If(c = "rd" /\ final /\ rdRespBeats[i] + 1 # BurstLen[t], "beats")
  /\ UNCHANGED <<reqBeat, reqId, wrReqBeats>>
  /\ AnswersWith(t, p)' /\ \A u \in OfCmd(c) : ~Answers(u)
  /\ \A u \in Tx \ {t} : AnswerSame(u)
  /\ \A u \in Tx : AskSame(u)

\* The response beat of t is acknowledged.
ResponseEndSeen(t) ==
  /\ respBeat' = [respBeat EXCEPT ![Cmd[t]] = NoBeat]
  /\ respId' = [respId EXCEPT ![Cmd[t]] = NoId]
  /\ UNCHANGED <<reqBeat, reqId, openTx, wrReqBeats, rdRespBeats, complaints>>
  /\ Answers(t) /\ ~Answers(t)'
  /\ \A u \in Tx \ {t} : AnswerSame(u)
  /\ \A u \in Tx : AskSame(u)

\* The acknowledge of t, which the checker does not know, or nothing.
AckSeen ==
  /\ complaints' = complaints \union {"phase"}
  /\ UNCHANGED <<reqBeat, reqId, respBeat, respId, openTx, wrReqBeats, rdRespBeats>>
  /\ \A u \in Tx : AskSame(u) /\ AnswerSame(u)

\* A request beat is announced by the call that holds the channel.
LEMMA SendRequestSeen ==
  ASSUME TypeOK, TokenInv, ReqChannelInv, Watch, NEW t \in Tx, SendRequest(t)
  PROVE  \E p \in ReqBegins : RequestSeen(t, p)
<1> DEFINE p == IF LastBeat(t) THEN "BEGIN_REQ" ELSE "BEGIN_PARTIAL_REQ"
<1>1. /\ LinkTypeOK /\ CheckerTypeOK /\ ini \in [Tx -> IniPcs] /\ LinkOK(t)
      /\ Cmd[t] \in Cmds
  BY ChannelAssumption DEF ChannelAssumption, TypeOK, IniTypeOK, TokenInv, LinkInv
<1>2. /\ ini[t] = "chnl" /\ ini' = [ini EXCEPT ![t] = "send"]
      /\ fw' = Put(fw, t, p) /\ UNCHANGED <<bw, sent>> /\ HoldsChnl(t)
  BY DEF SendRequest, Goto
<1>3. p \in ReqBegins /\ p \in FwPhases
  BY DEF ReqBegins, FwPhases
<1>4. \A u \in OfCmd(Cmd[t]) : ~Asks(u)
  BY <1>2 DEF TokenInv, ChannelInv, HoldsChnl, Asks, OfCmd
<1>5. reqBeat[Cmd[t]] = NoBeat /\ reqId[Cmd[t]] = NoId
  BY <1>1, <1>4 DEF ReqChannelInv
<1>6. Cmd[t] = "rd" => p = "BEGIN_REQ"
  BY DEF LastBeat
<1>7. Observe(t, p)
  BY <1>1, <1>2, <1>3, WatchFw
<1>8. Asks(t)' /\ sent'[t] = sent[t] /\ bw[t] = << >>
  BY <1>1, <1>2 DEF LinkOK, Asks
<1>9. (\A u \in Tx \ {t} : AskSame(u)) /\ \A u \in Tx : AnswerSame(u)
  BY <1>1, <1>2 DEF AskSame, AnswerSame, Asks, AnswersWith
<1>10. p = IF LastBeat(t) THEN "BEGIN_REQ" ELSE "BEGIN_PARTIAL_REQ"
  OBVIOUS
<1> HIDE DEF p
<1>11. RequestSeen(t, p)
  BY <1>1, <1>3, <1>4, <1>5, <1>6, <1>7, <1>8, <1>9, <1>10, ObserveRequest
  DEF RequestSeen
<1> QED
  BY <1>3, <1>11

\* The end of a request beat, partial or not.
LEMMA RequestEnds ==
  ASSUME TypeOK, TokenInv, ReqChannelInv, Watch, UNCHANGED <<iniVars, fw>>,
         NEW t \in Tx, NEW p \in ReqEnds, bw' = Put(bw, t, p),
         \/ fsm[t] = "PartialRequest" /\ p = "END_PARTIAL_REQ"
         \/ fsm[t] = "Request" /\ p = "END_REQ"
  PROVE  RequestEndSeen(t)
<1>1. /\ LinkTypeOK /\ CheckerTypeOK /\ LinkOK(t) /\ Cmd[t] \in Cmds
  BY ChannelAssumption DEF ChannelAssumption, TypeOK, TokenInv, LinkInv
<1>2. Asks(t) /\ (LastBeat(t) <=> p = "END_REQ")
  BY <1>1 DEF LinkOK, Asks, RestStates
<1>3. reqBeat[Cmd[t]] = BeginOf[p]
  BY <1>1, <1>2 DEF ReqChannelInv, OfCmd, BeginOf, ReqEnds
<1>4. p \in BwPhases
  BY DEF ReqEnds, BwPhases
<1>5. Observe(t, p)
  BY <1>1, <1>4, WatchBw
<1>6. bw[t] = << >> /\ bw'[t] = <<p>> /\ \A u \in Tx \ {t} : bw'[u] = bw[u]
  BY <1>1, <1>2, <1>4, SeqOne DEF Asks, LinkTypeOK, Put
<1>7. UNCHANGED <<ini, sent>> /\ bw'[t] # << >>
  BY <1>6 DEF iniVars
<1>8. ~Asks(t)' /\ \A u \in Tx \ {t} : AskSame(u) /\ AnswerSame(u)
  BY <1>6, <1>7 DEF Asks, AskSame, AnswerSame, AnswersWith
<1>9. AnswerSame(t)
  BY <1>6 DEF AnswerSame, AnswersWith, ReqEnds, RespBegins
<1>10. \A u \in Tx : AnswerSame(u)
  BY <1>8, <1>9
<1> QED
  BY <1>1, <1>2, <1>3, <1>5, <1>8, <1>10, ObserveRequestEnd DEF RequestEndSeen

\* A response beat that is not acknowledged yet is on the channel.
LEMMA AnswersOnChannel ==
  ASSUME TokenInv, NEW c \in Cmds, NEW u \in OfCmd(c), Answers(u)
  PROVE  u \in OnChannel(c)
<1>1. PICK r \in RespBegins : bw[u] \in {<<r>>, <<"END_REQ", r>>}
  BY DEF Answers, AnswersWith
<1>2. u \in Tx /\ Cmd[u] = c /\ LinkOK(u)
  BY DEF OfCmd, TokenInv, LinkInv
<1>3. fsm[u] \in {"PartialResponse", "Response"}
  <2>1. r # "END_PARTIAL_REQ" /\ r # "END_REQ"
    BY DEF RespBegins
  <2>2. CASE bw[u] = <<r>>
    <3>1. bw[u] # << >> /\ bw[u] # <<"END_PARTIAL_REQ">> /\ bw[u] # <<"END_REQ">>
      BY <2>1, <2>2
    <3> QED
      BY <1>2, <3>1 DEF LinkOK
  <2>3. CASE bw[u] = <<"END_REQ", r>>
    <3>1. bw[u] # << >> /\ bw[u] # <<"END_PARTIAL_REQ">> /\ bw[u] # <<"END_REQ">>
      BY <2>3
    <3> QED
      BY <1>2, <3>1 DEF LinkOK
  <2> QED
    BY <1>1, <2>2, <2>3
<1>4. NotQueued(u, c)
  BY <1>1 DEF TokenInv, BeatInv, NotQueued, RespBegins
<1> QED
  BY <1>2, <1>3, <1>4 DEF OnChannel, OfCmd

\* A response beat is sent when the channel is free.
LEMMA SendRespBeatSeen ==
  ASSUME TypeOK, TokenInv, OwnerInv, RespChannelInv, Watch, UNCHANGED iniVars,
         NEW c \in Cmds, SendRespBeat(c)
  PROVE  LET e == Head(beatFifo[c]) IN
         /\ beatFifo[c] # << >> /\ e \in Range(beatFifo[c]) /\ e.tx \in Tx
         /\ Cmd[e.tx] = c /\ beatFifo' = [beatFifo EXCEPT ![c] = Tail(@)]
         /\ \E p \in RespBegins :
              /\ ResponseSeen(e.tx, p)
              /\ fsm[e.tx] = IF p = "BEGIN_RESP" THEN "Response" ELSE "PartialResponse"
         /\ UNCHANGED <<fw, fsm, beat, evq, clkq, req2resp, respFifo, rdStart>>
<1> DEFINE e == Head(beatFifo[c])
<1>1. /\ LinkTypeOK /\ CheckerTypeOK /\ beatFifo[c] \in Seq(Scheduled)
      /\ beatFifo[c] # << >> /\ respCh[c] > 0
  BY DEF SendRespBeat, TypeOK, TgtTypeOK
<1>2. e \in Range(beatFifo[c])
  BY <1>1, RangeTail
<1>3. e.tx \in Tx
  BY <1>1, <1>2, EntryType
<1>4. PICK t \in Tx : t = e.tx
  BY <1>3
<1>5. /\ Cmd[t] = c
      /\ \/ e.tp = "BegPartRespE" /\ c = "rd" /\ fsm[t] = "PartialResponse"
         \/ e.tp = "BegRespE" /\ fsm[t] = "Response"
      /\ bw[t] \in {<< >>, <<"END_REQ">>}
  BY <1>2, <1>4 DEF TokenInv, BeatInv
<1>6. /\ bw' = Put(bw, t, IF c = "wr" \/ e.tp = "BegRespE" THEN "BEGIN_RESP"
                          ELSE "BEGIN_PARTIAL_RESP")
      /\ beatFifo' = [beatFifo EXCEPT ![c] = Tail(@)]
      /\ UNCHANGED <<fw, fsm, beat, evq, clkq, req2resp, respFifo, rdStart>>
  BY <1>4 DEF SendRespBeat, fsmVars, respondVars
<1>7. PICK p \in RespBegins :
        /\ bw' = Put(bw, t, p) /\ (c = "wr" => p = "BEGIN_RESP")
        /\ fsm[t] = IF p = "BEGIN_RESP" THEN "Response" ELSE "PartialResponse"
  BY <1>5, <1>6 DEF RespBegins
<1> HIDE DEF e
<1>8. p \in BwPhases /\ UNCHANGED <<ini, sent>>
  BY DEF RespBegins, BwPhases, iniVars
<1>9. OnChannel(c) = {}
  BY <1>1 DEF OwnerInv
<1>10. \A u \in OfCmd(c) : ~Answers(u)
  BY <1>9, AnswersOnChannel
<1>11. respBeat[c] = NoBeat /\ respId[c] = NoId
  BY <1>10 DEF RespChannelInv
<1>12. Observe(t, p)
  BY <1>1, <1>6, <1>7, <1>8, WatchBw
<1>13. /\ bw'[t] \in {<<p>>, <<"END_REQ", p>>} /\ bw'[t] # << >>
       /\ \A u \in Tx \ {t} : bw'[u] = bw[u]
  <2>1. bw'[t] = Append(bw[t], p) /\ \A u \in Tx \ {t} : bw'[u] = bw[u]
    BY <1>1, <1>7 DEF LinkTypeOK, Put
  <2>2. /\ Append(<< >>, p) = <<p>> /\ Append(<<"END_REQ">>, p) = <<"END_REQ", p>>
        /\ <<p>> # << >> /\ <<"END_REQ", p>> # << >>
    BY <1>8, SeqOne, SeqTwo DEF BwPhases
  <2>3. CASE bw[t] = << >>
    BY <2>1, <2>2, <2>3
  <2>4. CASE bw[t] = <<"END_REQ">>
    BY <2>1, <2>2, <2>4
  <2> QED
    BY <1>5, <2>3, <2>4
<1>14. ~Asks(t) /\ ~Asks(t)'
  BY <1>5, <1>13 DEF Asks, TokenInv, LinkInv, LinkOK, RestStates
<1>15. \A u \in Tx \ {t} : AskSame(u) /\ AnswerSame(u)
  BY <1>8, <1>13 DEF Asks, AskSame, AnswerSame, AnswersWith
<1>16. AnswersWith(t, p)' /\ \A u \in Tx : AskSame(u)
  BY <1>13, <1>14, <1>15 DEF AnswersWith, AskSame
<1>17. ResponseSeen(t, p)
  BY <1>1, <1>5, <1>7, <1>10, <1>11, <1>12, <1>15, <1>16, ObserveResponse
  DEF ResponseSeen
<1> QED
  BY <1>1, <1>2, <1>4, <1>5, <1>6, <1>7, <1>17 DEF e

\* The response loop acknowledges a beat.
LEMMA ResponseBeatSeen ==
  ASSUME TypeOK, TokenInv, RespChannelInv, Watch, NEW t \in Tx, ResponseBeat(t)
  PROVE  /\ ResponseEndSeen(t) /\ UNCHANGED <<sent, chnl>> /\ ini[t] = "resp"
         /\ ini' \in {ini, [ini EXCEPT ![t] = AfterResponse]}
<1>1. /\ LinkTypeOK /\ CheckerTypeOK /\ LinkOK(t) /\ ini \in [Tx -> IniPcs]
      /\ Cmd[t] \in Cmds
  BY ChannelAssumption
  DEF ChannelAssumption, TypeOK, IniTypeOK, TokenInv, LinkInv
<1>2. /\ ini[t] = "resp" /\ bw[t] # << >> /\ bw' = Drop(bw, t)
      /\ UNCHANGED <<sent, chnl>>
      /\ ini' \in {ini, [ini EXCEPT ![t] = AfterResponse]}
      /\ fw' = IF Head(bw[t]) = "BEGIN_PARTIAL_RESP" THEN Put(fw, t, "END_PARTIAL_RESP")
               ELSE IF Head(bw[t]) = "BEGIN_RESP" THEN Put(fw, t, "END_RESP") ELSE fw
  BY DEF ResponseBeat
<1>3. PICK p \in RespBegins : bw[t] = <<p>>
  BY <1>1, <1>2 DEF LinkOK, RespBegins
<1>4. p \in BwPhases /\ p \in {"BEGIN_PARTIAL_RESP", "BEGIN_RESP"}
  BY DEF RespBegins, BwPhases
<1>5. Head(bw[t]) = p /\ bw'[t] = << >> /\ \A u \in Tx \ {t} : bw'[u] = bw[u]
  BY <1>1, <1>2, <1>3, <1>4, SeqOne DEF Drop, LinkTypeOK
<1>6. PICK end \in RespEnds : BeginOf[end] = p /\ fw' = Put(fw, t, end)
  <2>1. CASE p = "BEGIN_RESP"
    <3>1. "END_RESP" \in RespEnds /\ BeginOf["END_RESP"] = p
          /\ fw' = Put(fw, t, "END_RESP")
      BY <1>2, <1>5, <2>1 DEF RespEnds, BeginOf
    <3> QED
      BY <3>1
  <2>2. CASE p = "BEGIN_PARTIAL_RESP"
    <3>1. "END_PARTIAL_RESP" \in RespEnds /\ BeginOf["END_PARTIAL_RESP"] = p
          /\ fw' = Put(fw, t, "END_PARTIAL_RESP")
      BY <1>2, <1>5, <2>2 DEF RespEnds, BeginOf
    <3> QED
      BY <3>1
  <2> QED
    BY <1>4, <2>1, <2>2
<1>7. end \in FwPhases
  BY DEF RespEnds, FwPhases
<1>8. Observe(t, end)
  BY <1>1, <1>6, <1>7, WatchFw
<1>9. AnswersWith(t, p) /\ Answers(t)
  BY <1>3 DEF AnswersWith, Answers
<1>10. respBeat[Cmd[t]] = BeginOf[end]
  BY <1>1, <1>6, <1>9 DEF RespChannelInv, OfCmd
<1>11. ~Answers(t)'
  BY <1>5 DEF Answers, AnswersWith
<1>12. \A u \in Tx \ {t} : ini'[u] = ini[u]
  BY <1>1, <1>2
<1>13. AfterResponse # "send" /\ ini'[t] # "send"
  BY <1>1, <1>2 DEF AfterResponse
<1>14. \A u \in Tx : AskSame(u)
  BY <1>2, <1>5, <1>12, <1>13 DEF AskSame, Asks
<1>15. \A u \in Tx \ {t} : AnswerSame(u)
  BY <1>5 DEF AnswerSame, AnswersWith
<1> QED
  BY <1>1, <1>2, <1>8, <1>9, <1>10, <1>11, <1>14, <1>15, ObserveResponseEnd
  DEF ResponseEndSeen

LEMMA SendAckSeen ==
  ASSUME TypeOK, Watch, NEW t \in Tx, SendAck(t)
  PROVE  /\ AckSeen /\ UNCHANGED <<sent, chnl>> /\ ini[t] = "ack"
         /\ ini' = [ini EXCEPT ![t] = "fin"]
<1>1. LinkTypeOK /\ CheckerTypeOK /\ ini \in [Tx -> IniPcs]
  BY DEF TypeOK, IniTypeOK
<1>2. /\ ini[t] = "ack" /\ ini' = [ini EXCEPT ![t] = "fin"]
      /\ fw' = Put(fw, t, "ACK") /\ UNCHANGED <<bw, sent, chnl>>
  BY DEF SendAck, Goto
<1>3. Observe(t, "ACK")
  BY <1>1, <1>2, WatchFw DEF FwPhases
<1>4. \A u \in Tx : AskSame(u) /\ AnswerSame(u)
  BY <1>1, <1>2 DEF AskSame, AnswerSame, Asks, AnswersWith
<1> QED
  BY <1>1, <1>2, <1>3, <1>4, ObserveAck DEF AckSeen

\* The other steps of a call announce nothing.
LEMMA CallUnseen ==
  ASSUME TypeOK, TokenInv, Watch, NEW t \in Tx,
         \/ Transport(t) \/ GetId(t) \/ BeatAccepted(t) \/ RequestAccepted(t)
         \/ Finish(t)
  PROVE  Unseen
<1>1. /\ LinkTypeOK /\ LinkOK(t) /\ ini \in [Tx -> IniPcs] /\ sent \in [Tx -> Nat]
  BY DEF TypeOK, IniTypeOK, TokenInv, LinkInv
<1>2. /\ UNCHANGED fw /\ (UNCHANGED bw \/ (bw[t] # << >> /\ bw' = Drop(bw, t)))
      /\ \A u \in Tx \ {t} : ini'[u] = ini[u] /\ sent'[u] = sent[u]
      /\ ini'[t] # "send" /\ (ini[t] = "send" => bw[t] # << >>)
  BY <1>1 DEF Transport, GetId, BeatAccepted, RequestAccepted, Finish, Goto, linkVars
<1>3. UNCHANGED checkerVars
  BY <1>1, <1>2, WatchNone
<1>4. \A u \in Tx \ {t} : bw'[u] = bw[u]
  BY <1>1, <1>2 DEF Drop, LinkTypeOK
<1>5. \A u \in Tx : AskSame(u)
  BY <1>2, <1>4 DEF AskSame, Asks
<1>6. AnswerSame(t)
  <2>1. CASE UNCHANGED bw
    BY <2>1 DEF AnswerSame, AnswersWith
  <2>2. CASE BeatAccepted(t)
    <3>1. bw[t] = <<"END_PARTIAL_REQ">> /\ bw' = Drop(bw, t)
      BY <1>1, <2>2 DEF BeatAccepted, Goto, LinkOK
    <3>2. bw'[t] = << >>
      BY <1>1, <3>1, SeqOne DEF Drop, LinkTypeOK, BwPhases
    <3> QED
      BY <3>1, <3>2 DEF AnswerSame, AnswersWith, RespBegins
  <2>3. CASE RequestAccepted(t)
    <3>1. bw[t] = <<"END_REQ">> \/ \E p \in RespBegins : bw[t] = <<"END_REQ", p>>
      BY <1>1, <2>3 DEF RequestAccepted, Goto, LinkOK, RespBegins
    <3>2. PICK p \in RespBegins : bw[t] \in {<<"END_REQ">>, <<"END_REQ", p>>}
      <4>1. "BEGIN_RESP" \in RespBegins
        BY DEF RespBegins
      <4> QED
        BY <3>1, <4>1
    <3>3. p \in BwPhases /\ "END_REQ" \in BwPhases
      BY DEF RespBegins, BwPhases
    <3>4. /\ Head(<<"END_REQ">>) = "END_REQ" /\ Tail(<<"END_REQ">>) = << >>
          /\ Head(<<"END_REQ", p>>) = "END_REQ" /\ Tail(<<"END_REQ", p>>) = <<p>>
      BY <3>3, SeqOne, SeqTwo
    <3>5. Head(bw[t]) = "END_REQ"
      BY <3>2, <3>4
    <3>6. bw'[t] = Tail(bw[t])
      BY <1>1, <2>3, <3>5 DEF RequestAccepted, Drop, LinkTypeOK
    <3>7. /\ bw[t] = <<"END_REQ">> => bw'[t] = << >>
          /\ bw[t] = <<"END_REQ", p>> => bw'[t] = <<p>>
      BY <3>4, <3>6
    <3>8. CASE bw[t] = <<"END_REQ">>
      BY <3>7, <3>8 DEF AnswerSame, AnswersWith, RespBegins
    <3>9. CASE bw[t] = <<"END_REQ", p>>
      BY <3>7, <3>9 DEF AnswerSame, AnswersWith, RespBegins
    <3> QED
      BY <3>2, <3>8, <3>9
  <2> QED
    BY <2>1, <2>2, <2>3 DEF Transport, GetId, Finish, linkVars
<1>7. \A u \in Tx : AnswerSame(u)
  BY <1>4, <1>6 DEF AnswerSame, AnswersWith
<1> QED
  BY <1>3, <1>5, <1>7 DEF Unseen

\* Neither do the steps of the target that leave bw alone.
LEMMA TargetUnseen ==
  ASSUME TypeOK, Watch, UNCHANGED <<iniVars, bw>>, NEW t \in Tx,
         UNCHANGED fw \/ (fw[t] # << >> /\ fw' = Drop(fw, t))
  PROVE  Unseen
<1>1. UNCHANGED checkerVars
  BY WatchNone DEF TypeOK
<1>2. \A u \in Tx : AskSame(u) /\ AnswerSame(u)
  BY DEF iniVars, AskSame, AnswerSame, Asks, AnswersWith
<1> QED
  BY <1>1, <1>2 DEF Unseen

-----------------------------------------------------------------------------
(* The channels, as the checker sees them.                                 *)

LEMMA RequestKept ==
  ASSUME ReqChannelInv, UNCHANGED <<reqBeat, reqId>>, \A u \in Tx : AskSame(u)
  PROVE  ReqChannelInv'
<1>1. \A u \in Tx : Asks(u) => (LastBeat(u)' <=> LastBeat(u))
  BY DEF AskSame, LastBeat
<1> QED
  BY <1>1 DEF ReqChannelInv, OfCmd, AskSame

LEMMA ResponseKept ==
  ASSUME RespChannelInv, UNCHANGED <<respBeat, respId>>, \A u \in Tx : AnswerSame(u)
  PROVE  RespChannelInv'
BY DEF RespChannelInv, OfCmd, AnswerSame, Answers

LEMMA RequestOpened ==
  ASSUME TypeOK, ReqChannelInv, NEW t \in Tx, NEW p, RequestSeen(t, p)
  PROVE  ReqChannelInv'
<1>1. /\ \A u \in Tx \ {t} : AskSame(u)
      /\ Asks(t)' /\ (LastBeat(t)' <=> LastBeat(t)) /\ \A u \in OfCmd(Cmd[t]) : ~Asks(u)
      /\ p = (IF LastBeat(t) THEN "BEGIN_REQ" ELSE "BEGIN_PARTIAL_REQ")
      /\ reqBeat' = [reqBeat EXCEPT ![Cmd[t]] = p]
      /\ reqId' = [reqId EXCEPT ![Cmd[t]] = Id[t]]
  BY DEF RequestSeen, LastBeat
<1>2. /\ reqBeat \in [Cmds -> ReqBegins \union {NoBeat}] /\ Cmd[t] \in Cmds
      /\ reqId \in [Cmds -> Ids \union {NoId}]
  BY ChannelAssumption DEF ChannelAssumption, TypeOK, CheckerTypeOK
<1>3. \A u \in Tx \ {t} : Asks(u) => (LastBeat(u)' <=> LastBeat(u))
  BY <1>1 DEF AskSame, LastBeat
<1>4. \A u \in OfCmd(Cmd[t]) : Asks(u)' => u = t
  BY <1>1 DEF AskSame, OfCmd
<1>5. \A c \in Cmds :
        c # Cmd[t] => reqBeat'[c] = reqBeat[c] /\ reqId'[c] = reqId[c]
  BY <1>1, <1>2
<1>6. \A c \in Cmds : c # Cmd[t] => \A u \in OfCmd(c) : u \in Tx \ {t}
  BY DEF OfCmd
<1>7. reqBeat'[Cmd[t]] = p /\ reqId'[Cmd[t]] = Id[t] /\ t \in OfCmd(Cmd[t])
  BY <1>1, <1>2 DEF OfCmd
<1> SUFFICES ASSUME NEW c \in Cmds
             PROVE  /\ \A u \in OfCmd(c) : Asks(u)' =>
                         /\ reqBeat'[c] = IF LastBeat(u)' THEN "BEGIN_REQ"
                                          ELSE "BEGIN_PARTIAL_REQ"
                         /\ reqId'[c] = Id[u]
                    /\ (\A u \in OfCmd(c) : ~Asks(u)') =>
                         reqBeat'[c] = NoBeat /\ reqId'[c] = NoId
  BY DEF ReqChannelInv, OfCmd
<1>8. CASE c = Cmd[t]
  BY <1>1, <1>4, <1>7, <1>8
<1>9. CASE c # Cmd[t]
  BY <1>1, <1>3, <1>5, <1>6, <1>9 DEF ReqChannelInv, AskSame
<1> QED
  BY <1>8, <1>9

LEMMA RequestClosed ==
  ASSUME TypeOK, TokenInv, ReqChannelInv, NEW t \in Tx, RequestEndSeen(t)
  PROVE  ReqChannelInv'
<1>1. /\ \A u \in Tx \ {t} : AskSame(u)
      /\ Asks(t) /\ ~Asks(t)'
      /\ reqBeat' = [reqBeat EXCEPT ![Cmd[t]] = NoBeat]
      /\ reqId' = [reqId EXCEPT ![Cmd[t]] = NoId]
  BY DEF RequestEndSeen
<1>2. /\ reqBeat \in [Cmds -> ReqBegins \union {NoBeat}] /\ Cmd[t] \in Cmds
      /\ reqId \in [Cmds -> Ids \union {NoId}]
  BY ChannelAssumption DEF ChannelAssumption, TypeOK, CheckerTypeOK
<1>3. \A u \in Tx \ {t} : Asks(u) => (LastBeat(u)' <=> LastBeat(u))
  BY <1>1 DEF AskSame, LastBeat
<1>4. \A u \in OfCmd(Cmd[t]) : ~Asks(u)'
  <2>1. \A u \in OfCmd(Cmd[t]) : Asks(u) => u = t
    BY <1>1, OneRequesting DEF Asks, OfCmd
  <2> QED
    BY <1>1, <2>1 DEF AskSame, OfCmd
<1>5. \A c \in Cmds :
        c # Cmd[t] => reqBeat'[c] = reqBeat[c] /\ reqId'[c] = reqId[c]
  BY <1>1, <1>2
<1>6. \A c \in Cmds : c # Cmd[t] => \A u \in OfCmd(c) : u \in Tx \ {t}
  BY DEF OfCmd
<1>7. reqBeat'[Cmd[t]] = NoBeat /\ reqId'[Cmd[t]] = NoId
  BY <1>1, <1>2
<1> SUFFICES ASSUME NEW c \in Cmds
             PROVE  /\ \A u \in OfCmd(c) : Asks(u)' =>
                         /\ reqBeat'[c] = IF LastBeat(u)' THEN "BEGIN_REQ"
                                          ELSE "BEGIN_PARTIAL_REQ"
                         /\ reqId'[c] = Id[u]
                    /\ (\A u \in OfCmd(c) : ~Asks(u)') =>
                         reqBeat'[c] = NoBeat /\ reqId'[c] = NoId
  BY DEF ReqChannelInv, OfCmd
<1>8. CASE c = Cmd[t]
  BY <1>4, <1>7, <1>8
<1>9. CASE c # Cmd[t]
  BY <1>3, <1>5, <1>6, <1>9, <1>1 DEF ReqChannelInv, AskSame
<1> QED
  BY <1>8, <1>9

LEMMA ResponseOpened ==
  ASSUME TypeOK, RespChannelInv, NEW t \in Tx, NEW p \in RespBegins, ResponseSeen(t, p)
  PROVE  RespChannelInv'
<1>1. /\ \A u \in Tx \ {t} : AnswerSame(u)
      /\ AnswersWith(t, p)' /\ \A u \in OfCmd(Cmd[t]) : ~Answers(u)
      /\ respBeat' = [respBeat EXCEPT ![Cmd[t]] = p]
      /\ respId' = [respId EXCEPT ![Cmd[t]] = Id[t]]
  BY DEF ResponseSeen
<1>2. /\ respBeat \in [Cmds -> RespBegins \union {NoBeat}] /\ Cmd[t] \in Cmds
      /\ respId \in [Cmds -> Ids \union {NoId}]
  BY ChannelAssumption DEF ChannelAssumption, TypeOK, CheckerTypeOK
<1>3. \A r \in RespBegins : AnswersWith(t, r)' => r = p
  BY <1>1 DEF AnswersWith, RespBegins
<1>4. \A u \in OfCmd(Cmd[t]) : \A r \in RespBegins : AnswersWith(u, r)' => u = t
  BY <1>1 DEF AnswerSame, Answers, OfCmd
<1>5. \A c \in Cmds :
        c # Cmd[t] => respBeat'[c] = respBeat[c] /\ respId'[c] = respId[c]
  BY <1>1, <1>2
<1>6. \A c \in Cmds : c # Cmd[t] => \A u \in OfCmd(c) : u \in Tx \ {t}
  BY DEF OfCmd
<1>7. respBeat'[Cmd[t]] = p /\ respId'[Cmd[t]] = Id[t] /\ t \in OfCmd(Cmd[t])
  BY <1>1, <1>2 DEF OfCmd
<1> SUFFICES ASSUME NEW c \in Cmds
             PROVE  /\ \A u \in OfCmd(c) : \A r \in RespBegins : AnswersWith(u, r)' =>
                         respBeat'[c] = r /\ respId'[c] = Id[u]
                    /\ (\A u \in OfCmd(c) : ~Answers(u)') =>
                         respBeat'[c] = NoBeat /\ respId'[c] = NoId
  BY DEF RespChannelInv, OfCmd
<1>8. CASE c = Cmd[t]
  BY <1>1, <1>3, <1>4, <1>7, <1>8 DEF Answers
<1>9. CASE c # Cmd[t]
  BY <1>5, <1>6, <1>9, <1>1 DEF RespChannelInv, AnswerSame, Answers
<1> QED
  BY <1>8, <1>9

LEMMA ResponseClosed ==
  ASSUME TypeOK, TokenInv, OwnerInv, RespChannelInv, NEW t \in Tx, ResponseEndSeen(t)
  PROVE  RespChannelInv'
<1>1. /\ \A u \in Tx \ {t} : AnswerSame(u)
      /\ Answers(t) /\ ~Answers(t)'
      /\ respBeat' = [respBeat EXCEPT ![Cmd[t]] = NoBeat]
      /\ respId' = [respId EXCEPT ![Cmd[t]] = NoId]
  BY DEF ResponseEndSeen
<1>2. /\ respBeat \in [Cmds -> RespBegins \union {NoBeat}] /\ Cmd[t] \in Cmds
      /\ respId \in [Cmds -> Ids \union {NoId}]
  BY ChannelAssumption DEF ChannelAssumption, TypeOK, CheckerTypeOK
<1>3. \A u \in OfCmd(Cmd[t]) : Answers(u) => u = t
  <2>1. t \in OnChannel(Cmd[t])
    BY <1>1, <1>2, AnswersOnChannel DEF OfCmd
  <2>2. \A u \in OnChannel(Cmd[t]) : u = t
    BY <1>2, <2>1 DEF OwnerInv
  <2> QED
    BY <1>2, <2>2, AnswersOnChannel
<1>4. \A u \in OfCmd(Cmd[t]) : ~Answers(u)'
  BY <1>1, <1>3 DEF AnswerSame, Answers, OfCmd
<1>5. \A c \in Cmds :
        c # Cmd[t] => respBeat'[c] = respBeat[c] /\ respId'[c] = respId[c]
  BY <1>1, <1>2
<1>6. \A c \in Cmds : c # Cmd[t] => \A u \in OfCmd(c) : u \in Tx \ {t}
  BY DEF OfCmd
<1>7. respBeat'[Cmd[t]] = NoBeat /\ respId'[Cmd[t]] = NoId
  BY <1>1, <1>2
<1> SUFFICES ASSUME NEW c \in Cmds
             PROVE  /\ \A u \in OfCmd(c) : \A r \in RespBegins : AnswersWith(u, r)' =>
                         respBeat'[c] = r /\ respId'[c] = Id[u]
                    /\ (\A u \in OfCmd(c) : ~Answers(u)') =>
                         respBeat'[c] = NoBeat /\ respId'[c] = NoId
  BY DEF RespChannelInv, OfCmd
<1>8. CASE c = Cmd[t]
  BY <1>4, <1>7, <1>8 DEF Answers
<1>9. CASE c # Cmd[t]
  BY <1>5, <1>6, <1>9, <1>1 DEF RespChannelInv, AnswerSame, Answers
<1> QED
  BY <1>8, <1>9

\* What the checker sees of a step of a state machine.
LEMMA FsmSeen ==
  ASSUME TypeOK, TokenInv, ReqChannelInv, Watch, UNCHANGED iniVars, NEW t \in Tx,
         FsmStep(t)
  PROVE  \/ Unseen /\ UNCHANGED bw
         \/ RequestEndSeen(t) /\ \E q, k : EndPartReqStep(t, q, k) \/ EndReqStep(t, q, k)
<1>1. CASE BeginStep(t) \/ DiscardStep(t) \/ EndPartRespStep(t) \/ EndRespStep(t)
           \/ AckStep(t)
  <2>1. UNCHANGED bw /\ fw[t] # << >> /\ fw' = Drop(fw, t)
    BY <1>1 DEF BeginStep, DiscardStep, EndPartRespStep, EndRespStep, AckStep,
       EndPartRespCb, EndRespCb, Quiet
  <2> QED
    BY <2>1, TargetUnseen
<1>2. ASSUME NEW tp, NEW q, NEW k, BegRespStep(t, tp, q, k)
      PROVE  Unseen /\ UNCHANGED bw
  <2>1. UNCHANGED <<fw, bw>>
    BY <1>2 DEF BegRespStep, BegRespCb
  <2> QED
    BY <2>1, TargetUnseen
<1>3. ASSUME NEW q, NEW k, EndPartReqStep(t, q, k) PROVE RequestEndSeen(t)
  <2>1. /\ fsm[t] = "PartialRequest" /\ bw' = Put(bw, t, "END_PARTIAL_REQ")
        /\ UNCHANGED fw /\ "END_PARTIAL_REQ" \in ReqEnds
    BY <1>3 DEF EndPartReqStep, EndPartReqCb, ReqEnds
  <2> QED
    BY <2>1, RequestEnds
<1>4. ASSUME NEW q, NEW k, EndReqStep(t, q, k) PROVE RequestEndSeen(t)
  <2>1. /\ fsm[t] = "Request" /\ bw' = Put(bw, t, "END_REQ")
        /\ UNCHANGED fw /\ "END_REQ" \in ReqEnds
    BY <1>4 DEF EndReqStep, EndReqCb, ReqEnds
  <2> QED
    BY <2>1, RequestEnds
<1> QED
  BY <1>1, <1>2, <1>3, <1>4 DEF FsmStep, DueStep

\* Of the threads only those that send response beats use the link.
LEMMA ThreadUnseen ==
  ASSUME TypeOK, Watch, UNCHANGED iniVars, ThreadStep,
         ~\E c \in Cmds : SendRespBeat(c)
  PROVE  Unseen /\ UNCHANGED bw
<1>1. UNCHANGED <<fw, bw>>
  BY DEF ThreadStep, ProcessReq2Resp, PushBackOverdue, StartRdRead, StartRdSem,
     StartRdBegin, StartWr, startRdRest, linkVars
<1>2. CASE Tx = {}
  <2>1. UNCHANGED checkerVars
    BY <1>1, <1>2 DEF Watch
  <2> QED
    BY <1>1, <1>2, <2>1 DEF Unseen
<1>3. ASSUME NEW t \in Tx PROVE Unseen
  BY <1>1, TargetUnseen
<1> QED
  BY <1>1, <1>2, <1>3

LEMMA ChannelNext ==
  ASSUME TypeOK, TokenInv, OwnerInv, ReqChannelInv, RespChannelInv, [Next]_vars
  PROVE  ReqChannelInv' /\ RespChannelInv'
<1>1. CASE Unseen \/ AckSeen
  <2>1. /\ UNCHANGED <<reqBeat, reqId, respBeat, respId>>
        /\ \A u \in Tx : AskSame(u) /\ AnswerSame(u)
    BY <1>1 DEF Unseen, AckSeen, checkerVars
  <2> QED
    BY <2>1, RequestKept, ResponseKept
<1>2. ASSUME NEW t \in Tx, NEW p, RequestSeen(t, p)
      PROVE  ReqChannelInv' /\ RespChannelInv'
  <2>1. UNCHANGED <<respBeat, respId>> /\ \A u \in Tx : AnswerSame(u)
    BY <1>2 DEF RequestSeen
  <2> QED
    BY <1>2, <2>1, RequestOpened, ResponseKept
<1>3. ASSUME NEW t \in Tx, RequestEndSeen(t)
      PROVE  ReqChannelInv' /\ RespChannelInv'
  <2>1. UNCHANGED <<respBeat, respId>> /\ \A u \in Tx : AnswerSame(u)
    BY <1>3 DEF RequestEndSeen
  <2> QED
    BY <1>3, <2>1, RequestClosed, ResponseKept
<1>4. ASSUME NEW t \in Tx, NEW p \in RespBegins, ResponseSeen(t, p)
      PROVE  ReqChannelInv' /\ RespChannelInv'
  <2>1. UNCHANGED <<reqBeat, reqId>> /\ \A u \in Tx : AskSame(u)
    BY <1>4 DEF ResponseSeen
  <2> QED
    BY <1>4, <2>1, ResponseOpened, RequestKept
<1>5. ASSUME NEW t \in Tx, ResponseEndSeen(t)
      PROVE  ReqChannelInv' /\ RespChannelInv'
  <2>1. UNCHANGED <<reqBeat, reqId>> /\ \A u \in Tx : AskSame(u)
    BY <1>5 DEF ResponseEndSeen
  <2> QED
    BY <1>5, <2>1, ResponseClosed, RequestKept
<1>6. CASE UNCHANGED vars
  <2>1. Unseen
    BY <1>6 DEF Unseen, vars, linkVars, iniVars, AskSame, AnswerSame, Asks, AnswersWith
  <2> QED
    BY <1>1, <2>1
<1>7. CASE IniNext /\ Watch
  <2>1. PICK t \in Tx :
          \/ Transport(t) \/ GetId(t) \/ SendRequest(t) \/ BeatAccepted(t)
          \/ RequestAccepted(t) \/ ResponseBeat(t) \/ SendAck(t) \/ Finish(t)
    BY <1>7 DEF IniNext
  <2> QED
    BY <1>1, <1>2, <1>5, <1>7, <2>1, CallUnseen, SendRequestSeen, ResponseBeatSeen,
       SendAckSeen
<1>8. CASE TgtNext /\ UNCHANGED iniVars /\ Watch
  <2>1. ASSUME NEW t \in Tx, FsmStep(t) PROVE ReqChannelInv' /\ RespChannelInv'
    BY <1>1, <1>3, <1>8, <2>1, FsmSeen
  <2>2. ASSUME NEW c \in Cmds, SendRespBeat(c) PROVE ReqChannelInv' /\ RespChannelInv'
    BY <1>4, <1>8, <2>2, SendRespBeatSeen
  <2>3. CASE ThreadStep /\ ~\E c \in Cmds : SendRespBeat(c)
    BY <1>1, <1>8, <2>3, ThreadUnseen
  <2> QED
    BY <1>8, <2>1, <2>2, <2>3, TgtCases
<1> QED
  BY <1>6, <1>7, <1>8 DEF Next

-----------------------------------------------------------------------------
(* The order of the transactions.                                          *)

\* Two transactions whose responses the checker keeps in order.
Rivals(t, u) == t # u /\ Cmd[t] = Cmd[u] /\ Id[t] = Id[u]

LEMMA PlaceNumbers == \A t : Place(t) \in 0..5
BY DEF Place

\* A transaction that waits for its response or sends it does not ask.
LEMMA NotAsking ==
  ASSUME TokenInv, NEW t \in Tx,
         fsm[t] \in {"WaitForResponse", "PartialResponse", "ReadIdle", "Response"}
  PROVE  ~Asks(t)
<1>1. LinkOK(t)
  BY DEF TokenInv, LinkInv
<1> QED
  BY <1>1 DEF LinkOK, Asks, RestStates

LEMMA PlaceFrame ==
  ASSUME NEW u \in Tx, AskSame(u), fsm'[u] = fsm[u],
         fsm[u] = "WaitForResponse" =>
           /\ u \in Range(req2resp'[Cmd[u]]) <=> u \in Range(req2resp[Cmd[u]])
           /\ u \in Range(respFifo'[Cmd[u]]) <=> u \in Range(respFifo[Cmd[u]])
           /\ rdStart'.tx = u <=> rdStart.tx = u,
         NotQueued(u, Cmd[u])' <=> NotQueued(u, Cmd[u])
  PROVE  Place(u)' = Place(u)
<1>1. Asks(u)' <=> Asks(u)
  BY DEF AskSame
<1>2. Asks(u) => (LastBeat(u)' <=> LastBeat(u))
  BY DEF AskSame, LastBeat
<1>3. (Responding(u) /\ ~Sent(u))' <=> Responding(u) /\ ~Sent(u)
  BY DEF Responding, Sent
<1> QED
  BY <1>1, <1>2, <1>3 DEF Place

\* The order of the places decides who is ahead, and the lines at each of them.
LEMMA InOrderKept ==
  ASSUME NEW c, NEW i, NEW s \in Seq(Tx), InOrder(s, c, i),
         \A u \in Tx : Cmd[u] = c /\ Id[u] = i => (Place(u)' = 0 <=> Place(u) = 0),
         \A u, v \in Tx : /\ Rivals(u, v) /\ Cmd[u] = c /\ Id[u] = i
                          /\ Place(u) # 0 /\ Place(v) # 0 /\ Ahead(u, v)
                          => Ahead(u, v)'
  PROVE  InOrder(s, c, i)'
<1>1. /\ IsInjective(s)
      /\ Range(s) = {t \in OfCmd(c) : Id[t] = i /\ Place(t) # 0}
      /\ \A j, k \in DOMAIN s : j < k => Ahead(s[j], s[k])
  BY DEF InOrder
<1>2. Range(s) = {t \in OfCmd(c) : Id[t] = i /\ Place(t)' # 0}
  BY <1>1 DEF OfCmd
<1>3. ASSUME NEW j \in DOMAIN s, NEW k \in DOMAIN s, j < k
      PROVE  Ahead(s[j], s[k])'
  <2>1. s[j] \in Range(s) /\ s[k] \in Range(s) /\ s[j] # s[k]
    BY <1>1, <1>3 DEF Range, IsInjective
  <2>2. PICK u \in Tx, v \in Tx : u = s[j] /\ v = s[k]
    BY <1>1, <2>1 DEF OfCmd
  <2>3. /\ Rivals(u, v) /\ Cmd[u] = c /\ Id[u] = i
        /\ Place(u) # 0 /\ Place(v) # 0 /\ Ahead(u, v)
    BY <1>1, <1>3, <2>1, <2>2 DEF Rivals, OfCmd
  <2>4. Ahead(u, v)'
    BY <2>3
  <2> QED
    BY <2>2, <2>4
<1>4. \A j, k \in DOMAIN s : j < k => Ahead(s[j], s[k])'
  BY <1>3
<1> QED
  BY <1>1, <1>2, <1>4 DEF InOrder, OfCmd

LEMMA InOrderAppend ==
  ASSUME NEW t \in Tx, NEW s \in Seq(Tx), InOrder(s, Cmd[t], Id[t]),
         NEW r \in Seq(Tx), r = Append(s, t), Place(t) = 0, Place(t)' = 1,
         \A u \in Tx : Rivals(u, t) =>
           /\ Place(u)' = 0 <=> Place(u) = 0
           /\ Place(u) # 0 => Place(u)' > 1,
         \A u, v \in Tx \ {t} :
           /\ Rivals(u, v) /\ Cmd[u] = Cmd[t] /\ Id[u] = Id[t] /\ Ahead(u, v)
           => Ahead(u, v)'
  PROVE  InOrder(r, Cmd[t], Id[t])'
<1> DEFINE c == Cmd[t]
           i == Id[t]
<1>1. /\ IsInjective(s)
      /\ Range(s) = {u \in OfCmd(c) : Id[u] = i /\ Place(u) # 0}
      /\ \A j, k \in DOMAIN s : j < k => Ahead(s[j], s[k])
  BY DEF InOrder
<1>2. \A j, k \in DOMAIN r : j < k =>
        /\ j \in DOMAIN s /\ r[j] = s[j]
        /\ \/ k \in DOMAIN s /\ r[k] = s[k]
           \/ r[k] = t
  <2>1. \A j, k \in DOMAIN Append(s, t) : j < k =>
          /\ j \in DOMAIN s /\ Append(s, t)[j] = s[j]
          /\ \/ k \in DOMAIN s /\ Append(s, t)[k] = s[k]
             \/ Append(s, t)[k] = t
    BY AppendElements, SMTT(20)
  <2> QED
    BY <2>1
<1>3. t \notin Range(s)
  BY <1>1
<1>4. IsInjective(r) /\ Range(r) = Range(s) \union {t}
  <2>1. IsInjective(Append(s, t)) /\ Range(Append(s, t)) = Range(s) \union {t}
    BY <1>1, <1>3, InjectiveAppend, RangeAppend, SMTT(20)
  <2> QED
    BY <2>1
<1>5. Range(r) = {u \in OfCmd(c) : Id[u] = i /\ Place(u)' # 0}
  <2>1. ASSUME NEW u \in Tx, Cmd[u] = c, Id[u] = i
        PROVE  u \in Range(r) <=> Place(u)' # 0
    BY <1>1, <1>3, <1>4, <2>1 DEF OfCmd, Rivals
  <2> QED
    BY <1>1, <1>4, <2>1 DEF OfCmd
<1>6. \A j \in DOMAIN s : s[j] \in Range(s)
  BY DEF Range
<1>7. ASSUME NEW j \in DOMAIN r, NEW k \in DOMAIN r, j < k
      PROVE  Ahead(r[j], r[k])'
  <2>1. j \in DOMAIN s /\ r[j] = s[j]
    BY <1>2, <1>7
  <2>2. PICK u \in Tx : u = s[j] /\ Cmd[u] = c /\ Id[u] = i /\ Place(u) # 0
    BY <1>1, <1>6, <2>1 DEF OfCmd
  <2>3. u # t
    BY <2>2
  <2>4. CASE k \in DOMAIN s /\ r[k] = s[k]
    <3>1. PICK v \in Tx : v = s[k] /\ Cmd[v] = c /\ Id[v] = i /\ Place(v) # 0
      BY <1>1, <1>6, <2>4 DEF OfCmd
    <3>2. v # t /\ u # v
      BY <1>1, <1>7, <2>1, <2>2, <2>4, <3>1 DEF IsInjective
    <3>3. Rivals(u, v) /\ Ahead(u, v)
      BY <1>1, <1>7, <2>1, <2>2, <2>4, <3>1, <3>2 DEF Rivals
    <3>4. Ahead(u, v)'
      BY <2>2, <2>3, <3>2, <3>3
    <3> QED
      BY <2>1, <2>2, <2>4, <3>1, <3>4
  <2>5. CASE r[k] = t
    <3>1. Ahead(u, t)'
      BY <2>2, <2>3 DEF Rivals, Ahead
    <3> QED
      BY <2>1, <2>2, <2>5, <3>1
  <2> QED
    BY <1>2, <1>7, <2>4, <2>5
<1>8. \A j, k \in DOMAIN r : j < k => Ahead(r[j], r[k])'
  BY <1>7
<1> QED
  BY <1>4, <1>5, <1>8 DEF InOrder, OfCmd

LEMMA InOrderTail ==
  ASSUME NEW t \in Tx, NEW s \in Seq(Tx), InOrder(s, Cmd[t], Id[t]),
         s # << >>, Head(s) = t, NEW r \in Seq(Tx), r = Tail(s), Place(t)' = 0,
         \A u \in Tx : Rivals(u, t) => (Place(u)' = 0 <=> Place(u) = 0),
         \A u, v \in Tx \ {t} :
           /\ Rivals(u, v) /\ Cmd[u] = Cmd[t] /\ Id[u] = Id[t] /\ Ahead(u, v)
           => Ahead(u, v)'
  PROVE  InOrder(r, Cmd[t], Id[t])'
<1> DEFINE c == Cmd[t]
           i == Id[t]
<1>1. /\ IsInjective(s)
      /\ Range(s) = {u \in OfCmd(c) : Id[u] = i /\ Place(u) # 0}
      /\ \A j, k \in DOMAIN s : j < k => Ahead(s[j], s[k])
  BY DEF InOrder
<1>2. \A j \in DOMAIN r : j \in Int /\ j + 1 \in DOMAIN s /\ r[j] = s[j + 1]
  <2>1. \A j \in DOMAIN Tail(s) :
          j \in Int /\ j + 1 \in DOMAIN s /\ Tail(s)[j] = s[j + 1]
    BY TailElements, ZenonT(30)
  <2> QED
    BY <2>1
<1>3. /\ IsInjective(r) /\ t \notin Range(r) /\ Range(r) \subseteq Range(s)
      /\ \A d \in Range(s) : d = t \/ d \in Range(r)
  BY <1>1, <1>2, InjectiveTail, RangeTail, RangeHeadTail
<1>4. Range(r) = {u \in OfCmd(c) : Id[u] = i /\ Place(u)' # 0}
  <2>1. ASSUME NEW u \in Tx, Cmd[u] = c, Id[u] = i
        PROVE  u \in Range(r) <=> Place(u)' # 0
    BY <1>1, <1>3, <2>1 DEF OfCmd, Rivals
  <2> QED
    BY <1>1, <1>3, <2>1 DEF OfCmd
<1>5. \A j \in DOMAIN r : /\ j \in Int /\ j + 1 \in DOMAIN s /\ r[j] = s[j + 1]
                         /\ r[j] \in Range(r)
  <2>1. \A j \in DOMAIN r : j \in Int /\ j + 1 \in DOMAIN s /\ r[j] = s[j + 1]
    BY <1>2
  <2> QED
    BY <2>1 DEF Range
<1>6. ASSUME NEW j \in DOMAIN r, NEW k \in DOMAIN r, j < k
      PROVE  Ahead(r[j], r[k])'
  <2>1. PICK u \in Tx, v \in Tx :
          /\ u = r[j] /\ Cmd[u] = c /\ Id[u] = i /\ u # t
          /\ v = r[k] /\ Cmd[v] = c /\ Id[v] = i /\ v # t
    BY <1>3, <1>4, <1>5 DEF OfCmd
  <2>2. j + 1 < k + 1 /\ j # k
    BY <1>5, <1>6
  <2>3. Ahead(u, v)
    BY <1>1, <1>5, <2>1, <2>2
  <2>4. Rivals(u, v)
    BY <1>3, <2>1, <2>2 DEF Rivals, IsInjective
  <2>5. Ahead(u, v)'
    BY <2>1, <2>3, <2>4
  <2> QED
    BY <2>1, <2>5
<1>7. \A j, k \in DOMAIN r : j < k => Ahead(r[j], r[k])'
  BY <1>6
<1> QED
  BY <1>3, <1>4, <1>7 DEF InOrder, OfCmd

LEMMA OrderFrame ==
  ASSUME TypeOK, OrderInv, UNCHANGED openTx,
         \A u \in Tx : Place(u)' = 0 <=> Place(u) = 0,
         \A u, v \in Tx : Rivals(u, v) /\ Ahead(u, v) => Ahead(u, v)'
  PROVE  OrderInv'
<1>1. ASSUME NEW c \in Cmds, NEW i \in Ids
      PROVE  \E s \in Seq(Tx) : s = openTx'[c][i] /\ InOrder(s, c, i)'
  <2>1. PICK s \in Seq(Tx) : s = openTx[c][i]
    BY DEF TypeOK, CheckerTypeOK
  <2>2. InOrder(s, c, i)
    BY <2>1 DEF OrderInv
  <2>3. InOrder(s, c, i)'
    BY <2>2, InOrderKept
  <2> QED
    BY <2>1, <2>3
<1> QED
  BY <1>1 DEF OrderInv

\* No transaction changes its place.
LEMMA OrderKept ==
  ASSUME TypeOK, OrderInv, UNCHANGED openTx, \A u \in Tx : Place(u)' = Place(u),
         \A u, v \in Tx : Rivals(u, v) /\ InLine(u, v) => InLine(u, v)'
  PROVE  OrderInv'
<1>1. \A u, v \in Tx : Rivals(u, v) /\ Ahead(u, v) => Ahead(u, v)'
  BY DEF Ahead
<1> QED
  BY <1>1, OrderFrame

\* A transaction goes on to the next place, last in line there; it was the first
\* in line before.
LEMMA OrderMoves ==
  ASSUME TypeOK, OrderInv, UNCHANGED openTx, NEW t \in Tx,
         Place(t) # 0, Place(t)' = Place(t) + 1,
         \A u \in Tx \ {t} : Place(u)' = Place(u),
         \A u, v \in Tx \ {t} : Rivals(u, v) /\ InLine(u, v) => InLine(u, v)',
         \A u \in Tx : Rivals(u, t) =>
           /\ Place(u) = Place(t) => ~InLine(u, t)
           /\ Place(u) = Place(t) + 1 => InLine(u, t)'
  PROVE  OrderInv'
<1>1. \A u \in Tx : Place(u) \in Int /\ Place(u)' \in Int
  BY PlaceNumbers
<1>2. \A u \in Tx : Place(u)' = 0 <=> Place(u) = 0
  <2>1. Place(t) \in 0..5
    BY PlaceNumbers
  <2> QED
    BY <2>1
<1>3. ASSUME NEW u \in Tx, NEW v \in Tx, Rivals(u, v), Ahead(u, v)
      PROVE  Ahead(u, v)'
  <2>1. u # v
    BY <1>3 DEF Rivals
  <2>2. CASE u # t /\ v # t
    BY <1>3, <2>2 DEF Ahead
  <2>3. CASE u = t
    <3>1. Place(u) >= Place(v)
      BY <1>1, <1>3 DEF Ahead
    <3>2. Place(u)' > Place(v)'
      BY <1>1, <2>1, <2>3, <3>1
    <3> QED
      BY <3>2 DEF Ahead
  <2>4. CASE v = t
    <3>1. Place(u)' = Place(u)
      BY <2>1, <2>4
    <3>2. Place(u) > Place(t)
      BY <1>3, <2>4 DEF Ahead
    <3>3. Place(u) > Place(t)' \/ (Place(u) = Place(t)' /\ InLine(u, t)')
      BY <1>1, <1>3, <2>4, <3>2
    <3> QED
      BY <2>4, <3>1, <3>3 DEF Ahead
  <2> QED
    BY <2>2, <2>3, <2>4
<1> QED
  BY <1>2, <1>3, OrderFrame

\* The request of t is announced, and no other one of its command is.
LEMMA OrderJoined ==
  ASSUME TypeOK, OrderInv, NEW t \in Tx, Place(t) = 0, Place(t)' = 1,
         openTx' = [openTx EXCEPT ![Cmd[t]][Id[t]] = Append(@, t)],
         \A u \in Tx \ {t} : Place(u)' = Place(u),
         \A u, v \in Tx \ {t} : Rivals(u, v) /\ InLine(u, v) => InLine(u, v)',
         \A u \in Tx : Rivals(u, t) => Place(u) # 1
  PROVE  OrderInv'
<1>1. Cmd[t] \in Cmds /\ Id[t] \in Ids /\ openTx \in [Cmds -> [Ids -> Seq(Tx)]]
  BY ChannelAssumption DEF ChannelAssumption, TypeOK, CheckerTypeOK
<1>2. \A u, v \in Tx \ {t} : Rivals(u, v) /\ Ahead(u, v) => Ahead(u, v)'
  BY DEF Ahead
<1>3. \A u \in Tx : Rivals(u, t) =>
        /\ Place(u)' = 0 <=> Place(u) = 0
        /\ Place(u) # 0 => Place(u)' > 1
  BY PlaceNumbers DEF Rivals
<1>4. ASSUME NEW c \in Cmds, NEW i \in Ids
      PROVE  \E s \in Seq(Tx) : s = openTx'[c][i] /\ InOrder(s, c, i)'
  <2>1. PICK s \in Seq(Tx) : s = openTx[c][i]
    BY <1>1
  <2>2. InOrder(s, c, i)
    BY <2>1 DEF OrderInv
  <2>3. CASE c = Cmd[t] /\ i = Id[t]
    <3>1. Append(s, t) \in Seq(Tx)
      BY AppendElements, ZenonT(30)
    <3>2. openTx'[c][i] = Append(s, t)
      BY <1>1, <2>1, <2>3
    <3>3. PICK r \in Seq(Tx) : r = Append(s, t)
      BY <3>1
    <3>4. InOrder(s, Cmd[t], Id[t])
      BY <2>2, <2>3
    <3>5. \A u, v \in Tx \ {t} :
            /\ Rivals(u, v) /\ Cmd[u] = Cmd[t] /\ Id[u] = Id[t] /\ Ahead(u, v)
            => Ahead(u, v)'
      BY <1>2
    <3>6. InOrder(r, Cmd[t], Id[t])'
      BY <1>3, <3>3, <3>4, <3>5, InOrderAppend, ZenonT(30)
    <3> QED
      BY <2>3, <3>2, <3>3, <3>6
  <2>4. CASE ~(c = Cmd[t] /\ i = Id[t])
    <3>1. openTx'[c][i] = s
      BY <1>1, <2>1, <2>4
    <3>2. InOrder(s, c, i)'
      BY <1>2, <2>2, <2>4, InOrderKept DEF Rivals
    <3> QED
      BY <3>1, <3>2
  <2> QED
    BY <2>3, <2>4
<1> QED
  BY <1>4 DEF OrderInv

\* A transaction that no other one is ahead of is the oldest one.
LEMMA OldestFirst ==
  ASSUME TypeOK, OrderInv, NEW t \in Tx, Place(t) # 0,
         \A u \in Tx : Rivals(u, t) => ~Ahead(u, t)
  PROVE  openTx[Cmd[t]][Id[t]] # << >> /\ Head(openTx[Cmd[t]][Id[t]]) = t
<1>1. Cmd[t] \in Cmds /\ Id[t] \in Ids
  BY ChannelAssumption DEF ChannelAssumption
<1>2. PICK s \in Seq(Tx) : s = openTx[Cmd[t]][Id[t]]
  BY <1>1 DEF TypeOK, CheckerTypeOK
<1>3. InOrder(s, Cmd[t], Id[t])
  BY <1>1, <1>2 DEF OrderInv
<1>4. /\ IsInjective(s)
      /\ Range(s) = {u \in OfCmd(Cmd[t]) : Id[u] = Id[t] /\ Place(u) # 0}
      /\ \A j, k \in DOMAIN s : j < k => Ahead(s[j], s[k])
  BY <1>3 DEF InOrder
<1>5. PICK k \in DOMAIN s : s[k] = t
  <2>1. t \in Range(s)
    BY <1>4 DEF OfCmd
  <2> QED
    BY <2>1 DEF Range
<1>6. /\ DOMAIN s = 1..Len(s) /\ Len(s) \in Nat /\ k >= 1
      /\ 1 \in DOMAIN s /\ s # << >> /\ Head(s) = s[1]
  BY <1>5
<1>7. s[1] = t
  <2>1. SUFFICES ASSUME k # 1 PROVE FALSE
    BY <1>5
  <2>2. s[1] \in Range(s)
    BY <1>6 DEF Range
  <2>3. s[1] # t
    BY <1>4, <1>5, <1>6, <2>1 DEF IsInjective
  <2>4. PICK u \in Tx : u = s[1]
    BY <1>6
  <2>5. 1 < k
    BY <1>6, <2>1
  <2>6. Rivals(u, t) /\ Ahead(u, t)
    BY <1>4, <1>5, <1>6, <2>2, <2>3, <2>4, <2>5 DEF Rivals, OfCmd
  <2> QED
    BY <2>6
<1> QED
  BY <1>2, <1>6, <1>7

\* The oldest transaction leaves.
LEMMA OrderLeft ==
  ASSUME TypeOK, OrderInv, NEW t \in Tx, Place(t)' = 0,
         openTx[Cmd[t]][Id[t]] # << >>, Head(openTx[Cmd[t]][Id[t]]) = t,
         openTx' = [openTx EXCEPT ![Cmd[t]][Id[t]] = Tail(@)],
         \A u \in Tx \ {t} : Place(u)' = Place(u),
         \A u, v \in Tx \ {t} : Rivals(u, v) /\ InLine(u, v) => InLine(u, v)'
  PROVE  OrderInv'
<1>1. Cmd[t] \in Cmds /\ Id[t] \in Ids /\ openTx \in [Cmds -> [Ids -> Seq(Tx)]]
  BY ChannelAssumption DEF ChannelAssumption, TypeOK, CheckerTypeOK
<1>2. \A u, v \in Tx \ {t} : Rivals(u, v) /\ Ahead(u, v) => Ahead(u, v)'
  BY DEF Ahead
<1>3. ASSUME NEW c \in Cmds, NEW i \in Ids
      PROVE  \E s \in Seq(Tx) : s = openTx'[c][i] /\ InOrder(s, c, i)'
  <2>1. PICK s \in Seq(Tx) : s = openTx[c][i]
    BY <1>1
  <2>2. InOrder(s, c, i)
    BY <2>1 DEF OrderInv
  <2>3. CASE c = Cmd[t] /\ i = Id[t]
    <3>1. s # << >> /\ Head(s) = t
      BY <2>1, <2>3
    <3>2. Tail(s) \in Seq(Tx)
      BY <3>1, TailElements, ZenonT(30)
    <3>3. openTx'[c][i] = Tail(s)
      BY <1>1, <2>1, <2>3
    <3>4. PICK r \in Seq(Tx) : r = Tail(s)
      BY <3>2
    <3>5. InOrder(s, Cmd[t], Id[t])
      BY <2>2, <2>3
    <3>6. \A u \in Tx : Rivals(u, t) => (Place(u)' = 0 <=> Place(u) = 0)
      BY DEF Rivals
    <3>7. \A u, v \in Tx \ {t} :
            /\ Rivals(u, v) /\ Cmd[u] = Cmd[t] /\ Id[u] = Id[t] /\ Ahead(u, v)
            => Ahead(u, v)'
      BY <1>2
    <3>8. InOrder(r, Cmd[t], Id[t])'
      BY <3>1, <3>4, <3>5, <3>6, <3>7, InOrderTail, ZenonT(30)
    <3> QED
      BY <2>3, <3>3, <3>4, <3>8
  <2>4. CASE ~(c = Cmd[t] /\ i = Id[t])
    <3>1. openTx'[c][i] = s
      BY <1>1, <2>1, <2>4
    <3>2. InOrder(s, c, i)'
      BY <1>2, <2>2, <2>4, InOrderKept DEF Rivals
    <3> QED
      BY <3>1, <3>2
  <2> QED
    BY <2>3, <2>4
<1> QED
  BY <1>3 DEF OrderInv

\* The lines only depend on the queues.
LEMMA InLineKept ==
  ASSUME NEW u, NEW v, Place(u)' = Place(u),
         Precedes(req2resp[Cmd[u]], u, v) => Precedes(req2resp'[Cmd[u]], u, v),
         Cmd[u] = "wr" /\ PrecedesTx(evq, u, v) => PrecedesTx(evq', u, v),
         Cmd[u] = "wr" /\ PrecedesTx(beatFifo["wr"], u, v) =>
           PrecedesTx(beatFifo'["wr"], u, v)
  PROVE  InLine(u, v) => InLine(u, v)'
BY DEF InLine, Precedes, PrecedesTx

\* A step that moves nothing.
LEMMA OrderUnmoved ==
  ASSUME TypeOK, OrderInv, UNCHANGED <<openTx, fsm, req2resp, respFifo, evq, beatFifo>>,
         rdStart'.tx = rdStart.tx, \A u \in Tx : AskSame(u)
  PROVE  OrderInv'
<1>1. ASSUME NEW u \in Tx PROVE Place(u)' = Place(u)
  BY <1>1, PlaceFrame DEF NotQueued
<1>2. \A u, v \in Tx : InLine(u, v) => InLine(u, v)'
  BY <1>1 DEF InLine
<1> QED
  BY <1>1, <1>2, OrderKept

\* A request is announced.
LEMMA OrderRequest ==
  ASSUME TypeOK, TokenInv, OrderInv, NoneOutOfOrder, NEW t \in Tx, NEW p \in ReqBegins,
         RequestSeen(t, p), UNCHANGED tgtVars, ini[t] = "chnl"
  PROVE  OrderInv' /\ NoneOutOfOrder'
<1>1. \A u \in Tx : /\ fsm'[u] = fsm[u]
                    /\ NotQueued(u, Cmd[u])' <=> NotQueued(u, Cmd[u])
  BY DEF tgtVars, NotQueued
<1>2. UNCHANGED <<req2resp, respFifo, rdStart, evq, beatFifo>>
  BY DEF tgtVars
<1>3. ASSUME NEW u \in Tx \ {t} PROVE Place(u)' = Place(u)
  <2>1. AskSame(u)
    BY <1>3 DEF RequestSeen
  <2> QED
    BY <1>1, <1>2, <2>1, PlaceFrame
<1>4. Place(t) = 0
  <2>1. fsm[t] \in RestStates
    BY DEF TokenInv, LinkInv, LinkOK
  <2> QED
    BY <2>1 DEF Place, Asks, Responding, RestStates
<1>5. Place(t)' = IF p = "BEGIN_REQ" THEN 1 ELSE 0
  <2>1. fsm'[t] \in RestStates
    BY <1>1 DEF TokenInv, LinkInv, LinkOK
  <2>2. Asks(t)' /\ (LastBeat(t)' <=> p = "BEGIN_REQ")
    BY DEF RequestSeen, LastBeat, ReqBegins
  <2> QED
    BY <2>1, <2>2 DEF Place, Responding, RestStates
<1>6. \A u, v \in Tx \ {t} : InLine(u, v) => InLine(u, v)'
  BY <1>2, <1>3 DEF InLine
<1>7. OrderInv'
  <2>1. CASE p = "BEGIN_REQ"
    <3>1. openTx' = [openTx EXCEPT ![Cmd[t]][Id[t]] = Append(@, t)]
      BY <2>1 DEF RequestSeen
    <3>2. \A u \in Tx : Rivals(u, t) => Place(u) # 1
      BY DEF RequestSeen, Rivals, Place, OfCmd
    <3>3. Place(t)' = 1
      BY <1>5, <2>1
    <3> QED
      BY <1>3, <1>4, <1>6, <3>1, <3>2, <3>3, OrderJoined
  <2>2. CASE p # "BEGIN_REQ"
    <3>1. UNCHANGED openTx
      BY <2>2 DEF RequestSeen
    <3>2. \A u \in Tx : Place(u)' = Place(u)
      BY <1>3, <1>4, <1>5, <2>2
    <3>3. \A u, v \in Tx : InLine(u, v) => InLine(u, v)'
      BY <1>2, <3>2 DEF InLine
    <3> QED
      BY <3>1, <3>2, <3>3, OrderKept
  <2> QED
    BY <2>1, <2>2
<1>8. NoneOutOfOrder'
  BY DEF RequestSeen, NoneOutOfOrder, If
<1> QED
  BY <1>7, <1>8

\* The steps of the initiator.
LEMMA OrderIni ==
  ASSUME TypeOK, TokenInv, ReqChannelInv, RespChannelInv, OrderInv, NoneOutOfOrder,
         IniNext, UNCHANGED tgtVars, Watch
  PROVE  OrderInv' /\ NoneOutOfOrder'
<1>1. /\ UNCHANGED <<fsm, req2resp, respFifo, evq, beatFifo>>
      /\ rdStart'.tx = rdStart.tx
  BY DEF tgtVars
<1>2. PICK t \in Tx :
        \/ Transport(t) \/ GetId(t) \/ SendRequest(t) \/ BeatAccepted(t)
        \/ RequestAccepted(t) \/ ResponseBeat(t) \/ SendAck(t) \/ Finish(t)
  BY DEF IniNext
<1>3. CASE Unseen \/ AckSeen \/ ResponseEndSeen(t)
  <2>1. UNCHANGED openTx /\ \A u \in Tx : AskSame(u)
    BY <1>3 DEF Unseen, AckSeen, ResponseEndSeen, checkerVars
  <2>2. complaints' \subseteq complaints \union {"phase"}
    BY <1>3 DEF Unseen, AckSeen, ResponseEndSeen, checkerVars
  <2>3. NoneOutOfOrder'
    BY <2>2 DEF NoneOutOfOrder
  <2> QED
    BY <1>1, <2>1, <2>3, OrderUnmoved
<1>4. CASE SendRequest(t)
  <2>1. PICK p \in ReqBegins : RequestSeen(t, p)
    BY <1>4, SendRequestSeen
  <2>2. ini[t] = "chnl"
    BY <1>4 DEF SendRequest, Goto
  <2> QED
    BY <2>1, <2>2, OrderRequest
<1> QED
  BY <1>2, <1>3, <1>4, CallUnseen, ResponseBeatSeen, SendAckSeen

\* Only the beginning of a response beat enters the queue of response beats.
LEMMA FsmBeats ==
  ASSUME TypeOK, TokenInv, LimitInv, RoomForBeats, NEW t \in Tx, FsmStep(t)
  PROVE  IF \E tp, q, k : BegRespStep(t, tp, q, k)
           THEN \E tp \in TimePoints : beatFifo' =
                  [beatFifo EXCEPT ![Cmd[t]] = Append(@, [tp |-> tp, tx |-> t])]
           ELSE UNCHANGED beatFifo
<1>1. ASSUME NEW tp, NEW q, NEW k, BegRespStep(t, tp, q, k)
      PROVE  /\ tp \in TimePoints
             /\ beatFifo' =
                  [beatFifo EXCEPT ![Cmd[t]] = Append(@, [tp |-> tp, tx |-> t])]
  <2>1. Len(beatFifo[Cmd[t]]) < BeatFifoSize
    BY <1>1, RoomToRespond
  <2>2. ~(Len(beatFifo[Cmd[t]]) >= BeatFifoSize)
    <3>1. Len(beatFifo[Cmd[t]]) \in Int /\ BeatFifoSize \in Int
      BY ChannelAssumption, TargetAssumption
      DEF ChannelAssumption, TargetAssumption, TypeOK, TgtTypeOK
    <3> QED
      BY <2>1, <3>1
  <2>3. tp \in TimePoints
    BY <1>1 DEF BegRespStep, DueIn, TimePoints
  <2> QED
    BY <1>1, <2>2, <2>3 DEF BegRespStep, BegRespCb
<1>2. CASE ~\E tp, q, k : BegRespStep(t, tp, q, k)
  <2>1. UNCHANGED beatFifo
    BY <1>2 DEF FsmStep, DueStep, BeginStep, DiscardStep, EndPartReqStep, EndReqStep,
       EndPartRespStep, EndRespStep, AckStep, EndPartReqCb, EndReqCb, EndPartRespCb,
       EndRespCb, Quiet
  <2> QED
    BY <1>2, <2>1
<1> QED
  BY <1>1, <1>2

\* The response beats of the others stay where they are in the queues.
LEMMA FsmQueued ==
  ASSUME TypeOK, TokenInv, LimitInv, RoomForBeats, NEW t \in Tx, FsmStep(t),
         NEW c \in Cmds
  PROVE  /\ \A u \in Tx \ {t} : NotQueued(u, c)' <=> NotQueued(u, c)
         /\ \A u, v \in Tx :
              PrecedesTx(beatFifo[c], u, v) => PrecedesTx(beatFifo'[c], u, v)
<1>0. beatFifo \in [Cmds -> Seq(Scheduled)] /\ Cmd[t] \in Cmds
  BY ChannelAssumption DEF ChannelAssumption, TypeOK, TgtTypeOK
<1>1. CASE UNCHANGED beatFifo
  BY <1>1 DEF NotQueued
<1>2. ASSUME NEW tp \in TimePoints,
             beatFifo' =
               [beatFifo EXCEPT ![Cmd[t]] = Append(@, [tp |-> tp, tx |-> t])]
      PROVE  /\ \A u \in Tx \ {t} : NotQueued(u, c)' <=> NotQueued(u, c)
             /\ \A u, v \in Tx :
                  PrecedesTx(beatFifo[c], u, v) => PrecedesTx(beatFifo'[c], u, v)
  <2>1. PICK e \in Scheduled : e = [tp |-> tp, tx |-> t]
    BY DEF Scheduled
  <2>2. PICK s \in Seq(Scheduled) : s = beatFifo[Cmd[t]]
    BY <1>0
  <2>3. Range(Append(s, e)) = Range(s) \union {e}
    BY RangeAppend
  <2>4. \A u, v : PrecedesTx(s, u, v) => PrecedesTx(Append(s, e), u, v)
    BY PrecedesTxAppend, ZenonT(30)
  <2>5. beatFifo'[c] = IF c = Cmd[t] THEN Append(s, e) ELSE beatFifo[c]
    BY <1>0, <1>2, <2>1, <2>2
  <2>6. e.tx = t
    BY <2>1
  <2> QED
    BY <2>2, <2>3, <2>4, <2>5, <2>6 DEF NotQueued
<1> QED
  BY <1>1, <1>2, FsmBeats

\* A step of the state machine of t leaves the others where they are.
LEMMA FsmOthers ==
  ASSUME TypeOK, TokenInv, LimitInv, RoomForBeats, NEW t \in Tx, FsmStep(t),
         \A u \in Tx \ {t} : AskSame(u)
  PROVE  /\ \A u \in Tx \ {t} : Place(u)' = Place(u)
         /\ \A u \in Tx \ {t}, v \in Tx : InLine(u, v) => InLine(u, v)'
<1>1. /\ req2resp \in [Cmds -> Seq(Tx)] /\ Cmd[t] \in Cmds
      /\ \A u \in Tx : Cmd[u] \in Cmds
  BY ChannelAssumption DEF ChannelAssumption, TypeOK, TgtTypeOK
<1>2. /\ \A u \in Tx \ {t} : fsm'[u] = fsm[u]
      /\ UNCHANGED <<respFifo, rdStart>>
      /\ \/ req2resp' = [req2resp EXCEPT ![Cmd[t]] = Append(@, t)]
         \/ UNCHANGED req2resp
  BY FsmFrame
<1>3. \A c \in Cmds :
        /\ \A u \in Tx \ {t} : u \in Range(req2resp'[c]) <=> u \in Range(req2resp[c])
        /\ \A u, v \in Tx :
             Precedes(req2resp[c], u, v) => Precedes(req2resp'[c], u, v)
  <2>1. CASE UNCHANGED req2resp
    BY <2>1
  <2>2. CASE req2resp' = [req2resp EXCEPT ![Cmd[t]] = Append(@, t)]
    <3>1. PICK s \in Seq(Tx) : s = req2resp[Cmd[t]]
      BY <1>1
    <3>2. /\ Range(Append(s, t)) = Range(s) \union {t}
          /\ \A u, v : Precedes(s, u, v) => Precedes(Append(s, t), u, v)
      BY RangeAppend, PrecedesAppend, SMTT(20)
    <3>3. \A c \in Cmds : req2resp'[c] = IF c = Cmd[t] THEN Append(s, t) ELSE req2resp[c]
      BY <1>1, <2>2, <3>1
    <3> QED
      BY <3>1, <3>2, <3>3
  <2> QED
    BY <1>2, <2>1, <2>2
<1>4. \A c \in Cmds :
        /\ \A u \in Tx \ {t} : NotQueued(u, c)' <=> NotQueued(u, c)
        /\ \A u, v \in Tx :
             PrecedesTx(beatFifo[c], u, v) => PrecedesTx(beatFifo'[c], u, v)
  BY FsmQueued
<1>5. ASSUME NEW u \in Tx \ {t} PROVE Place(u)' = Place(u)
  BY <1>1, <1>2, <1>3, <1>4, <1>5, PlaceFrame
<1>6. ASSUME NEW u \in Tx \ {t}, NEW v \in Tx PROVE InLine(u, v) => InLine(u, v)'
  <2>1. PrecedesTx(evq, u, v) => PrecedesTx(evq', u, v)
    BY <1>6, FsmQueues
  <2>2. /\ Precedes(req2resp[Cmd[u]], u, v) => Precedes(req2resp'[Cmd[u]], u, v)
        /\ PrecedesTx(beatFifo["wr"], u, v) => PrecedesTx(beatFifo'["wr"], u, v)
    BY <1>1, <1>3, <1>4, <1>6 DEF Cmds
  <2>3. Place(u)' = Place(u)
    BY <1>5, <1>6
  <2> QED
    BY <2>1, <2>2, <2>3, InLineKept
<1> QED
  BY <1>5, <1>6

\* A step that does not bring the transaction to its next place: all but the end
\* of the request and the beginning of a write response.
LEMMA FsmStays ==
  ASSUME TypeOK, TokenInv, LimitInv, RoomForBeats, ReqChannelInv, Watch,
         UNCHANGED iniVars, NEW t \in Tx, FsmStep(t),
         ~\E q, k : EndReqStep(t, q, k),
         ~(Cmd[t] = "wr" /\ \E tp, q, k : BegRespStep(t, tp, q, k))
  PROVE  Place(t)' = Place(t)
<1> DEFINE asked == Asks(t) /\ LastBeat(t)
           asks == Asks(t)' /\ LastBeat(t)'
<1>1. CASE \E tp, q, k : BegRespStep(t, tp, q, k)
  <2>1. PICK tp, q, k : BegRespStep(t, tp, q, k)
    BY <1>1
  <2>2. /\ fsm[t] \in {"WaitForResponse", "ReadIdle"} /\ ~NotDue(t) /\ Cmd[t] = "rd"
        /\ fsm'[t] \in {"Response", "PartialResponse"}
    BY <1>1, <2>1, ChannelAssumption
    DEF ChannelAssumption, Cmds, BegRespStep, Becomes, TypeOK, TgtTypeOK
  <2>3. Place(t) = 5
    <3>1. ~Asks(t)
      BY <2>2, NotAsking
    <3>2. fsm[t] = "WaitForResponse" =>
            /\ t \notin Range(req2resp[Cmd[t]]) /\ t \notin Range(respFifo[Cmd[t]])
            /\ rdStart.tx # t
      BY <2>2, ChannelAssumption DEF ChannelAssumption, TokenInv, WaitingInv
    <3> QED
      BY <2>2, <3>1, <3>2 DEF Place, Responding, Sent
  <2>4. ~Asks(t)'
    <3>1. ~\E a, b : EndPartReqStep(t, a, b)
      BY <2>2 DEF EndPartReqStep
    <3>2. AskSame(t)
      BY <3>1, FsmSeen DEF Unseen
    <3> QED
      BY <2>2, <3>2, NotAsking DEF AskSame
  <2>5. ~Sent(t)'
    <3>1. PICK d \in TimePoints : beatFifo' =
            [beatFifo EXCEPT ![Cmd[t]] = Append(@, [tp |-> d, tx |-> t])]
      BY <1>1, FsmBeats
    <3>2. PICK e \in Scheduled : e = [tp |-> d, tx |-> t]
      BY DEF Scheduled
    <3>3. PICK s \in Seq(Scheduled) : s = beatFifo[Cmd[t]]
      BY ChannelAssumption DEF ChannelAssumption, TypeOK, TgtTypeOK
    <3>4. Range(Append(s, e)) = Range(s) \union {e}
      BY RangeAppend, SMTT(20)
    <3>5. beatFifo'[Cmd[t]] = Append(s, e)
      BY <3>1, <3>2, <3>3, ChannelAssumption DEF ChannelAssumption, TypeOK, TgtTypeOK
    <3>6. e \in Range(beatFifo'[Cmd[t]]) /\ e.tx = t
      BY <3>2, <3>4, <3>5
    <3> QED
      BY <3>6 DEF Sent, NotQueued
  <2> QED
    BY <2>2, <2>3, <2>4, <2>5 DEF Place, Responding
<1>2. CASE \E q, k : EndPartReqStep(t, q, k)
  <2>1. fsm[t] = "PartialRequest" /\ fsm'[t] = "WriteIdle"
    BY <1>2 DEF EndPartReqStep, Becomes, TypeOK, TgtTypeOK
  <2>2. asks => asked
    <3>1. CASE Unseen
      BY <3>1 DEF Unseen, AskSame, LastBeat
    <3>2. CASE RequestEndSeen(t)
      BY <3>2 DEF RequestEndSeen
    <3> QED
      BY <3>1, <3>2, FsmSeen
  <2>3. ~asked
    BY <2>1 DEF TokenInv, LinkInv, LinkOK, Asks, RestStates
  <2> QED
    BY <2>1, <2>2, <2>3 DEF Place, Responding
<1>3. CASE /\ ~\E q, k : EndPartReqStep(t, q, k)
           /\ ~\E tp, q, k : BegRespStep(t, tp, q, k)
  <2>1. AskSame(t) /\ UNCHANGED beatFifo
    BY <1>3, FsmSeen, FsmBeats DEF Unseen
  <2>2. asks <=> asked
    BY <2>1 DEF AskSame, LastBeat
  <2>3. CASE BeginStep(t) \/ AckStep(t) \/ DiscardStep(t)
    <3>1. /\ fsm[t] \in {"Idle", "WriteIdle", "WaitAck"}
          /\ fsm'[t] \in {"PartialRequest", "Request", "Idle", "WaitAck"}
      BY <2>3 DEF BeginStep, AckStep, DiscardStep, Becomes, TypeOK, TgtTypeOK
    <3> QED
      BY <2>2, <3>1 DEF Place, Responding
  <2>4. CASE EndPartRespStep(t)
    <3>1. fsm[t] = "PartialResponse" /\ fsm'[t] = "ReadIdle"
      BY <2>4 DEF EndPartRespStep, Becomes, TypeOK, TgtTypeOK
    <3> QED
      BY <2>2, <3>1 DEF Place, Responding, Sent
  <2>5. CASE EndRespStep(t)
    <3>1. fsm[t] = "Response" /\ fsm'[t] \in {"WaitAck", "Idle"} /\ fw[t] # << >>
      BY <2>5 DEF EndRespStep, Becomes, TypeOK, TgtTypeOK
    <3>2. NotQueued(t, Cmd[t])
      BY <3>1, ChannelAssumption DEF ChannelAssumption, TokenInv, BeatInv, NotQueued
    <3> QED
      BY <2>2, <3>1, <3>2 DEF Place, Responding, Sent
  <2> QED
    BY <1>3, <2>3, <2>4, <2>5 DEF FsmStep, DueStep
<1> QED
  BY <1>1, <1>2, <1>3

\* END_REQ: the request enters rd/wr_req2resp_fifo behind the others.
LEMMA OrderEndReq ==
  ASSUME TypeOK, TokenInv, LimitInv, RoomForBeats, ReqChannelInv, OrderInv, Watch,
         UNCHANGED <<iniVars, openTx>>, NEW t \in Tx, FsmStep(t), NEW q, NEW k,
         EndReqStep(t, q, k), \A u \in Tx \ {t} : AskSame(u)
  PROVE  OrderInv'
<1>1. /\ req2resp \in [Cmds -> Seq(Tx)] /\ Cmd[t] \in Cmds
      /\ req2resp' = [req2resp EXCEPT ![Cmd[t]] = Append(@, t)]
      /\ fsm[t] = "Request" /\ fsm'[t] = "WaitForResponse" /\ bw' = Put(bw, t, "END_REQ")
  BY ChannelAssumption
  DEF ChannelAssumption, EndReqStep, EndReqCb, Becomes, TypeOK, TgtTypeOK
<1>2. PICK s \in Seq(Tx) : s = req2resp[Cmd[t]]
  BY <1>1
<1>3. req2resp'[Cmd[t]] = Append(s, t)
  BY <1>1, <1>2
<1>4. Range(Append(s, t)) = Range(s) \union {t}
  BY RangeAppend, SMTT(20)
<1>5. \A u \in Range(s) : Precedes(Append(s, t), u, t)
  BY PrecedesAppend, ZenonT(30)
<1>6. Place(t) = 1
  BY <1>1 DEF TokenInv, LinkInv, LinkOK, Place, Asks, RestStates
<1>7. Place(t)' = 2
  <2>1. bw[t] = << >> /\ bw'[t] = Append(bw[t], "END_REQ")
    BY <1>1 DEF TokenInv, LinkInv, LinkOK, RestStates, TypeOK, LinkTypeOK, Put
  <2>2. bw'[t] # << >>
    <3>1. Append(<< >>, "END_REQ") # << >>
      BY SeqOne, ZenonT(30)
    <3> QED
      BY <2>1, <3>1
  <2> QED
    BY <1>1, <1>3, <1>4, <2>2 DEF Place, Asks
<1>8. \A u \in Tx : Rivals(u, t) => Place(u) # 1
  <2>1. SUFFICES ASSUME NEW u \in Tx, Rivals(u, t), Place(u) = 1 PROVE FALSE
    OBVIOUS
  <2>2. ini[u] = "send"
    BY <2>1 DEF Place, Asks
  <2> QED
    BY <1>1, <2>1, <2>2, OneRequesting DEF Rivals, Requesting
<1>9. ASSUME NEW u \in Tx, Rivals(u, t), Place(u) = 2 PROVE InLine(u, t)'
  <2>1. u \in Range(s) /\ u # t /\ Cmd[u] = Cmd[t]
    BY <1>2, <1>9 DEF Rivals, Place
  <2>2. Place(u)' = 2
    BY <1>9, <2>1, FsmOthers
  <2>3. Precedes(req2resp'[Cmd[u]], u, t)
    BY <1>3, <1>5, <2>1
  <2> QED
    BY <2>2, <2>3 DEF InLine
<1>10. /\ \A u \in Tx \ {t} : Place(u)' = Place(u)
       /\ \A u, v \in Tx \ {t} : InLine(u, v) => InLine(u, v)'
  BY FsmOthers
<1> QED
  BY <1>6, <1>7, <1>8, <1>9, <1>10, OrderMoves

\* A write response begins: it was the oldest one in fsm_event_queue, and its beat
\* enters wr_resp_beat_fifo behind the others.
LEMMA OrderBegResp ==
  ASSUME TypeOK, TokenInv, LimitInv, RoomForBeats, PlacedInv, OrderInv,
         UNCHANGED <<iniVars, openTx>>, NEW t \in Tx, FsmStep(t), NEW tp, NEW q, NEW k,
         Taken(t, tp, q, k), BegRespStep(t, tp, q, k), Cmd[t] = "wr",
         \A u \in Tx : AskSame(u)
  PROVE  OrderInv'
<1>1. /\ evq \in Seq(Scheduled) /\ clkq \in [Tx -> Seq(TimePoints)]
      /\ beatFifo \in [Cmds -> Seq(Scheduled)] /\ Cmd[t] \in Cmds /\ OneEach(evq)
  BY ChannelAssumption
  DEF ChannelAssumption, TypeOK, TgtTypeOK, TokenInv, DueInv, QueuesOK
<1>2. fsm[t] = "WaitForResponse" /\ fsm'[t] = "Response" /\ ~NotDue(t) /\ ~Asks(t)
  <2>1. fsm[t] = "WaitForResponse"
    BY DEF BegRespStep, TokenInv, ReadInv
  <2>2. tp = "BegRespE"
    BY <2>1 DEF BegRespStep, DueIn
  <2> QED
    BY <2>1, <2>2, NotAsking DEF BegRespStep, Becomes, TypeOK, TgtTypeOK
<1>3. Place(t) = 4
  <2>1. t \notin Range(req2resp[Cmd[t]]) /\ t \notin Range(respFifo[Cmd[t]])
    BY <1>1, <1>2 DEF TokenInv, WaitingInv
  <2> QED
    BY <1>2, <2>1 DEF Place
<1>4. PICK d \in TimePoints : beatFifo' =
        [beatFifo EXCEPT ![Cmd[t]] = Append(@, [tp |-> d, tx |-> t])]
  BY FsmBeats
<1>5. PICK e \in Scheduled : e = [tp |-> d, tx |-> t]
  BY DEF Scheduled
<1>6. PICK s \in Seq(Scheduled) : s = beatFifo["wr"]
  BY <1>1
<1>7. beatFifo'["wr"] = Append(s, e) /\ e.tx = t
  BY <1>1, <1>4, <1>5, <1>6
<1>8. Range(Append(s, e)) = Range(s) \union {e}
  BY RangeAppend, SMTT(20)
<1>9. \A f \in Range(s) : PrecedesTx(Append(s, e), f.tx, e.tx)
  BY PrecedesTxAppend, ZenonT(30)
<1>10. Place(t)' = 5
  <2>1. ~NotQueued(t, Cmd[t])'
    BY <1>7, <1>8 DEF NotQueued
  <2>2. ~Asks(t)'
    BY <1>2 DEF AskSame
  <2> QED
    BY <1>2, <2>1, <2>2 DEF Place, Responding, Sent
<1>11. ASSUME NEW u \in Tx, Rivals(u, t), Place(u) = 4 PROVE ~InLine(u, t)
  <2>1. clkq[t] = << >>
    BY <1>2 DEF PlacedInv
  <2>2. evq # << >> /\ Head(evq).tx = t
    BY <2>1 DEF Taken
  <2>3. ~PrecedesTx(evq, u, Head(evq).tx)
    BY <1>1, <2>2, PrecedesTxFirst, ZenonT(30)
  <2> QED
    BY <1>11, <2>2, <2>3 DEF InLine
<1>12. ASSUME NEW u \in Tx, Rivals(u, t), Place(u) = 5 PROVE InLine(u, t)'
  <2>1. Cmd[u] = "wr" /\ u # t
    BY <1>12 DEF Rivals
  <2>2. ~NotQueued(u, "wr")
    BY <1>12, <2>1 DEF Place, Responding, Sent, TokenInv, ReadInv
  <2>3. PICK f \in Range(s) : f.tx = u
    BY <1>6, <2>2 DEF NotQueued
  <2>4. PrecedesTx(beatFifo'["wr"], u, t)
    BY <1>7, <1>9, <2>3
  <2>5. Place(u)' = 5
    BY <1>12, <2>1, FsmOthers
  <2> QED
    BY <2>1, <2>4, <2>5 DEF InLine
<1>13. /\ \A u \in Tx \ {t} : Place(u)' = Place(u)
       /\ \A u, v \in Tx \ {t} : InLine(u, v) => InLine(u, v)'
  BY FsmOthers
<1> QED
  BY <1>3, <1>10, <1>11, <1>12, <1>13, OrderMoves

\* A transaction in line takes no other step than the beginning of its response.
LEMMA FsmOutOfLine ==
  ASSUME TypeOK, TokenInv, NEW t \in Tx, FsmStep(t), NEW v,
         ~(Cmd[t] = "wr" /\ \E tp, q, k : BegRespStep(t, tp, q, k))
  PROVE  ~InLine(t, v)
<1>1. SUFFICES ASSUME InLine(t, v) PROVE FALSE
  OBVIOUS
<1>2. CASE fsm[t] = "WaitForResponse"
  <2>1. \E tp, q, k : BegRespStep(t, tp, q, k)
    BY <1>2 DEF FsmStep, DueStep, BeginStep, DiscardStep, EndPartReqStep, EndReqStep,
       EndPartRespStep, EndRespStep, AckStep
  <2>2. Cmd[t] # "wr" /\ ~NotDue(t)
    BY <2>1 DEF BegRespStep
  <2>3. t \in Range(req2resp[Cmd[t]])
    BY <1>1, <1>2, <2>2, NotAsking DEF InLine, Place
  <2> QED
    BY <2>2, <2>3, ChannelAssumption DEF ChannelAssumption, TokenInv, WaitingInv
<1>3. CASE fsm[t] # "WaitForResponse"
  <2>1. Cmd[t] = "wr" /\ Responding(t) /\ ~Sent(t)
    BY <1>1, <1>3 DEF InLine, Place
  <2>2. fsm[t] = "Response" /\ ~NotQueued(t, Cmd[t])
    BY <2>1 DEF Responding, Sent, TokenInv, ReadInv
  <2>3. EndRespStep(t)
    BY <2>2 DEF FsmStep, DueStep, BeginStep, DiscardStep, EndPartReqStep, EndReqStep,
       BegRespStep, EndPartRespStep, AckStep
  <2>4. fw[t] # << >>
    BY <2>3 DEF EndRespStep
  <2> QED
    BY <2>2, <2>4, ChannelAssumption DEF ChannelAssumption, TokenInv, BeatInv, NotQueued
<1> QED
  BY <1>2, <1>3

LEMMA OrderFsm ==
  ASSUME TypeOK, TokenInv, LimitInv, RoomForBeats, PlacedInv, ReqChannelInv, OrderInv,
         NoneOutOfOrder, Watch, UNCHANGED iniVars, NEW t \in Tx, FsmStep(t)
  PROVE  OrderInv' /\ NoneOutOfOrder'
<1>1. /\ UNCHANGED <<openTx, complaints>> /\ \A u \in Tx \ {t} : AskSame(u)
      /\ AskSame(t) \/ \E q, k : EndPartReqStep(t, q, k) \/ EndReqStep(t, q, k)
  BY FsmSeen DEF Unseen, RequestEndSeen, checkerVars
<1>2. OrderInv'
  <2>1. CASE \E q, k : EndReqStep(t, q, k)
    BY <1>1, <2>1, OrderEndReq
  <2>2. CASE Cmd[t] = "wr" /\ \E tp, q, k : BegRespStep(t, tp, q, k)
    <3>1. fsm[t] \in {"WaitForResponse", "ReadIdle"}
      BY <2>2 DEF BegRespStep
    <3>2. \A a, b : ~EndPartReqStep(t, a, b) /\ ~EndReqStep(t, a, b)
      BY <3>1 DEF EndPartReqStep, EndReqStep
    <3>3. PICK tp, q, k : DueStep(t, tp, q, k)
      BY <3>1 DEF FsmStep, BeginStep, DiscardStep, EndPartRespStep, EndRespStep, AckStep
    <3>4. Taken(t, tp, q, k) /\ BegRespStep(t, tp, q, k)
      BY <3>2, <3>3 DEF DueStep
    <3> QED
      BY <1>1, <2>2, <3>2, <3>4, OrderBegResp
  <2>3. CASE /\ ~\E q, k : EndReqStep(t, q, k)
             /\ ~(Cmd[t] = "wr" /\ \E tp, q, k : BegRespStep(t, tp, q, k))
    <3>1. Place(t)' = Place(t)
      BY <2>3, FsmStays
    <3>2. \A u \in Tx \ {t} : Place(u)' = Place(u)
      BY <1>1, FsmOthers
    <3>3. ASSUME NEW v \in Tx PROVE ~InLine(t, v)
      BY <2>3, FsmOutOfLine
    <3>4. \A u, v \in Tx : InLine(u, v) => InLine(u, v)'
      BY <1>1, <3>3, FsmOthers
    <3> QED
      BY <1>1, <3>1, <3>2, <3>4, OrderKept
  <2> QED
    BY <2>1, <2>2, <2>3
<1> QED
  BY <1>1, <1>2 DEF NoneOutOfOrder

\* What the threads that do not send leave of the places of the others.
LEMMA ThreadPlace ==
  ASSUME NEW u \in Tx, AskSame(u), UNCHANGED <<fsm, beatFifo>>,
         u \in Range(req2resp'[Cmd[u]]) <=> u \in Range(req2resp[Cmd[u]]),
         u \in Range(respFifo'[Cmd[u]]) <=> u \in Range(respFifo[Cmd[u]]),
         rdStart'.tx = u <=> rdStart.tx = u
  PROVE  Place(u)' = Place(u)
BY PlaceFrame DEF NotQueued

\* With one request per id, or requests that become due in their order, no other
\* request with the id is before the one that is let in.
LEMMA OldestDue ==
  ASSUME TypeOK, TokenInv, KeepsOrder, MutexInv, OverdueInv, NEW t \in Tx,
         ProcessReq2Resp(t), NEW u \in Tx, Rivals(u, t), Place(u) = 2
  PROVE  ~Precedes(req2resp[Cmd[t]], u, t)
<1>1. /\ Cmd[t] \in Cmds /\ req2resp \in [Cmds -> Seq(Tx)]
      /\ IsInjective(req2resp[Cmd[t]])
  BY ChannelAssumption DEF ChannelAssumption, TypeOK, TgtTypeOK, TokenInv, WaitingInv
<1>2. PICK i \in Done(Cmd[t]) :
        i \in 1..Len(req2resp[Cmd[t]]) /\ req2resp[Cmd[t]][i] = t
  BY Req2RespEffect
<1>3. PICK s \in Seq(Tx) : s = req2resp[Cmd[t]]
  BY <1>1
<1>4. i \in 1..Len(s) /\ s[i] = t /\ IsInjective(s)
  BY <1>1, <1>2, <1>3
<1>5. CASE IdsApart
  BY <1>5 DEF IdsApart, Rivals
<1>6. CASE IdSerializing
  <2>1. /\ t \in Range(s) /\ DOMAIN s = 1..Len(s)
    BY <1>4 DEF Range
  <2>2. fsm[t] = "WaitForResponse"
    BY <1>1, <1>3, <2>1 DEF TokenInv, WaitingInv
  <2>3. fsm[u] = "WaitForResponse"
    BY DEF Place, Asks, Responding
  <2>4. \A v \in Tx : fsm[v] = "WaitForResponse" => ini[v] \notin {"idle", "id"}
    BY DEF TokenInv, LinkInv, LinkOK, RestStates
  <2>5. HoldsId(t) /\ HoldsId(u)
    BY <1>6, <2>2, <2>3, <2>4 DEF MutexInv
  <2> QED
    BY <2>5 DEF HoldsId, Rivals
<1>7. CASE ConstantLatency /\ FewReads
  <2>1. overdue \in Nat /\ overdue <= 1
    BY <1>7 DEF OverdueInv, TypeOK, TgtTypeOK
  <2>2. i = 1
    BY <1>2, <1>7, <2>1 DEF Done
  <2>3. s # << >>
    BY <1>4
  <2>4. ~Precedes(s, u, s[1])
    BY <1>4, <2>3, PrecedesFirst, ZenonT(30)
  <2> QED
    BY <1>3, <1>4, <2>2, <2>4
<1> QED
  BY <1>5, <1>6, <1>7 DEF KeepsOrder

\* A request leaves rd/wr_req2resp_fifo.
LEMMA OrderReq2Resp ==
  ASSUME TypeOK, TokenInv, KeepsOrder, MutexInv, OverdueInv, OrderInv, NEW t \in Tx,
         ProcessReq2Resp(t), UNCHANGED openTx, \A u \in Tx : AskSame(u)
  PROVE  OrderInv'
<1> DEFINE c == Cmd[t]
<1>1. /\ Cmd[t] \in Cmds /\ \A u \in Tx : Cmd[u] \in Cmds
      /\ req2resp \in [Cmds -> Seq(Tx)] /\ respFifo \in [Cmds -> Seq(Tx)]
  BY ChannelAssumption DEF ChannelAssumption, TypeOK, TgtTypeOK
<1>2. PICK i \in 1..Len(req2resp[c]) :
        req2resp[c][i] = t /\ req2resp' = [req2resp EXCEPT ![c] = RemoveAt(@, i)]
  BY Req2RespEffect
<1>3. /\ respFifo[c] = << >> /\ respFifo' = [respFifo EXCEPT ![c] = << t >>]
      /\ UNCHANGED <<fsm, evq, rdStart, beatFifo>>
  BY Req2RespEffect
<1>4. PICK s \in Seq(Tx) : s = req2resp[c]
  BY <1>1
<1>5. i \in 1..Len(s) /\ s[i] = t /\ IsInjective(s)
  BY <1>1, <1>2, <1>4 DEF TokenInv, WaitingInv
<1>6. /\ \A u, v : Precedes(s, u, v) /\ u # s[i] /\ v # s[i] =>
           Precedes(RemoveAt(s, i), u, v)
      /\ Range(s) \ {s[i]} \subseteq Range(RemoveAt(s, i))
  BY <1>5, PrecedesRemoveAt
<1>7. Range(RemoveAt(s, i)) \subseteq Range(s) \ {s[i]}
  BY <1>5, InjectiveRemoveAt
<1>8. /\ req2resp'[c] = RemoveAt(s, i) /\ respFifo'[c] = << t >>
      /\ \A d \in Cmds \ {c} : /\ req2resp'[d] = req2resp[d]
                               /\ respFifo'[d] = respFifo[d]
  BY <1>1, <1>2, <1>3, <1>4
<1>9. t \in Range(<< t >>) /\ Range(<< >>) = {} /\ \A u \in Range(<< t >>) : u = t
  BY DEF Range
<1>10. t \in Range(s)
  BY <1>5 DEF Range
<1>11. ASSUME NEW u \in Tx \ {t} PROVE Place(u)' = Place(u)
  <2>1. /\ u \in Range(req2resp'[Cmd[u]]) <=> u \in Range(req2resp[Cmd[u]])
        /\ u \in Range(respFifo'[Cmd[u]]) <=> u \in Range(respFifo[Cmd[u]])
    BY <1>1, <1>3, <1>4, <1>5, <1>6, <1>7, <1>8, <1>9, <1>11
  <2> QED
    BY <1>3, <1>11, <2>1, ThreadPlace
<1>12. fsm[t] = "WaitForResponse" /\ Place(t) = 2
  <2>1. fsm[t] = "WaitForResponse"
    BY <1>1, <1>4, <1>10 DEF TokenInv, WaitingInv
  <2> QED
    BY <1>4, <1>10, <2>1, NotAsking DEF Place
<1>13. Place(t)' = 3
  <2>1. ~Asks(t)'
    BY <1>12, NotAsking DEF AskSame
  <2> QED
    BY <1>3, <1>5, <1>7, <1>8, <1>9, <1>12, <2>1 DEF Place
<1>14. ASSUME NEW u \in Tx \ {t}, NEW v \in Tx \ {t}, InLine(u, v)
       PROVE  InLine(u, v)'
  <2>1. Precedes(req2resp[Cmd[u]], u, v) => Precedes(req2resp'[Cmd[u]], u, v)
    BY <1>1, <1>4, <1>5, <1>6, <1>8, <1>14, ZenonT(40)
  <2>2. Place(u)' = Place(u)
    BY <1>11, <1>14
  <2> QED
    BY <1>3, <1>14, <2>1, <2>2, InLineKept
<1>15. ASSUME NEW u \in Tx, Rivals(u, t)
       PROVE  /\ Place(u) = 2 => ~InLine(u, t)
              /\ Place(u) # 3
  <2>1. Place(u) = 2 => ~InLine(u, t)
    BY <1>15, OldestDue DEF InLine, Rivals
  <2>2. Place(u) # 3
    BY <1>3, <1>9, <1>15 DEF Place, Rivals
  <2> QED
    BY <2>1, <2>2
<1> QED
  BY <1>11, <1>12, <1>13, <1>14, <1>15, OrderMoves

\* start_rd_resp_thread takes a read from rd_resp_fifo, where it is alone.
LEMMA OrderRdRead ==
  ASSUME TypeOK, TokenInv, OrderInv, StartRdRead, UNCHANGED openTx,
         \A u \in Tx : AskSame(u)
  PROVE  OrderInv'
<1>1. /\ "rd" \in Cmds /\ respFifo \in [Cmds -> Seq(Tx)] /\ rdStart.tx = NoTx
      /\ respFifo["rd"] # << >> /\ rdStart'.tx = Head(respFifo["rd"])
      /\ respFifo' = [respFifo EXCEPT !["rd"] = Tail(@)] /\ NoTx \notin Tx
      /\ UNCHANGED <<fsm, req2resp, evq, beatFifo>>
  BY ChannelAssumption
  DEF ChannelAssumption, StartRdRead, startRdRest, fsmVars, TypeOK, TgtTypeOK, Cmds
<1>2. PICK s \in Seq(Tx) : s = respFifo["rd"]
  BY <1>1
<1>3. s # << >> /\ IsInjective(s)
  BY <1>1, <1>2 DEF TokenInv, WaitingInv
<1>4. /\ Head(s) \in Range(s) /\ Range(Tail(s)) \subseteq Range(s)
      /\ \A d \in Range(s) : d = Head(s) \/ d \in Range(Tail(s))
      /\ Head(s) \notin Range(Tail(s))
  <2>1. Head(s) \in Range(s) /\ Range(Tail(s)) \subseteq Range(s)
    BY <1>3, RangeTail, ZenonT(30)
  <2>2. \A d \in Range(s) : d = Head(s) \/ d \in Range(Tail(s))
    BY <1>3, RangeHeadTail, ZenonT(30)
  <2>3. Head(s) \notin Range(Tail(s))
    BY <1>3, InjectiveTail, ZenonT(30)
  <2> QED
    BY <2>1, <2>2, <2>3
<1>5. PICK t \in Tx : t = Head(s)
  BY <1>4, MemberType
<1>6. /\ Cmd[t] = "rd" /\ fsm[t] = "WaitForResponse" /\ t \in Range(s)
      /\ \A c \in Cmds : t \notin Range(req2resp[c])
  BY <1>1, <1>2, <1>4, <1>5 DEF TokenInv, WaitingInv
<1>7. /\ respFifo'["rd"] = Tail(s)
      /\ \A d \in Cmds \ {"rd"} : respFifo'[d] = respFifo[d]
      /\ rdStart'.tx = t
  BY <1>1, <1>2, <1>5
<1>8. ASSUME NEW u \in Tx \ {t} PROVE Place(u)' = Place(u)
  <2>1. Cmd[u] \in Cmds
    BY <1>8, ChannelAssumption DEF ChannelAssumption
  <2>2. u \in Range(respFifo'[Cmd[u]]) <=> u \in Range(respFifo[Cmd[u]])
    BY <1>2, <1>4, <1>5, <1>7, <1>8, <2>1
  <2> QED
    BY <1>1, <1>7, <1>8, <2>2, ThreadPlace
<1>9. Place(t) = 3 /\ Place(t)' = 4
  <2>1. ~Asks(t) /\ ~Asks(t)'
    BY <1>6, NotAsking DEF AskSame
  <2> QED
    BY <1>1, <1>2, <1>4, <1>5, <1>6, <1>7, <2>1 DEF Place
<1>10. ASSUME NEW u \in Tx \ {t}, NEW v \in Tx, InLine(u, v) PROVE InLine(u, v)'
  <2>1. Place(u)' = Place(u)
    BY <1>8, <1>10
  <2> QED
    BY <1>1, <1>10, <2>1, InLineKept
<1>11. ASSUME NEW u \in Tx, Rivals(u, t)
       PROVE  ~InLine(u, t) \/ Place(u) = 2
  BY <1>6, <1>11 DEF Rivals, InLine
<1>12. ASSUME NEW u \in Tx, Rivals(u, t) PROVE Place(u) # 4
  BY <1>1, <1>6, <1>12 DEF Rivals, Place
<1> QED
  BY <1>8, <1>9, <1>10, <1>11, <1>12, OrderMoves

\* start_rd_resp_thread starts a response; no other one with the id is running.
LEMMA OrderRdBegin ==
  ASSUME TypeOK, TokenInv, PlacedInv, OrderInv, StartRdBegin, UNCHANGED openTx,
         \A u \in Tx : AskSame(u)
  PROVE  OrderInv'
<1>1. PICK t \in Tx : t = rdStart.tx
  BY DEF StartRdBegin, TypeOK, TgtTypeOK
<1>2. /\ NoTx \notin Tx /\ rdStart'.tx = NoTx /\ Id[t] \notin activeRdId
      /\ UNCHANGED <<fsm, req2resp, respFifo, beatFifo>>
  BY <1>1, ChannelAssumption
  DEF ChannelAssumption, StartRdBegin, startRdRest, fsmVars, IdFree
<1>3. /\ Cmd[t] = "rd" /\ fsm[t] = "WaitForResponse"
      /\ \A c \in Cmds : t \notin Range(req2resp[c]) /\ t \notin Range(respFifo[c])
  BY <1>1, <1>2 DEF TokenInv, WaitingInv
<1>4. \A u, v : PrecedesTx(evq, u, v) => PrecedesTx(evq', u, v)
  <2>1. PICK tp \in TimePoints : Schedule(BeatDelays, tp, t, evq, clkq)
    BY <1>1 DEF StartRdBegin, TimePoints
  <2>2. QueueTypes(evq, clkq)
    BY DEF TypeOK, TgtTypeOK, QueueTypes
  <2> QED
    BY <2>1, <2>2, ScheduleKeeps
<1>5. ASSUME NEW u \in Tx \ {t} PROVE Place(u)' = Place(u)
  BY <1>1, <1>2, <1>5, ThreadPlace
<1>6. Place(t) = 4 /\ Place(t)' = 5
  <2>1. ~Asks(t) /\ ~Asks(t)'
    BY <1>3, NotAsking DEF AskSame
  <2>2. Cmd[t] \in Cmds /\ Cmd[t] # "wr"
    BY <1>3 DEF Cmds
  <2> QED
    BY <1>1, <1>2, <1>3, <2>1, <2>2 DEF Place
<1>7. ASSUME NEW u \in Tx \ {t}, NEW v \in Tx, InLine(u, v) PROVE InLine(u, v)'
  <2>1. Place(u)' = Place(u)
    BY <1>5, <1>7
  <2> QED
    BY <1>2, <1>4, <1>7, <2>1, InLineKept
<1>8. ASSUME NEW u \in Tx, Rivals(u, t) PROVE Place(u) # 5
  <2>1. SUFFICES ASSUME Place(u) = 5 PROVE FALSE
    OBVIOUS
  <2>2. Cmd[u] = "rd" /\ Id[u] = Id[t]
    BY <1>3, <1>8 DEF Rivals
  <2>3. OwnsId(u)
    <3>1. CASE fsm[u] = "WaitForResponse"
      <4>1. Started(u)
        BY <2>1, <3>1 DEF Place, Started
      <4> QED
        BY <2>2, <3>1, <4>1 DEF PlacedInv, OwnsId
    <3>2. CASE fsm[u] # "WaitForResponse"
      BY <2>1, <2>2, <3>2 DEF Place, OwnsId
    <3> QED
      BY <3>1, <3>2
  <2> QED
    BY <1>2, <2>2, <2>3 DEF TokenInv, IdInv
<1>9. ASSUME NEW u \in Tx, Rivals(u, t), Place(u) = 4 PROVE ~InLine(u, t)
  BY <1>3, <1>9 DEF Rivals, InLine
<1> QED
  BY <1>5, <1>6, <1>7, <1>8, <1>9, OrderMoves

\* start_wr_resp_thread schedules the response behind those in fsm_event_queue.
LEMMA OrderStartWr ==
  ASSUME TypeOK, TokenInv, PlacedInv, OrderInv, StartWr, UNCHANGED openTx,
         \A u \in Tx : AskSame(u)
  PROVE  OrderInv'
<1>1. /\ "wr" \in Cmds /\ respFifo \in [Cmds -> Seq(Tx)] /\ evq \in Seq(Scheduled)
      /\ respFifo["wr"] # << >>
      /\ respFifo' = [respFifo EXCEPT !["wr"] = Tail(@)]
      /\ evq' = Append(evq, [tp |-> "BegRespE", tx |-> Head(respFifo["wr"])])
      /\ UNCHANGED <<fsm, req2resp, rdStart, beatFifo>>
  BY DEF StartWr, startRdRest, fsmVars, Schedule, TypeOK, TgtTypeOK, Cmds
<1>2. PICK s \in Seq(Tx) : s = respFifo["wr"]
  BY <1>1
<1>3. s # << >> /\ IsInjective(s)
  BY <1>1, <1>2 DEF TokenInv, WaitingInv
<1>4. /\ Head(s) \in Range(s) /\ Range(Tail(s)) \subseteq Range(s)
      /\ \A d \in Range(s) : d = Head(s) \/ d \in Range(Tail(s))
      /\ Head(s) \notin Range(Tail(s))
  <2>1. Head(s) \in Range(s) /\ Range(Tail(s)) \subseteq Range(s)
    BY <1>3, RangeTail, ZenonT(30)
  <2>2. \A d \in Range(s) : d = Head(s) \/ d \in Range(Tail(s))
    BY <1>3, RangeHeadTail, ZenonT(30)
  <2>3. Head(s) \notin Range(Tail(s))
    BY <1>3, InjectiveTail, ZenonT(30)
  <2> QED
    BY <2>1, <2>2, <2>3
<1>5. PICK t \in Tx : t = Head(s)
  BY <1>4, MemberType
<1>6. /\ Cmd[t] = "wr" /\ fsm[t] = "WaitForResponse" /\ t \in Range(s)
      /\ \A c \in Cmds : t \notin Range(req2resp[c])
  BY <1>1, <1>2, <1>4, <1>5 DEF TokenInv, WaitingInv
<1>7. /\ respFifo'["wr"] = Tail(s)
      /\ \A d \in Cmds \ {"wr"} : respFifo'[d] = respFifo[d]
  BY <1>1, <1>2
<1>8. PICK e \in Scheduled : e = [tp |-> "BegRespE", tx |-> t]
  BY DEF Scheduled, TimePoints
<1>9. /\ \A u, v : PrecedesTx(evq, u, v) => PrecedesTx(evq', u, v)
      /\ \A d \in Range(evq) : PrecedesTx(evq', d.tx, t)
  <2>1. PICK q \in Seq(Scheduled) : q = evq
    BY <1>1
  <2>2. /\ \A u, v : PrecedesTx(q, u, v) => PrecedesTx(Append(q, e), u, v)
        /\ \A d \in Range(q) : PrecedesTx(Append(q, e), d.tx, e.tx)
    BY PrecedesTxAppend
  <2>3. evq' = Append(q, e) /\ e.tx = t
    BY <1>1, <1>2, <1>5, <1>8, <2>1
  <2> QED
    BY <2>1, <2>2, <2>3
<1>10. ASSUME NEW u \in Tx \ {t} PROVE Place(u)' = Place(u)
  <2>1. Cmd[u] \in Cmds
    BY <1>10, ChannelAssumption DEF ChannelAssumption
  <2>2. u \in Range(respFifo'[Cmd[u]]) <=> u \in Range(respFifo[Cmd[u]])
    BY <1>2, <1>4, <1>5, <1>7, <1>10, <2>1
  <2> QED
    BY <1>1, <1>10, <2>2, ThreadPlace
<1>11. Place(t) = 3 /\ Place(t)' = 4
  <2>1. ~Asks(t) /\ ~Asks(t)'
    BY <1>6, NotAsking DEF AskSame
  <2> QED
    BY <1>1, <1>2, <1>4, <1>5, <1>6, <1>7, <2>1 DEF Place
<1>12. ASSUME NEW u \in Tx \ {t}, NEW v \in Tx, InLine(u, v) PROVE InLine(u, v)'
  <2>1. Place(u)' = Place(u)
    BY <1>10, <1>12
  <2> QED
    BY <1>1, <1>9, <1>12, <2>1, InLineKept
<1>13. ASSUME NEW u \in Tx, Rivals(u, t), Place(u) = 4 PROVE InLine(u, t)'
  <2>1. Cmd[u] = "wr" /\ u # t
    BY <1>6, <1>13 DEF Rivals
  <2>2. fsm[u] = "WaitForResponse" /\ Started(u)
    <3>1. /\ fsm[u] = "WaitForResponse" /\ u \notin Range(req2resp[Cmd[u]])
          /\ u \notin Range(respFifo[Cmd[u]])
      BY <1>13 DEF Place
    <3>2. rdStart.tx # u
      BY <2>1, ChannelAssumption DEF ChannelAssumption, TokenInv, WaitingInv
    <3> QED
      BY <3>1, <3>2 DEF Started
  <2>3. \E d \in Range(evq) : d.tx = u
    BY <2>1, <2>2 DEF PlacedInv, NotDue, NotIn
  <2>4. PrecedesTx(evq', u, t)
    BY <1>9, <2>3
  <2>5. Place(u)' = 4
    BY <1>10, <1>13, <2>1
  <2> QED
    BY <2>1, <2>4, <2>5 DEF InLine
<1>14. ASSUME NEW u \in Tx, Place(u) = 3 PROVE ~InLine(u, t)
  BY <1>14 DEF InLine
<1> QED
  BY <1>10, <1>11, <1>12, <1>13, <1>14, OrderMoves

\* The response beat that is sent belongs to the oldest transaction of its id.
LEMMA OrderSend ==
  ASSUME TypeOK, TokenInv, OwnerInv, RespChannelInv, OrderInv, NoneOutOfOrder, Watch,
         UNCHANGED iniVars, NEW c \in Cmds, SendRespBeat(c)
  PROVE  OrderInv' /\ NoneOutOfOrder'
<1>1. LET e == Head(beatFifo[c]) IN
      /\ beatFifo[c] # << >> /\ e \in Range(beatFifo[c]) /\ e.tx \in Tx
      /\ Cmd[e.tx] = c /\ beatFifo' = [beatFifo EXCEPT ![c] = Tail(@)]
      /\ \E p \in RespBegins :
           /\ ResponseSeen(e.tx, p)
           /\ fsm[e.tx] = IF p = "BEGIN_RESP" THEN "Response" ELSE "PartialResponse"
      /\ UNCHANGED <<fw, fsm, beat, evq, clkq, req2resp, respFifo, rdStart>>
  BY SendRespBeatSeen
<1>2. PICK s \in Seq(Scheduled) : s = beatFifo[c]
  BY DEF TypeOK, TgtTypeOK
<1>3. PICK t \in Tx : t = Head(s).tx
  BY <1>1, <1>2
<1>4. PICK p \in RespBegins :
        /\ ResponseSeen(t, p)
        /\ fsm[t] = IF p = "BEGIN_RESP" THEN "Response" ELSE "PartialResponse"
  BY <1>1, <1>2, <1>3
<1>5. /\ Cmd[t] = c /\ s # << >> /\ OneEach(s)
      /\ beatFifo \in [Cmds -> Seq(Scheduled)]
      /\ beatFifo' = [beatFifo EXCEPT ![c] = Tail(s)]
      /\ UNCHANGED <<fsm, evq, req2resp, respFifo, rdStart>>
  BY <1>1, <1>2, <1>3 DEF TokenInv, BeatInv, TypeOK, TgtTypeOK
<1>6. /\ \A e \in Range(Tail(s)) : e.tx # t
      /\ Head(s) \in Range(s) /\ Range(Tail(s)) \subseteq Range(s)
      /\ \A d \in Range(s) : d = Head(s) \/ d \in Range(Tail(s))
  <2>1. \A e \in Range(Tail(s)) : e.tx # Head(s).tx
    BY <1>5, OneEachTail, ZenonT(30)
  <2>2. Head(s) \in Range(s) /\ Range(Tail(s)) \subseteq Range(s)
    BY <1>5, RangeTail, ZenonT(30)
  <2>3. \A d \in Range(s) : d = Head(s) \/ d \in Range(Tail(s))
    BY <1>5, RangeHeadTail, ZenonT(30)
  <2> QED
    BY <1>3, <2>1, <2>2, <2>3
<1>7. \A u \in Tx : AskSame(u)
  BY <1>4 DEF ResponseSeen
<1>8. beatFifo'[c] = Tail(s) /\ \A d \in Cmds \ {c} : beatFifo'[d] = beatFifo[d]
  BY <1>5
<1>9. NotQueued(t, c)' /\ ~NotQueued(t, c)
  BY <1>2, <1>3, <1>6, <1>8 DEF NotQueued
<1>10. ~Asks(t) /\ ~Asks(t)'
  BY <1>4, <1>7, NotAsking DEF AskSame
<1>11. Place(t) = 5
  BY <1>4, <1>5, <1>9, <1>10 DEF Place, Responding, Sent
<1>12. Place(t)' = IF p = "BEGIN_RESP" THEN 0 ELSE 5
  BY <1>4, <1>5, <1>9, <1>10 DEF Place, Responding, Sent
<1>13. ASSUME NEW u \in Tx \ {t} PROVE Place(u)' = Place(u)
  <2>1. NotQueued(u, Cmd[u])' <=> NotQueued(u, Cmd[u])
    <3>1. CASE Cmd[u] = c
      BY <1>2, <1>3, <1>6, <1>8, <1>13, <3>1 DEF NotQueued
    <3>2. CASE Cmd[u] # c
      BY <1>8, <1>13, <3>2, ChannelAssumption DEF ChannelAssumption, NotQueued
    <3> QED
      BY <3>1, <3>2
  <2> QED
    BY <1>5, <1>7, <1>13, <2>1, PlaceFrame
<1>14. ASSUME NEW u \in Tx, Rivals(u, t) PROVE ~Ahead(u, t)
  <2>1. Place(u) \in 0..5
    BY PlaceNumbers
  <2>2. ~PrecedesTx(s, u, t)
    <3>1. ~PrecedesTx(s, u, Head(s).tx)
      BY <1>5, PrecedesTxFirst, ZenonT(30)
    <3> QED
      BY <1>3, <3>1
  <2>3. ~(Place(u) = 5 /\ InLine(u, t))
    BY <1>2, <1>5, <1>14, <2>2 DEF InLine, Rivals
  <2> QED
    BY <1>11, <2>1, <2>3 DEF Ahead
<1>15. openTx[Cmd[t]][Id[t]] # << >> /\ Head(openTx[Cmd[t]][Id[t]]) = t
  BY <1>11, <1>14, OldestFirst
<1>16. NoneOutOfOrder'
  BY <1>4, <1>15 DEF ResponseSeen, NoneOutOfOrder, If
<1>17. ASSUME NEW u \in Tx, NEW v \in Tx, InLine(u, v), Place(u)' = Place(u),
              u # t \/ Cmd[t] # "wr"
       PROVE  InLine(u, v)'
  <2>1. \A w : PrecedesTx(s, u, w) /\ u # t => PrecedesTx(Tail(s), u, w)
    <3>1. \A x, w : PrecedesTx(s, x, w) /\ x # Head(s).tx => PrecedesTx(Tail(s), x, w)
      BY <1>5, PrecedesTxTail, ZenonT(30)
    <3> QED
      BY <1>3, <3>1
  <2>2. Cmd[u] = "wr" /\ PrecedesTx(beatFifo["wr"], u, v) =>
          PrecedesTx(beatFifo'["wr"], u, v)
    <3>1. CASE c = "wr"
      BY <1>2, <1>5, <1>8, <1>17, <2>1, <3>1
    <3>2. CASE c # "wr"
      BY <1>8, <3>2 DEF Cmds
    <3> QED
      BY <3>1, <3>2
  <2> QED
    BY <1>5, <1>17, <2>2, InLineKept
<1>18. OrderInv'
  <2>1. CASE p = "BEGIN_RESP"
    <3>1. openTx' = [openTx EXCEPT ![Cmd[t]][Id[t]] = Tail(@)]
      BY <1>4, <1>15, <2>1 DEF ResponseSeen
    <3>2. Place(t)' = 0
      BY <1>12, <2>1
    <3>3. \A u, v \in Tx \ {t} : InLine(u, v) => InLine(u, v)'
      BY <1>13, <1>17
    <3> QED
      BY <1>13, <1>15, <3>1, <3>2, <3>3, OrderLeft
  <2>2. CASE p # "BEGIN_RESP"
    <3>1. UNCHANGED openTx
      BY <1>4, <2>2 DEF ResponseSeen
    <3>2. \A u \in Tx : Place(u)' = Place(u)
      BY <1>11, <1>12, <1>13, <2>2
    <3>3. Cmd[t] # "wr"
      BY <1>4, <2>2 DEF TokenInv, ReadInv
    <3>4. \A u, v \in Tx : InLine(u, v) => InLine(u, v)'
      BY <1>17, <3>2, <3>3
    <3> QED
      BY <3>1, <3>2, <3>4, OrderKept
  <2> QED
    BY <2>1, <2>2
<1> QED
  BY <1>16, <1>18

LEMMA OrderThread ==
  ASSUME TypeOK, TokenInv, OwnerInv, PipeInv, KeepsOrder, RespChannelInv, OrderInv,
         NoneOutOfOrder, Watch, UNCHANGED iniVars, ThreadStep
  PROVE  OrderInv' /\ NoneOutOfOrder'
<1>1. CASE \E c \in Cmds : SendRespBeat(c)
  BY <1>1, OrderSend
<1>2. CASE ~\E c \in Cmds : SendRespBeat(c)
  <2>1. UNCHANGED <<openTx, complaints>> /\ \A u \in Tx : AskSame(u)
    BY <1>2, ThreadUnseen DEF Unseen, checkerVars
  <2>2. CASE PushBackOverdue \/ StartRdSem
    <3>1. /\ UNCHANGED <<fsm, req2resp, respFifo, evq, beatFifo>>
          /\ rdStart'.tx = rdStart.tx
      BY <2>2 DEF PushBackOverdue, StartRdSem, startRdRest, fsmVars
    <3> QED
      BY <2>1, <3>1, OrderUnmoved DEF NoneOutOfOrder
  <2>3. PlacedInv /\ MutexInv /\ OverdueInv
    BY DEF PipeInv
  <2>4. NoneOutOfOrder'
    BY <2>1 DEF NoneOutOfOrder
  <2> QED
    BY <1>2, <2>1, <2>2, <2>3, <2>4, OrderReq2Resp, OrderRdRead, OrderRdBegin,
       OrderStartWr DEF ThreadStep
<1> QED
  BY <1>1, <1>2

LEMMA OrderedNext ==
  ASSUME TypeOK, TokenInv, LimitInv, OwnerInv, PipeInv, RoomForBeats, KeepsOrder,
         OrderedInv, [Next]_vars
  PROVE  OrderedInv'
<1>1. ReqChannelInv' /\ RespChannelInv'
  BY ChannelNext DEF OrderedInv
<1>2. OrderInv' /\ NoneOutOfOrder'
  <2>1. CASE UNCHANGED vars
    <3>1. /\ UNCHANGED <<openTx, fsm, req2resp, respFifo, evq, beatFifo, complaints>>
          /\ rdStart'.tx = rdStart.tx /\ \A u \in Tx : AskSame(u)
      BY <2>1 DEF vars, linkVars, iniVars, tgtVars, checkerVars, AskSame, Asks
    <3> QED
      BY <3>1, OrderUnmoved DEF OrderedInv, NoneOutOfOrder
  <2>2. CASE IniNext /\ UNCHANGED tgtVars /\ Watch
    BY <2>2, OrderIni DEF OrderedInv
  <2>3. CASE TgtNext /\ UNCHANGED iniVars /\ Watch
    <3>1. ASSUME NEW t \in Tx, FsmStep(t) PROVE OrderInv' /\ NoneOutOfOrder'
      BY <2>3, <3>1, OrderFsm DEF OrderedInv, PipeInv
    <3>2. CASE ThreadStep
      BY <2>3, <3>2, OrderThread DEF OrderedInv
    <3> QED
      BY <2>3, <3>1, <3>2, TgtCases
  <2> QED
    BY <2>1, <2>2, <2>3 DEF Next
<1> QED
  BY <1>1, <1>2 DEF OrderedInv

LEMMA InitOrdered == Init => OrderedInv
<1>1. SUFFICES ASSUME Init PROVE OrderedInv
  OBVIOUS
<1>2. \A t \in Tx : /\ ini[t] = "idle" /\ bw[t] = << >> /\ fsm[t] = "Idle"
  BY <1>1 DEF Init, LinkInit, IniInit, TgtInit
<1>3. \A t \in Tx : ~Asks(t) /\ ~Answers(t)
  <2>1. ASSUME NEW p PROVE << >> # <<p>> /\ << >> # <<"END_REQ", p>>
    OBVIOUS
  <2>2. \A t \in Tx, p \in RespBegins : ~AnswersWith(t, p)
    BY <1>2, <2>1 DEF AnswersWith
  <2> QED
    BY <1>2, <2>2 DEF Asks, Answers
<1>4. \A t \in Tx : Place(t) = 0
  BY <1>2, <1>3 DEF Place, Responding
<1>5. ReqChannelInv /\ RespChannelInv /\ NoneOutOfOrder
  BY <1>1, <1>3
  DEF Init, CheckerInit, ReqChannelInv, RespChannelInv, Answers, NoneOutOfOrder, OfCmd
<1>6. OrderInv
  <2>1. ASSUME NEW c \in Cmds, NEW i \in Ids PROVE InOrder(openTx[c][i], c, i)
    <3>1. openTx[c][i] = << >>
      BY <1>1 DEF Init, CheckerInit
    <3>2. IsInjective(<< >>) /\ Range(<< >>) = {} /\ DOMAIN << >> = {}
      BY DEF IsInjective, Range
    <3> QED
      BY <1>4, <3>1, <3>2 DEF InOrder, OfCmd
  <2> QED
    BY <2>1 DEF OrderInv
<1> QED
  BY <1>5, <1>6 DEF OrderedInv

\* What the checker has noted about the channels and the order of the requests is
\* right, and the requests with one id stay in line on their way to the response.
THEOREM OrderedInvariant ==
  ASSUME KeepsOrder, RoomForBeats
  PROVE  Spec => []OrderedInv
<1>1. CountersFit
  BY DEF RoomForBeats
<1>2. Spec => [](TypeOK /\ TokenInv)
  BY TokenInvariant
<1>3. Spec => []LimitInv
  BY <1>1, LimitInvariant
<1>4. Spec => []OwnerInv
  BY OwnerInvariant
<1>5. Spec => []PipeInv
  BY <1>1, PipeInvariant
<1>6. Init => OrderedInv
  BY InitOrdered
<1>7. /\ TypeOK /\ TokenInv /\ LimitInv /\ OwnerInv /\ PipeInv /\ OrderedInv
      /\ [Next]_vars
      => OrderedInv'
  BY OrderedNext
<1> QED
  BY <1>2, <1>3, <1>4, <1>5, <1>6, <1>7, PTL DEF Spec

\* The checker never reports a response out of order: with one request per id at a
\* time, or with latencies that keep the order and few enough reads, the responses
\* with one id come in the order of their requests.
THEOREM ResponsesInOrderHolds ==
  ASSUME KeepsOrder, RoomForBeats
  PROVE  Spec => []ResponsesInOrder
<1>1. Spec => []OrderedInv
  BY OrderedInvariant
<1>2. OrderedInv => ResponsesInOrder
  BY DEF OrderedInv, NoneOutOfOrder, ResponsesInOrder
<1> QED
  BY <1>1, <1>2, PTL
-----------------------------------------------------------------------------
(* The beats of the writes.                                                *)

\* The first caller in the list holds the channel.
LEMMA FirstWriter ==
  ASSUME TypeOK, NEW t \in Tx, Cmd[t] = "wr", HoldsChnl(t)
  PROVE  /\ chnl["wr"] # << >> /\ Head(chnl["wr"]) = t /\ t \in Range(chnl["wr"])
         /\ chnl["wr"] \in Seq(Tx)
<1>1. chnl["wr"] \in Seq(Tx)
  BY DEF TypeOK, IniTypeOK, Cmds
<1>2. chnl["wr"] # << >> /\ Head(chnl["wr"]) = t
  BY DEF HoldsChnl
<1> QED
  BY <1>1, <1>2, RangeTail

\* The step leaves the calls of the other payloads alone.
CallsSame(t) == \A u \in Tx \ {t} : ini'[u] = ini[u] /\ sent'[u] = sent[u]

\* A step of a call that is not in the list of the write channel.
LEMMA WriterElsewhere ==
  ASSUME TypeOK, SendingInv, WriteCountInv, NEW t \in Tx, CallsSame(t),
         chnl'["wr"] = chnl["wr"], UNCHANGED wrReqBeats, t \notin Range(chnl["wr"]),
         ini'[t] = "id" => sent'[t] = 0,
         ini'[t] \in {"chnl", "send"} => sent'[t] <= BurstLen[t] - 1
  PROVE  SendingInv' /\ WriteCountInv'
<1>1. PICK s \in Seq(Tx) : s = chnl["wr"]
  BY DEF TypeOK, IniTypeOK, Cmds
<1>2. \A u \in Range(s) : u \in Tx \ {t}
  BY <1>1, MemberType
<1>3. \A u \in Range(s) : Cmd[u] = "wr" /\ ini'[u] = ini[u] /\ sent'[u] = sent[u]
                          /\ (HoldsChnl(u)' <=> HoldsChnl(u))
  <2>1. \A u \in Range(s) : Cmd[u] = "wr"
    BY <1>1 DEF SendingInv
  <2> QED
    BY <1>2, <2>1 DEF CallsSame, HoldsChnl
<1>4. SendingInv'
  BY <1>1, <1>3 DEF SendingInv, CallsSame
<1>5. WriteCountInv'
  <2>1. CASE s = << >>
    BY <1>1, <2>1 DEF WriteCountInv
  <2>2. CASE s # << >>
    <3>1. Head(s) \in Range(s)
      BY <2>2, RangeTail
    <3>2. WriteBeats(Head(s))' = WriteBeats(Head(s))
      BY <1>3, <3>1 DEF WriteBeats, LastBeat
    <3> QED
      BY <1>1, <2>2, <3>2 DEF WriteCountInv
  <2> QED
    BY <2>1, <2>2
<1> QED
  BY <1>4, <1>5

\* A write joins the list, with no beat sent.
LEMMA WriterJoins ==
  ASSUME TypeOK, SendingInv, WriteCountInv, NEW t \in Tx, CallsSame(t),
         chnl'["wr"] = Append(chnl["wr"], t), UNCHANGED wrReqBeats,
         ini[t] \notin {"chnl", "send"}, Cmd[t] = "wr",
         ini'[t] = "chnl", sent'[t] = 0
  PROVE  SendingInv' /\ WriteCountInv'
<1>1. PICK s \in Seq(Tx) : s = chnl["wr"]
  BY DEF TypeOK, IniTypeOK, Cmds
<1>2. PICK r : r = Append(s, t)
  OBVIOUS
<1>3. t \notin Range(s)
  BY <1>1 DEF SendingInv
<1>4. IsInjective(s)
  BY <1>1 DEF SendingInv
<1>5. IsInjective(Append(s, t))
  BY <1>3, <1>4, InjectiveAppend, ZenonT(30)
<1>6. Range(Append(s, t)) = Range(s) \union {t}
  BY RangeAppend
<1>7. \A u \in Range(s) : /\ u \in Tx \ {t} /\ Cmd[u] = "wr"
                          /\ ini[u] \in {"chnl", "send"}
                          /\ ~HoldsChnl(u) => ini[u] = "chnl" /\ sent[u] = 0
  <2>1. \A u \in Range(s) : u \in Tx
    BY MemberType
  <2> QED
    BY <1>1, <1>3, <2>1 DEF SendingInv
<1>8. s # << >> => Head(r) = Head(s) /\ r # << >>
  BY <1>2, AppendHead
<1>9. s = << >> => Head(r) = t /\ r # << >>
  BY <1>2, SeqOne
<1>10. chnl'["wr"] = r
  BY <1>1, <1>2
<1>11. \A u \in Range(s) : /\ ini'[u] = ini[u] /\ sent'[u] = sent[u]
                           /\ HoldsChnl(u) => HoldsChnl(u)'
  <2>1. \A u \in Range(s) : ini'[u] = ini[u] /\ sent'[u] = sent[u]
    BY <1>7 DEF CallsSame
  <2>2. \A u \in Range(s) : HoldsChnl(u) => HoldsChnl(u)'
    BY <1>1, <1>7, <1>8, <1>10 DEF HoldsChnl
  <2> QED
    BY <2>1, <2>2
<1>12. BurstLen[t] \in Nat \ {0}
  BY ChannelAssumption DEF ChannelAssumption
<1>13. SendingInv'
  <2>1. IsInjective(chnl["wr"])'
    BY <1>2, <1>5, <1>10
  <2>2. \A u \in Range(r) : Cmd[u] = "wr" /\ ini'[u] \in {"chnl", "send"}
    BY <1>2, <1>6, <1>7, <1>11
  <2>3. \A u \in Range(r) : ~HoldsChnl(u)' => ini'[u] = "chnl" /\ sent'[u] = 0
    BY <1>2, <1>6, <1>7, <1>11
  <2>4. \A u \in Tx : ini'[u] = "id" => sent'[u] = 0
    BY DEF SendingInv, CallsSame
  <2>5. \A u \in Tx : ini'[u] \in {"chnl", "send"} => sent'[u] <= BurstLen[u] - 1
    BY <1>12 DEF SendingInv, CallsSame
  <2> QED
    BY <1>10, <2>1, <2>2, <2>3, <2>4, <2>5 DEF SendingInv
<1>14. WriteCountInv'
  <2>1. CASE s = << >>
    <3>1. WriteBeats(t)' = 0
      BY DEF WriteBeats
    <3> QED
      BY <1>1, <1>9, <1>10, <2>1, <3>1 DEF WriteCountInv
  <2>2. CASE s # << >>
    <3>1. Head(s) \in Range(s)
      BY <2>2, RangeTail
    <3>2. WriteBeats(Head(s))' = WriteBeats(Head(s))
      BY <1>11, <3>1 DEF WriteBeats, LastBeat
    <3> QED
      BY <1>1, <1>8, <1>10, <2>2, <3>2 DEF WriteCountInv
  <2> QED
    BY <2>1, <2>2
<1> QED
  BY <1>13, <1>14

\* The call that holds the channel announces a beat, or goes on to the next one.
LEMMA WriterSends ==
  ASSUME TypeOK, SendingInv, NEW t \in Tx, CallsSame(t), Cmd[t] = "wr", HoldsChnl(t),
         chnl'["wr"] = chnl["wr"], ini'[t] \in {"chnl", "send"},
         sent'[t] <= BurstLen[t] - 1, wrReqBeats' = WriteBeats(t)'
  PROVE  SendingInv' /\ WriteCountInv'
<1>1. PICK s \in Seq(Tx) : s = chnl["wr"]
  BY DEF TypeOK, IniTypeOK, Cmds
<1>2. s # << >> /\ Head(s) = t /\ t \in Range(s)
  BY <1>1, FirstWriter
<1>3. \A u \in Range(s) : u \in Tx
  BY MemberType
<1>4. \A u \in Range(s) : Cmd[u] = "wr" /\ (HoldsChnl(u)' <=> u = t)
                          /\ (HoldsChnl(u) <=> u = t)
  <2>1. \A u \in Range(s) : Cmd[u] = "wr"
    BY <1>1 DEF SendingInv
  <2> QED
    BY <1>1, <1>2, <2>1 DEF HoldsChnl
<1>5. SendingInv'
  BY <1>1, <1>3, <1>4 DEF SendingInv, CallsSame
<1>6. WriteCountInv'
  BY <1>1, <1>2 DEF WriteCountInv
<1> QED
  BY <1>5, <1>6

\* The last beat is answered: the channel passes to a call that has sent none.
LEMMA WriterLeaves ==
  ASSUME TypeOK, SendingInv, WriteCountInv, NEW t \in Tx, CallsSame(t),
         Cmd[t] = "wr", HoldsChnl(t), chnl'["wr"] = Release(chnl["wr"]),
         LastBeat(t), ini[t] = "send", ini'[t] = "resp", UNCHANGED wrReqBeats
  PROVE  SendingInv' /\ WriteCountInv'
<1>1. PICK s \in Seq(Tx) : s = chnl["wr"]
  BY DEF TypeOK, IniTypeOK, Cmds
<1>2. s # << >> /\ Head(s) = t
  BY <1>1, FirstWriter
<1>3. PICK r \in Seq(Tx) : r = Tail(s)
  <2>1. Tail(s) \in Seq(Tx)
    BY <1>2, TailElements, ZenonT(30)
  <2> QED
    BY <2>1
<1>4. chnl'["wr"] = r
  BY <1>1, <1>2, <1>3 DEF Release
<1>5. IsInjective(s)
  BY <1>1 DEF SendingInv
<1>6. IsInjective(Tail(s)) /\ Head(s) \notin Range(Tail(s))
  BY <1>2, <1>5, InjectiveTail, ZenonT(30)
<1>7. Range(Tail(s)) \subseteq Range(s)
  BY <1>2, RangeTail, ZenonT(30)
<1>8. \A u \in Range(r) : u \in Range(s) /\ u # t /\ u \in Tx
  BY <1>2, <1>3, <1>6, <1>7, MemberType
<1>9. \A u \in Range(r) : Cmd[u] = "wr" /\ ~HoldsChnl(u)
  <2>1. \A u \in Range(r) : Cmd[u] = "wr"
    BY <1>1, <1>8 DEF SendingInv
  <2> QED
    BY <1>1, <1>2, <1>8, <2>1 DEF HoldsChnl
<1>10. \A u \in Range(r) : ini'[u] = "chnl" /\ sent'[u] = 0
  BY <1>1, <1>8, <1>9 DEF SendingInv, CallsSame
<1>11. SendingInv'
  <2>1. IsInjective(chnl["wr"])'
    BY <1>3, <1>4, <1>6
  <2>2. \A u \in Tx : ini'[u] = "id" => sent'[u] = 0
    BY DEF SendingInv, CallsSame
  <2>3. \A u \in Tx : ini'[u] \in {"chnl", "send"} => sent'[u] <= BurstLen[u] - 1
    BY DEF SendingInv, CallsSame
  <2> QED
    BY <1>4, <1>9, <1>10, <2>1, <2>2, <2>3 DEF SendingInv
<1>12. WriteCountInv'
  <2>1. wrReqBeats' = 0
    BY <1>1, <1>2 DEF WriteCountInv, WriteBeats
  <2>2. r # << >> => Head(r) \in Range(r)
    BY RangeTail
  <2>3. r # << >> => WriteBeats(Head(r))' = 0
    BY <1>10, <2>2 DEF WriteBeats
  <2> QED
    BY <1>4, <2>1, <2>3 DEF WriteCountInv
<1> QED
  BY <1>11, <1>12
\* What a step of the initiator announces, apart from the response order: nothing
\* that the checker complains about but the acknowledge, and no response beat.
Accounted ==
  /\ UNCHANGED rdRespBeats
  /\ complaints' \subseteq complaints \union IF Ace THEN {"phase"} ELSE {}

LEMMA UnseenAccounted ==
  ASSUME Unseen
  PROVE  Accounted /\ UNCHANGED wrReqBeats
BY DEF Unseen, checkerVars, Accounted

\* A request beat is announced: the last one of a write comes when all others have
\* been counted.
LEMMA CountRequestBeat ==
  ASSUME TypeOK, TokenInv, ReqChannelInv, SendingInv, WriteCountInv, Watch,
         NEW t \in Tx, SendRequest(t)
  PROVE  SendingInv' /\ WriteCountInv' /\ Accounted
<1>1. PICK p \in ReqBegins : RequestSeen(t, p)
  BY SendRequestSeen
<1>2. /\ HoldsChnl(t) /\ ini[t] = "chnl" /\ ini' = [ini EXCEPT ![t] = "send"]
      /\ UNCHANGED <<sent, chnl>>
  BY DEF SendRequest, Goto
<1>3. ini \in [Tx -> IniPcs] /\ sent \in [Tx -> Nat] /\ wrReqBeats \in Nat
  BY DEF TypeOK, IniTypeOK, CheckerTypeOK
<1>4. CallsSame(t) /\ ini'[t] = "send" /\ sent'[t] <= BurstLen[t] - 1
  BY <1>2, <1>3 DEF CallsSame, SendingInv
<1>5. CASE Cmd[t] = "rd"
  <2>1. UNCHANGED wrReqBeats /\ Accounted
    BY <1>1, <1>5 DEF RequestSeen, Accounted, If
  <2>2. t \notin Range(chnl["wr"])
    BY <1>5 DEF SendingInv
  <2> QED
    BY <1>2, <1>4, <2>1, <2>2, WriterElsewhere
<1>6. CASE Cmd[t] = "wr"
  <2>1. wrReqBeats = sent[t]
    <3>1. chnl["wr"] # << >> /\ Head(chnl["wr"]) = t
      BY <1>2, <1>6, FirstWriter
    <3> QED
      BY <1>2, <3>1 DEF WriteCountInv, WriteBeats
  <2>2. sent[t] \in Nat /\ BurstLen[t] \in Nat /\ sent[t] <= BurstLen[t] - 1
    BY <1>2, <1>3, ChannelAssumption DEF ChannelAssumption, SendingInv
  <2>3. /\ p = (IF LastBeat(t) THEN "BEGIN_REQ" ELSE "BEGIN_PARTIAL_REQ")
        /\ wrReqBeats' = IF p = "BEGIN_REQ" THEN 0 ELSE wrReqBeats + 1
        /\ complaints' = complaints \union
             If(p = "BEGIN_REQ" /\ wrReqBeats + 1 # BurstLen[t], "beats")
        /\ UNCHANGED rdRespBeats
    BY <1>1, <1>6 DEF RequestSeen
  <2>4. p = "BEGIN_REQ" => wrReqBeats + 1 = BurstLen[t]
    BY <1>6, <2>1, <2>2, <2>3 DEF LastBeat
  <2>5. Accounted
    BY <2>3, <2>4 DEF Accounted, If
  <2>6. wrReqBeats' = WriteBeats(t)'
    BY <1>2, <1>4, <2>1, <2>3 DEF WriteBeats, LastBeat
  <2>7. SendingInv' /\ WriteCountInv'
    BY <1>2, <1>4, <1>6, <2>6, WriterSends
  <2> QED
    BY <2>5, <2>7
<1> QED
  BY <1>5, <1>6, ChannelAssumption DEF ChannelAssumption, Cmds

\* A call waits for its turn on the channel.
LEMMA CountCall ==
  ASSUME TypeOK, TokenInv, SendingInv, WriteCountInv, Watch, NEW t \in Tx,
         Transport(t) \/ GetId(t)
  PROVE  SendingInv' /\ WriteCountInv' /\ Accounted
<1>1. Unseen
  BY CallUnseen
<1>2. Accounted /\ UNCHANGED wrReqBeats
  BY <1>1, UnseenAccounted
<1>3. /\ ini \in [Tx -> IniPcs] /\ sent \in [Tx -> Nat]
      /\ chnl \in [Cmds -> Seq(Tx)]
      /\ BurstLen[t] \in Nat \ {0} /\ Cmd[t] \in Cmds
  BY ChannelAssumption DEF ChannelAssumption, TypeOK, IniTypeOK
<1>4. /\ CallsSame(t) /\ ini[t] \notin {"chnl", "send"} /\ sent'[t] = 0
      /\ \/ ini'[t] = "id" /\ UNCHANGED chnl
         \/ ini'[t] = "chnl" /\ chnl' = [chnl EXCEPT ![Cmd[t]] = Append(@, t)]
  <2>1. CASE Transport(t)
    BY <1>3, <2>1 DEF Transport, Goto, CallsSame
  <2>2. CASE GetId(t)
    BY <1>3, <2>2 DEF GetId, Goto, CallsSame, SendingInv
  <2> QED
    BY <2>1, <2>2
<1>5. t \notin Range(chnl["wr"])
  BY <1>4 DEF SendingInv
<1>6. sent'[t] <= BurstLen[t] - 1
  BY <1>3, <1>4
<1>7. CASE chnl'["wr"] = chnl["wr"]
  BY <1>2, <1>4, <1>5, <1>6, <1>7, WriterElsewhere
<1>8. CASE /\ Cmd[t] = "wr" /\ ini'[t] = "chnl"
           /\ chnl'["wr"] = Append(chnl["wr"], t)
  BY <1>2, <1>4, <1>8, WriterJoins
<1> QED
  <2>1. chnl'["wr"] = chnl["wr"]
        \/ (Cmd[t] = "wr" /\ ini'[t] = "chnl" /\ chnl'["wr"] = Append(chnl["wr"], t))
    BY <1>3, <1>4 DEF Cmds
  <2> QED
    BY <1>2, <1>7, <1>8, <2>1

\* A writer that is alone keeps the channel when it queues up again.
LEMMA RequeueAlone ==
  ASSUME TypeOK, SendingInv, WritesApart, WrInterleaving, NEW t \in Tx,
         Cmd[t] = "wr", HoldsChnl(t)
  PROVE  Requeue(chnl["wr"], t) = chnl["wr"]
<1>1. PICK s \in Seq(Tx) : s = chnl["wr"]
  BY DEF TypeOK, IniTypeOK, Cmds
<1>2. s # << >> /\ Head(s) = t
  BY <1>1, FirstWriter
<1>3. \A u \in Range(s) : u = t
  <2>1. \A u \in Range(s) : u \in Tx
    BY MemberType
  <2> QED
    BY <1>1, <2>1 DEF WritesApart, SendingInv
<1>4. IsInjective(s)
  BY <1>1 DEF SendingInv
<1>5. Len(s) \in Nat /\ DOMAIN s = 1..Len(s) /\ Len(s) # 0
  BY <1>2
<1>6. \A i, j \in DOMAIN s : s[i] = s[j] => i = j
  BY <1>4 DEF IsInjective
<1>7. \A i \in DOMAIN s : s[i] = t
  BY <1>3 DEF Range
<1>8. Len(s) = 1
  <2>1. Len(s) > 1 => 1 \in DOMAIN s /\ 2 \in DOMAIN s
    BY <1>5
  <2> QED
    BY <1>5, <1>6, <1>7, <2>1
<1>9. Tail(s) = << >>
  BY <1>8, TailOfOne, ZenonT(30)
<1>10. Release(s) = << >>
  BY <1>2, <1>9 DEF Release
<1>11. s = <<t>>
  <2>1. s[1] = t
    BY <1>2
  <2> QED
    BY <1>8, <2>1
<1>12. Append(<< >>, t) = <<t>>
  BY SeqOne
<1> QED
  BY <1>1, <1>10, <1>11, <1>12 DEF Requeue

\* A beat that is not the last one is answered.
LEMMA CountBeatAccepted ==
  ASSUME TypeOK, TokenInv, WritesApart, SendingInv, WriteCountInv, Watch,
         NEW t \in Tx, BeatAccepted(t)
  PROVE  SendingInv' /\ WriteCountInv' /\ Accounted
<1>1. Unseen
  BY CallUnseen
<1>2. Accounted /\ UNCHANGED wrReqBeats
  BY <1>1, UnseenAccounted
<1>3. /\ ini \in [Tx -> IniPcs] /\ sent \in [Tx -> Nat]
      /\ chnl \in [Cmds -> Seq(Tx)]
      /\ BurstLen[t] \in Nat \ {0} /\ Cmd[t] \in Cmds
  BY ChannelAssumption DEF ChannelAssumption, TypeOK, IniTypeOK
<1>4. /\ ~LastBeat(t) /\ ini[t] = "send" /\ ini' = [ini EXCEPT ![t] = "chnl"]
      /\ sent' = [sent EXCEPT ![t] = @ + 1]
      /\ chnl' = IF WrInterleaving
                 THEN [chnl EXCEPT !["wr"] = Requeue(@, t)] ELSE chnl
  BY DEF BeatAccepted, Goto
<1>5. Cmd[t] = "wr" /\ HoldsChnl(t)
  BY <1>3, <1>4 DEF TokenInv, ChannelInv, LastBeat, Cmds
<1>6. CallsSame(t) /\ ini'[t] = "chnl" /\ sent'[t] = sent[t] + 1
  BY <1>3, <1>4 DEF CallsSame
<1>7. sent'[t] <= BurstLen[t] - 1
  BY <1>3, <1>4, <1>6 DEF LastBeat
<1>8. chnl'["wr"] = chnl["wr"]
  <2>1. CASE WrInterleaving
    <3>1. Requeue(chnl["wr"], t) = chnl["wr"]
      BY <1>5, <2>1, RequeueAlone
    <3> QED
      BY <1>3, <1>4, <2>1, <3>1 DEF Cmds
  <2>2. CASE ~WrInterleaving
    BY <1>4, <2>2
  <2> QED
    BY <2>1, <2>2
<1>9. wrReqBeats' = WriteBeats(t)'
  <2>1. chnl["wr"] # << >> /\ Head(chnl["wr"]) = t
    BY <1>5, FirstWriter
  <2>2. wrReqBeats = sent[t] + 1
    BY <1>4, <2>1 DEF WriteCountInv, WriteBeats
  <2> QED
    BY <1>2, <1>6, <2>2 DEF WriteBeats
<1> QED
  BY <1>2, <1>5, <1>6, <1>7, <1>8, <1>9, WriterSends

\* The last beat of a request is answered.
LEMMA CountRequestAccepted ==
  ASSUME TypeOK, TokenInv, SendingInv, WriteCountInv, Watch, NEW t \in Tx,
         RequestAccepted(t)
  PROVE  SendingInv' /\ WriteCountInv' /\ Accounted
<1>1. Unseen
  BY CallUnseen
<1>2. Accounted /\ UNCHANGED wrReqBeats
  BY <1>1, UnseenAccounted
<1>3. /\ ini \in [Tx -> IniPcs] /\ chnl \in [Cmds -> Seq(Tx)] /\ Cmd[t] \in Cmds
  BY ChannelAssumption DEF ChannelAssumption, TypeOK, IniTypeOK
<1>4. /\ LastBeat(t) /\ ini[t] = "send" /\ ini' = [ini EXCEPT ![t] = "resp"]
      /\ UNCHANGED sent /\ chnl' = [chnl EXCEPT ![Cmd[t]] = Release(@)]
  BY DEF RequestAccepted, Goto
<1>5. CallsSame(t) /\ ini'[t] = "resp" /\ HoldsChnl(t)
  BY <1>3, <1>4 DEF CallsSame, TokenInv, ChannelInv
<1>6. CASE Cmd[t] = "rd"
  <2>1. t \notin Range(chnl["wr"]) /\ chnl'["wr"] = chnl["wr"]
    BY <1>3, <1>4, <1>6 DEF SendingInv
  <2> QED
    BY <1>2, <1>5, <2>1, WriterElsewhere
<1>7. CASE Cmd[t] = "wr"
  <2>1. chnl'["wr"] = Release(chnl["wr"])
    BY <1>3, <1>4, <1>7
  <2> QED
    BY <1>2, <1>4, <1>5, <1>7, <2>1, WriterLeaves
<1> QED
  BY <1>3, <1>6, <1>7 DEF Cmds

\* The steps of the initiator: the beats of a write are counted, and a complaint
\* can only be about an acknowledge.
LEMMA CountIni ==
  ASSUME TypeOK, TokenInv, ReqChannelInv, RespChannelInv, WritesApart, SendingInv,
         WriteCountInv, \A u \in Tx : ini[u] = "ack" => Ace, IniNext, Watch
  PROVE  SendingInv' /\ WriteCountInv' /\ Accounted
<1>1. PICK t \in Tx :
        \/ Transport(t) \/ GetId(t) \/ SendRequest(t) \/ BeatAccepted(t)
        \/ RequestAccepted(t) \/ ResponseBeat(t) \/ SendAck(t) \/ Finish(t)
  BY DEF IniNext
<1>2. ini \in [Tx -> IniPcs]
  BY DEF TypeOK, IniTypeOK
<1>3. ASSUME CallsSame(t), UNCHANGED <<chnl, wrReqBeats>>,
             ini[t] \notin {"chnl", "send"}, ini'[t] \notin {"id", "chnl", "send"}
      PROVE  SendingInv' /\ WriteCountInv'
  <2>1. t \notin Range(chnl["wr"])
    BY <1>3 DEF SendingInv
  <2> QED
    BY <1>3, <2>1, WriterElsewhere
<1>4. CASE Transport(t) \/ GetId(t)
  BY <1>4, CountCall
<1>5. CASE SendRequest(t)
  BY <1>5, CountRequestBeat
<1>6. CASE BeatAccepted(t)
  BY <1>6, CountBeatAccepted
<1>7. CASE RequestAccepted(t)
  BY <1>7, CountRequestAccepted
<1>8. CASE ResponseBeat(t)
  <2>1. /\ ResponseEndSeen(t) /\ UNCHANGED <<sent, chnl>> /\ ini[t] = "resp"
        /\ ini' \in {ini, [ini EXCEPT ![t] = AfterResponse]}
    BY <1>8, ResponseBeatSeen
  <2>2. CallsSame(t) /\ ini'[t] \in {"resp", "ack", "fin"}
    BY <1>2, <2>1 DEF CallsSame, AfterResponse
  <2>3. UNCHANGED wrReqBeats /\ Accounted
    BY <2>1 DEF ResponseEndSeen, Accounted
  <2> QED
    BY <1>3, <2>1, <2>2, <2>3
<1>9. CASE SendAck(t)
  <2>1. /\ AckSeen /\ UNCHANGED <<sent, chnl>> /\ ini[t] = "ack"
        /\ ini' = [ini EXCEPT ![t] = "fin"]
    BY <1>9, SendAckSeen
  <2>2. CallsSame(t) /\ ini'[t] = "fin"
    BY <1>2, <2>1 DEF CallsSame
  <2>3. UNCHANGED wrReqBeats /\ Accounted
    BY <2>1 DEF AckSeen, Accounted
  <2> QED
    BY <1>3, <2>1, <2>2, <2>3
<1>10. CASE Finish(t)
  <2>1. Accounted /\ UNCHANGED wrReqBeats
    BY <1>10, CallUnseen, UnseenAccounted
  <2>2. /\ ini[t] = "fin" /\ ini' = [ini EXCEPT ![t] = "idle"]
        /\ UNCHANGED <<sent, chnl>>
    BY <1>10 DEF Finish, Goto
  <2>3. CallsSame(t) /\ ini'[t] = "idle"
    BY <1>2, <2>2 DEF CallsSame
  <2> QED
    BY <1>3, <2>1, <2>2, <2>3
<1> QED
  BY <1>1, <1>4, <1>5, <1>6, <1>7, <1>8, <1>9, <1>10
-----------------------------------------------------------------------------
(* The beats of the read responses.                                        *)

LEMMA ReadsKept ==
  ASSUME ReadCountInv, UNCHANGED rdRespBeats,
         \A u \in Tx : /\ Running(u)' <=> Running(u)
                       /\ Running(u) => Announced(u)' = Announced(u)
  PROVE  ReadCountInv'
BY DEF ReadCountInv

\* The counter of a response changes with its beats only.
LEMMA FsmBeatFrame ==
  ASSUME TypeOK, TokenInv, NEW t \in Tx, FsmStep(t)
  PROVE  \A u \in Tx \ {t} : beat'[u] = beat[u]
<1>1. beat \in [Tx -> Nat]
  BY DEF TypeOK, TgtTypeOK
<1>2. UNCHANGED beat \/ \E n : beat' = [beat EXCEPT ![t] = n]
  <2>1. CASE BeginStep(t)
    BY <2>1 DEF BeginStep
  <2>2. CASE DiscardStep(t)
    BY <2>2 DEF DiscardStep
  <2>3. CASE EndPartRespStep(t)
    BY <2>3 DEF EndPartRespStep, EndPartRespCb
  <2>4. CASE EndRespStep(t)
    BY <2>4 DEF EndRespStep, EndRespCb
  <2>5. CASE AckStep(t)
    BY <2>5 DEF AckStep, Quiet
  <2>6. ASSUME NEW tp, NEW q, NEW k, DueStep(t, tp, q, k)
        PROVE  UNCHANGED beat \/ \E n : beat' = [beat EXCEPT ![t] = n]
    <3>1. CASE EndPartReqStep(t, q, k)
      BY <3>1 DEF EndPartReqStep, EndPartReqCb
    <3>2. CASE EndReqStep(t, q, k)
      BY <3>2 DEF EndReqStep, EndReqCb
    <3>3. CASE BegRespStep(t, tp, q, k)
      BY <3>3 DEF BegRespStep, BegRespCb
    <3> QED
      BY <2>6, <3>1, <3>2, <3>3 DEF DueStep
  <2> QED
    BY <2>1, <2>2, <2>3, <2>4, <2>5, <2>6 DEF FsmStep
<1> QED
  BY <1>1, <1>2

\* The responses of the others go on unchanged.
LEMMA RunningOthers ==
  ASSUME TypeOK, TokenInv, LimitInv, RoomForBeats, NEW t \in Tx, FsmStep(t)
  PROVE  \A u \in Tx \ {t} : /\ Running(u)' <=> Running(u)
                             /\ Running(u) => Announced(u)' = Announced(u)
<1> SUFFICES ASSUME NEW u \in Tx \ {t}
             PROVE  /\ Running(u)' <=> Running(u)
                    /\ Running(u) => Announced(u)' = Announced(u)
  OBVIOUS
<1>1. fsm'[u] = fsm[u]
  BY FsmFrame
<1>2. beat'[u] = beat[u]
  BY FsmBeatFrame
<1>3. fsm[u] = "WaitForResponse" => (NotDue(u)' <=> NotDue(u))
  BY FsmQueues
<1>4. OwnsId(u)' <=> OwnsId(u)
  BY <1>1, <1>3, OwnsFrame
<1>5. \A c \in Cmds : NotQueued(u, c)' <=> NotQueued(u, c)
  BY FsmQueued
<1>6. Cmd[u] \in Cmds /\ "rd" \in Cmds
  BY ChannelAssumption DEF ChannelAssumption, Cmds
<1>7. Sent(u)' <=> Sent(u)
  BY <1>1, <1>5, <1>6 DEF Sent
<1> QED
  BY <1>1, <1>2, <1>4, <1>5, <1>6, <1>7 DEF Running, Announced

\* A read that is not on its way to the end of its response does not run.
LEMMA NotRunning ==
  ASSUME NEW u, \/ ~Responding(u) /\ fsm[u] # "WaitForResponse"
                \/ ~Responding(u) /\ NotDue(u)
                \/ Cmd[u] # "rd"
  PROVE  ~Running(u)
BY DEF Running, OwnsId, Responding

\* The engine counts a beat when it is acknowledged, the checker when it is
\* announced: the sum is the same before and after.
LEMMA RunningFsm ==
  ASSUME TypeOK, TokenInv, LimitInv, RoomForBeats, NEW t \in Tx, FsmStep(t)
  PROVE  /\ Running(t)' <=> Running(t)
         /\ Running(t) => Announced(t)' = Announced(t)
<1>1. /\ fsm \in [Tx -> FsmStates] /\ beat \in [Tx -> Nat] /\ Cmd[t] \in Cmds
      /\ beatFifo \in [Cmds -> Seq(Scheduled)]
  BY ChannelAssumption DEF ChannelAssumption, TypeOK, TgtTypeOK
<1>2. fw[t] # << >> => NotQueued(t, Cmd[t])
  BY <1>1 DEF TokenInv, BeatInv, NotQueued
<1>3. ASSUME ~Responding(t), fsm[t] # "WaitForResponse" \/ NotDue(t),
             ~Responding(t)', fsm'[t] # "WaitForResponse" \/ NotDue(t)'
      PROVE  ~Running(t) /\ ~Running(t)'
  BY <1>3 DEF Running, OwnsId, Responding
<1>4. CASE BeginStep(t) \/ DiscardStep(t) \/ AckStep(t)
  <2>1. fsm[t] \in {"Idle", "WriteIdle", "WaitAck"}
        /\ fsm'[t] \in {"PartialRequest", "Request", "WaitAck", "Idle"}
    BY <1>1, <1>4 DEF BeginStep, DiscardStep, AckStep, Becomes
  <2> QED
    BY <1>3, <2>1 DEF Responding
<1>5. CASE EndPartRespStep(t)
  <2>1. /\ fsm[t] = "PartialResponse" /\ fsm' = [fsm EXCEPT ![t] = "ReadIdle"]
        /\ Cmd[t] = "rd" /\ fw[t] # << >> /\ beat' = [beat EXCEPT ![t] = beat[t] + 1]
    BY <1>5 DEF EndPartRespStep, Becomes, EndPartRespCb
  <2>2. fsm'[t] = "ReadIdle" /\ beat'[t] = beat[t] + 1
    BY <1>1, <2>1
  <2>3. Running(t) /\ Running(t)'
    BY <2>1, <2>2 DEF Running, OwnsId, Responding, Sent
  <2>4. Announced(t) = beat[t] + 1
    BY <1>2, <2>1 DEF Announced
  <2>5. Announced(t)' = beat[t] + 1
    BY <1>1, <2>2 DEF Announced
  <2> QED
    BY <2>3, <2>4, <2>5
<1>6. CASE EndRespStep(t)
  <2>1. /\ fsm[t] = "Response" /\ fw[t] # << >>
        /\ fsm' = [fsm EXCEPT ![t] = IF Coherent THEN "WaitAck" ELSE "Idle"]
    BY <1>6 DEF EndRespStep, Becomes
  <2>2. ~Running(t)
    BY <1>2, <2>1 DEF Running, Sent
  <2>3. fsm'[t] \in {"WaitAck", "Idle"}
    BY <1>1, <2>1
  <2>4. ~Running(t)'
    BY <2>3 DEF Running, OwnsId, Responding
  <2> QED
    BY <2>2, <2>4
<1>7. ASSUME NEW tp, NEW q, NEW k, DueStep(t, tp, q, k)
      PROVE  /\ Running(t)' <=> Running(t)
             /\ Running(t) => Announced(t)' = Announced(t)
  <2>1. CASE EndPartReqStep(t, q, k)
    <3>1. fsm[t] = "PartialRequest" /\ fsm'[t] = "WriteIdle"
      BY <1>1, <2>1 DEF EndPartReqStep, Becomes
    <3> QED
      BY <1>3, <3>1 DEF Responding
  <2>2. CASE EndReqStep(t, q, k)
    <3>1. fsm[t] = "Request" /\ fsm'[t] = "WaitForResponse"
      BY <1>1, <2>2 DEF EndReqStep, Becomes
    <3>2. evq' = q /\ clkq' = k /\ NotIn(t, q, k)
      BY <2>2 DEF EndReqStep, EndReqCb, KeepQueues, LeftOver
    <3>3. NotDue(t)'
      BY <3>2 DEF NotDue
    <3> QED
      BY <1>3, <3>1, <3>3 DEF Responding
  <2>3. CASE BegRespStep(t, tp, q, k)
    <3>1. CASE Cmd[t] # "rd"
      BY <3>1 DEF Running, OwnsId
    <3>2. CASE Cmd[t] = "rd"
      <4>1. /\ fsm[t] \in {"WaitForResponse", "ReadIdle"} /\ ~NotDue(t)
            /\ fsm'[t] \in {"PartialResponse", "Response"} /\ UNCHANGED beat
        BY <1>1, <2>3 DEF BegRespStep, Becomes, BegRespCb
      <4>2. PICK d \in TimePoints : beatFifo' =
              [beatFifo EXCEPT ![Cmd[t]] = Append(@, [tp |-> d, tx |-> t])]
        BY <2>3, FsmBeats
      <4>3. PICK e : e = [tp |-> d, tx |-> t]
        OBVIOUS
      <4>4. PICK s \in Seq(Scheduled) : s = beatFifo["rd"]
        BY <1>1 DEF Cmds
      <4>5. e \in Scheduled
        BY <4>3 DEF Scheduled
      <4>6. Range(Append(s, e)) = Range(s) \union {e}
        BY <4>5, RangeAppend
      <4>7. beatFifo'["rd"] = Append(s, e)
        BY <1>1, <3>2, <4>2, <4>3, <4>4
      <4>8. e \in Range(beatFifo'["rd"])
        BY <4>6, <4>7
      <4>9. ~NotQueued(t, "rd")'
        BY <4>3, <4>8 DEF NotQueued
      <4>10. Running(t) /\ Announced(t) = beat[t]
        BY <1>1, <3>2, <4>1 DEF Running, OwnsId, Responding, Sent, Announced
      <4>11. Running(t)' /\ Announced(t)' = beat[t]
        BY <1>1, <3>2, <4>1, <4>9 DEF Running, OwnsId, Responding, Sent, Announced
      <4> QED
        BY <4>10, <4>11
    <3> QED
      BY <3>1, <3>2
  <2> QED
    BY <1>7, <2>1, <2>2, <2>3 DEF DueStep
<1> QED
  BY <1>4, <1>5, <1>6, <1>7 DEF FsmStep

\* A step of a state machine.
LEMMA ReadFsm ==
  ASSUME TypeOK, TokenInv, LimitInv, RoomForBeats, ReadCountInv, UNCHANGED rdRespBeats,
         NEW t \in Tx, FsmStep(t)
  PROVE  ReadCountInv'
<1>1. \A u \in Tx : /\ Running(u)' <=> Running(u)
                    /\ Running(u) => Announced(u)' = Announced(u)
  BY RunningFsm, RunningOthers
<1> QED
  BY <1>1, ReadsKept

\* A response goes on if its state machine and its queued beats stay as they are.
LEMMA RunningFrame ==
  ASSUME UNCHANGED <<fsm, beat>>, beatFifo'["rd"] = beatFifo["rd"], NEW u \in Tx,
         OwnsId(u)' <=> OwnsId(u)
  PROVE  /\ Running(u)' <=> Running(u)
         /\ Running(u) => Announced(u)' = Announced(u)
<1>1. NotQueued(u, "rd")' <=> NotQueued(u, "rd")
  BY DEF NotQueued
<1>2. CASE Cmd[u] = "rd"
  BY <1>1, <1>2 DEF Running, Sent, Announced
<1>3. CASE Cmd[u] # "rd"
  BY <1>3, NotRunning DEF Running, OwnsId
<1> QED
  BY <1>2, <1>3

\* start_rd_resp_thread starts a response: the beats of the one with the same id
\* before it have all been announced.
LEMMA ReadBegins ==
  ASSUME TypeOK, TokenInv, BurstInv, ReadCountInv, UNCHANGED rdRespBeats, StartRdBegin
  PROVE  ReadCountInv'
<1>1. PICK t : t = rdStart.tx
  OBVIOUS
<1>2. /\ rdStart.pc = "id" /\ IdFree(Id[t])
      /\ UNCHANGED <<fsm, beat, beatFifo>>
      /\ Schedule(BeatDelays, IF BurstLen[t] = 1 THEN "BegRespE" ELSE "BegPartRespE",
                  t, evq, clkq)
  BY <1>1 DEF StartRdBegin, startRdRest, fsmVars
<1>3. t \in Tx /\ t # NoTx
  BY <1>1, <1>2, ChannelAssumption DEF ChannelAssumption, TypeOK, TgtTypeOK
<1>4. Cmd[t] = "rd" /\ fsm[t] = "WaitForResponse" /\ NotDue(t)
  BY <1>1, <1>3 DEF TokenInv, WaitingInv
<1>5. PICK tp \in TimePoints : Schedule(BeatDelays, tp, t, evq, clkq)
  BY <1>2 DEF TimePoints
<1>6. QueueTypes(evq, clkq)
  BY DEF TypeOK, TgtTypeOK, QueueTypes
<1>7. ~NotDue(t)' /\ \A u \in Tx \ {t} : NotDue(u)' <=> NotDue(u)
  BY <1>3, <1>5, <1>6, ScheduledDue DEF NotDue
<1>8. \A u \in Tx \ {t} : OwnsId(u)' <=> OwnsId(u)
  BY <1>2, <1>7, OwnsFrame
<1>9. \A u \in Tx \ {t} : /\ Running(u)' <=> Running(u)
                          /\ Running(u) => Announced(u)' = Announced(u)
  BY <1>2, <1>8, RunningFrame
<1>10. beat[t] = 0
  BY <1>3, <1>4 DEF BurstInv, BurstOK, ReadBeats
<1>11. Running(t)' /\ Announced(t)' = 0
  BY <1>2, <1>4, <1>7, <1>10 DEF Running, OwnsId, Sent, Announced
<1>12. \A u \in Tx : Id[u] = Id[t] => ~Running(u)
  BY <1>2 DEF IdFree, TokenInv, IdInv, Running
<1>13. Id[t] \in Ids
  BY <1>3, ChannelAssumption DEF ChannelAssumption
<1>14. rdRespBeats[Id[t]] = 0
  BY <1>12, <1>13 DEF ReadCountInv
<1>15. \A u \in Tx : Running(u)' => rdRespBeats'[Id[u]] = Announced(u)'
  BY <1>9, <1>11, <1>14 DEF ReadCountInv
<1>16. \A i \in Ids :
         (\A u \in Tx : Id[u] = i => ~Running(u)') => rdRespBeats'[i] = 0
  <2>1. \A u \in Tx : Running(u) => Running(u)'
    BY <1>9, <1>11
  <2> QED
    BY <2>1 DEF ReadCountInv
<1> QED
  BY <1>15, <1>16 DEF ReadCountInv

\* The threads that send nothing.
LEMMA ReadThread ==
  ASSUME TypeOK, TokenInv, BurstInv, ReadCountInv, UNCHANGED rdRespBeats, ThreadStep,
         ~\E c \in Cmds : SendRespBeat(c)
  PROVE  ReadCountInv'
<1>1. ASSUME UNCHANGED <<fsm, beat, beatFifo, evq, clkq>>
      PROVE  ReadCountInv'
  <2>1. \A u \in Tx : OwnsId(u)' <=> OwnsId(u)
    BY <1>1 DEF OwnsId, Responding, NotDue, NotIn
  <2>2. \A u \in Tx : /\ Running(u)' <=> Running(u)
                      /\ Running(u) => Announced(u)' = Announced(u)
    BY <1>1, <2>1, RunningFrame
  <2> QED
    BY <2>2, ReadsKept
<1>2. ASSUME NEW t \in Tx, ProcessReq2Resp(t)
      PROVE  ReadCountInv'
  BY <1>1, <1>2 DEF ProcessReq2Resp, fsmVars
<1>3. CASE PushBackOverdue
  BY <1>1, <1>3 DEF PushBackOverdue, fsmVars
<1>4. CASE StartRdRead
  BY <1>1, <1>4 DEF StartRdRead, startRdRest, fsmVars
<1>5. CASE StartRdSem
  BY <1>1, <1>5 DEF StartRdSem, startRdRest, fsmVars
<1>6. CASE StartRdBegin
  BY <1>6, ReadBegins
<1>7. CASE StartWr
  <2>1. PICK s \in Seq(Tx) : s = respFifo["wr"]
    BY DEF TypeOK, TgtTypeOK, Cmds
  <2>2. s # << >> /\ Schedule({"zero"}, "BegRespE", Head(s), evq, clkq)
        /\ UNCHANGED <<fsm, beat, beatFifo>>
    BY <1>7, <2>1 DEF StartWr, startRdRest, fsmVars
  <2>3. Head(s) \in Range(s) /\ Head(s) \in Tx
    BY <2>2, RangeTail, MemberType
  <2>4. PICK w \in Tx : w = Head(s)
    BY <2>3
  <2>5. Cmd[w] = "wr"
    BY <2>1, <2>3, <2>4 DEF TokenInv, WaitingInv, Cmds
  <2>6. QueueTypes(evq, clkq) /\ "BegRespE" \in TimePoints
    BY DEF TypeOK, TgtTypeOK, QueueTypes, TimePoints
  <2>7. \A u \in Tx \ {w} : NotDue(u)' <=> NotDue(u)
    BY <2>2, <2>4, <2>6, ScheduledDue DEF NotDue
  <2>8. \A u \in Tx \ {w} : OwnsId(u)' <=> OwnsId(u)
    BY <2>2, <2>7, OwnsFrame
  <2>9. OwnsId(w)' <=> OwnsId(w)
    BY <2>5 DEF OwnsId
  <2>10. \A u \in Tx : /\ Running(u)' <=> Running(u)
                       /\ Running(u) => Announced(u)' = Announced(u)
    BY <2>2, <2>8, <2>9, RunningFrame
  <2> QED
    BY <2>10, ReadsKept
<1> QED
  BY <1>2, <1>3, <1>4, <1>5, <1>6, <1>7 DEF ThreadStep

\* A response beat is announced, the last one when all others have been counted.
LEMMA ReadSends ==
  ASSUME TypeOK, TokenInv, OwnerInv, BurstInv, RespChannelInv, ReadCountInv, Watch,
         UNCHANGED iniVars, NEW c \in Cmds, SendRespBeat(c)
  PROVE  /\ ReadCountInv' /\ UNCHANGED wrReqBeats
         /\ complaints' \subseteq complaints \union {"response"}
<1>1. PICK e : e = Head(beatFifo[c])
  OBVIOUS
<1>2. /\ beatFifo[c] # << >> /\ e \in Range(beatFifo[c]) /\ e.tx \in Tx
      /\ Cmd[e.tx] = c /\ beatFifo' = [beatFifo EXCEPT ![c] = Tail(@)]
      /\ \E p \in RespBegins :
           /\ ResponseSeen(e.tx, p)
           /\ fsm[e.tx] = IF p = "BEGIN_RESP" THEN "Response" ELSE "PartialResponse"
      /\ UNCHANGED <<fw, fsm, beat, evq, clkq, req2resp, respFifo, rdStart>>
  BY <1>1, SendRespBeatSeen
<1>3. PICK t \in Tx : t = e.tx
  BY <1>2
<1>4. PICK p \in RespBegins :
        /\ ResponseSeen(t, p)
        /\ fsm[t] = IF p = "BEGIN_RESP" THEN "Response" ELSE "PartialResponse"
  BY <1>2, <1>3
<1>5. /\ rdRespBeats' =
           IF Cmd[t] = "wr" THEN rdRespBeats
           ELSE [rdRespBeats EXCEPT ![Id[t]] =
                   IF p = "BEGIN_RESP" THEN 0 ELSE rdRespBeats[Id[t]] + 1]
      /\ complaints' \subseteq complaints \union {"response"} \union
           If(Cmd[t] = "rd" /\ p = "BEGIN_RESP"
                /\ rdRespBeats[Id[t]] + 1 # BurstLen[t], "beats")
      /\ UNCHANGED wrReqBeats
  BY <1>4 DEF ResponseSeen, If
<1>6. /\ beatFifo \in [Cmds -> Seq(Scheduled)] /\ rdRespBeats \in [Ids -> Nat]
      /\ beat \in [Tx -> Nat] /\ Id \in [Tx -> Ids] /\ BurstLen \in [Tx -> Nat \ {0}]
  BY ChannelAssumption DEF ChannelAssumption, TypeOK, TgtTypeOK, CheckerTypeOK
<1>7. \A u \in Tx : OwnsId(u)' <=> OwnsId(u)
  BY <1>2 DEF OwnsId, Responding, NotDue, NotIn
<1>8. CASE c = "wr"
  <2>1. beatFifo'["rd"] = beatFifo["rd"]
    BY <1>2, <1>6, <1>8
  <2>2. \A u \in Tx : /\ Running(u)' <=> Running(u)
                      /\ Running(u) => Announced(u)' = Announced(u)
    BY <1>2, <1>7, <2>1, RunningFrame
  <2>3. UNCHANGED rdRespBeats /\ complaints' \subseteq complaints \union {"response"}
    BY <1>2, <1>3, <1>5, <1>8 DEF If
  <2> QED
    BY <1>5, <2>2, <2>3, ReadsKept
<1>9. CASE c = "rd"
  <2>1. PICK s \in Seq(Scheduled) : s = beatFifo["rd"]
    BY <1>6, <1>9
  <2>2. s # << >> /\ e = Head(s) /\ e \in Range(s) /\ beatFifo'["rd"] = Tail(s)
    BY <1>1, <1>2, <1>6, <1>9, <2>1
  <2>3. OneEach(s)
    BY <1>9, <2>1 DEF TokenInv, BeatInv
  <2>4. OneEach(Tail(s)) /\ \A d \in Range(Tail(s)) : d.tx # Head(s).tx
    BY <2>2, <2>3, OneEachTail, ZenonT(30)
  <2>5. \A d \in Range(s) : d = Head(s) \/ d \in Range(Tail(s))
    BY <2>2, RangeHeadTail, ZenonT(30)
  <2>6. Range(Tail(s)) \subseteq Range(s)
    BY <2>2, RangeTail, ZenonT(30)
  <2>7. ~NotQueued(t, "rd") /\ NotQueued(t, "rd")'
    BY <1>3, <2>1, <2>2, <2>4 DEF NotQueued
  <2>8. \A u \in Tx \ {t} : NotQueued(u, "rd")' <=> NotQueued(u, "rd")
    BY <1>3, <2>1, <2>2, <2>5, <2>6 DEF NotQueued
  <2>9. Cmd[t] = "rd" /\ Id[t] \in Ids
    BY <1>2, <1>3, <1>6, <1>9
  <2>10. \A u \in Tx \ {t} : /\ Running(u)' <=> Running(u)
                             /\ Running(u) => Announced(u)' = Announced(u)
    <3> SUFFICES ASSUME NEW u \in Tx \ {t}
                 PROVE  /\ Running(u)' <=> Running(u)
                        /\ Running(u) => Announced(u)' = Announced(u)
      OBVIOUS
    <3>1. CASE Cmd[u] = "rd"
      BY <1>2, <1>7, <2>8, <3>1 DEF Running, Sent, Announced
    <3>2. CASE Cmd[u] # "rd"
      BY <3>2 DEF Running, OwnsId
    <3> QED
      BY <3>1, <3>2
  <2>11. OwnsId(t) /\ Running(t) /\ Announced(t) = beat[t]
    BY <1>4, <1>6, <2>7, <2>9 DEF Running, OwnsId, Responding, Sent, Announced
  <2>12. rdRespBeats[Id[t]] = beat[t]
    BY <2>11 DEF ReadCountInv
  <2>13. \A u \in Tx \ {t} : Running(u) => Id[u] # Id[t]
    BY <2>11 DEF TokenInv, IdInv, Running
  <2>14. \A u \in Tx \ {t} : Running(u)' => rdRespBeats'[Id[u]] = Announced(u)'
    <3>1. \A u \in Tx \ {t} : Running(u) =>
            rdRespBeats'[Id[u]] = rdRespBeats[Id[u]]
      BY <1>5, <1>6, <2>9, <2>13
    <3> QED
      BY <2>10, <3>1 DEF ReadCountInv
  <2>15. \A i \in Ids \ {Id[t]} :
           (\A u \in Tx : Id[u] = i => ~Running(u)') => rdRespBeats'[i] = 0
    <3>1. \A i \in Ids \ {Id[t]} : rdRespBeats'[i] = rdRespBeats[i]
      BY <1>5, <1>6, <2>9
    <3> QED
      BY <2>10, <3>1 DEF ReadCountInv
  <2>16. CASE p = "BEGIN_RESP"
    <3>1. ~Running(t)'
      BY <1>2, <1>4, <2>7, <2>9, <2>16 DEF Running, Sent
    <3>2. rdRespBeats'[Id[t]] = 0
      BY <1>5, <1>6, <2>9, <2>16
    <3>3. beat[t] = BurstLen[t] - 1
      BY <1>4, <2>9, <2>16 DEF BurstInv, BurstOK, ReadBeats
    <3>4. rdRespBeats[Id[t]] + 1 = BurstLen[t]
      BY <1>6, <2>12, <3>3
    <3>5. complaints' \subseteq complaints \union {"response"}
      BY <1>5, <3>4 DEF If
    <3>6. ReadCountInv'
      BY <2>14, <2>15, <3>1, <3>2 DEF ReadCountInv
    <3> QED
      BY <1>5, <3>5, <3>6
  <2>17. CASE p # "BEGIN_RESP"
    <3>1. Running(t)' /\ Announced(t)' = beat[t] + 1
      BY <1>2, <1>4, <1>6, <2>7, <2>9, <2>17 DEF Running, OwnsId, Responding, Sent,
         Announced
    <3>2. rdRespBeats'[Id[t]] = beat[t] + 1
      BY <1>5, <1>6, <2>9, <2>12, <2>17
    <3>3. complaints' \subseteq complaints \union {"response"}
      BY <1>5, <2>17 DEF If
    <3>4. ReadCountInv'
      BY <2>14, <2>15, <3>1, <3>2 DEF ReadCountInv
    <3> QED
      BY <1>5, <3>3, <3>4
  <2> QED
    BY <2>16, <2>17
<1> QED
  BY <1>8, <1>9 DEF Cmds
-----------------------------------------------------------------------------
(* No complaint.                                                           *)

\* What the checker may complain about: responses out of order, and the
\* acknowledge of ACE, which only an initiator of that flavor sends.
BlameInv ==
  /\ \A t \in Tx : ini[t] = "ack" => Ace
  /\ complaints \subseteq {"response"} \union IF Ace THEN {"phase"} ELSE {}

CheckedInv == ReqChannelInv /\ RespChannelInv /\ CountedInv /\ BlameInv

\* Only the flavor ACE acknowledges.
LEMMA AckNext ==
  ASSUME IniTypeOK, \A t \in Tx : ini[t] = "ack" => Ace, IniNext
  PROVE  \A t \in Tx : ini'[t] = "ack" => Ace
<1>1. PICK t \in Tx :
        \/ Transport(t) \/ GetId(t) \/ SendRequest(t) \/ BeatAccepted(t)
        \/ RequestAccepted(t) \/ ResponseBeat(t) \/ SendAck(t) \/ Finish(t)
  BY DEF IniNext
<1>2. /\ ini \in [Tx -> IniPcs]
      /\ \/ \E p \in {"id", "chnl", "send", "resp", "fin", "idle", AfterResponse} :
              ini' = [ini EXCEPT ![t] = p]
         \/ UNCHANGED ini
  BY <1>1 DEF IniTypeOK, Transport, GetId, SendRequest, BeatAccepted, RequestAccepted,
     ResponseBeat, SendAck, Finish, Goto
<1> QED
  BY <1>2 DEF AfterResponse

\* The steps of the target.
LEMMA CountTgt ==
  ASSUME TypeOK, TokenInv, LimitInv, OwnerInv, BurstInv, RoomForBeats, CheckedInv,
         TgtNext, UNCHANGED iniVars, Watch
  PROVE  /\ ReadCountInv' /\ UNCHANGED wrReqBeats
         /\ complaints' \subseteq complaints \union {"response"}
<1>1. ASSUME NEW t \in Tx, FsmStep(t)
      PROVE  /\ ReadCountInv' /\ UNCHANGED wrReqBeats
             /\ complaints' \subseteq complaints \union {"response"}
  <2>1. UNCHANGED <<wrReqBeats, rdRespBeats, complaints>>
    BY <1>1, FsmSeen DEF CheckedInv, Unseen, RequestEndSeen, checkerVars
  <2> QED
    BY <1>1, <2>1, ReadFsm DEF CheckedInv, CountedInv
<1>2. CASE ThreadStep /\ ~\E c \in Cmds : SendRespBeat(c)
  <2>1. UNCHANGED <<wrReqBeats, rdRespBeats, complaints>>
    BY <1>2, ThreadUnseen DEF Unseen, checkerVars
  <2> QED
    BY <1>2, <2>1, ReadThread DEF CheckedInv, CountedInv
<1>3. ASSUME NEW c \in Cmds, SendRespBeat(c)
      PROVE  /\ ReadCountInv' /\ UNCHANGED wrReqBeats
             /\ complaints' \subseteq complaints \union {"response"}
  BY <1>3, ReadSends DEF CheckedInv, CountedInv
<1> QED
  BY <1>1, <1>2, <1>3, TgtCases

LEMMA CheckedNext ==
  ASSUME TypeOK, TokenInv, LimitInv, OwnerInv, BurstInv, RoomForBeats, WritesApart,
         CheckedInv, [Next]_vars
  PROVE  CheckedInv'
<1>1. ReqChannelInv' /\ RespChannelInv'
  BY ChannelNext DEF CheckedInv
<1>2. CountedInv' /\ BlameInv'
  <2>1. CASE UNCHANGED vars
    <3>1. UNCHANGED <<chnl, ini, sent, wrReqBeats, rdRespBeats, complaints, fsm, beat,
                      beatFifo, evq, clkq>>
      BY <2>1 DEF vars, linkVars, iniVars, tgtVars, checkerVars
    <3>2. SendingInv' /\ WriteCountInv'
      BY <3>1 DEF CheckedInv, CountedInv, SendingInv, HoldsChnl, WriteCountInv, WriteBeats,
         LastBeat
    <3>3. \A u \in Tx : OwnsId(u)' <=> OwnsId(u)
      BY <3>1 DEF OwnsId, Responding, NotDue, NotIn
    <3>4. \A u \in Tx : /\ Running(u)' <=> Running(u)
                        /\ Running(u) => Announced(u)' = Announced(u)
      BY <3>1, <3>3, RunningFrame
    <3>5. ReadCountInv'
      BY <3>1, <3>4, ReadsKept DEF CheckedInv, CountedInv
    <3> QED
      BY <3>1, <3>2, <3>5 DEF CheckedInv, CountedInv, BlameInv
  <2>2. CASE IniNext /\ UNCHANGED tgtVars /\ Watch
    <3>1. SendingInv' /\ WriteCountInv' /\ Accounted
      BY <2>2, CountIni DEF CheckedInv, CountedInv, BlameInv
    <3>2. UNCHANGED <<fsm, beat, beatFifo, evq, clkq>>
      BY <2>2 DEF tgtVars
    <3>3. \A u \in Tx : OwnsId(u)' <=> OwnsId(u)
      BY <3>2 DEF OwnsId, Responding, NotDue, NotIn
    <3>4. \A u \in Tx : /\ Running(u)' <=> Running(u)
                        /\ Running(u) => Announced(u)' = Announced(u)
      BY <3>2, <3>3, RunningFrame
    <3>5. ReadCountInv'
      BY <3>1, <3>4, ReadsKept DEF CheckedInv, CountedInv, Accounted
    <3>6. \A t \in Tx : ini'[t] = "ack" => Ace
      BY <2>2, AckNext DEF TypeOK, CheckedInv, BlameInv
    <3>7. complaints' \subseteq {"response"} \union IF Ace THEN {"phase"} ELSE {}
      BY <3>1 DEF Accounted, CheckedInv, BlameInv
    <3> QED
      BY <3>1, <3>5, <3>6, <3>7 DEF CountedInv, BlameInv
  <2>3. CASE TgtNext /\ UNCHANGED iniVars /\ Watch
    <3>1. /\ ReadCountInv' /\ UNCHANGED wrReqBeats
          /\ complaints' \subseteq complaints \union {"response"}
      BY <2>3, CountTgt
    <3>2. UNCHANGED <<chnl, ini, sent>>
      BY <2>3 DEF iniVars
    <3>3. SendingInv' /\ WriteCountInv'
      BY <3>1, <3>2 DEF CheckedInv, CountedInv, SendingInv, HoldsChnl, WriteCountInv,
         WriteBeats, LastBeat
    <3> QED
      BY <3>1, <3>2, <3>3 DEF CheckedInv, CountedInv, BlameInv
  <2> QED
    BY <2>1, <2>2, <2>3 DEF Next
<1> QED
  BY <1>1, <1>2 DEF CheckedInv

LEMMA InitChecked == Init => CheckedInv
<1>1. SUFFICES ASSUME Init PROVE CheckedInv
  OBVIOUS
<1>2. ReqChannelInv /\ RespChannelInv
  BY <1>1, InitOrdered DEF OrderedInv
<1>3. /\ chnl["wr"] = << >> /\ wrReqBeats = 0 /\ complaints = {}
      /\ \A t \in Tx : ini[t] = "idle" /\ fsm[t] = "Idle"
      /\ \A i \in Ids : rdRespBeats[i] = 0
  BY <1>1 DEF Init, IniInit, TgtInit, CheckerInit, Cmds
<1>4. IsInjective(<< >>) /\ Range(<< >>) = {}
  BY DEF IsInjective, Range
<1>5. SendingInv /\ WriteCountInv
  BY <1>3, <1>4 DEF SendingInv, WriteCountInv
<1>6. \A t \in Tx : ~Running(t)
  BY <1>3 DEF Running, OwnsId, Responding
<1> QED
  BY <1>2, <1>3, <1>5, <1>6 DEF CheckedInv, CountedInv, ReadCountInv, BlameInv

\* The checker counts the beats that are on the link: it never reports a burst of
\* the wrong length, nor a beat that comes before the one before it is answered,
\* and its complaint about a phase it does not know is the acknowledge of ACE.
THEOREM CheckedInvariant ==
  ASSUME RoomForBeats, WritesApart
  PROVE  Spec => []CheckedInv
<1>1. CountersFit
  BY DEF RoomForBeats
<1>2. Spec => [](TypeOK /\ TokenInv)
  BY TokenInvariant
<1>3. Spec => []LimitInv
  BY <1>1, LimitInvariant
<1>4. Spec => []OwnerInv
  BY OwnerInvariant
<1>5. Spec => []BurstInv
  BY <1>1, BurstInvariant
<1>6. Init => CheckedInv
  BY InitChecked
<1>7. /\ TypeOK /\ TokenInv /\ LimitInv /\ OwnerInv /\ BurstInv /\ CheckedInv
      /\ [Next]_vars
      => CheckedInv'
  BY CheckedNext
<1> QED
  BY <1>2, <1>3, <1>4, <1>5, <1>6, <1>7, PTL DEF Spec

\* The protocol checker in the link has nothing to complain about: the beats of
\* each channel come one at a time, the bursts have the length of their payloads,
\* and the responses with one id come in the order of their requests.  It does
\* not know the phase ACK, so this is about AXI; and it has one counter for the
\* beats of all writes, so two writes may not interleave theirs.
THEOREM NoComplaintHolds ==
  ASSUME KeepsOrder, RoomForBeats, WritesApart, ~Ace
  PROVE  Spec => []NoComplaint
<1>1. Spec => []CheckedInv
  BY CheckedInvariant
<1>2. Spec => []OrderedInv
  BY OrderedInvariant
<1>3. CheckedInv /\ OrderedInv => NoComplaint
  BY DEF CheckedInv, BlameInv, OrderedInv, NoneOutOfOrder, NoComplaint
<1> QED
  BY <1>1, <1>2, <1>3, PTL
=============================================================================
