------------------------ MODULE AxiLinkLimit_proofs ------------------------
(***************************************************************************)
(* What the two engines count: the requests the target has taken and the   *)
(* one it holds back, and the calls of the initiator.  From this follow    *)
(* back-pressure and the safety part of the contract of an AXI target.     *)
(*                                                                         *)
(* First every step of the target is reduced to what it does to one state  *)
(* machine; the invariants need only look at these cases.                  *)
(***************************************************************************)
EXTENDS AxiLinkToken_proofs, FiniteSetTheorems

-----------------------------------------------------------------------------
(* The steps of a state machine.                                           *)

Becomes(t, s) == fsm' = [fsm EXCEPT ![t] = s]

Requesting(t) == fsm[t] \in {"PartialRequest", "Request"}

\* A beat of a request arrives; it is the first one or the next one of a write.
BeginStep(t) ==
  /\ fsm[t] \in {"Idle", "WriteIdle"} /\ ini[t] = "send"
  /\ stalledTx[Cmd[t]] = NoTx /\ NotDue(t)
  /\ fw[t] # << >> /\ fw' = Drop(fw, t)
  /\ active' = active \union {t}
  /\ beat' = [beat EXCEPT ![t] = BeatsAtBegin(t)]
  /\ cnt' = [cnt EXCEPT ![Cmd[t]] = CountRequest(t)]
  /\ \E next \in {"PartialRequest", "Request"}, end \in {"EndPartReqE", "EndReqE"} :
       /\ Becomes(t, next) /\ (next = "Request" <=> LastBeat(t))
       /\ end \in DueIn(t, next)
       /\ LET stall == BeatsAtBegin(t) = 0 /\ OverLimit(CountRequest(t))
          IN  IF stall THEN Park(t, end) ELSE Accept(t, end, BeatsAtBegin(t))
  /\ UNCHANGED <<bw, req2resp, respondVars, rdResp, activeRdId, beatFifo, respCh,
                 tgtAlarm>>

\* A request beat that the state machine does not expect: it still waits for
\* the acknowledge of the use before.
DiscardStep(t) ==
  /\ fsm[t] = "WaitAck" /\ ini[t] = "send" /\ fw[t] # << >> /\ fw' = Drop(fw, t)
  /\ tgtAlarm' = tgtAlarm \union {"Discarded"}
  /\ UNCHANGED <<fsm, active, beat, cnt, stalledTx, stalledTp, evq, clkq, bw,
                 req2resp, respondVars, rdResp, activeRdId, beatFifo, respCh>>

EndPartReqStep(t, q, k) ==
  /\ fsm[t] = "PartialRequest" /\ Becomes(t, "WriteIdle") /\ Cmd[t] = "wr"
  /\ ~NotDue(t) /\ LeftOver(t, q, k) /\ EndPartReqCb(t, q, k)
  /\ UNCHANGED <<fw, active, respondVars>>

EndReqStep(t, q, k) ==
  /\ fsm[t] = "Request" /\ Becomes(t, "WaitForResponse")
  /\ ~NotDue(t) /\ LeftOver(t, q, k) /\ EndReqCb(t, q, k)
  /\ UNCHANGED <<fw, active, respondVars>>

BegRespStep(t, tp, q, k) ==
  /\ fsm[t] \in {"WaitForResponse", "ReadIdle"} /\ tp \in DueIn(t, fsm[t])
  /\ Becomes(t, IF tp = "BegRespE" THEN "Response" ELSE "PartialResponse")
  /\ ~NotDue(t) /\ LeftOver(t, q, k) /\ BegRespCb(t, tp, q, k)
  /\ UNCHANGED <<fw, active, respondVars>>

EndPartRespStep(t) ==
  /\ fsm[t] = "PartialResponse" /\ Becomes(t, "ReadIdle") /\ Cmd[t] = "rd"
  /\ fw[t] = <<"END_PARTIAL_RESP">> /\ fw' = Drop(fw, t)
  /\ NotDue(t) /\ LeftOver(t, evq, clkq) /\ EndPartRespCb(t, evq, clkq)
  /\ UNCHANGED <<active, respondVars>>

EndRespStep(t) ==
  /\ fsm[t] = "Response" /\ Becomes(t, IF Coherent THEN "WaitAck" ELSE "Idle")
  /\ fw[t] = <<"END_RESP">> /\ fw' = Drop(fw, t)
  /\ NotDue(t) /\ LeftOver(t, evq, clkq) /\ EndRespCb(t, evq, clkq)
  /\ active' = (IF Coherent THEN active ELSE active \ {t})
  /\ UNCHANGED respondVars

AckStep(t) ==
  /\ fsm[t] \in {"WaitAck", "Idle"} /\ Becomes(t, "Idle") /\ ini[t] = "fin"
  /\ fw[t] = <<"ACK">> /\ fw' = Drop(fw, t) /\ Quiet(evq, clkq)
  /\ tgtAlarm' = tgtAlarm \union IF fsm[t] = "Idle" THEN {"NoFsm"} ELSE {}
  /\ active' = active \ {t}
  /\ UNCHANGED respondVars

\* Time point tp of t is in the queues q and k; it is scheduled.
IsIn(t, tp, q, k) ==
  \/ \E e \in Range(q) : e.tx = t /\ e.tp = tp
  \/ k[t] # << >> /\ Head(k[t]) = tp

IsDue(t, tp) == IsIn(t, tp, evq, clkq)

\* tp was due, and q and k are what is left of the queue it was taken from and
\* of the other one.
Taken(t, tp, q, k) ==
  /\ IsDue(t, tp)
  /\ \A u \in Tx \ {t} : \A d : IsIn(u, d, q, k) => IsDue(u, d)
  /\ \/ evq # << >> /\ Head(evq).tx = t /\ q = Tail(evq) /\ k = clkq
     \/ q = evq /\ clkq[t] # << >> /\ k = [clkq EXCEPT ![t] = Tail(@)]

\* t's state machine reacts to time point tp that was due.
DueStep(t, tp, q, k) ==
  /\ Taken(t, tp, q, k)
  /\ \/ EndPartReqStep(t, q, k)
     \/ EndReqStep(t, q, k)
     \/ BegRespStep(t, tp, q, k)

FsmStep(t) ==
  \/ BeginStep(t) \/ DiscardStep(t) \/ EndPartRespStep(t) \/ EndRespStep(t)
  \/ AckStep(t)
  \/ \E tp, q, k : DueStep(t, tp, q, k)

\* The other steps of the target: the clocked method and the threads.
ThreadStep ==
  \/ \E t \in Tx : ProcessReq2Resp(t)
  \/ PushBackOverdue
  \/ \E c \in Cmds : SendRespBeat(c)
  \/ StartRdRead \/ StartRdSem \/ StartRdBegin
  \/ StartWr

\* Two requests of one command are not on the link together.
LEMMA OneRequesting ==
  ASSUME TypeOK, TokenInv, NEW t \in Tx, NEW u \in Tx, Cmd[t] = Cmd[u],
         ini[t] = "send" \/ Requesting(t), ini[u] = "send" \/ Requesting(u)
  PROVE  t = u
<1>1. LinkOK(t) /\ LinkOK(u)
  BY DEF TokenInv, LinkInv
<1>2. ini[t] = "send" /\ ini[u] = "send"
  BY <1>1 DEF LinkOK, RestStates, Requesting
<1> QED
  BY <1>2 DEF TokenInv, ChannelInv, HoldsChnl

LEMMA BeginCases ==
  ASSUME TypeOK, TokenInv, NEW t \in Tx, fw[t] # << >>,
         Head(fw[t]) \in {"BEGIN_REQ", "BEGIN_PARTIAL_REQ"}, fw' = Drop(fw, t),
         NEW tp, tp = (IF LastBeat(t) THEN "BegReqE" ELSE "BegPartReqE"),
         BeginRequest(t, tp)
  PROVE  BeginStep(t) \/ DiscardStep(t)
<1> DEFINE end   == IF tp = "BegPartReqE" THEN "EndPartReqE" ELSE "EndReqE"
           next  == IF LastBeat(t) THEN "Request" ELSE "PartialRequest"
           event == EventOf(tp, Coherent, FALSE)
           stall == BeatsAtBegin(t) = 0 /\ OverLimit(CountRequest(t))
<1>1. /\ fw \in [Tx -> Seq(FwPhases)] /\ fsm \in [Tx -> FsmStates]
      /\ stalledTx \in [Cmds -> Tx \union {NoTx}] /\ Cmd[t] \in Cmds
      /\ beat \in [Tx -> Nat] /\ cnt \in [Cmds -> 0..UMax]
  BY ChannelAssumption DEF ChannelAssumption, TypeOK, LinkTypeOK, TgtTypeOK
<1>2. ini[t] = "send" /\ fsm[t] \in RestStates
  <2>1. LinkOK(t)
    BY DEF TokenInv, LinkInv
  <2> QED
    BY <1>1, <2>1, SeqOne DEF LinkOK
<1>3. NotDue(t)
  BY <1>2, NothingDue DEF TypeOK, TokenInv, DueIn, RestStates
<1>4. stalledTx[Cmd[t]] = NoTx
  <2> SUFFICES ASSUME stalledTx[Cmd[t]] # NoTx PROVE FALSE
    OBVIOUS
  <2>1. PICK u \in Tx : u = stalledTx[Cmd[t]]
    BY <1>1
  <2>2. Requesting(u) /\ Cmd[u] = Cmd[t]
    BY <1>1, <2>1 DEF TokenInv, ParkedInv, Requesting
  <2>3. t = u
    BY <1>2, <2>2, OneRequesting
  <2> QED
    BY <1>2, <2>2, <2>3 DEF Requesting, RestStates
<1>5. fsm' = [fsm EXCEPT ![t] = After(@, event)]
  BY DEF BeginRequest
<1>6. CASE fsm[t] \in {"Idle", "WriteIdle"}
  <2>1. Accepts(fsm[t], event) /\ After(fsm[t], event) = next
    BY <1>6 DEF After, Accepts, Reactions, EventOf
  <2>2. /\ cnt' = [cnt EXCEPT ![Cmd[t]] = CountRequest(t)]
        /\ (stall /\ Park(t, end)) \/ (~stall /\ Accept(t, end, BeatsAtBegin(t)))
        /\ UNCHANGED tgtAlarm
    BY <2>1 DEF BeginRequest
  <2>3. /\ end \in DueIn(t, next) /\ end \in {"EndPartReqE", "EndReqE"}
        /\ next \in {"PartialRequest", "Request"} /\ (next = "Request" <=> LastBeat(t))
    BY DEF DueIn
  <2>4. Becomes(t, next)
    BY <1>1, <1>5, <2>1 DEF Becomes
  <2>5. IF stall THEN Park(t, end) ELSE Accept(t, end, BeatsAtBegin(t))
    BY <2>2
  <2> HIDE DEF end, next, event, stall
  <2>6. \E s \in {"PartialRequest", "Request"}, e \in {"EndPartReqE", "EndReqE"} :
           /\ Becomes(t, s) /\ (s = "Request" <=> LastBeat(t)) /\ e \in DueIn(t, s)
           /\ IF stall THEN Park(t, e) ELSE Accept(t, e, BeatsAtBegin(t))
    BY <2>3, <2>4, <2>5
  <2> QED
    BY <1>2, <1>3, <1>4, <1>6, <2>2, <2>6 DEF BeginStep, BeginRequest, stall
<1>7. CASE fsm[t] = "WaitAck"
  <2>1. ~Accepts(fsm[t], event) /\ After(fsm[t], event) = "WaitAck"
    BY <1>7 DEF After, Accepts, Reactions, EventOf
  <2>2. /\ tgtAlarm' = tgtAlarm \union {"Discarded"}
        /\ UNCHANGED <<cnt, stalledTx, stalledTp, evq, clkq>>
    BY <2>1 DEF BeginRequest, admitVars
  <2>3. t \in active
    BY <1>7 DEF TokenInv, ActiveInv
  <2>4. fsm' = fsm
    BY <1>1, <1>5, <1>7, <2>1
  <2>5. active' = active
    BY <2>3 DEF BeginRequest
  <2>6. beat' = beat
    <3>1. BeatsAtBegin(t) = beat[t]
      BY <1>7, <2>3 DEF BeatsAtBegin
    <3>2. beat' = [beat EXCEPT ![t] = beat[t]]
      BY <3>1 DEF BeginRequest
    <3> QED
      BY <1>1, <3>2
  <2> QED
    BY <1>2, <1>7, <2>2, <2>4, <2>5, <2>6 DEF DiscardStep, BeginRequest
<1> QED
  BY <1>2, <1>6, <1>7 DEF RestStates

\* A time point that was due.
LEMMA DueCases ==
  ASSUME TypeOK, TokenInv, UNCHANGED fw, NEW t \in Tx, NEW q, NEW k,
         LeftOver(t, q, k), NEW tp \in DueIn(t, fsm[t]), ~NotDue(t),
         Taken(t, tp, q, k), React(t, tp, q, k)
  PROVE  DueStep(t, tp, q, k)
<1>1. CASE fsm[t] = "PartialRequest"
  <2>1. tp = "EndPartReqE"
    BY <1>1 DEF DueIn
  <2>2. Expected(fsm[t], tp)
    BY <1>1, <2>1 DEF Expected, Accepts, Reactions, EventOf
  <2>3. /\ fsm' = [fsm EXCEPT ![t] = "WriteIdle"] /\ active' = active
        /\ EndPartReqCb(t, q, k)
    BY <1>1, <2>1, <2>2, ReactEffect
    DEF TimePoints, Frees, Reactions, EventOf
  <2>4. Cmd[t] = "wr"
    <3>1. LinkOK(t)
      BY DEF TokenInv, LinkInv
    <3>2. ~LastBeat(t)
      BY <1>1, <3>1 DEF LinkOK, RestStates
    <3> QED
      BY <3>2, ChannelAssumption DEF LastBeat, ChannelAssumption, Cmds
  <2> QED
    BY <1>1, <2>3, <2>4 DEF DueStep, EndPartReqStep, Becomes, React
<1>2. CASE fsm[t] = "Request"
  <2>1. tp = "EndReqE"
    BY <1>2 DEF DueIn
  <2>2. Expected(fsm[t], tp)
    BY <1>2, <2>1 DEF Expected, Accepts, Reactions, EventOf
  <2>3. /\ fsm' = [fsm EXCEPT ![t] = "WaitForResponse"] /\ active' = active
        /\ EndReqCb(t, q, k)
    BY <1>2, <2>1, <2>2, ReactEffect
    DEF TimePoints, Frees, Reactions, EventOf
  <2> QED
    BY <1>2, <2>3 DEF DueStep, EndReqStep, Becomes, React
<1>3. CASE fsm[t] \in {"WaitForResponse", "ReadIdle"}
  <2>1. tp \in {"BegPartRespE", "BegRespE"} /\ tp \in TimePoints
    BY <1>3 DEF DueIn, TimePoints
  <2>2. /\ EventOf("BegRespE", Coherent, FALSE) = "BegResp"
        /\ EventOf("BegPartRespE", Coherent, FALSE) = "BegPartResp"
    BY DEF EventOf
  <2>3. /\ Reactions["WaitForResponse"]["BegResp"] = "Response"
        /\ Reactions["ReadIdle"]["BegResp"] = "Response"
        /\ Reactions["WaitForResponse"]["BegPartResp"] = "PartialResponse"
        /\ Reactions["ReadIdle"]["BegPartResp"] = "PartialResponse"
    BY DEF Reactions
  <2>4. Expected(fsm[t], tp)
    <3>1. Accepts(fsm[t], "BegResp") /\ Accepts(fsm[t], "BegPartResp")
      BY <1>3 DEF Accepts, Reactions
    <3> QED
      BY <1>3, <2>1, <2>2, <3>1 DEF Expected
  <2>5. Reactions[fsm[t]][EventOf(tp, Coherent, FALSE)] =
          IF tp = "BegRespE" THEN "Response" ELSE "PartialResponse"
    BY <1>3, <2>1, <2>2, <2>3
  <2>6. /\ fsm' = [fsm EXCEPT ![t] = Reactions[fsm[t]][EventOf(tp, Coherent, FALSE)]]
        /\ active' = active /\ BegRespCb(t, tp, q, k)
    BY <1>3, <2>1, <2>4, ReactEffect DEF Frees
  <2>7. Becomes(t, IF tp = "BegRespE" THEN "Response" ELSE "PartialResponse")
    BY <2>5, <2>6 DEF Becomes
  <2> QED
    BY <1>3, <2>6, <2>7 DEF DueStep, BegRespStep, React
<1> QED
  BY <1>1, <1>2, <1>3 DEF DueIn

\* A phase that arrives from the initiator.
LEMMA NbFwCases ==
  ASSUME TypeOK, TokenInv, NEW t \in Tx, NbFw(t)
  PROVE  BeginStep(t) \/ DiscardStep(t) \/ EndPartRespStep(t) \/ EndRespStep(t)
         \/ AckStep(t)
<1> DEFINE phase == Head(fw[t])
<1>1. /\ LinkOK(t) /\ fw[t] # << >> /\ fw' = Drop(fw, t)
      /\ fsm \in [Tx -> FsmStates] /\ Coherent \in BOOLEAN
  BY TargetAssumption
  DEF TargetAssumption, TypeOK, TgtTypeOK, TokenInv, LinkInv, NbFw
<1>2. CASE phase = "BEGIN_PARTIAL_REQ"
  <2>1. ~LastBeat(t)
    BY <1>1, <1>2, SeqOne DEF LinkOK
  <2>2. Cmd[t] = "wr"
    BY <2>1, ChannelAssumption DEF LastBeat, ChannelAssumption, Cmds
  <2>3. BeginRequest(t, "BegPartReqE")
    BY <1>2, <2>2 DEF NbFw
  <2> QED
    BY <1>1, <1>2, <2>1, <2>3, BeginCases
<1>3. CASE phase = "BEGIN_REQ"
  <2>1. LastBeat(t)
    BY <1>1, <1>3, SeqOne DEF LinkOK
  <2>2. BeginRequest(t, "BegReqE")
    BY <1>3 DEF NbFw
  <2> QED
    BY <1>1, <1>3, <2>1, <2>2, BeginCases
<1>4. CASE phase = "END_PARTIAL_RESP"
  <2>1. fw[t] = <<"END_PARTIAL_RESP">> /\ fsm[t] = "PartialResponse"
    BY <1>1, <1>4, SeqOne DEF LinkOK
  <2>2. Cmd[t] = "rd" /\ NotDue(t) /\ LeftOver(t, evq, clkq)
    BY <2>1, NothingDue DEF TypeOK, TokenInv, ReadInv, DueIn
  <2>3. Expected(fsm[t], "EndPartRespE") /\ React(t, "EndPartRespE", evq, clkq)
    BY <1>4, <2>1 DEF Expected, Accepts, Reactions, EventOf, NbFw
  <2>4. /\ fsm' = [fsm EXCEPT ![t] = "ReadIdle"] /\ active' = active
        /\ EndPartRespCb(t, evq, clkq)
    BY <2>1, <2>3, ReactEffect
    DEF TimePoints, Frees, Reactions, EventOf
  <2> QED
    BY <1>1, <2>1, <2>2, <2>3, <2>4 DEF EndPartRespStep, Becomes, React
<1>5. CASE phase = "END_RESP"
  <2>1. fw[t] = <<"END_RESP">> /\ fsm[t] = "Response"
    BY <1>1, <1>5, SeqOne DEF LinkOK
  <2>2. NotDue(t) /\ LeftOver(t, evq, clkq)
    BY <2>1, NothingDue DEF TypeOK, TokenInv, DueIn
  <2>3. React(t, "EndRespE", evq, clkq)
    BY <1>5 DEF NbFw
  <2>4. /\ Accepts("Response", "EndRespNoAck") /\ Accepts("Response", "EndResp")
        /\ Reactions["Response"]["EndRespNoAck"] = "WaitAck"
        /\ Reactions["Response"]["EndResp"] = "Idle"
    BY DEF Accepts, Reactions
  <2>5. EventOf("EndRespE", Coherent, FALSE) =
          IF Coherent THEN "EndRespNoAck" ELSE "EndResp"
    BY DEF EventOf
  <2>6. /\ Expected(fsm[t], "EndRespE")
        /\ Reactions[fsm[t]][EventOf("EndRespE", Coherent, FALSE)] =
             IF Coherent THEN "WaitAck" ELSE "Idle"
    BY <1>1, <2>1, <2>4, <2>5 DEF Expected
  <2>7. /\ Becomes(t, IF Coherent THEN "WaitAck" ELSE "Idle")
        /\ active' = (IF Coherent THEN active ELSE active \ {t})
        /\ EndRespCb(t, evq, clkq)
    BY <2>1, <2>3, <2>6, ReactEffect DEF TimePoints, Frees, Becomes
  <2> QED
    BY <1>1, <2>1, <2>2, <2>3, <2>7 DEF EndRespStep, React
<1>6. CASE phase = "ACK"
  <2>1. /\ fw[t] = <<"ACK">> /\ ini[t] = "fin" /\ fsm[t] \in {"WaitAck", "Idle"}
    BY <1>1, <1>6, SeqOne DEF LinkOK
  <2>2. React(t, "Ack", evq, clkq)
    BY <1>6 DEF NbFw
  <2>3. CASE fsm[t] = "WaitAck"
    <3>1. Expected(fsm[t], "Ack")
      BY <2>3 DEF Expected, Accepts, Reactions, EventOf
    <3>2. /\ Becomes(t, "Idle") /\ active' = active \ {t}
          /\ Quiet(evq, clkq) /\ UNCHANGED tgtAlarm
      BY <2>2, <2>3, <3>1, ReactEffect
      DEF TimePoints, Frees, Reactions, EventOf, Becomes
    <3> QED
      BY <1>1, <2>1, <2>2, <2>3, <3>2 DEF AckStep, React
  <2>4. CASE fsm[t] = "Idle"
    <3>1. t \notin active
      BY <2>4 DEF TokenInv, ActiveInv
    <3>2. /\ fsm' = fsm /\ active' = active \ {t}
          /\ Quiet(evq, clkq) /\ tgtAlarm' = tgtAlarm \union {"NoFsm"}
      <4>1. "NoFsm" # "none" /\ Frees("Ack")
        BY DEF Frees
      <4> QED
        BY <2>2, <3>1, <4>1 DEF React
    <3>3. Becomes(t, "Idle")
      BY <1>1, <2>4, <3>2 DEF Becomes
    <3> QED
      BY <1>1, <2>1, <2>2, <2>4, <3>2, <3>3 DEF AckStep, React
  <2> QED
    BY <2>1, <2>3, <2>4
<1> QED
  BY <1>2, <1>3, <1>4, <1>5, <1>6 DEF NbFw

\* Every step of the target is one of the cases.
LEMMA TgtCases ==
  ASSUME TypeOK, TokenInv, TgtNext
  PROVE  (\E t \in Tx : FsmStep(t)) \/ ThreadStep
<1>1. ASSUME NEW t \in Tx, NbFw(t) PROVE FsmStep(t)
  BY <1>1, NbFwCases DEF FsmStep
<1>2. ASSUME NEW t \in Tx, ProcessFsmClkQueue(t) PROVE FsmStep(t)
  <2>1. /\ LeftOver(t, evq, [clkq EXCEPT ![t] = Tail(@)])
        /\ Head(clkq[t]) \in DueIn(t, fsm[t]) /\ ~NotDue(t)
    BY <1>2, TakeFromClkq DEF TypeOK, TokenInv, ProcessFsmClkQueue
  <2>2. Taken(t, Head(clkq[t]), evq, [clkq EXCEPT ![t] = Tail(@)])
    BY <1>2 DEF ProcessFsmClkQueue, Taken, IsDue, IsIn, TypeOK, TgtTypeOK
  <2>3. DueStep(t, Head(clkq[t]), evq, [clkq EXCEPT ![t] = Tail(@)])
    BY <1>2, <2>1, <2>2, DueCases DEF ProcessFsmClkQueue
  <2> QED
    BY <2>3 DEF FsmStep
<1>3. CASE ProcessFsmEvent
  <2> DEFINE t  == Head(evq).tx
             tp == Head(evq).tp
  <2>1. /\ LeftOver(t, Tail(evq), clkq) /\ tp \in DueIn(t, fsm[t])
        /\ ~NotDue(t) /\ t \in Tx
    BY <1>3, TakeFromEvq DEF TypeOK, TokenInv, ProcessFsmEvent
  <2>2. React(t, tp, Tail(evq), clkq) /\ UNCHANGED fw
    BY <1>3 DEF ProcessFsmEvent
  <2>3. Taken(t, tp, Tail(evq), clkq)
    <3>1. /\ Head(evq) \in Range(evq)
          /\ Range(Tail(evq)) \subseteq Range(evq)
      BY <1>3, RangeTail DEF ProcessFsmEvent, TypeOK, TgtTypeOK
    <3> QED
      BY <1>3, <3>1 DEF Taken, IsDue, IsIn, ProcessFsmEvent
  <2> HIDE DEF t, tp
  <2>4. DueStep(t, tp, Tail(evq), clkq)
    BY <2>1, <2>2, <2>3, DueCases
  <2> QED
    BY <2>1, <2>4 DEF FsmStep
<1> QED
  BY <1>1, <1>2, <1>3 DEF TgtNext, ThreadStep

-----------------------------------------------------------------------------
(* The invariant of the limit.                                             *)

\* The states in which a transaction does not count.
Uncounted == {"Idle", "WaitAck"}
Counted(c) == {t \in OfCmd(c) : fsm[t] \notin Uncounted}

CountInv == \A c \in Cmds : cnt[c] = Cardinality(Counted(c))

\* One request above the limit is counted, the one in the stall slot.
SlotInv ==
  \A c \in Cmds :
    IF stalledTx[c] = NoTx
      THEN MaxOutstanding > 0 => cnt[c] <= MaxOutstanding
      ELSE /\ MaxOutstanding > 0 /\ cnt[c] = MaxOutstanding + 1
           /\ beat[stalledTx[c]] = 0

\* Only a write waits for its next beat, and one of its beats is counted.
WriteInv == \A t \in Tx : fsm[t] = "WriteIdle" => beat[t] > 0 /\ Cmd[t] = "wr"

\* The answer to a request is scheduled or held back.
RequestInv ==
  \A t \in Tx : Requesting(t) => ~NotDue(t) \/ stalledTx[Cmd[t]] = t

LimitInv == CountInv /\ SlotInv /\ WriteInv /\ RequestInv

\* The counters of the target, 32 bits wide in the code, can hold the number of
\* payloads.
CountersFit == IsFiniteSet(Tx) /\ Cardinality(Tx) <= UMax

LEMMA CountedFinite ==
  ASSUME CountersFit, NEW c
  PROVE  /\ IsFiniteSet(Counted(c)) /\ Cardinality(Counted(c)) \in Nat
         /\ Cardinality(Counted(c)) <= UMax
         /\ \A t \in Tx \ Counted(c) : Cardinality(Counted(c)) < UMax
<1>1. Counted(c) \in SUBSET Tx
  BY DEF Counted, OfCmd
<1>2. IsFiniteSet(Tx) /\ Cardinality(Tx) <= UMax /\ Cardinality(Tx) \in Nat
  BY FS_CardinalityType DEF CountersFit
<1>3. /\ IsFiniteSet(Counted(c)) /\ Cardinality(Counted(c)) \in Nat
      /\ Cardinality(Counted(c)) <= Cardinality(Tx)
      /\ Cardinality(Counted(c)) = Cardinality(Tx) => Tx = Counted(c)
  BY <1>1, <1>2, FS_Subset, FS_CardinalityType
<1>4. UMax \in Nat
  BY TargetAssumption DEF TargetAssumption
<1>5. \A t \in Tx \ Counted(c) : Cardinality(Counted(c)) # Cardinality(Tx)
  BY <1>3
<1> QED
  BY <1>2, <1>3, <1>4, <1>5

\* What a state machine's step does to the counted transactions.
LEMMA CountedStep ==
  ASSUME TypeOK, NEW t \in Tx, NEW s, Becomes(t, s)
  PROVE  /\ Counted(Cmd[t])' = IF s \in Uncounted THEN Counted(Cmd[t]) \ {t}
                               ELSE Counted(Cmd[t]) \union {t}
         /\ \A c \in Cmds : c # Cmd[t] => Counted(c)' = Counted(c)
         /\ t \in Counted(Cmd[t]) <=> fsm[t] \notin Uncounted
<1>1. fsm \in [Tx -> FsmStates]
  BY DEF TypeOK, TgtTypeOK
<1>2. fsm'[t] = s /\ \A u \in Tx \ {t} : fsm'[u] = fsm[u]
  BY <1>1 DEF Becomes
<1>3. ASSUME NEW c
      PROVE  Counted(c)' = {u \in OfCmd(c) : fsm'[u] \notin Uncounted}
  BY DEF Counted, OfCmd, Uncounted
<1> QED
  BY <1>2, <1>3 DEF Counted, OfCmd

\* A step that counts nothing, and is not about a request in the slot.
LEMMA LimitFrame ==
  ASSUME TypeOK, TokenInv, LimitInv, NEW t \in Tx, NEW s, Becomes(t, s),
         s \in Uncounted <=> fsm[t] \in Uncounted,
         UNCHANGED <<cnt, stalledTx>>, \A c \in Cmds : stalledTx[c] # t,
         \A u \in Tx \ {t} : beat'[u] = beat[u]
  PROVE  CountInv' /\ SlotInv'
<1>1. Cmd[t] \in Cmds
  BY ChannelAssumption DEF ChannelAssumption
<1>2. \A c \in Cmds : Counted(c)' = Counted(c)
  BY <1>1, CountedStep
<1>3. CountInv'
  BY <1>2 DEF LimitInv, CountInv
<1>4. \A c \in Cmds : stalledTx[c] # NoTx => beat'[stalledTx[c]] = beat[stalledTx[c]]
  BY DEF TypeOK, TgtTypeOK
<1> QED
  BY <1>3, <1>4 DEF LimitInv, SlotInv

\* A step that leaves the state machines alone.
LEMMA LimitUnmoved ==
  ASSUME LimitInv, UNCHANGED <<fsm, beat, cnt, stalledTx>>,
         \A u \in Tx : NotDue(u)' => NotDue(u)
  PROVE  LimitInv'
<1>1. \A c \in Cmds : Counted(c)' = Counted(c)
  BY DEF Counted, OfCmd, Uncounted
<1>2. CountInv' /\ SlotInv' /\ WriteInv'
  BY <1>1 DEF LimitInv, CountInv, SlotInv, WriteInv
<1>3. RequestInv'
  BY DEF LimitInv, RequestInv, Requesting
<1> QED
  BY <1>2, <1>3 DEF LimitInv

\* RequestInv only depends on the requests.
LEMMA RequestFrame ==
  ASSUME TypeOK, LimitInv, NEW t \in Tx, NEW s, Becomes(t, s),
         UNCHANGED stalledTx, s \notin {"PartialRequest", "Request"},
         \A u \in Tx \ {t} : NotDue(u)' => NotDue(u)
  PROVE  RequestInv'
<1>1. fsm \in [Tx -> FsmStates]
  BY DEF TypeOK, TgtTypeOK
<1>2. fsm'[t] = s /\ \A u \in Tx \ {t} : fsm'[u] = fsm[u]
  BY <1>1 DEF Becomes
<1> QED
  BY <1>2 DEF LimitInv, RequestInv, Requesting

\* A scheduled time point stays so while others are added.
LEMMA ScheduledDue ==
  ASSUME NEW q, NEW k, QueueTypes(q, k), NEW t \in Tx, NEW tp \in TimePoints,
         NEW kinds, Schedule(kinds, tp, t, q, k)
  PROVE  /\ ~NotDue(t)'
         /\ \A u \in Tx \ {t} : NotDue(u)' <=> NotIn(u, q, k)
         /\ \A u \in Tx : NotDue(u)' => NotIn(u, q, k)
<1> DEFINE e == [tp |-> tp, tx |-> t]
<1>1. e \in Scheduled /\ e.tx = t
  BY DEF Scheduled
<1> HIDE DEF e
<1>2. CASE evq' = Append(q, e) /\ clkq' = k
  <2>1. Range(evq') = Range(q) \union {e}
    BY <1>1, <1>2, RangeAppend DEF QueueTypes
  <2> QED
    BY <1>1, <1>2, <2>1 DEF NotDue, NotIn
<1>3. CASE clkq' = [k EXCEPT ![t] = Append(@, tp)] /\ evq' = q
  <2>1. k[t] \in Seq(TimePoints)
    BY DEF QueueTypes
  <2>2. clkq'[t] # << >> /\ \A u \in Tx \ {t} : clkq'[u] = k[u]
    BY <1>3, <2>1 DEF QueueTypes
  <2> QED
    BY <1>3, <2>2 DEF NotDue, NotIn
<1> QED
  BY <1>2, <1>3 DEF Schedule, e

\* The time point that is added is the only one of its transaction.
LEMMA ScheduledIs ==
  ASSUME NEW q, NEW k, QueueTypes(q, k), NEW t \in Tx, NEW tp \in TimePoints,
         NEW kinds, Schedule(kinds, tp, t, q, k), NotIn(t, q, k)
  PROVE  /\ \A u \in Tx \ {t} : \A d : IsDue(u, d)' => IsIn(u, d, q, k)
         /\ \A d : IsDue(t, d)' => d = tp
<1> DEFINE e == [tp |-> tp, tx |-> t]
<1>1. e \in Scheduled /\ e.tx = t /\ e.tp = tp
  BY DEF Scheduled
<1> HIDE DEF e
<1>2. CASE evq' = Append(q, e) /\ clkq' = k
  <2>1. Range(evq') = Range(q) \union {e}
    BY <1>1, <1>2, RangeAppend DEF QueueTypes
  <2> QED
    BY <1>1, <1>2, <2>1 DEF IsDue, IsIn, NotIn
<1>3. CASE clkq' = [k EXCEPT ![t] = Append(@, tp)] /\ evq' = q
  <2>1. clkq'[t] = <<tp>> /\ \A u \in Tx \ {t} : clkq'[u] = k[u]
    BY <1>3, SeqOne DEF QueueTypes, NotIn
  <2>2. Head(<<tp>>) = tp
    OBVIOUS
  <2> QED
    BY <1>3, <2>1, <2>2 DEF IsDue, IsIn, NotIn
<1> QED
  BY <1>2, <1>3 DEF Schedule, e

LEMMA KeptDue ==
  ASSUME NEW t \in Tx, NEW q, NEW k, LeftOver(t, q, k), KeepQueues(q, k)
  PROVE  \A u \in Tx \ {t} : NotDue(u)' <=> NotDue(u)
BY DEF LeftOver, KeepQueues, NotDue

-----------------------------------------------------------------------------
(* The steps keep the limit.                                               *)

\* A request beat.  The first one counts, and waits if it is one too many; then
\* no other one is counted until the slot is free again.
LEMMA BeginLimit ==
  ASSUME TypeOK, TokenInv, CountersFit, LimitInv, NEW t \in Tx, BeginStep(t)
  PROVE  LimitInv'
<1> DEFINE c == Cmd[t]
<1>1. /\ fsm \in [Tx -> FsmStates] /\ cnt \in [Cmds -> 0..UMax]
      /\ beat \in [Tx -> Nat] /\ c \in Cmds /\ t # NoTx
      /\ stalledTx \in [Cmds -> Tx \union {NoTx}] /\ QueueTypes(evq, clkq)
      /\ MaxOutstanding \in Nat /\ UMax \in Nat
  BY ChannelAssumption, TargetAssumption
  DEF ChannelAssumption, TargetAssumption, TypeOK, TgtTypeOK, QueueTypes
<1>2. PICK next \in {"PartialRequest", "Request"},
           end \in {"EndPartReqE", "EndReqE"} :
        /\ Becomes(t, next) /\ (next = "Request" <=> LastBeat(t))
        /\ IF BeatsAtBegin(t) = 0 /\ OverLimit(CountRequest(t))
             THEN Park(t, end) ELSE Accept(t, end, BeatsAtBegin(t))
  BY DEF BeginStep
<1>3. fsm'[t] = next /\ \A u \in Tx \ {t} : fsm'[u] = fsm[u]
  BY <1>1, <1>2 DEF Becomes
<1>4. /\ fsm[t] \in {"Idle", "WriteIdle"} /\ stalledTx[c] = NoTx /\ NotDue(t)
      /\ beat' = [beat EXCEPT ![t] = BeatsAtBegin(t)]
      /\ cnt' = [cnt EXCEPT ![c] = CountRequest(t)]
  BY DEF BeginStep
<1>5. \A u \in Tx \ {t} : beat'[u] = beat[u]
  BY <1>1, <1>4
<1>6. /\ Counted(c)' = Counted(c) \union {t}
      /\ \A d \in Cmds : d # c => Counted(d)' = Counted(d)
      /\ t \in Counted(c) <=> fsm[t] # "Idle"
  BY <1>2, <1>4, CountedStep DEF Uncounted
<1>7. /\ CountRequest(t) = Cardinality(Counted(c)')
      /\ CountRequest(t) = (IF fsm[t] = "Idle" THEN cnt[c] + 1 ELSE cnt[c])
  <2>1. /\ IsFiniteSet(Counted(c)) /\ cnt[c] = Cardinality(Counted(c))
        /\ t \notin Counted(c) => cnt[c] # UMax
    BY <1>1, CountedFinite DEF LimitInv, CountInv
  <2>2. Cardinality(Counted(c) \union {t}) =
          IF t \in Counted(c) THEN cnt[c] ELSE cnt[c] + 1
    BY <2>1, FS_AddElement
  <2>3. CountRequest(t) = IF fsm[t] = "Idle" THEN cnt[c] + 1 ELSE cnt[c]
    BY <1>6, <2>1 DEF CountRequest, Inc
  <2> QED
    BY <1>6, <2>2, <2>3
<1>8. CountInv'
  <2> SUFFICES ASSUME NEW d \in Cmds PROVE cnt'[d] = Cardinality(Counted(d)')
    BY DEF CountInv
  <2>1. CASE d = c
    BY <1>1, <1>4, <1>7, <2>1
  <2>2. CASE d # c
    BY <1>1, <1>4, <1>6, <2>2 DEF LimitInv, CountInv
  <2> QED
    BY <2>1, <2>2
<1>9. WriteInv'
  BY <1>3, <1>5 DEF LimitInv, WriteInv
<1> HIDE DEF c
<1>10. SlotInv'
  <2> SUFFICES ASSUME NEW d \in Cmds
               PROVE  IF stalledTx'[d] = NoTx
                        THEN MaxOutstanding > 0 => cnt'[d] <= MaxOutstanding
                        ELSE /\ MaxOutstanding > 0 /\ cnt'[d] = MaxOutstanding + 1
                             /\ beat'[stalledTx'[d]] = 0
    BY DEF SlotInv
  <2>1. CASE d # c
    <3>1. stalledTx'[d] = stalledTx[d] /\ cnt'[d] = cnt[d]
      BY <1>1, <1>2, <1>4, <2>1 DEF Park, Accept, c
    <3>2. stalledTx[d] # NoTx => stalledTx[d] \in Tx \ {t}
      BY <1>1, <2>1 DEF TokenInv, ParkedInv, c
    <3> QED
      BY <1>5, <3>1, <3>2 DEF LimitInv, SlotInv
  <2>2. CASE d = c /\ BeatsAtBegin(t) = 0 /\ OverLimit(CountRequest(t))
    <3>1. stalledTx'[c] = t /\ cnt'[c] = CountRequest(t) /\ beat'[t] = 0
      BY <1>1, <1>2, <1>4, <2>2 DEF Park, c
    <3>2. MaxOutstanding > 0 /\ CountRequest(t) > MaxOutstanding
      BY <2>2 DEF OverLimit
    <3>3. cnt[c] <= MaxOutstanding
      BY <1>1, <1>4, <3>2 DEF LimitInv, SlotInv
    <3>4. CountRequest(t) = MaxOutstanding + 1
      BY <1>1, <1>7, <3>2, <3>3
    <3> QED
      BY <1>1, <2>2, <3>1, <3>2, <3>4
  <2>3. CASE d = c /\ ~(BeatsAtBegin(t) = 0 /\ OverLimit(CountRequest(t)))
    <3>1. stalledTx'[c] = NoTx /\ cnt'[c] = CountRequest(t)
      BY <1>1, <1>2, <1>4, <2>3 DEF Accept, c
    <3>2. ASSUME MaxOutstanding > 0 PROVE CountRequest(t) <= MaxOutstanding
      <4>1. CASE fsm[t] = "Idle"
        <5>1. BeatsAtBegin(t) = 0
          BY <4>1 DEF BeatsAtBegin
        <5> QED
          BY <1>1, <1>7, <2>3, <3>2, <4>1, <5>1 DEF OverLimit
      <4>2. CASE fsm[t] # "Idle"
        BY <1>1, <1>4, <1>7, <3>2, <4>2 DEF LimitInv, SlotInv
      <4> QED
        BY <4>1, <4>2
    <3> QED
      BY <2>3, <3>1, <3>2
  <2> QED
    BY <2>1, <2>2, <2>3
<1>11. RequestInv'
  <2> SUFFICES ASSUME NEW u \in Tx, Requesting(u)'
               PROVE  ~NotDue(u)' \/ stalledTx'[Cmd[u]] = u
    BY DEF RequestInv
  <2>1. CASE Park(t, end)
    <3>1. /\ stalledTx' = [stalledTx EXCEPT ![c] = t]
          /\ NotDue(u)' <=> NotDue(u)
      BY <2>1 DEF Park, NotDue, NotIn, c
    <3>2. CASE u = t
      BY <1>1, <3>1, <3>2 DEF c
    <3>3. CASE u # t
      <4>1. Requesting(u)
        BY <1>3, <3>3 DEF Requesting
      <4>2. Cmd[u] # c
        BY <3>3, <4>1, OneRequesting DEF BeginStep, c
      <4> QED
        BY <1>1, <3>1, <4>1, <4>2 DEF LimitInv, RequestInv
    <3> QED
      BY <3>2, <3>3
  <2>2. CASE Accept(t, end, BeatsAtBegin(t))
    <3>1. UNCHANGED stalledTx /\ Schedule(AcceptDelays, end, t, evq, clkq)
      BY <2>2 DEF Accept
    <3>2. end \in TimePoints
      BY DEF TimePoints
    <3>3. /\ ~NotDue(t)'
          /\ \A v \in Tx \ {t} : NotDue(v)' <=> NotDue(v)
      BY <1>1, <3>1, <3>2, ScheduledDue DEF NotDue
    <3>4. u # t => Requesting(u)
      BY <1>3 DEF Requesting
    <3> QED
      BY <3>1, <3>3, <3>4 DEF LimitInv, RequestInv
  <2> QED
    BY <1>2, <2>1, <2>2
<1> QED
  BY <1>8, <1>9, <1>10, <1>11 DEF LimitInv

\* The steps between the request and the end of the response count nothing.
LEMMA DueLimit ==
  ASSUME TypeOK, TokenInv, LimitInv, NEW t \in Tx, NEW tp, NEW q, NEW k,
         DueStep(t, tp, q, k)
  PROVE  LimitInv'
<1>1. /\ fsm \in [Tx -> FsmStates] /\ beat \in [Tx -> Nat]
      /\ ~NotDue(t) /\ LeftOver(t, q, k)
  BY DEF TypeOK, TgtTypeOK, DueStep, EndPartReqStep, EndReqStep, BegRespStep
<1>2. \A c \in Cmds : stalledTx[c] # t
  BY <1>1, ChannelAssumption DEF ChannelAssumption, TokenInv, ParkedInv
<1>3. CASE EndPartReqStep(t, q, k)
  <2>1. /\ fsm[t] = "PartialRequest" /\ Becomes(t, "WriteIdle") /\ Cmd[t] = "wr"
        /\ UNCHANGED <<cnt, stalledTx>> /\ KeepQueues(q, k)
        /\ beat' = [beat EXCEPT ![t] = @ + 1]
    BY <1>3 DEF EndPartReqStep, EndPartReqCb, admitVars
  <2>2. CountInv' /\ SlotInv'
    BY <1>1, <1>2, <2>1, LimitFrame DEF Uncounted
  <2>3. WriteInv'
    BY <1>1, <2>1 DEF LimitInv, WriteInv, Becomes
  <2>4. RequestInv'
    BY <1>1, <2>1, KeptDue, RequestFrame
  <2> QED
    BY <2>2, <2>3, <2>4 DEF LimitInv
<1>4. CASE EndReqStep(t, q, k) \/ BegRespStep(t, tp, q, k)
  <2>1. PICK s \in {"WaitForResponse", "PartialResponse", "Response"} :
          Becomes(t, s)
    BY <1>4 DEF EndReqStep, BegRespStep
  <2>2. /\ fsm[t] \in {"Request", "WaitForResponse", "ReadIdle"}
        /\ UNCHANGED <<cnt, stalledTx, beat>> /\ KeepQueues(q, k)
    BY <1>4 DEF EndReqStep, BegRespStep, EndReqCb, BegRespCb, admitVars
  <2>3. CountInv' /\ SlotInv'
    BY <1>1, <1>2, <2>1, <2>2, LimitFrame DEF Uncounted
  <2>4. WriteInv'
    BY <1>1, <2>1, <2>2 DEF LimitInv, WriteInv, Becomes
  <2>5. RequestInv'
    BY <1>1, <2>1, <2>2, KeptDue, RequestFrame
  <2> QED
    BY <2>3, <2>4, <2>5 DEF LimitInv
<1> QED
  BY <1>3, <1>4 DEF DueStep

LEMMA EndPartRespLimit ==
  ASSUME TypeOK, TokenInv, LimitInv, NEW t \in Tx, EndPartRespStep(t)
  PROVE  LimitInv'
<1>1. /\ fsm \in [Tx -> FsmStates] /\ beat \in [Tx -> Nat] /\ t # NoTx
      /\ QueueTypes(evq, clkq)
  BY ChannelAssumption DEF ChannelAssumption, TypeOK, TgtTypeOK, QueueTypes
<1>2. /\ fsm[t] = "PartialResponse" /\ Becomes(t, "ReadIdle")
      /\ UNCHANGED <<cnt, stalledTx>>
      /\ beat' = [beat EXCEPT ![t] = beat[t] + 1]
      /\ \E tp \in TimePoints : Schedule({"cycles"}, tp, t, evq, clkq)
  BY DEF EndPartRespStep, EndPartRespCb, admitVars, NextRespBeat, TimePoints
<1>3. \A c \in Cmds : stalledTx[c] # t
  BY <1>1, <1>2 DEF TokenInv, ParkedInv
<1>4. CountInv' /\ SlotInv'
  BY <1>1, <1>2, <1>3, LimitFrame DEF Uncounted
<1>5. WriteInv'
  BY <1>1, <1>2 DEF LimitInv, WriteInv, Becomes
<1>6. \A u \in Tx \ {t} : NotDue(u)' => NotDue(u)
  BY <1>1, <1>2, ScheduledDue DEF NotDue
<1>7. RequestInv'
  BY <1>2, <1>6, RequestFrame
<1> QED
  BY <1>4, <1>5, <1>7 DEF LimitInv

LEMMA AckLimit ==
  ASSUME TypeOK, TokenInv, LimitInv, NEW t \in Tx, AckStep(t)
  PROVE  LimitInv'
<1>1. fsm \in [Tx -> FsmStates] /\ t # NoTx
  BY ChannelAssumption DEF ChannelAssumption, TypeOK, TgtTypeOK
<1>2. /\ fsm[t] \in {"WaitAck", "Idle"} /\ Becomes(t, "Idle")
      /\ UNCHANGED <<cnt, stalledTx, beat, evq, clkq>>
  BY DEF AckStep, Quiet, KeepQueues, admitVars
<1>3. \A c \in Cmds : stalledTx[c] # t
  BY <1>1, <1>2 DEF TokenInv, ParkedInv
<1>4. CountInv' /\ SlotInv'
  BY <1>2, <1>3, LimitFrame DEF Uncounted
<1>5. WriteInv'
  BY <1>1, <1>2 DEF LimitInv, WriteInv, Becomes
<1>6. RequestInv'
  BY <1>2, RequestFrame DEF NotDue, NotIn
<1> QED
  BY <1>4, <1>5, <1>6 DEF LimitInv

\* The end of a response makes room for the request in the slot.
LEMMA EndRespLimit ==
  ASSUME TypeOK, TokenInv, CountersFit, LimitInv, NEW t \in Tx, EndRespStep(t)
  PROVE  LimitInv'
<1> DEFINE c == Cmd[t]
           next == IF Coherent THEN "WaitAck" ELSE "Idle"
<1>1. /\ fsm \in [Tx -> FsmStates] /\ cnt \in [Cmds -> 0..UMax]
      /\ stalledTx \in [Cmds -> Tx \union {NoTx}] /\ QueueTypes(evq, clkq)
      /\ c \in Cmds /\ t # NoTx /\ MaxOutstanding \in Nat
  BY ChannelAssumption, TargetAssumption
  DEF ChannelAssumption, TargetAssumption, TypeOK, TgtTypeOK, QueueTypes
<1>2. /\ fsm[t] = "Response" /\ Becomes(t, next) /\ UNCHANGED beat
      /\ cnt' = [cnt EXCEPT ![c] = Dec(@)]
      /\ IF stalledTx[c] # NoTx THEN LetIn(c, evq, clkq)
         ELSE KeepQueues(evq, clkq) /\ UNCHANGED <<stalledTx, stalledTp>>
  BY DEF EndRespStep, EndRespCb
<1>3. next \in Uncounted
  BY DEF Uncounted
<1> HIDE DEF next
<1>4. fsm'[t] = next /\ \A u \in Tx \ {t} : fsm'[u] = fsm[u]
  BY <1>1, <1>2 DEF Becomes
<1>5. /\ Counted(c)' = Counted(c) \ {t} /\ t \in Counted(c)
      /\ \A d \in Cmds : d # c => Counted(d)' = Counted(d)
  BY <1>2, <1>3, CountedStep DEF Uncounted
<1>6. cnt'[c] = cnt[c] - 1 /\ cnt[c] > 0 /\ cnt'[c] = Cardinality(Counted(c)')
  <2>1. IsFiniteSet(Counted(c)) /\ cnt[c] = Cardinality(Counted(c))
    BY <1>1, CountedFinite DEF LimitInv, CountInv
  <2>2. Cardinality(Counted(c) \ {t}) = cnt[c] - 1
    BY <1>5, <2>1, FS_RemoveElement
  <2>3. cnt[c] # 0
    BY <1>5, <2>1, FS_EmptySet
  <2> QED
    BY <1>1, <1>2, <1>5, <2>2, <2>3 DEF Dec
<1>7. \A d \in Cmds : d # c => cnt'[d] = cnt[d] /\ stalledTx'[d] = stalledTx[d]
  BY <1>1, <1>2 DEF LetIn
<1>8. stalledTx'[c] = NoTx
  BY <1>1, <1>2 DEF LetIn
<1>9. CountInv'
  <2>1. \A d \in Cmds : cnt'[d] = Cardinality(Counted(d)')
    BY <1>5, <1>6, <1>7 DEF LimitInv, CountInv
  <2> QED
    BY <2>1 DEF CountInv
<1>10. WriteInv'
  BY <1>2, <1>3, <1>4 DEF LimitInv, WriteInv, Uncounted
<1>11. \A u \in Tx : Requesting(u)' => Requesting(u)
  BY <1>3, <1>4 DEF Requesting, Uncounted
<1> HIDE DEF c
<1>12. SlotInv'
  <2> SUFFICES ASSUME NEW d \in Cmds
               PROVE  IF stalledTx'[d] = NoTx
                        THEN MaxOutstanding > 0 => cnt'[d] <= MaxOutstanding
                        ELSE /\ MaxOutstanding > 0 /\ cnt'[d] = MaxOutstanding + 1
                             /\ beat'[stalledTx'[d]] = 0
    BY DEF SlotInv
  <2>1. CASE d = c
    BY <1>1, <1>6, <1>8, <2>1 DEF LimitInv, SlotInv
  <2>2. CASE d # c
    BY <1>2, <1>7, <2>2 DEF LimitInv, SlotInv
  <2> QED
    BY <2>1, <2>2
<1>13. RequestInv'
  <2> SUFFICES ASSUME NEW u \in Tx, Requesting(u)
               PROVE  ~NotDue(u)' \/ stalledTx'[Cmd[u]] = u
    BY <1>11 DEF RequestInv
  <2>1. ~NotDue(u) \/ stalledTx[Cmd[u]] = u
    BY DEF LimitInv, RequestInv
  <2>2. CASE stalledTx[c] = NoTx
    BY <1>2, <2>1, <2>2 DEF KeepQueues, NotDue, NotIn
  <2>3. CASE stalledTx[c] # NoTx
    <3>1. PICK v \in Tx : v = stalledTx[c]
      BY <1>1, <2>3
    <3>2. stalledTp[c] \in TimePoints
      BY <1>1, <2>3 DEF TokenInv, ParkedInv, DueIn, TimePoints
    <3>3. /\ ~NotDue(v)' /\ \A w \in Tx \ {v} : NotDue(w)' <=> NotDue(w)
      <4>1. Schedule(AcceptDelays, stalledTp[c], v, evq, clkq)
        BY <1>2, <2>3, <3>1 DEF LetIn
      <4> QED
        BY <1>1, <3>2, <4>1, ScheduledDue DEF NotDue
    <3>4. CASE u = v
      BY <3>3, <3>4
    <3>5. CASE u # v
      <4>1. Cmd[u] = c => stalledTx[Cmd[u]] # u
        BY <3>1, <3>5
      <4>2. Cmd[u] \in Cmds
        BY ChannelAssumption DEF ChannelAssumption
      <4> QED
        BY <1>7, <2>1, <3>3, <3>5, <4>1, <4>2
    <3> QED
      BY <3>4, <3>5
  <2> QED
    BY <2>2, <2>3
<1> QED
  BY <1>9, <1>10, <1>12, <1>13 DEF LimitInv

LEMMA ThreadLimit ==
  ASSUME TypeOK, TokenInv, LimitInv, ThreadStep
  PROVE  LimitInv'
<1>1. UNCHANGED <<fsm, beat, cnt, stalledTx>>
  BY DEF ThreadStep, ProcessReq2Resp, PushBackOverdue, SendRespBeat, StartRdRead,
         StartRdSem, StartRdBegin, StartWr, startRdRest, fsmVars, admitVars
<1>2. \A u \in Tx : NotDue(u)' => NotDue(u)
  <2>0. QueueTypes(evq, clkq) /\ \A t \in Tx : t # NoTx
    BY ChannelAssumption
    DEF ChannelAssumption, TypeOK, TgtTypeOK, QueueTypes
  <2>1. CASE UNCHANGED <<evq, clkq>>
    BY <2>1 DEF NotDue, NotIn
  <2>2. ASSUME NEW t \in Tx, NEW tp \in TimePoints, NEW kinds,
               Schedule(kinds, tp, t, evq, clkq)
        PROVE  \A u \in Tx : NotDue(u)' => NotDue(u)
    BY <2>0, <2>2, ScheduledDue DEF NotDue
  <2>3. CASE StartRdBegin
    <3>1. rdStart.tx \in Tx
      BY <2>3 DEF StartRdBegin, TypeOK, TgtTypeOK
    <3>2. PICK tp \in {"BegRespE", "BegPartRespE"} :
            Schedule(BeatDelays, tp, rdStart.tx, evq, clkq)
      BY <2>3 DEF StartRdBegin
    <3> QED
      BY <2>2, <3>1, <3>2 DEF TimePoints
  <2>4. CASE StartWr
    <3>1. respFifo["wr"] \in Seq(Tx) /\ respFifo["wr"] # << >>
      BY <2>4 DEF StartWr, TypeOK, TgtTypeOK, Cmds
    <3>2. Head(respFifo["wr"]) \in Tx
      BY <3>1
    <3>3. Schedule({"zero"}, "BegRespE", Head(respFifo["wr"]), evq, clkq)
      BY <2>4 DEF StartWr
    <3> QED
      BY <2>2, <3>2, <3>3 DEF TimePoints
  <2> QED
    BY <2>1, <2>3, <2>4
    DEF ThreadStep, ProcessReq2Resp, PushBackOverdue, SendRespBeat, StartRdRead,
        StartRdSem
<1> QED
  BY <1>1, <1>2, LimitUnmoved

LEMMA TgtLimit ==
  ASSUME TypeOK, TokenInv, CountersFit, LimitInv, TgtNext
  PROVE  LimitInv'
<1>1. ASSUME NEW t \in Tx, FsmStep(t) PROVE LimitInv'
  <2>1. CASE DiscardStep(t)
    <3>1. UNCHANGED <<fsm, beat, cnt, stalledTx>>
      BY <2>1 DEF DiscardStep
    <3>2. \A u \in Tx : NotDue(u)' => NotDue(u)
      BY <2>1 DEF DiscardStep, NotDue, NotIn
    <3> QED
      BY <3>1, <3>2, LimitUnmoved
  <2> QED
    BY <1>1, <2>1, BeginLimit, DueLimit, EndPartRespLimit, EndRespLimit, AckLimit
    DEF FsmStep
<1> QED
  BY <1>1, ThreadLimit, TgtCases

LEMMA InitLimit ==
  ASSUME CountersFit, Init
  PROVE  LimitInv
<1>1. /\ \A t \in Tx : fsm[t] = "Idle"
      /\ \A c \in Cmds : cnt[c] = 0 /\ stalledTx[c] = NoTx
  BY DEF Init, TgtInit
<1>2. \A c \in Cmds : Counted(c) = {}
  BY <1>1 DEF Counted, OfCmd, Uncounted
<1>3. CountInv
  BY <1>1, <1>2, FS_EmptySet DEF CountInv
<1>4. SlotInv
  BY <1>1, TargetAssumption DEF TargetAssumption, SlotInv
<1> QED
  BY <1>1, <1>3, <1>4 DEF LimitInv, WriteInv, RequestInv, Requesting

LEMMA NextLimit ==
  ASSUME TypeOK, TokenInv, CountersFit, LimitInv, [Next]_vars
  PROVE  LimitInv'
<1>1. CASE UNCHANGED tgtVars
  <2>1. UNCHANGED <<fsm, beat, cnt, stalledTx, evq, clkq>>
    BY <1>1 DEF tgtVars
  <2> QED
    BY <2>1, LimitUnmoved DEF NotDue, NotIn
<1> QED
  BY <1>1, TgtLimit DEF Next, vars

\* outstanding_cnt, the stall slot and the states of the state machines agree.
THEOREM LimitInvariant ==
  ASSUME CountersFit
  PROVE  Spec => []LimitInv
<1>1. Init => LimitInv
  BY InitLimit
<1>2. TypeOK /\ TokenInv /\ LimitInv /\ [Next]_vars => LimitInv'
  BY NextLimit
<1> QED
  BY <1>1, <1>2, TokenInvariant, PTL DEF Spec

-----------------------------------------------------------------------------
(* Back-pressure.                                                          *)

AcceptedOf(c) == {t \in OfCmd(c) : Accepted(t)}

LEMMA AcceptedCounted ==
  ASSUME NEW c \in Cmds
  PROVE  /\ AcceptedOf(c) \subseteq Counted(c)
         /\ LimitInv /\ TokenInv /\ stalledTx[c] # NoTx =>
              /\ stalledTx[c] \in Tx => stalledTx[c] \in Counted(c)
              /\ stalledTx[c] \notin AcceptedOf(c)
<1>1. AcceptedOf(c) \subseteq Counted(c)
  BY DEF AcceptedOf, Counted, Accepted, Uncounted
<1>2. ASSUME LimitInv, TokenInv, stalledTx[c] # NoTx
      PROVE  /\ stalledTx[c] \in Tx => stalledTx[c] \in Counted(c)
             /\ stalledTx[c] \notin AcceptedOf(c)
  <2>1. /\ Cmd[stalledTx[c]] = c /\ beat[stalledTx[c]] = 0
        /\ fsm[stalledTx[c]] \in {"PartialRequest", "Request"}
    BY <1>2 DEF LimitInv, SlotInv, TokenInv, ParkedInv
  <2> QED
    BY <2>1 DEF AcceptedOf, Counted, OfCmd, Accepted, Uncounted
<1> QED
  BY <1>1, <1>2

LEMMA WithinLimit ==
  ASSUME TypeOK, TokenInv, CountersFit, LimitInv
  PROVE  AcceptedWithinLimit
<1> SUFFICES ASSUME MaxOutstanding > 0, NEW c \in Cmds
             PROVE  Cardinality(AcceptedOf(c)) <= MaxOutstanding
  BY DEF AcceptedWithinLimit, AcceptedOf
<1>1. /\ MaxOutstanding \in Nat /\ cnt[c] \in Nat
      /\ stalledTx[c] \in Tx \union {NoTx}
  BY TargetAssumption DEF TargetAssumption, TypeOK, TgtTypeOK
<1>2. /\ IsFiniteSet(Counted(c)) /\ cnt[c] = Cardinality(Counted(c))
      /\ AcceptedOf(c) \in SUBSET Counted(c)
  BY CountedFinite, AcceptedCounted DEF LimitInv, CountInv
<1>3. Cardinality(AcceptedOf(c)) \in Nat
  BY <1>2, FS_Subset, FS_CardinalityType
<1>4. CASE stalledTx[c] = NoTx
  <2>1. Cardinality(AcceptedOf(c)) <= cnt[c] /\ cnt[c] <= MaxOutstanding
    BY <1>2, <1>4, FS_Subset DEF LimitInv, SlotInv
  <2> QED
    BY <1>1, <1>3, <2>1
<1>5. CASE stalledTx[c] # NoTx
  <2>1. PICK u \in Tx : u = stalledTx[c]
    BY <1>1, <1>5
  <2>2. u \in Counted(c) /\ u \notin AcceptedOf(c) /\ cnt[c] = MaxOutstanding + 1
    BY <1>5, <2>1, AcceptedCounted DEF LimitInv, SlotInv
  <2>3. /\ IsFiniteSet(Counted(c) \ {u})
        /\ Cardinality(Counted(c) \ {u}) = MaxOutstanding
    <3>1. /\ IsFiniteSet(Counted(c) \ {u})
          /\ Cardinality(Counted(c) \ {u}) = Cardinality(Counted(c)) - 1
      BY <1>2, <2>2, FS_RemoveElement
    <3> QED
      BY <1>1, <1>2, <2>2, <3>1
  <2>4. AcceptedOf(c) \in SUBSET (Counted(c) \ {u})
    BY <1>2, <2>2
  <2> QED
    BY <2>3, <2>4, FS_Subset
<1> QED
  BY <1>4, <1>5

\* A counted transaction has been accepted, or its request is on the link.
LEMMA CountedCases ==
  ASSUME TypeOK, TokenInv, NEW c \in Cmds, NEW u \in Counted(c)
  PROVE  Requesting(u) \/ Accepted(u)
<1>1. u \in Tx /\ LinkOK(u) /\ fsm[u] \notin Uncounted /\ fsm[u] \in FsmStates
  BY DEF Counted, OfCmd, TokenInv, LinkInv, TypeOK, TgtTypeOK
<1>2. fsm[u] # "ATrans"
  BY <1>1 DEF LinkOK, RestStates
<1> QED
  BY <1>1, <1>2 DEF FsmStates, Uncounted, Accepted, Requesting

LEMMA NobodyLost ==
  ASSUME TypeOK, TokenInv, CountersFit, LimitInv
  PROVE  NoLostRequest
<1> SUFFICES
      ASSUME NEW t \in Tx, Requesting(t), NEW end,
             end = (IF fsm[t] = "Request" THEN "EndReqE" ELSE "EndPartReqE")
      PROVE  LET scheduled == clkq[t] = << end >>
                                \/ \E i \in PlacesOf(t, evq) : evq[i].tp = end
                 parked == stalledTx[Cmd[t]] = t /\ stalledTp[Cmd[t]] = end
             IN  \/ scheduled /\ ~parked
                 \/ ~scheduled /\ parked /\ \E u \in OfCmd(Cmd[t]) : Accepted(u)
  BY DEF NoLostRequest, Requesting
<1> DEFINE c == Cmd[t]
           scheduled == clkq[t] = << end >>
                          \/ \E i \in PlacesOf(t, evq) : evq[i].tp = end
           parked == stalledTx[c] = t /\ stalledTp[c] = end
<1>1. /\ c \in Cmds /\ t # NoTx /\ evq \in Seq(Scheduled)
      /\ clkq[t] \in Seq(TimePoints) /\ MaxOutstanding \in Nat
  BY ChannelAssumption, TargetAssumption
  DEF ChannelAssumption, TargetAssumption, TypeOK, TgtTypeOK
<1>2. DueIn(t, fsm[t]) = {end}
  BY DEF Requesting, DueIn
<1>3. scheduled <=> ~NotDue(t)
  <2>1. ASSUME ~NotDue(t) PROVE scheduled
    <3>1. CASE clkq[t] # << >>
      <4>1. Len(clkq[t]) = 1 /\ Head(clkq[t]) = end
        BY <1>2, <3>1 DEF TokenInv, DueInv, QueuesOK
      <4>2. clkq[t] = << end >>
        BY <1>1, <4>1
      <4> QED
        BY <4>2
    <3>2. CASE clkq[t] = << >>
      <4>1. PICK e \in Range(evq) : e.tx = t
        BY <2>1, <3>2 DEF NotDue, NotIn
      <4>2. e.tp = end
        BY <1>2, <4>1 DEF TokenInv, DueInv, QueuesOK
      <4> QED
        BY <4>1, <4>2 DEF Range, PlacesOf
    <3> QED
      BY <3>1, <3>2
  <2>2. ASSUME NotDue(t) PROVE ~scheduled
    <3>1. clkq[t] = << >> /\ PlacesOf(t, evq) = {} /\ << end >> # << >>
      BY <2>2 DEF NotDue, NotIn, Range, PlacesOf
    <3> QED
      BY <3>1
  <2> QED
    BY <2>1, <2>2
<1> HIDE DEF scheduled
<1>4. CASE ~NotDue(t)
  BY <1>1, <1>3, <1>4 DEF TokenInv, ParkedInv, scheduled
<1>5. CASE NotDue(t)
  <2>1. stalledTx[c] = t
    BY <1>5 DEF LimitInv, RequestInv
  <2>2. stalledTp[c] = end
    BY <1>1, <1>2, <2>1 DEF TokenInv, ParkedInv
  <2>3. cnt[c] = Cardinality(Counted(c)) /\ cnt[c] = MaxOutstanding + 1
        /\ MaxOutstanding > 0 /\ t \in Counted(c)
    BY <1>1, <2>1, AcceptedCounted DEF LimitInv, CountInv, SlotInv
  <2>4. Cardinality(Counted(c) \ {t}) = MaxOutstanding
    <3>1. Cardinality(Counted(c) \ {t}) = Cardinality(Counted(c)) - 1
      BY <2>3, CountedFinite, FS_RemoveElement
    <3> QED
      BY <1>1, <2>3, <3>1
  <2>5. PICK u \in Counted(c) : u # t
    <3> DEFINE S == Counted(c) \ {t}
    <3>1. S = {} => Cardinality(S) = 0
      BY FS_EmptySet
    <3>2. Cardinality(S) # 0
      BY <1>1, <2>3, <2>4
    <3>3. \E u : u \in S
      BY <3>1, <3>2
    <3> QED
      BY <3>3
  <2>6. u \in OfCmd(c) /\ u \in Tx /\ Cmd[u] = c
    BY <2>5 DEF Counted, OfCmd
  <2>7. ~Requesting(u)
    BY <2>5, <2>6, OneRequesting
  <2>8. Accepted(u)
    BY <1>1, <2>5, <2>7, CountedCases
  <2> QED
    BY <1>3, <1>5, <2>1, <2>2, <2>6, <2>8 DEF scheduled
<1> QED
  BY <1>4, <1>5

\* max_outstanding_tx is never exceeded, and every request that was announced
\* has its answer scheduled or is held back by running ones of its command.
THEOREM BackPressureKeptHolds ==
  ASSUME CountersFit
  PROVE  Spec => []BackPressureKept
<1>1. TypeOK /\ TokenInv /\ LimitInv => BackPressureKept
  BY WithinLimit, NobodyLost DEF BackPressureKept
<1> QED
  BY <1>1, TokenInvariant, LimitInvariant, PTL

-----------------------------------------------------------------------------
(* The counters of both engines.                                           *)

WaitingOf(c) ==
  {t \in OfCmd(c) : ini[t] \in {"id", "chnl"} /\ (sent[t] = 0)}
OutstandingOf(c) ==
  {t \in OfCmd(c) : \/ ini[t] \in {"send", "resp", "ack", "fin"}
                    \/ ini[t] = "chnl" /\ sent[t] > 0}

CallsInv ==
  /\ \A t \in Tx : ini[t] = "id" => sent[t] = 0
  /\ \A c \in Cmds : /\ waiting[c] = Cardinality(WaitingOf(c))
                     /\ outstanding[c] = Cardinality(OutstandingOf(c))

\* Where a transport call may be counted.
CallWaits(p, n) == IF p \in {"id", "chnl"} /\ n = 0 THEN 1 ELSE 0
CallRuns(p, n) ==
  IF p \in {"send", "resp", "ack", "fin"} \/ (p = "chnl" /\ n > 0) THEN 1 ELSE 0

\* The counters of a call's command when it leaves one set for the other.
WaitingMoves(t, new, old) == waiting' = [waiting EXCEPT ![Cmd[t]] = @ + (new - old)]
RunningMoves(t, new, old) ==
  outstanding' = [outstanding EXCEPT ![Cmd[t]] = @ + (new - old)]

\* One call moves from one of the sets to the other, or stays.
LEMMA CallMoves ==
  ASSUME IsFiniteSet(Tx), IniTypeOK, CallsInv, NEW t \in Tx, NEW p \in IniPcs,
         NEW n \in Nat,
         ini' = [ini EXCEPT ![t] = p], sent' = [sent EXCEPT ![t] = n],
         p = "id" => n = 0,
         WaitingMoves(t, CallWaits(p, n), CallWaits(ini[t], sent[t])),
         RunningMoves(t, CallRuns(p, n), CallRuns(ini[t], sent[t]))
  PROVE  CallsInv'
<1> DEFINE w == CallWaits(p, n) - CallWaits(ini[t], sent[t])
           o == CallRuns(p, n) - CallRuns(ini[t], sent[t])
<1>0. /\ waiting' = [waiting EXCEPT ![Cmd[t]] = @ + w] /\ w \in Int
      /\ outstanding' = [outstanding EXCEPT ![Cmd[t]] = @ + o] /\ o \in Int
  BY DEF WaitingMoves, RunningMoves, CallWaits, CallRuns
<1> DEFINE c == Cmd[t]
<1>1. /\ ini \in [Tx -> IniPcs] /\ sent \in [Tx -> Nat] /\ c \in Cmds
      /\ waiting \in [Cmds -> Int] /\ outstanding \in [Cmds -> Int]
  BY ChannelAssumption DEF ChannelAssumption, IniTypeOK
<1>2. /\ ini'[t] = p /\ sent'[t] = n
      /\ \A u \in Tx \ {t} : ini'[u] = ini[u] /\ sent'[u] = sent[u]
  BY <1>1
<1>3. ASSUME NEW d \in Cmds
      PROVE  /\ IsFiniteSet(WaitingOf(d)) /\ IsFiniteSet(OutstandingOf(d))
             /\ Cardinality(WaitingOf(d)) \in Nat
             /\ Cardinality(OutstandingOf(d)) \in Nat
  <2>1. WaitingOf(d) \in SUBSET Tx /\ OutstandingOf(d) \in SUBSET Tx
    BY DEF WaitingOf, OutstandingOf, OfCmd
  <2> QED
    BY <2>1, FS_Subset, FS_CardinalityType
<1>4. /\ WaitingOf(c)' = IF CallWaits(p, n) = 1 THEN WaitingOf(c) \union {t}
                         ELSE WaitingOf(c) \ {t}
      /\ CallWaits(ini[t], sent[t]) = IF t \in WaitingOf(c) THEN 1 ELSE 0
      /\ CallWaits(p, n) \in {0, 1}
  BY <1>2 DEF WaitingOf, OfCmd, CallWaits
<1>5. /\ OutstandingOf(c)' = IF CallRuns(p, n) = 1 THEN OutstandingOf(c) \union {t}
                             ELSE OutstandingOf(c) \ {t}
      /\ CallRuns(ini[t], sent[t]) = IF t \in OutstandingOf(c) THEN 1 ELSE 0
      /\ CallRuns(p, n) \in {0, 1}
  BY <1>2 DEF OutstandingOf, OfCmd, CallRuns
<1>6. \A d \in Cmds : d # c => /\ WaitingOf(d)' = WaitingOf(d)
                               /\ OutstandingOf(d)' = OutstandingOf(d)
  BY <1>2 DEF WaitingOf, OutstandingOf, OfCmd
<1>7. Cardinality(WaitingOf(c)') = Cardinality(WaitingOf(c)) + w
  <2>1. Cardinality(WaitingOf(c) \union {t}) =
          IF t \in WaitingOf(c) THEN Cardinality(WaitingOf(c))
          ELSE Cardinality(WaitingOf(c)) + 1
    BY <1>1, <1>3, FS_AddElement
  <2>2. Cardinality(WaitingOf(c) \ {t}) =
          IF t \in WaitingOf(c) THEN Cardinality(WaitingOf(c)) - 1
          ELSE Cardinality(WaitingOf(c))
    BY <1>1, <1>3, FS_RemoveElement
  <2> QED
    BY <1>1, <1>3, <1>4, <2>1, <2>2
<1>8. Cardinality(OutstandingOf(c)') = Cardinality(OutstandingOf(c)) + o
  <2>1. Cardinality(OutstandingOf(c) \union {t}) =
          IF t \in OutstandingOf(c) THEN Cardinality(OutstandingOf(c))
          ELSE Cardinality(OutstandingOf(c)) + 1
    BY <1>1, <1>3, FS_AddElement
  <2>2. Cardinality(OutstandingOf(c) \ {t}) =
          IF t \in OutstandingOf(c) THEN Cardinality(OutstandingOf(c)) - 1
          ELSE Cardinality(OutstandingOf(c))
    BY <1>1, <1>3, FS_RemoveElement
  <2> QED
    BY <1>1, <1>3, <1>5, <2>1, <2>2
<1> HIDE DEF c, w, o
<1>9. \A d \in Cmds : /\ waiting'[d] = IF d = c THEN waiting[c] + w ELSE waiting[d]
                      /\ outstanding'[d] =
                           IF d = c THEN outstanding[c] + o ELSE outstanding[d]
  BY <1>0, <1>1 DEF c
<1>10. \A d \in Cmds : /\ waiting'[d] = Cardinality(WaitingOf(d)')
                       /\ outstanding'[d] = Cardinality(OutstandingOf(d)')
  BY <1>1, <1>6, <1>7, <1>8, <1>9 DEF CallsInv
<1>11. \A u \in Tx : ini'[u] = "id" => sent'[u] = 0
  BY <1>2 DEF CallsInv
<1> QED
  BY <1>10, <1>11 DEF CallsInv

\* The steps of a transport call count it where it is.
LEMMA CallsStep ==
  ASSUME IsFiniteSet(Tx), IniTypeOK, CallsInv, IniNext
  PROVE  CallsInv'
<1> PICK t \in Tx : \/ Transport(t) \/ GetId(t) \/ SendRequest(t)
                    \/ BeatAccepted(t) \/ RequestAccepted(t)
                    \/ ResponseBeat(t) \/ SendAck(t) \/ Finish(t)
  BY DEF IniNext
<1>1. /\ ini \in [Tx -> IniPcs] /\ sent \in [Tx -> Nat] /\ Cmd[t] \in Cmds
      /\ waiting \in [Cmds -> Int] /\ outstanding \in [Cmds -> Int]
  BY ChannelAssumption DEF ChannelAssumption, IniTypeOK
<1>2. /\ UNCHANGED sent => sent' = [sent EXCEPT ![t] = sent[t]]
      /\ UNCHANGED ini => ini' = [ini EXCEPT ![t] = ini[t]]
      /\ UNCHANGED waiting => \A n \in {0, 1} : WaitingMoves(t, n, n)
      /\ UNCHANGED outstanding => \A n \in {0, 1} : RunningMoves(t, n, n)
  BY <1>1 DEF WaitingMoves, RunningMoves
<1>3. CASE Transport(t)
  <2>1. PICK p \in {"id", "chnl"} : ini[t] = "idle" /\ ini' = [ini EXCEPT ![t] = p]
    BY <1>3 DEF Transport, Goto
  <2>2. /\ sent' = [sent EXCEPT ![t] = 0] /\ WaitingMoves(t, 1, 0)
        /\ RunningMoves(t, 0, 0)
    BY <1>1, <1>2, <1>3 DEF Transport, WaitingMoves, RunningMoves
  <2>3. /\ CallWaits(p, 0) = 1 /\ CallWaits(ini[t], sent[t]) = 0
        /\ CallRuns(p, 0) = 0 /\ CallRuns(ini[t], sent[t]) = 0
    BY <2>1 DEF CallWaits, CallRuns
  <2>4. p \in IniPcs
    BY DEF IniPcs
  <2>9. /\ WaitingMoves(t, CallWaits(p, 0), CallWaits(ini[t], sent[t]))
       /\ RunningMoves(t, CallRuns(p, 0), CallRuns(ini[t], sent[t]))
    BY <2>2, <2>3
  <2> QED
    BY <1>1, <2>1, <2>2, <2>4, <2>9, CallMoves
<1>4. CASE GetId(t)
  <2>1. ini[t] = "id" /\ ini' = [ini EXCEPT ![t] = "chnl"] /\ sent[t] = 0
    BY <1>4 DEF GetId, Goto, CallsInv
  <2>2. /\ sent' = [sent EXCEPT ![t] = 0] /\ WaitingMoves(t, 1, 1)
        /\ RunningMoves(t, 0, 0)
    BY <1>2, <1>4, <2>1 DEF GetId
  <2>3. /\ CallWaits("chnl", 0) = 1 /\ CallWaits(ini[t], sent[t]) = 1
        /\ CallRuns("chnl", 0) = 0 /\ CallRuns(ini[t], sent[t]) = 0
    BY <2>1 DEF CallWaits, CallRuns
  <2>4. "chnl" \in IniPcs
    BY DEF IniPcs
  <2>9. /\ WaitingMoves(t, CallWaits("chnl", 0), CallWaits(ini[t], sent[t]))
       /\ RunningMoves(t, CallRuns("chnl", 0), CallRuns(ini[t], sent[t]))
    BY <2>2, <2>3
  <2> QED
    BY <1>1, <2>1, <2>2, <2>4, <2>9, CallMoves
<1>5. CASE SendRequest(t)
  <2>1. ini[t] = "chnl" /\ ini' = [ini EXCEPT ![t] = "send"]
    BY <1>5 DEF SendRequest, Goto
  <2>2. sent[t] \in Nat /\ sent' = [sent EXCEPT ![t] = sent[t]]
    BY <1>1, <1>2, <1>5 DEF SendRequest
  <2>3. "send" \in IniPcs
    BY DEF IniPcs
  <2>4. CASE sent[t] = 0
    <3>1. WaitingMoves(t, 0, 1) /\ RunningMoves(t, 1, 0)
      BY <1>1, <1>5, <2>4 DEF SendRequest, FirstBeat, WaitingMoves, RunningMoves
    <3>2. /\ CallWaits("send", sent[t]) = 0 /\ CallWaits(ini[t], sent[t]) = 1
          /\ CallRuns("send", sent[t]) = 1 /\ CallRuns(ini[t], sent[t]) = 0
      BY <2>1, <2>4 DEF CallWaits, CallRuns
    <3>9. /\ WaitingMoves(t, CallWaits("send", sent[t]), CallWaits(ini[t], sent[t]))
         /\ RunningMoves(t, CallRuns("send", sent[t]), CallRuns(ini[t], sent[t]))
      BY <3>1, <3>2
    <3> QED
      BY <1>1, <2>1, <2>2, <2>3, <3>9, CallMoves
  <2>5. CASE sent[t] # 0
    <3>1. WaitingMoves(t, 0, 0) /\ RunningMoves(t, 1, 1)
      BY <1>2, <1>5, <2>5 DEF SendRequest, FirstBeat
    <3>2. /\ CallWaits("send", sent[t]) = 0 /\ CallWaits(ini[t], sent[t]) = 0
          /\ CallRuns("send", sent[t]) = 1 /\ CallRuns(ini[t], sent[t]) = 1
      BY <2>1, <2>2, <2>5 DEF CallWaits, CallRuns
    <3>9. /\ WaitingMoves(t, CallWaits("send", sent[t]), CallWaits(ini[t], sent[t]))
         /\ RunningMoves(t, CallRuns("send", sent[t]), CallRuns(ini[t], sent[t]))
      BY <3>1, <3>2
    <3> QED
      BY <1>1, <2>1, <2>2, <2>3, <3>9, CallMoves
  <2> QED
    BY <2>4, <2>5
<1>6. CASE BeatAccepted(t)
  <2>1. ini[t] = "send" /\ ini' = [ini EXCEPT ![t] = "chnl"]
    BY <1>6 DEF BeatAccepted, Goto
  <2>2. /\ sent[t] + 1 \in Nat /\ sent[t] + 1 > 0
        /\ sent' = [sent EXCEPT ![t] = sent[t] + 1]
        /\ WaitingMoves(t, 0, 0) /\ RunningMoves(t, 1, 1)
    BY <1>1, <1>2, <1>6 DEF BeatAccepted
  <2>3. /\ CallWaits("chnl", sent[t] + 1) = 0 /\ CallWaits(ini[t], sent[t]) = 0
        /\ CallRuns("chnl", sent[t] + 1) = 1 /\ CallRuns(ini[t], sent[t]) = 1
    BY <2>1, <2>2 DEF CallWaits, CallRuns
  <2>4. "chnl" \in IniPcs
    BY DEF IniPcs
  <2>9. /\ WaitingMoves(t, CallWaits("chnl", sent[t] + 1), CallWaits(ini[t], sent[t]))
       /\ RunningMoves(t, CallRuns("chnl", sent[t] + 1), CallRuns(ini[t], sent[t]))
    BY <2>2, <2>3
  <2> QED
    BY <1>1, <2>1, <2>2, <2>4, <2>9, CallMoves
<1>7. CASE RequestAccepted(t) \/ ResponseBeat(t) \/ SendAck(t)
  <2>1. PICK p \in {"resp", "ack", "fin"} : ini' = [ini EXCEPT ![t] = p]
    BY <1>2, <1>7
    DEF RequestAccepted, ResponseBeat, SendAck, Goto, AfterResponse
  <2>2. /\ ini[t] \in {"send", "resp", "ack"} /\ sent[t] \in Nat
        /\ sent' = [sent EXCEPT ![t] = sent[t]]
        /\ WaitingMoves(t, 0, 0) /\ RunningMoves(t, 1, 1)
    BY <1>1, <1>2, <1>7 DEF RequestAccepted, ResponseBeat, SendAck, Goto
  <2>3. /\ CallWaits(p, sent[t]) = 0 /\ CallWaits(ini[t], sent[t]) = 0
        /\ CallRuns(p, sent[t]) = 1 /\ CallRuns(ini[t], sent[t]) = 1
    BY <2>2 DEF CallWaits, CallRuns
  <2>4. p \in IniPcs /\ p # "id"
    BY DEF IniPcs
  <2>9. /\ WaitingMoves(t, CallWaits(p, sent[t]), CallWaits(ini[t], sent[t]))
       /\ RunningMoves(t, CallRuns(p, sent[t]), CallRuns(ini[t], sent[t]))
    BY <2>2, <2>3
  <2> QED
    BY <1>1, <2>1, <2>2, <2>4, <2>9, CallMoves
<1>8. CASE Finish(t)
  <2>1. ini[t] = "fin" /\ ini' = [ini EXCEPT ![t] = "idle"]
    BY <1>8 DEF Finish, Goto
  <2>2. /\ sent[t] \in Nat /\ sent' = [sent EXCEPT ![t] = sent[t]]
        /\ WaitingMoves(t, 0, 0) /\ RunningMoves(t, 0, 1)
    <3>1. sent' = sent /\ waiting' = waiting
          /\ outstanding' = [outstanding EXCEPT ![Cmd[t]] = @ - 1]
      BY <1>8 DEF Finish
    <3>2. outstanding[Cmd[t]] - 1 = outstanding[Cmd[t]] + (0 - 1)
      BY <1>1
    <3>3. outstanding' = [outstanding EXCEPT ![Cmd[t]] = @ + (0 - 1)]
      BY <3>1, <3>2
    <3> QED
      BY <1>1, <1>2, <3>1, <3>3 DEF RunningMoves
  <2>3. /\ CallWaits("idle", sent[t]) = 0 /\ CallWaits(ini[t], sent[t]) = 0
        /\ CallRuns("idle", sent[t]) = 0 /\ CallRuns(ini[t], sent[t]) = 1
    BY <2>1 DEF CallWaits, CallRuns
  <2>4. "idle" \in IniPcs
    BY DEF IniPcs
  <2>9. /\ WaitingMoves(t, CallWaits("idle", sent[t]), CallWaits(ini[t], sent[t]))
       /\ RunningMoves(t, CallRuns("idle", sent[t]), CallRuns(ini[t], sent[t]))
    BY <2>2, <2>3
  <2> QED
    BY <1>1, <2>1, <2>2, <2>4, <2>9, CallMoves
<1> QED
  BY <1>3, <1>4, <1>5, <1>6, <1>7, <1>8

\* The calls of the initiator are counted where they are.
THEOREM CallsInvariant ==
  ASSUME IsFiniteSet(Tx)
  PROVE  Spec => []CallsInv
<1>1. Init => CallsInv
  <2> SUFFICES ASSUME Init PROVE CallsInv
    OBVIOUS
  <2>1. /\ \A t \in Tx : ini[t] = "idle"
        /\ \A c \in Cmds : waiting[c] = 0 /\ outstanding[c] = 0
    BY DEF Init, IniInit
  <2>2. \A c \in Cmds : WaitingOf(c) = {} /\ OutstandingOf(c) = {}
    BY <2>1 DEF WaitingOf, OutstandingOf, OfCmd
  <2> QED
    BY <2>1, <2>2, FS_EmptySet DEF CallsInv
<1>2. TypeOK /\ CallsInv /\ [Next]_vars => CallsInv'
  <2>1. ASSUME CallsInv, UNCHANGED iniVars PROVE CallsInv'
    <3>1. UNCHANGED <<ini, sent, waiting, outstanding>>
      BY <2>1 DEF iniVars
    <3>2. \A c \in Cmds : /\ WaitingOf(c)' = WaitingOf(c)
                          /\ OutstandingOf(c)' = OutstandingOf(c)
      BY <3>1 DEF WaitingOf, OutstandingOf, OfCmd
    <3> QED
      BY <2>1, <3>1, <3>2 DEF CallsInv
  <2> QED
    BY <2>1, CallsStep DEF Next, vars, TypeOK
<1> QED
  BY <1>1, <1>2, TypeCorrect, PTL DEF Spec

\* outstanding_cnt of the target, rd/wr_waiting and rd/wr_outstanding of the
\* initiator are always exact: many processes and callbacks change them.
THEOREM CountersExactHolds ==
  ASSUME CountersFit
  PROVE  Spec => []CountersExact
<1>1. LimitInv /\ CallsInv => CountersExact
  BY DEF CountersExact, OutstandingCntExact, LimitInv, CountInv, Counted, Uncounted,
         CallsInv, WaitingOf, OutstandingOf
<1>2. Spec => []CallsInv
  BY CallsInvariant DEF CountersFit
<1> QED
  BY <1>1, <1>2, LimitInvariant, PTL

-----------------------------------------------------------------------------
(* The contract of an AXI target.                                          *)

Stage(t) == IF Responding(t) THEN "responding"
            ELSE IF Accepted(t) THEN "accepted" ELSE "none"
StageOf == [t \in Tx |-> Stage(t)]

\* The stage only depends on the state machine and its beats.
LEMMA StageFrame ==
  ASSUME NEW t, fsm'[t] = fsm[t], beat'[t] = beat[t]
  PROVE  Stage(t)' = Stage(t)
BY DEF Stage, Responding, Accepted

LEMMA StageMoves ==
  ASSUME TypeOK, NEW t \in Tx, NEW s, Becomes(t, s),
         \A u \in Tx \ {t} : beat'[u] = beat[u]
  PROVE  StageOf' = [StageOf EXCEPT ![t] = Stage(t)']
<1>1. fsm \in [Tx -> FsmStates]
  BY DEF TypeOK, TgtTypeOK
<1>2. \A u \in Tx \ {t} : fsm'[u] = fsm[u]
  BY <1>1 DEF Becomes
<1>3. \A u \in Tx \ {t} : Stage(u)' = Stage(u)
  BY <1>2, StageFrame
<1>4. StageOf' = [u \in Tx |-> Stage(u)']
  BY DEF StageOf
<1>5. [StageOf EXCEPT ![t] = Stage(t)'] =
        [u \in Tx |-> IF u = t THEN Stage(t)' ELSE Stage(u)]
  BY DEF StageOf
<1> QED
  BY <1>3, <1>4, <1>5

\* A step of the state machine of t leaves its stage, or takes it to the next.
LEMMA StageStutter ==
  ASSUME NEW t \in Tx, StageOf' = [StageOf EXCEPT ![t] = Stage(t)'],
         Stage(t)' = Stage(t)
  PROVE  StageOf' = StageOf
<1>1. StageOf = [u \in Tx |-> Stage(u)]
  BY DEF StageOf
<1>2. [StageOf EXCEPT ![t] = Stage(t)] = StageOf
  BY <1>1
<1> QED
  BY <1>2

\* The limit holds after the step, so there was room before it.
LEMMA StageAccept ==
  ASSUME CountersFit, AcceptedWithinLimit', NEW t \in Tx,
         StageOf' = [StageOf EXCEPT ![t] = Stage(t)'],
         Stage(t) = "none", Stage(t)' = "accepted"
  PROVE  Contract!Accept(t)
<1> DEFINE c == Cmd[t]
           out == {u \in Tx : Cmd[u] = c /\ StageOf[u] # "none"}
<1>1. StageOf = [u \in Tx |-> Stage(u)] /\ StageOf' = [u \in Tx |-> Stage(u)']
  BY DEF StageOf
<1>2. \A u \in Tx \ {t} : Stage(u)' = Stage(u)
  BY <1>1
<1>3. ASSUME NEW u PROVE Accepted(u)' <=> Stage(u)' # "none"
  BY DEF Stage, Accepted, Responding
<1>4. /\ AcceptedOf(c)' = out \union {t} /\ t \notin out
      /\ IsFiniteSet(out) /\ IsFiniteSet(Tx)
  <2>1. AcceptedOf(c)' = {u \in Tx : Cmd[u] = c /\ Accepted(u)'}
    BY DEF AcceptedOf, OfCmd
  <2>2. out \in SUBSET Tx
    OBVIOUS
  <2>3. IsFiniteSet(out) /\ IsFiniteSet(Tx)
    BY <2>2, FS_Subset DEF CountersFit
  <2> QED
    BY <1>1, <1>2, <1>3, <2>1, <2>3
<1>5. ASSUME MaxOutstanding > 0 PROVE Cardinality(out) < MaxOutstanding
  <2>2. Cardinality(AcceptedOf(c)') <= MaxOutstanding
    BY <1>5, ChannelAssumption
    DEF ChannelAssumption, AcceptedWithinLimit, AcceptedOf
  <2>3. Cardinality(out \union {t}) = Cardinality(out) + 1
    BY <1>4, FS_AddElement
  <2>4. Cardinality(out) \in Nat
    BY <1>4, FS_CardinalityType
  <2> QED
    BY <1>4, <2>2, <2>3, <2>4, TargetAssumption DEF TargetAssumption
<1> HIDE DEF out, c
<1>6. StageOf[t] = "none" /\ StageOf' = [StageOf EXCEPT ![t] = "accepted"]
  BY <1>1
<1>7. Contract!Outstanding(t) = out
  BY DEF Contract!Outstanding, StageOf, Stage, out, c
<1>8. Contract!Cardinality(out) = Cardinality(out)
  BY DEF Contract!Cardinality, Cardinality
<1>9. MaxOutstanding > 0 =>
        Contract!Cardinality(Contract!Outstanding(t)) < MaxOutstanding
  BY <1>5, <1>7, <1>8
<1> QED
  BY <1>6, <1>9 DEF Contract!Accept, StageOf, Stage

\* A read that may begin its response owns its id.
LEMMA StageRespond ==
  ASSUME TokenInv, NEW t \in Tx, StageOf' = [StageOf EXCEPT ![t] = Stage(t)'],
         fsm[t] = "WaitForResponse", ~NotDue(t), Stage(t)' = "responding"
  PROVE  Contract!Respond(t)
<1>1. StageOf = [u \in Tx |-> Stage(u)]
  BY DEF StageOf
<1>2. Stage(t) = "accepted" /\ ~Responding(t)
  BY DEF Stage, Accepted, Responding
<1>3. ASSUME Cmd[t] = "rd", NEW u \in Tx, Cmd[u] = "rd", Id[u] = Id[t]
      PROVE  StageOf[u] # "responding"
  <2>1. OwnsId(t)
    BY <1>3 DEF OwnsId
  <2>2. Responding(u) => OwnsId(u)
    BY <1>3 DEF OwnsId
  <2>3. ~Responding(u)
    BY <1>2, <1>3, <2>1, <2>2 DEF TokenInv, IdInv
  <2> QED
    BY <1>1, <2>3 DEF Stage
<1>4. StageOf[t] = "accepted" /\ StageOf' = [StageOf EXCEPT ![t] = "responding"]
  BY <1>1, <1>2
<1> QED
  BY <1>3, <1>4 DEF Contract!Respond, StageOf, Stage

LEMMA StageFinish ==
  ASSUME NEW t \in Tx, StageOf' = [StageOf EXCEPT ![t] = Stage(t)'],
         Stage(t) = "responding", Stage(t)' = "none"
  PROVE  Contract!Finish(t)
<1>1. StageOf[t] = "responding" /\ StageOf' = [StageOf EXCEPT ![t] = "none"]
  BY DEF StageOf
<1> QED
  BY <1>1 DEF Contract!Finish, StageOf, Stage

\* Every step of a state machine is a step of the contract or none.
LEMMA FsmStepContract ==
  ASSUME TypeOK, TokenInv, LimitInv, AcceptedWithinLimit', CountersFit,
         NEW t \in Tx, FsmStep(t)
  PROVE  StageOf' = StageOf \/ Contract!Next
<1>1. /\ fsm \in [Tx -> FsmStates] /\ beat \in [Tx -> Nat] /\ Cmd[t] \in Cmds
  BY ChannelAssumption DEF ChannelAssumption, TypeOK, TgtTypeOK
<1>2. ASSUME NEW s, Becomes(t, s)
      PROVE  fsm'[t] = s
  BY <1>1, <1>2 DEF Becomes
<1>3. CASE BeginStep(t)
  <2>1. /\ beat' = [beat EXCEPT ![t] = BeatsAtBegin(t)]
        /\ fsm[t] \in {"Idle", "WriteIdle"}
    BY <1>3 DEF BeginStep
  <2>2. PICK s \in {"PartialRequest", "Request"} : Becomes(t, s)
    BY <1>3 DEF BeginStep
  <2>3. Stage(t)' = Stage(t)
    <3>1. fsm'[t] \in {"PartialRequest", "Request"} /\ beat'[t] = BeatsAtBegin(t)
      BY <1>1, <1>2, <2>1, <2>2
    <3>2. CASE fsm[t] = "Idle"
      <4>1. BeatsAtBegin(t) = 0
        BY <3>2 DEF BeatsAtBegin
      <4> QED
        BY <3>1, <3>2, <4>1 DEF Stage, Accepted, Responding
    <3>3. CASE fsm[t] = "WriteIdle"
      <4>1. BeatsAtBegin(t) = beat[t] /\ beat[t] > 0 /\ Cmd[t] = "wr"
        BY <3>3 DEF BeatsAtBegin, TokenInv, ActiveInv, LimitInv, WriteInv
      <4> QED
        BY <3>1, <3>3, <4>1 DEF Stage, Accepted, Responding
    <3> QED
      BY <2>1, <3>2, <3>3
  <2>4. \A u \in Tx \ {t} : beat'[u] = beat[u]
    BY <1>1, <2>1
  <2> QED
    BY <2>2, <2>3, <2>4, StageMoves, StageStutter
<1>4. CASE DiscardStep(t)
  <2>1. \A u \in Tx : Stage(u)' = Stage(u)
    BY <1>4, StageFrame DEF DiscardStep
  <2> QED
    BY <2>1 DEF StageOf
<1>5. ASSUME NEW q, NEW k, EndPartReqStep(t, q, k)
      PROVE  StageOf' = StageOf \/ Contract!Accept(t)
  <2>1. /\ fsm[t] = "PartialRequest" /\ Becomes(t, "WriteIdle") /\ Cmd[t] = "wr"
        /\ beat' = [beat EXCEPT ![t] = @ + 1]
    BY <1>5 DEF EndPartReqStep, EndPartReqCb
  <2>2. /\ StageOf' = [StageOf EXCEPT ![t] = Stage(t)'] /\ fsm'[t] = "WriteIdle"
    BY <1>1, <1>2, <2>1, StageMoves
  <2>3. Stage(t)' = "accepted" /\ Stage(t) \in {"accepted", "none"}
    BY <2>1, <2>2 DEF Stage, Accepted, Responding
  <2> QED
    BY <2>2, <2>3, StageStutter, StageAccept
<1>6. ASSUME NEW q, NEW k, EndReqStep(t, q, k)
      PROVE  StageOf' = StageOf \/ Contract!Accept(t)
  <2>1. fsm[t] = "Request" /\ Becomes(t, "WaitForResponse") /\ UNCHANGED beat
    BY <1>6 DEF EndReqStep, EndReqCb
  <2>2. /\ StageOf' = [StageOf EXCEPT ![t] = Stage(t)']
        /\ fsm'[t] = "WaitForResponse"
    BY <1>1, <1>2, <2>1, StageMoves
  <2>3. Stage(t)' = "accepted" /\ Stage(t) \in {"accepted", "none"}
    BY <2>1, <2>2 DEF Stage, Accepted, Responding
  <2> QED
    BY <2>2, <2>3, StageStutter, StageAccept
<1>7. ASSUME NEW tp, NEW q, NEW k, BegRespStep(t, tp, q, k)
      PROVE  StageOf' = StageOf \/ Contract!Respond(t)
  <2>1. /\ fsm[t] \in {"WaitForResponse", "ReadIdle"} /\ UNCHANGED beat
        /\ Becomes(t, IF tp = "BegRespE" THEN "Response" ELSE "PartialResponse")
        /\ ~NotDue(t)
    BY <1>7 DEF BegRespStep, BegRespCb
  <2>2. /\ StageOf' = [StageOf EXCEPT ![t] = Stage(t)']
        /\ fsm'[t] \in {"Response", "PartialResponse"}
    BY <1>1, <1>2, <2>1, StageMoves
  <2>3. Stage(t)' = "responding"
    BY <2>2 DEF Stage, Responding
  <2>4. fsm[t] = "ReadIdle" => Stage(t) = "responding"
    BY DEF Stage, Responding
  <2> QED
    BY <2>1, <2>2, <2>3, <2>4, StageStutter, StageRespond
<1>8. CASE EndPartRespStep(t)
  <2>1. /\ fsm[t] = "PartialResponse" /\ Becomes(t, "ReadIdle")
        /\ beat' = [beat EXCEPT ![t] = beat[t] + 1]
    BY <1>8 DEF EndPartRespStep, EndPartRespCb
  <2>2. /\ StageOf' = [StageOf EXCEPT ![t] = Stage(t)'] /\ fsm'[t] = "ReadIdle"
    BY <1>1, <1>2, <2>1, StageMoves
  <2>3. Stage(t)' = Stage(t)
    BY <2>1, <2>2 DEF Stage, Responding
  <2> QED
    BY <2>2, <2>3, StageStutter
<1>9. CASE EndRespStep(t)
  <2>1. /\ fsm[t] = "Response" /\ UNCHANGED beat
        /\ Becomes(t, IF Coherent THEN "WaitAck" ELSE "Idle")
    BY <1>9 DEF EndRespStep, EndRespCb
  <2>2. /\ StageOf' = [StageOf EXCEPT ![t] = Stage(t)']
        /\ fsm'[t] \in {"WaitAck", "Idle"}
    BY <1>1, <1>2, <2>1, StageMoves
  <2>3. Stage(t) = "responding" /\ Stage(t)' = "none"
    BY <2>1, <2>2 DEF Stage, Accepted, Responding
  <2> QED
    BY <2>2, <2>3, StageFinish DEF Contract!Next
<1>10. CASE AckStep(t)
  <2>1. /\ fsm[t] \in {"WaitAck", "Idle"} /\ Becomes(t, "Idle") /\ UNCHANGED beat
    BY <1>10 DEF AckStep, Quiet
  <2>2. /\ StageOf' = [StageOf EXCEPT ![t] = Stage(t)'] /\ fsm'[t] = "Idle"
    BY <1>1, <1>2, <2>1, StageMoves
  <2>3. Stage(t)' = Stage(t)
    BY <2>1, <2>2 DEF Stage, Accepted, Responding
  <2> QED
    BY <2>2, <2>3, StageStutter
<1>11. ASSUME NEW tp, NEW q, NEW k, DueStep(t, tp, q, k)
       PROVE  StageOf' = StageOf \/ Contract!Next
  BY <1>5, <1>6, <1>7, <1>11 DEF DueStep, Contract!Next
<1> QED
  BY <1>3, <1>4, <1>8, <1>9, <1>10, <1>11 DEF FsmStep

\* The engine implements the contract of an AXI target, as far as safety goes:
\* under back-pressure, random latencies and interleaved read responses each
\* request is accepted, answered and finished once, within the limit, and reads
\* with one id one after the other.
THEOREM ContractKept ==
  ASSUME CountersFit
  PROVE  Spec => Contract!SafeSpec
<1> DEFINE contractStage == [t \in Tx |-> IF Responding(t) THEN "responding"
                                      ELSE IF Accepted(t) THEN "accepted"
                                      ELSE "none"]
<1>1. Init => Contract!Init
  <2>1. ASSUME Init, NEW t \in Tx PROVE ~Responding(t) /\ ~Accepted(t)
    BY <2>1 DEF Init, TgtInit, Responding, Accepted
  <2> QED
    BY <2>1 DEF Contract!Init
<1>2. ASSUME TypeOK, TokenInv, LimitInv, AcceptedWithinLimit', [Next]_vars
      PROVE  StageOf' = StageOf \/ Contract!Next
  <2>1. ASSUME UNCHANGED <<fsm, beat>> PROVE StageOf' = StageOf
    <3>1. \A u \in Tx : Stage(u)' = Stage(u)
      BY <2>1, StageFrame
    <3> QED
      BY <3>1 DEF StageOf
  <2>2. CASE UNCHANGED tgtVars
    BY <2>1, <2>2 DEF tgtVars
  <2>3. CASE TgtNext
    <3>1. ThreadStep => UNCHANGED <<fsm, beat>>
      BY DEF ThreadStep, ProcessReq2Resp, PushBackOverdue, SendRespBeat, StartRdRead,
             StartRdSem, StartRdBegin, StartWr, fsmVars, startRdRest
    <3> QED
      BY <1>2, <2>1, <2>3, <3>1, TgtCases, FsmStepContract
  <2> QED
    BY <1>2, <2>2, <2>3 DEF Next, vars
<1>3. ASSUME TypeOK, TokenInv, LimitInv, AcceptedWithinLimit', [Next]_vars
      PROVE  [Contract!Next]_contractStage
  BY <1>2, <1>3 DEF StageOf, Stage
<1>4. TypeOK /\ TokenInv /\ LimitInv => AcceptedWithinLimit
  BY WithinLimit
<1> QED
  BY <1>1, <1>3, <1>4, TokenInvariant, LimitInvariant, PTL
  DEF Spec, Contract!SafeSpec
=============================================================================
