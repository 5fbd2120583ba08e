--------------------------- MODULE AxiLink_proofs ---------------------------
(***************************************************************************)
(* Theorems about AxiLink for any set of transactions, any ids, commands   *)
(* and burst lengths, and any setting of the engines' parameters.          *)
(***************************************************************************)
EXTENDS AxiLink, TLAPS

-----------------------------------------------------------------------------
(* Lemmas about the operators of the components.                           *)

LEMMA PutType ==
  ASSUME NEW P, NEW q \in [Tx -> Seq(P)], NEW t \in Tx, NEW p \in P
  PROVE  Put(q, t, p) \in [Tx -> Seq(P)]
BY DEF Put

LEMMA DropType ==
  ASSUME NEW P, NEW q \in [Tx -> Seq(P)], NEW t \in Tx, q[t] # << >>
  PROVE  Drop(q, t) \in [Tx -> Seq(P)] /\ Head(q[t]) \in P
BY DEF Drop

LEMMA ReleaseType ==
  ASSUME NEW P, NEW s \in Seq(P)
  PROVE  Release(s) \in Seq(P)
BY DEF Release

LEMMA AfterType ==
  ASSUME NEW s \in FsmStates, NEW ev
  PROVE  After(s, ev) \in FsmStates
BY DEF After, Accepts, Reactions, FsmStates

LEMMA CountType ==
  ASSUME NEW n \in 0..UMax
  PROVE  Inc(n) \in 0..UMax /\ Dec(n) \in 0..UMax
BY TargetAssumption DEF Inc, Dec, TargetAssumption

LEMMA ScheduleType ==
  ASSUME NEW tp \in TimePoints, NEW t \in Tx, NEW kinds,
         NEW q \in Seq(Scheduled), NEW k \in [Tx -> Seq(TimePoints)],
         Schedule(kinds, tp, t, q, k)
  PROVE  evq' \in Seq(Scheduled) /\ clkq' \in [Tx -> Seq(TimePoints)]
<1>1. CASE evq' = Append(q, [tp |-> tp, tx |-> t]) /\ clkq' = k
  <2>1. [tp |-> tp, tx |-> t] \in Scheduled
    BY DEF Scheduled
  <2> QED
    BY <1>1, <2>1
<1>2. CASE clkq' = [k EXCEPT ![t] = Append(@, tp)] /\ evq' = q
  BY <1>2
<1> QED
  BY <1>1, <1>2 DEF Schedule

-----------------------------------------------------------------------------
(* The checker.                                                            *)

LEMMA WatchType ==
  ASSUME CheckerTypeOK, Watch
  PROVE  CheckerTypeOK'
<1>1. CASE UNCHANGED checkerVars
  BY <1>1 DEF CheckerTypeOK, checkerVars
<1>2. ASSUME NEW t \in Tx, NEW p, Observe(t, p)
      PROVE  CheckerTypeOK'
  <2>1. Cmd[t] \in Cmds /\ Id[t] \in Ids
    BY ChannelAssumption DEF ChannelAssumption
  <2>2. \A b, k : k \in Complaints => If(b, k) \subseteq Complaints
    BY DEF If
  <2>3. CASE p \in ReqBegins /\ BeginRequestBeat(t, p)
    <3>1. reqBeat' \in [Cmds -> ReqBegins \union {NoBeat}]
      BY <2>3 DEF BeginRequestBeat, CheckerTypeOK
    <3>2. reqId' \in [Cmds -> Ids \union {NoId}]
      BY <2>1, <2>3 DEF BeginRequestBeat, CheckerTypeOK
    <3>3. wrReqBeats' \in Nat
      BY <2>3 DEF BeginRequestBeat, CheckerTypeOK
    <3>4. openTx' \in [Cmds -> [Ids -> Seq(Tx)]]
      BY <2>1, <2>3 DEF BeginRequestBeat, CheckerTypeOK
    <3>5. complaints' \subseteq Complaints
      BY <2>2, <2>3, ZenonT(40) DEF BeginRequestBeat, CheckerTypeOK, Complaints
    <3> QED
      BY <2>3, <3>1, <3>2, <3>3, <3>4, <3>5
      DEF BeginRequestBeat, CheckerTypeOK
  <2>4. CASE p \in RespBegins /\ BeginResponseBeat(t, p)
    <3>1. respBeat' \in [Cmds -> RespBegins \union {NoBeat}]
      BY <2>4 DEF BeginResponseBeat, CheckerTypeOK
    <3>2. respId' \in [Cmds -> Ids \union {NoId}]
      BY <2>1, <2>4 DEF BeginResponseBeat, CheckerTypeOK
    <3>3. rdRespBeats' \in [Ids -> Nat]
      BY <2>1, <2>4 DEF BeginResponseBeat, CheckerTypeOK
    <3>4. openTx' \in [Cmds -> [Ids -> Seq(Tx)]]
      BY <2>1, <2>4 DEF BeginResponseBeat, CheckerTypeOK
    <3>5. complaints' \subseteq Complaints
      BY <2>4, SMTT(30) DEF BeginResponseBeat, CheckerTypeOK, Complaints, If
    <3> QED
      BY <2>4, <3>1, <3>2, <3>3, <3>4, <3>5
      DEF BeginResponseBeat, CheckerTypeOK
  <2>5. CASE EndBeat(t, p)
    <3>1. complaints' \subseteq Complaints
      BY <2>2, <2>5 DEF EndBeat, CheckerTypeOK, Complaints
    <3> QED
      BY <2>5, <3>1 DEF EndBeat, CheckerTypeOK
  <2>6. CASE /\ complaints' = complaints \union {"phase"}
             /\ UNCHANGED <<reqBeat, respBeat, reqId, respId, wrReqBeats,
                            rdRespBeats, openTx>>
    BY <2>6 DEF CheckerTypeOK, Complaints
  <2> QED
    BY <1>2, <2>3, <2>4, <2>5, <2>6 DEF Observe
<1> QED
  <2> DEFINE calls(q, r) == {t \in Tx : Len(r[t]) > Len(q[t])}
  <2>1. CASE calls(fw, fw') # {}
    <3>1. (CHOOSE u \in calls(fw, fw') : TRUE) \in Tx
      BY <2>1
    <3> QED
      BY <1>2, <2>1, <3>1 DEF Watch
  <2>2. CASE calls(fw, fw') = {} /\ calls(bw, bw') # {}
    <3>1. (CHOOSE u \in calls(bw, bw') : TRUE) \in Tx
      BY <2>2
    <3> QED
      BY <1>2, <2>2, <3>1 DEF Watch
  <2> QED
    BY <1>1, <2>1, <2>2 DEF Watch

-----------------------------------------------------------------------------
(* The initiator.                                                          *)

LEMMA IniStepType ==
  ASSUME LinkTypeOK, IniTypeOK, IniNext
  PROVE  LinkTypeOK' /\ IniTypeOK'
<1> USE DEF linkVars
<1> PICK t \in Tx : \/ Transport(t) \/ GetId(t) \/ SendRequest(t)
                    \/ BeatAccepted(t) \/ RequestAccepted(t)
                    \/ ResponseBeat(t) \/ SendAck(t) \/ Finish(t)
  BY DEF IniNext
<1>1. /\ Cmd[t] \in Cmds /\ Id[t] \in Ids /\ BurstLen[t] \in Nat
      /\ "wr" \in Cmds
  BY ChannelAssumption DEF ChannelAssumption, Cmds
<1>2. \A from, to : Goto(t, from, to) /\ to \in IniPcs => ini' \in [Tx -> IniPcs]
  BY DEF Goto, IniTypeOK
<1>3. CASE Transport(t)
  <2>1. ini' \in [Tx -> IniPcs]
    BY <1>2, <1>3 DEF Transport, IniPcs
  <2>2. chnl' \in [Cmds -> Seq(Tx)] /\ idMtx' \in [Ids -> Seq(Tx)]
    <3>1. CASE /\ idMtx' = [idMtx EXCEPT ![Id[t]] = Append(@, t)]
               /\ UNCHANGED chnl
      BY <1>1, <3>1 DEF IniTypeOK
    <3>2. CASE /\ chnl' = [chnl EXCEPT ![Cmd[t]] = Append(@, t)]
               /\ UNCHANGED idMtx
      BY <1>1, <3>2 DEF IniTypeOK
    <3> QED
      BY <1>3, <3>1, <3>2 DEF Transport
  <2>3. sent' \in [Tx -> Nat] /\ waiting' \in [Cmds -> Int]
    BY <1>1, <1>3 DEF Transport, IniTypeOK
  <2>4. left' \in [Tx -> Int]
    BY <1>1, <1>3 DEF Transport, IniTypeOK
  <2> QED
    BY <1>3, <2>1, <2>2, <2>3, <2>4 DEF Transport, IniTypeOK, LinkTypeOK
<1>4. CASE GetId(t)
  <2>1. ini' \in [Tx -> IniPcs]
    BY <1>2, <1>4 DEF GetId, IniPcs
  <2>2. chnl' \in [Cmds -> Seq(Tx)]
    BY <1>1, <1>4 DEF GetId, IniTypeOK
  <2> QED
    BY <1>4, <2>1, <2>2 DEF GetId, IniTypeOK, LinkTypeOK
<1>5. CASE SendRequest(t)
  <2>1. ini' \in [Tx -> IniPcs]
    BY <1>2, <1>5 DEF SendRequest, IniPcs
  <2>2. fw' \in [Tx -> Seq(FwPhases)]
    BY <1>5, PutType DEF SendRequest, LinkTypeOK, FwPhases
  <2>3. waiting' \in [Cmds -> Int] /\ outstanding' \in [Cmds -> Int]
    <3>1. waiting \in [Cmds -> Int] /\ outstanding \in [Cmds -> Int]
      BY DEF IniTypeOK
    <3>2. \/ UNCHANGED <<waiting, outstanding>>
          \/ /\ waiting' = [waiting EXCEPT ![Cmd[t]] = @ - 1]
             /\ outstanding' = [outstanding EXCEPT ![Cmd[t]] = @ + 1]
      BY <1>5 DEF SendRequest
    <3> QED
      BY <3>1, <3>2
  <2>4. iniAlarm' \subseteq IniAlarms
    BY <1>5 DEF SendRequest, IniTypeOK, IniAlarms
  <2> QED
    BY <1>5, <2>1, <2>2, <2>3, <2>4 DEF SendRequest, IniTypeOK, LinkTypeOK
<1>6. CASE BeatAccepted(t)
  <2>1. ini' \in [Tx -> IniPcs]
    BY <1>2, <1>6 DEF BeatAccepted, IniPcs
  <2>2. bw' \in [Tx -> Seq(BwPhases)]
    BY <1>6, DropType DEF BeatAccepted, LinkTypeOK
  <2>3. sent' \in [Tx -> Nat]
    BY <1>6 DEF BeatAccepted, IniTypeOK
  <2>4. chnl' \in [Cmds -> Seq(Tx)]
    <3>1. Requeue(chnl["wr"], t) \in Seq(Tx)
      BY <1>1, ReleaseType DEF Requeue, IniTypeOK
    <3> QED
      BY <1>1, <1>6, <3>1 DEF BeatAccepted, IniTypeOK
  <2>5. iniAlarm' \subseteq IniAlarms
    BY <1>6 DEF BeatAccepted, IniTypeOK, IniAlarms
  <2> QED
    BY <1>6, <2>1, <2>2, <2>3, <2>4, <2>5
    DEF BeatAccepted, IniTypeOK, LinkTypeOK
<1>7. CASE RequestAccepted(t)
  <2>1. ini' \in [Tx -> IniPcs]
    BY <1>2, <1>7 DEF RequestAccepted, IniPcs
  <2>2. bw' \in [Tx -> Seq(BwPhases)]
    BY <1>7, DropType DEF RequestAccepted, LinkTypeOK
  <2>3. chnl' \in [Cmds -> Seq(Tx)]
    BY <1>1, <1>7, ReleaseType DEF RequestAccepted, IniTypeOK
  <2>4. iniAlarm' \subseteq IniAlarms
    BY <1>7 DEF RequestAccepted, IniTypeOK, IniAlarms
  <2> QED
    BY <1>7, <2>1, <2>2, <2>3, <2>4 DEF RequestAccepted, IniTypeOK, LinkTypeOK
<1>8. CASE ResponseBeat(t)
  <2>1. ini' \in [Tx -> IniPcs]
    BY <1>8 DEF ResponseBeat, IniTypeOK, IniPcs, AfterResponse
  <2>2. bw' \in [Tx -> Seq(BwPhases)]
    BY <1>8, DropType DEF ResponseBeat, LinkTypeOK
  <2>3. fw' \in [Tx -> Seq(FwPhases)]
    BY <1>8, PutType DEF ResponseBeat, LinkTypeOK, FwPhases
  <2>4. left' \in [Tx -> Int]
    BY <1>8 DEF ResponseBeat, IniTypeOK
  <2>5. iniAlarm' \subseteq IniAlarms
    BY <1>8 DEF ResponseBeat, IniTypeOK, IniAlarms
  <2> QED
    BY <1>8, <2>1, <2>2, <2>3, <2>4, <2>5
    DEF ResponseBeat, IniTypeOK, LinkTypeOK
<1>9. CASE SendAck(t)
  <2>1. ini' \in [Tx -> IniPcs]
    BY <1>2, <1>9 DEF SendAck, IniPcs
  <2>2. fw' \in [Tx -> Seq(FwPhases)]
    BY <1>9, PutType DEF SendAck, LinkTypeOK, FwPhases
  <2> QED
    BY <1>9, <2>1, <2>2 DEF SendAck, IniTypeOK, LinkTypeOK
<1>10. CASE Finish(t)
  <2>1. ini' \in [Tx -> IniPcs]
    BY <1>2, <1>10 DEF Finish, IniPcs
  <2>2. outstanding' \in [Cmds -> Int]
    BY <1>1, <1>10 DEF Finish, IniTypeOK
  <2>3. idMtx' \in [Ids -> Seq(Tx)]
    BY <1>1, <1>10, ReleaseType DEF Finish, IniTypeOK
  <2> QED
    BY <1>10, <2>1, <2>2, <2>3 DEF Finish, IniTypeOK, LinkTypeOK
<1> QED
  BY <1>3, <1>4, <1>5, <1>6, <1>7, <1>8, <1>9, <1>10

-----------------------------------------------------------------------------
(* The target.                                                             *)

LEMMA BeginRequestType ==
  ASSUME LinkTypeOK, TgtTypeOK, NEW t \in Tx,
         NEW tp \in {"BegPartReqE", "BegReqE"}, BeginRequest(t, tp)
  PROVE  TgtTypeOK' /\ UNCHANGED bw
<1> DEFINE event == EventOf(tp, Coherent, FALSE)
           beats == BeatsAtBegin(t)
           endTp == IF tp = "BegPartReqE" THEN "EndPartReqE" ELSE "EndReqE"
<1>1. /\ Cmd[t] \in Cmds /\ t # NoTx
      /\ beats \in Nat
      /\ endTp \in TimePoints /\ endTp # CB_CNT
  BY ChannelAssumption
  DEF ChannelAssumption, TgtTypeOK, BeatsAtBegin, TimePoints, CB_CNT
<1>2. CountRequest(t) \in 0..UMax
  BY <1>1, CountType DEF CountRequest, TgtTypeOK
<1>3. /\ active' \subseteq Tx
      /\ beat' \in [Tx -> Nat]
      /\ fsm' \in [Tx -> FsmStates]
  BY <1>1, AfterType DEF BeginRequest, TgtTypeOK
<1>4. UNCHANGED <<bw, req2resp, respondVars, rdResp, activeRdId, beatFifo,
                  respCh>>
  BY DEF BeginRequest
<1>5. CASE Accepts(fsm[t], event) /\ Park(t, endTp)
  <2>1. cnt' = [cnt EXCEPT ![Cmd[t]] = CountRequest(t)] /\ UNCHANGED tgtAlarm
    BY <1>5 DEF BeginRequest
  <2>2. cnt' \in [Cmds -> 0..UMax]
    BY <1>2, <2>1 DEF TgtTypeOK
  <2>3. /\ stalledTx' \in [Cmds -> Tx \union {NoTx}]
        /\ stalledTp' \in [Cmds -> TimePoints \union {CB_CNT}]
        /\ \A c \in Cmds :
             IF stalledTx'[c] = NoTx THEN stalledTp'[c] = CB_CNT
             ELSE /\ Cmd[stalledTx'[c]] = c
                  /\ stalledTp'[c] \in {"EndPartReqE", "EndReqE"}
    BY <1>1, <1>5 DEF Park, TgtTypeOK
  <2> QED
    BY <1>3, <1>4, <1>5, <2>1, <2>2, <2>3 DEF Park, TgtTypeOK, respondVars
<1>6. CASE Accepts(fsm[t], event) /\ Accept(t, endTp, beats)
  <2>1. cnt' = [cnt EXCEPT ![Cmd[t]] = CountRequest(t)] /\ UNCHANGED tgtAlarm
    BY <1>6 DEF BeginRequest
  <2>2. cnt' \in [Cmds -> 0..UMax]
    BY <1>2, <2>1 DEF TgtTypeOK
  <2>3. outst' \in [Cmds -> 0..UMax]
    BY <1>1, <1>6, CountType DEF Accept, TgtTypeOK
  <2>4. evq' \in Seq(Scheduled) /\ clkq' \in [Tx -> Seq(TimePoints)]
    BY <1>1, <1>6, ScheduleType DEF Accept, TgtTypeOK
  <2> QED
    BY <1>3, <1>4, <1>6, <2>1, <2>2, <2>3, <2>4
    DEF Accept, TgtTypeOK, respondVars
<1>7. CASE /\ tgtAlarm' = tgtAlarm \union {"Discarded"}
           /\ UNCHANGED <<admitVars, evq, clkq>>
  BY <1>3, <1>4, <1>7 DEF TgtTypeOK, TgtAlarms, admitVars, respondVars
<1> QED
  BY <1>5, <1>6, <1>7 DEF BeginRequest

LEMMA ReactType ==
  ASSUME LinkTypeOK, TgtTypeOK, NEW t \in Tx, NEW tp \in TimePoints,
         NEW q \in Seq(Scheduled), NEW k \in [Tx -> Seq(TimePoints)],
         React(t, tp, q, k)
  PROVE  bw' \in [Tx -> Seq(BwPhases)] /\ TgtTypeOK'
<1> USE DEF KeepQueues
<1> DEFINE event == EventOf(tp, Coherent, FALSE)
<1>1. Cmd[t] \in Cmds /\ BurstLen[t] \in Nat
  BY ChannelAssumption DEF ChannelAssumption
<1>2. fsm' \in [Tx -> FsmStates] /\ active' \subseteq Tx
  BY AfterType DEF React, TgtTypeOK
<1>3. UNCHANGED respondVars
  BY DEF React
<1>4. CASE Quiet(q, k) /\ tgtAlarm' \subseteq TgtAlarms
  BY <1>2, <1>3, <1>4
  DEF Quiet, LinkTypeOK, TgtTypeOK, admitVars, respondVars
<1>5. CASE EndPartReqCb(t, q, k)
  <2>1. bw' \in [Tx -> Seq(BwPhases)]
    BY <1>5, PutType DEF EndPartReqCb, LinkTypeOK, BwPhases
  <2>2. beat' \in [Tx -> Nat]
    BY <1>5 DEF EndPartReqCb, TgtTypeOK
  <2> QED
    BY <1>2, <1>3, <1>5, <2>1, <2>2
    DEF EndPartReqCb, TgtTypeOK, admitVars, respondVars
<1>6. CASE EndReqCb(t, q, k)
  <2>1. bw' \in [Tx -> Seq(BwPhases)]
    BY <1>6, PutType DEF EndReqCb, LinkTypeOK, BwPhases
  <2>2. req2resp' \in [Cmds -> Seq(Tx)]
    BY <1>1, <1>6 DEF EndReqCb, TgtTypeOK
  <2> QED
    BY <1>2, <1>3, <1>6, <2>1, <2>2
    DEF EndReqCb, TgtTypeOK, admitVars, respondVars
<1>7. CASE BegRespCb(t, tp, q, k)
  <2>1. [tp |-> tp, tx |-> t] \in Scheduled
    BY DEF Scheduled
  <2>2. beatFifo' \in [Cmds -> Seq(Scheduled)]
    BY <1>1, <1>7, <2>1 DEF BegRespCb, TgtTypeOK
  <2>3. tgtAlarm' \subseteq TgtAlarms
    BY <1>7 DEF BegRespCb, TgtTypeOK, TgtAlarms
  <2> QED
    BY <1>2, <1>3, <1>7, <2>2, <2>3
    DEF BegRespCb, LinkTypeOK, TgtTypeOK, admitVars, respondVars
<1>8. CASE EndPartRespCb(t, q, k)
  <2>1. respCh' \in [Cmds -> Nat]
    BY <1>1, <1>8 DEF EndPartRespCb, FreeChannel, TgtTypeOK
  <2>2. beat' \in [Tx -> Nat]
    BY <1>8 DEF EndPartRespCb, TgtTypeOK
  <2>3. NextRespBeat(t, beat[t] + 1) \in TimePoints
    BY DEF NextRespBeat, TimePoints
  <2>4. evq' \in Seq(Scheduled) /\ clkq' \in [Tx -> Seq(TimePoints)]
    BY <1>8, <2>3, ScheduleType DEF EndPartRespCb
  <2> QED
    BY <1>2, <1>3, <1>8, <2>1, <2>2, <2>4
    DEF EndPartRespCb, LinkTypeOK, TgtTypeOK, admitVars, respondVars
<1>9. CASE EndRespCb(t, q, k)
  <2>1. respCh' \in [Cmds -> Nat]
    <3>1. FreeChannel(Cmd[t])
      BY <1>9 DEF EndRespCb
    <3> QED
      BY <1>1, <3>1 DEF FreeChannel, TgtTypeOK
  <2>2. rdResp' \in Nat /\ activeRdId' \subseteq Ids
    BY <1>9 DEF EndRespCb, TgtTypeOK
  <2>3. cnt' \in [Cmds -> 0..UMax] /\ outst' \in [Cmds -> 0..UMax]
    BY <1>1, <1>9, CountType DEF EndRespCb, TgtTypeOK
  <2>4. /\ stalledTx' \in [Cmds -> Tx \union {NoTx}]
        /\ stalledTp' \in [Cmds -> TimePoints \union {CB_CNT}]
        /\ \A c \in Cmds :
             IF stalledTx'[c] = NoTx THEN stalledTp'[c] = CB_CNT
             ELSE /\ Cmd[stalledTx'[c]] = c
                  /\ stalledTp'[c] \in {"EndPartReqE", "EndReqE"}
    <3>1. CASE stalledTx[Cmd[t]] # NoTx
      <4>1. /\ stalledTx' = [stalledTx EXCEPT ![Cmd[t]] = NoTx]
            /\ stalledTp' = [stalledTp EXCEPT ![Cmd[t]] = CB_CNT]
        BY <1>9, <3>1 DEF EndRespCb, LetIn
      <4> QED
        BY <1>1, <4>1 DEF TgtTypeOK
    <3>2. CASE stalledTx[Cmd[t]] = NoTx
      <4>1. UNCHANGED <<stalledTx, stalledTp>>
        BY <1>9, <3>2 DEF EndRespCb
      <4> QED
        BY <4>1 DEF TgtTypeOK
    <3> QED
      BY <3>1, <3>2
  <2>5. evq' \in Seq(Scheduled) /\ clkq' \in [Tx -> Seq(TimePoints)]
    <3>1. CASE stalledTx[Cmd[t]] # NoTx
      <4>1. /\ stalledTx[Cmd[t]] \in Tx
            /\ stalledTp[Cmd[t]] \in TimePoints
        BY <1>1, <3>1 DEF TgtTypeOK, TimePoints
      <4> QED
        BY <1>9, <3>1, <4>1, ScheduleType DEF EndRespCb, LetIn
    <3> QED
      BY <1>9, <3>1 DEF EndRespCb
  <2> QED
    BY <1>2, <1>3, <1>9, <2>1, <2>2, <2>3, <2>4, <2>5
    DEF EndRespCb, LinkTypeOK, TgtTypeOK, respondVars
<1>10. tgtAlarm \subseteq TgtAlarms
  BY DEF TgtTypeOK
<1> QED
  BY <1>4, <1>5, <1>6, <1>7, <1>8, <1>9, <1>10 DEF React, TgtAlarms

LEMMA TgtStepType ==
  ASSUME LinkTypeOK, TgtTypeOK, TgtNext
  PROVE  LinkTypeOK' /\ TgtTypeOK'
<1>1. ASSUME NEW t \in Tx, NbFw(t)
      PROVE  LinkTypeOK' /\ TgtTypeOK'
  <2>1. fw' \in [Tx -> Seq(FwPhases)]
    BY <1>1, DropType DEF NbFw, LinkTypeOK
  <2>2. evq \in Seq(Scheduled) /\ clkq \in [Tx -> Seq(TimePoints)]
    BY DEF TgtTypeOK
  <2>3. {"BegPartReqE", "BegReqE", "EndPartRespE", "EndRespE", "Ack"}
          \subseteq TimePoints
    BY DEF TimePoints
  <2>4. ASSUME NEW tp \in {"BegPartReqE", "BegReqE"}, BeginRequest(t, tp)
        PROVE  bw' \in [Tx -> Seq(BwPhases)] /\ TgtTypeOK'
    BY <2>4, BeginRequestType DEF LinkTypeOK
  <2>5. ASSUME NEW tp \in {"EndPartRespE", "EndRespE", "Ack"},
               React(t, tp, evq, clkq)
        PROVE  bw' \in [Tx -> Seq(BwPhases)] /\ TgtTypeOK'
    BY <2>2, <2>3, <2>5, ReactType
  <2> QED
    BY <1>1, <2>1, <2>4, <2>5 DEF NbFw, LinkTypeOK
<1>2. ASSUME ProcessFsmEvent
      PROVE  LinkTypeOK' /\ TgtTypeOK'
  <2>1. /\ Head(evq) \in Scheduled /\ Tail(evq) \in Seq(Scheduled)
        /\ clkq \in [Tx -> Seq(TimePoints)]
    BY <1>2 DEF ProcessFsmEvent, TgtTypeOK
  <2>2. Head(evq).tx \in Tx /\ Head(evq).tp \in TimePoints
    BY <2>1 DEF Scheduled
  <2> QED
    BY <1>2, <2>1, <2>2, ReactType DEF ProcessFsmEvent, LinkTypeOK
<1>3. ASSUME NEW t \in Tx, ProcessFsmClkQueue(t)
      PROVE  LinkTypeOK' /\ TgtTypeOK'
  <2>1. /\ Head(clkq[t]) \in TimePoints /\ evq \in Seq(Scheduled)
        /\ [clkq EXCEPT ![t] = Tail(@)] \in [Tx -> Seq(TimePoints)]
    BY <1>3 DEF ProcessFsmClkQueue, TgtTypeOK
  <2> QED
    BY <1>3, <2>1, ReactType DEF ProcessFsmClkQueue, LinkTypeOK
<1>4. ASSUME NEW t \in Tx, ProcessReq2Resp(t)
      PROVE  LinkTypeOK' /\ TgtTypeOK'
  <2>1. Cmd[t] \in Cmds
    BY ChannelAssumption DEF ChannelAssumption
  <2>2. PICK i \in Done(Cmd[t]) :
          /\ req2resp[Cmd[t]][i] = t
          /\ req2resp' = [req2resp EXCEPT ![Cmd[t]] = RemoveAt(@, i)]
          /\ overdue' = IF Cmd[t] = "rd" /\ i <= overdue THEN overdue - 1
                        ELSE overdue
    BY <1>4 DEF ProcessReq2Resp
  <2>3. req2resp[Cmd[t]] \in Seq(Tx) /\ i \in 1..Len(req2resp[Cmd[t]])
    BY <2>1, <2>2 DEF Done, TgtTypeOK
  <2>4. RemoveAt(req2resp[Cmd[t]], i) \in Seq(Tx)
    BY <2>3 DEF RemoveAt
  <2>5. req2resp' \in [Cmds -> Seq(Tx)]
    BY <2>1, <2>2, <2>4 DEF TgtTypeOK
  <2>6. overdue' \in Nat
    <3>1. overdue \in Nat /\ i \in Nat /\ i >= 1
      BY <2>3 DEF TgtTypeOK
    <3> QED
      BY <2>2, <3>1
  <2>7. respFifo' \in [Cmds -> Seq(Tx)]
    <3>1. << t >> \in Seq(Tx)
      OBVIOUS
    <3> QED
      BY <1>4, <2>1, <3>1 DEF ProcessReq2Resp, TgtTypeOK
  <2> QED
    BY <1>4, <2>5, <2>6, <2>7
    DEF ProcessReq2Resp, LinkTypeOK, TgtTypeOK, linkVars, fsmVars, admitVars
<1>5. ASSUME NEW c \in Cmds, SendRespBeat(c)
      PROVE  LinkTypeOK' /\ TgtTypeOK'
  <2>1. /\ Head(beatFifo[c]) \in Scheduled
        /\ Tail(beatFifo[c]) \in Seq(Scheduled)
    BY <1>5 DEF SendRespBeat, TgtTypeOK
  <2>2. Head(beatFifo[c]).tx \in Tx
    BY <2>1 DEF Scheduled
  <2>3. bw' \in [Tx -> Seq(BwPhases)]
    BY <1>5, <2>2, PutType DEF SendRespBeat, LinkTypeOK, BwPhases
  <2>4. beatFifo' \in [Cmds -> Seq(Scheduled)]
    BY <1>5, <2>1 DEF SendRespBeat, TgtTypeOK
  <2>5. respCh' \in [Cmds -> Nat]
    BY <1>5 DEF SendRespBeat, TgtTypeOK
  <2> QED
    BY <1>5, <2>3, <2>4, <2>5
    DEF SendRespBeat, LinkTypeOK, TgtTypeOK, fsmVars, admitVars, respondVars
<1> USE DEF startRdRest, linkVars, fsmVars, admitVars, Cmds
<1>6. ASSUME StartRdRead
      PROVE  LinkTypeOK' /\ TgtTypeOK'
  <2>1. Head(respFifo["rd"]) \in Tx /\ Tail(respFifo["rd"]) \in Seq(Tx)
    BY <1>6 DEF StartRdRead, TgtTypeOK
  <2>2. respFifo' \in [Cmds -> Seq(Tx)]
    BY <1>6, <2>1 DEF StartRdRead, TgtTypeOK
  <2>3. rdStart' \in [pc : {"sem", "id"}, tx : Tx]
    BY <1>6, <2>1 DEF StartRdRead
  <2> QED
    BY <1>6, <2>2, <2>3 DEF StartRdRead, LinkTypeOK, TgtTypeOK
<1>7. ASSUME StartRdSem
      PROVE  LinkTypeOK' /\ TgtTypeOK'
  <2>1. rdStart' \in [pc : {"sem", "id"}, tx : Tx]
    <3>1. rdStart.tx \in Tx
      BY <1>7 DEF StartRdSem, TgtTypeOK
    <3> QED
      BY <1>7, <3>1 DEF StartRdSem
  <2>2. rdResp' \in Nat
    BY <1>7 DEF StartRdSem, TgtTypeOK
  <2> QED
    BY <1>7, <2>1, <2>2 DEF StartRdSem, LinkTypeOK, TgtTypeOK
<1>8. ASSUME StartRdBegin
      PROVE  LinkTypeOK' /\ TgtTypeOK'
  <2>1. rdStart.tx \in Tx
    BY <1>8 DEF StartRdBegin, TgtTypeOK
  <2>2. activeRdId' \subseteq Ids
    BY <1>8, <2>1, ChannelAssumption
    DEF StartRdBegin, TgtTypeOK, ChannelAssumption
  <2>3. "BegRespE" \in TimePoints /\ "BegPartRespE" \in TimePoints
    BY DEF TimePoints
  <2>4. evq' \in Seq(Scheduled) /\ clkq' \in [Tx -> Seq(TimePoints)]
    BY <1>8, <2>1, <2>3, ScheduleType DEF StartRdBegin, TgtTypeOK
  <2>5. rdStart' \in [pc : {"read"}, tx : {NoTx}]
    BY <1>8 DEF StartRdBegin
  <2> QED
    BY <1>8, <2>2, <2>4, <2>5 DEF StartRdBegin, LinkTypeOK, TgtTypeOK
<1>9. ASSUME StartWr
      PROVE  LinkTypeOK' /\ TgtTypeOK'
  <2>1. Head(respFifo["wr"]) \in Tx /\ Tail(respFifo["wr"]) \in Seq(Tx)
    BY <1>9 DEF StartWr, TgtTypeOK
  <2>2. respFifo' \in [Cmds -> Seq(Tx)]
    BY <1>9, <2>1 DEF StartWr, TgtTypeOK
  <2>3. evq' \in Seq(Scheduled) /\ clkq' \in [Tx -> Seq(TimePoints)]
    BY <1>9, <2>1, ScheduleType DEF StartWr, TgtTypeOK, TimePoints
  <2> QED
    BY <1>9, <2>2, <2>3 DEF StartWr, LinkTypeOK, TgtTypeOK
<1>10. ASSUME PushBackOverdue
       PROVE  LinkTypeOK' /\ TgtTypeOK'
  <2>1. overdue' \in Nat
    BY <1>10 DEF PushBackOverdue, TgtTypeOK
  <2> QED
    BY <1>10, <2>1 DEF PushBackOverdue, LinkTypeOK, TgtTypeOK
<1> QED
  BY <1>1, <1>2, <1>3, <1>4, <1>5, <1>6, <1>7, <1>8, <1>9, <1>10 DEF TgtNext

-----------------------------------------------------------------------------
(* Theorems.                                                               *)

\* Every reachable state of the link is well typed: no queue of the engines
\* holds a null payload or an invalid time point, and a stall slot is empty or
\* has a request of its command with the handshake it holds back.
THEOREM TypeCorrect == Spec => []TypeOK
<1>1. Init => TypeOK
  <2> SUFFICES ASSUME Init PROVE TypeOK
    OBVIOUS
  <2>1. LinkTypeOK
    BY DEF Init, LinkInit, LinkTypeOK
  <2>2. IniTypeOK
    BY DEF Init, IniInit, IniTypeOK, IniPcs
  <2>3. TgtTypeOK
    BY TargetAssumption
    DEF Init, TgtInit, TgtTypeOK, TargetAssumption, FsmStates, CB_CNT
  <2>4. CheckerTypeOK
    BY DEF Init, CheckerInit, CheckerTypeOK
  <2> QED
    BY <2>1, <2>2, <2>3, <2>4 DEF TypeOK
<1>2. TypeOK /\ [Next]_vars => TypeOK'
  <2> SUFFICES ASSUME TypeOK, [Next]_vars PROVE TypeOK'
    OBVIOUS
  <2>1. CASE IniNext /\ UNCHANGED tgtVars /\ Watch
    <3>1. LinkTypeOK' /\ IniTypeOK'
      BY <2>1, IniStepType DEF TypeOK
    <3>2. TgtTypeOK'
      BY <2>1 DEF TypeOK, TgtTypeOK, tgtVars
    <3>3. CheckerTypeOK'
      BY <2>1, WatchType DEF TypeOK
    <3> QED
      BY <3>1, <3>2, <3>3 DEF TypeOK
  <2>2. CASE TgtNext /\ UNCHANGED iniVars /\ Watch
    <3>1. LinkTypeOK' /\ TgtTypeOK'
      BY <2>2, TgtStepType DEF TypeOK
    <3>2. IniTypeOK'
      BY <2>2 DEF TypeOK, IniTypeOK, iniVars
    <3>3. CheckerTypeOK'
      BY <2>2, WatchType DEF TypeOK
    <3> QED
      BY <3>1, <3>2, <3>3 DEF TypeOK
  <2>3. CASE UNCHANGED vars
    BY <2>3 DEF TypeOK, LinkTypeOK, IniTypeOK, TgtTypeOK, CheckerTypeOK,
                vars, linkVars, iniVars, tgtVars, checkerVars
  <2> QED
    BY <2>1, <2>2, <2>3 DEF Next
<1> QED
  BY <1>1, <1>2, PTL DEF Spec
=============================================================================
