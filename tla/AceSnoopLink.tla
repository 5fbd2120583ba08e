---------------------------- MODULE AceSnoopLink ----------------------------
(***************************************************************************)
(* An ace_target_pe that snoops an initiator, which is a simple_initiator  *)
(* or an axi_initiator.  Calls of nb_transport_fw and nb_transport_bw are  *)
(* steps of both sides.                                                    *)
(***************************************************************************)
EXTENDS SimpleSnoops, AxiSnoopThreads, FiniteSets

VARIABLES
  initiator,  (* Which initiator is snooped: "simple" or "axi".            *)
  partial     (* History: partial beats the response of s announced.       *)

vars == <<slot, aceVars, client, simpleVars, threadVars, initiator, partial>>

Init ==
  /\ AceInit /\ SimpleInit /\ ThreadInit
  /\ initiator \in {"simple", "axi"}
  /\ initiator = "axi" => client = "thread"
  /\ partial = [s \in Snp |-> 0]

\* nb_transport_bw of the initiator, and no call.
Bw(s, phase, n) ==
  IF initiator = "simple" THEN SimpleBw(s, phase, n) /\ UNCHANGED threadVars
  ELSE AxiBw(s, phase, n) /\ UNCHANGED simpleVars

Quiet == UNCHANGED <<simpleVars, threadVars>>

\* The target.
CallSnoop(s) == /\ Snoop(s) /\ Bw(s, "BEGIN_REQ", 0)
                /\ partial' = [partial EXCEPT ![s] = 0]

TgtStep(s) ==
  \/ TgtEndReq(s) /\ Quiet /\ UNCHANGED partial
  \/ /\ TgtBegPartResp(s) /\ Quiet
     /\ partial' = [partial EXCEPT ![s] = @ + 1]
  \/ TgtEndPartResp(s) /\ Bw(s, "END_PARTIAL_RESP", 0) /\ UNCHANGED partial
  \/ TgtBegResp(s) /\ Bw(s, "END_RESP", BeforeEdge) /\ UNCHANGED partial
  \/ TgtEndResp(s) /\ Quiet /\ UNCHANGED partial
  \/ /\ \E tp \in TimePoints : TgtDiscards(s, tp)
     /\ Quiet /\ UNCHANGED partial

\* The simple initiator: what time waits for, and what it does not.
SimpleStep(s) ==
  \/ /\ \/ IniBegReq(s) \/ IniEndPartResp(s) \/ IniEndResp(s)
        \/ \E tp \in TimePoints : IniDiscards(s, tp)
     /\ UNCHANGED aceVars
  \/ IniEndReq(s)
  \/ \E tp \in {"BegPartRespE", "BegRespE"} : IniBegResp(s, tp)

HandlerStep == (ThreadStarts \/ ThreadReads) /\ UNCHANGED aceVars

ClientStep(s) ==
  \/ ThreadReturns(s) /\ UNCHANGED aceVars
  \/ \E transfer, sync \in BOOLEAN : SnoopResp(s, transfer, sync)

\* The axi initiator.
ThreadStep(s) == TakeSnoop(s) \/ SendBeat(s) \/ BeatAnswered(s) \/ LeaveResp(s)
                 \/ (resp[s] = "wait" /\ EnterResp(s))

UserStep(s) == Asked(s) \/ (resp[s] = "later" /\ EnterResp(s))

Simple(step) == step /\ initiator = "simple"
                /\ UNCHANGED <<slot, client, threadVars, initiator, partial>>
Axi(step) == step /\ initiator = "axi"
             /\ UNCHANGED <<slot, client, simpleVars, initiator, partial>>
Target(step) == step /\ UNCHANGED <<slot, client, initiator>>

\* What happens in this slot, and must have happened before time goes on.
Urgent ==
  \/ \E s \in Snp : Target(TgtStep(s)) \/ Simple(SimpleStep(s))
                    \/ Axi(ThreadStep(s))
  \/ Simple(HandlerStep) \/ Simple(PollResponses)

\* Nothing is due in this slot.
SlotDone ==
  /\ \A s \in Snp :
       /\ \A e \in tDue[s] \union iDue[s] \union peq[s] : e.in > 0
       /\ resp[s] \in Sleeping => sleep[s] > 0
       /\ ~(resp[s] = "chnl" /\ HoldsSresp(s))
  /\ FreeThread => \A e \in snpPeq : e.in > 0
  /\ thr.spawned = 0 /\ (thr.avail = 0 \/ dispq = << >>)
  /\ slot = 0 => polled

Down(n) == IF n = 0 THEN 0 ELSE n - 1

\* Time goes on to the next slot.
Clock ==
  /\ SlotDone
  /\ slot' = (slot + 1) % 3
  /\ tDue' = [s \in Snp |-> Later(tDue[s])]
  /\ iDue' = [s \in Snp |-> Later(iDue[s])]
  /\ peq' = [s \in Snp |-> Later(peq[s])]
  /\ snpPeq' = {[e EXCEPT !.in = Down(@)] : e \in snpPeq}
  /\ sleep' = [s \in Snp |-> Down(sleep[s])]
  /\ polled' = (initiator = "axi" \/ slot # 2)
  /\ UNCHANGED <<caller, tFsm, tBeat, client, iActive, iFsm, iBeat, data, snp,
                 respq, handlerVars, later, iAlarm, inFlight, known, resp,
                 mine, sentBeats, sresp, aAlarm, initiator, partial>>

Next ==
  \/ \E s \in Snp : Target(CallSnoop(s)) \/ Simple(ClientStep(s))
                    \/ Axi(UserStep(s))
  \/ Urgent
  \/ Clock

Spec == Init /\ [][Next]_vars

\* What is due happens, time goes on, and the client answers each snoop it has
\* been asked about.  Nobody need call snoop().
Fairness ==
  /\ WF_vars(Urgent) /\ WF_vars(Clock)
  /\ \A s \in Snp : SF_vars(Simple(ClientStep(s))) /\ SF_vars(Axi(UserStep(s)))

FairSpec == Spec /\ Fairness
-----------------------------------------------------------------------------
(* Properties.                                                             *)

TypeOK ==
  /\ AceTypeOK /\ SimpleTypeOK /\ ThreadTypeOK
  /\ \A s \in Snp : partial[s] \in 0 .. Beats[s]

\* No assertion and no error is reached in either initiator, and no event finds
\* a state machine that does not expect it.
NoAlarm == iAlarm = {} /\ aAlarm = {}

\* A response is whole: when the target ends it, every beat the client has
\* announced was taken and acknowledged.  (An axi_initiator sends all beats of
\* the burst, whether there are data or not.)
WholeResponse ==
  \A s \in Snp : tFsm[s] = "Response" =>
    LET all == IF initiator = "axi" \/ data[s] THEN Beats[s] - 1 ELSE 0
    IN  tBeat[s] = all /\ partial[s] = all

\* A handler thread is free or busy with a snoop, and no snoop waits for one
\* while all of them are busy unless a new thread is on its way or they were
\* free when it came.
HandlersCounted ==
  /\ thr.avail + Cardinality(busy) = thr.active
  /\ dispq # << >> => thr.avail + thr.spawned + Cardinality(busy) > 0

\* Engine, initiators and handler threads agree about each snoop.
SnoopsConsistent == TypeOK /\ NoAlarm /\ WholeResponse /\ HandlersCounted

\* When snoop() has returned, nothing on the link refers to the payload any
\* more, so it may be used again.
ReuseIsClean ==
  \A s \in Snp : caller[s] = "idle" =>
    /\ tFsm[s] = "Idle" /\ tDue[s] = {}
    /\ s \notin iActive /\ iFsm[s] = "Idle" /\ iDue[s] = {}
    /\ \A i \in 1 .. Len(respq) : respq[i].tx # s
    /\ s \notin busy \union later
    /\ \A i \in 1 .. Len(dispq) : dispq[i] # s
    /\ resp[s] = "none" /\ peq[s] = {} /\ \A e \in snpPeq : e.tx # s
    /\ \A i \in 1 .. Len(sresp) : sresp[i] # s

\* The response of s is on the link: its first phase was announced and the end
\* has not reached the initiator.
OnLink(s) ==
  \/ tFsm[s] \in {"PartialResponse", "ReadIdle"}
  \/ \E e \in tDue[s] : e.tp \in {"BegPartRespE", "BegRespE"}
  \/ \E e \in iDue[s] : e.tp \in {"EndPartRespE", "EndRespE"}
  \/ peq[s] # {}

\* Every call of snoop() returns.
SnoopsReturn == \A s \in Snp : caller[s] = "wait" ~> caller[s] = "idle"

\* Seen from outside, a snooped initiator is a target with one id: it takes
\* snoops, responds to one at a time and finishes each of them; and each call
\* of snoop() returns.
Service == INSTANCE AxiTargetContract WITH
  Tx <- Snp, Cmd <- [s \in Snp |-> "rd"], Id <- [s \in Snp |-> 0], Limit <- 0,
  stage <- [s \in Snp |-> IF OnLink(s) THEN "responding"
                          ELSE IF caller[s] = "wait" /\ tFsm[s] # "Response"
                            THEN "accepted" ELSE "none"]
ServesSnoops == Service!Spec /\ SnoopsReturn
=============================================================================
