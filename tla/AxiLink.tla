------------------------------- MODULE AxiLink -------------------------------
(***************************************************************************)
(* An axi_initiator connected to an axi_target_pe, with the protocol       *)
(* checker in the link.                                                    *)
(***************************************************************************)
EXTENDS AxiInitiator, AxiTargetPe, AxiProtocolChecker, FiniteSets

vars == <<linkVars, iniVars, tgtVars, checkerVars>>

Init == LinkInit /\ IniInit /\ TgtInit /\ CheckerInit

\* The checker sees the phase this step announces, if it announces one.
Watch ==
  LET calls(q, r) == {t \in Tx : Len(r[t]) > Len(q[t])} IN
  IF calls(fw, fw') # {}
    THEN LET t == CHOOSE u \in calls(fw, fw') : TRUE IN Observe(t, Last(fw'[t]))
  ELSE IF calls(bw, bw') # {}
    THEN LET t == CHOOSE u \in calls(bw, bw') : TRUE IN Observe(t, Last(bw'[t]))
  ELSE UNCHANGED checkerVars

\* Every transport call has returned and the target has nothing left to do.
Quiescent ==
  /\ \A t \in Tx : ini[t] = "idle" /\ fw[t] = << >> /\ bw[t] = << >>
                   /\ clkq[t] = << >>
  /\ evq = << >>
  /\ \A c \in Cmds : /\ req2resp[c] = << >> /\ respFifo[c] = << >>
                     /\ beatFifo[c] = << >>
  /\ rdStart.pc = "read"

Next ==
  \/ IniNext /\ UNCHANGED tgtVars /\ Watch
  \/ TgtNext /\ UNCHANGED iniVars /\ Watch

Fairness == IniFairness /\ TgtFairness

Spec == Init /\ [][Next]_vars
FairSpec == Spec /\ Fairness
-----------------------------------------------------------------------------
(* Properties.                                                             *)

\* Every variable stays in its type: the queues hold payloads and valid time
\* points only, and a stall slot is empty or has a request of its command with
\* the handshake that answers it, both of which EndRespCb reads and resets.  The
\* ranges of the wrapping counters say nothing; CountersExact is about them.
TypeOK == LinkTypeOK /\ IniTypeOK /\ TgtTypeOK /\ CheckerTypeOK

OfCmd(c) == {t \in Tx : Cmd[t] = c}

\* The places of t in a queue of scheduled time points.
PlacesOf(t, q) == {i \in DOMAIN q : q[i].tx = t}

\* The target has accepted the (first beat of the) request and not yet seen the
\* end of the response.
Accepted(t) ==
  \/ fsm[t] \in {"WriteIdle", "WaitForResponse", "PartialResponse", "ReadIdle",
                 "Response"}
  \/ fsm[t] \in {"PartialRequest", "Request"} /\ Cmd[t] = "wr" /\ beat[t] > 0

\* The response has begun (its first beat is queued for the channel).
Responding(t) == fsm[t] \in {"PartialResponse", "ReadIdle", "Response"}

\* The target engine keeps the contract of an AXI target under back-pressure,
\* random latencies and interleaved read responses.
Contract == INSTANCE AxiTargetContract WITH
  Limit <- MaxOutstanding,
  stage <- [t \in Tx |-> IF Responding(t) THEN "responding"
                         ELSE IF Accepted(t) THEN "accepted" ELSE "none"]

\* Seen from outside, the engine takes, answers and ends its transactions as the
\* contract says, and with constant latencies and few enough reads (README) it
\* leaves none of them unanswered.
ServesContract == Contract!Spec

\* Requests beyond max_outstanding_tx are held back: the accepted and
\* unfinished transactions of a command never exceed the limit.
AcceptedWithinLimit ==
  MaxOutstanding > 0 =>
    \A c \in Cmds : Cardinality({t \in OfCmd(c) : Accepted(t)}) <= MaxOutstanding

\* A request the target has not answered yet is never forgotten: either its
\* answer is scheduled, or it is parked in the stall slot of its command and a
\* running transaction of that command will let it in.
NoLostRequest ==
  \A t \in Tx : fsm[t] \in {"PartialRequest", "Request"} =>
    LET end == IF fsm[t] = "Request" THEN "EndReqE" ELSE "EndPartReqE"
        scheduled == clkq[t] = << end >> \/ \E i \in PlacesOf(t, evq) : evq[i].tp = end
        parked == stalledTx[Cmd[t]] = t /\ stalledTp[Cmd[t]] = end
    IN  \/ scheduled /\ ~parked
        \/ ~scheduled /\ parked /\ \E u \in OfCmd(Cmd[t]) : Accepted(u)

\* Back-pressure keeps the limit and forgets nobody.
BackPressureKept == AcceptedWithinLimit /\ NoLostRequest

\* The single stall slot of a command is never overwritten while it is in use.
StallSlotKept ==
  [][\A c \in Cmds : stalledTx[c] # NoTx => stalledTx'[c] \in {stalledTx[c], NoTx}]_vars

\* A transaction is never scheduled twice: at most one time point of it is in
\* the two queues together, so no two handshakes of it can race.
ScheduledOnce ==
  \A t \in Tx :
    LET due == {<<"clk", i>> : i \in DOMAIN clkq[t]}
               \union {<<"ev", i>> : i \in PlacesOf(t, evq)}
    IN  \A d, e \in due : d = e

\* A response channel is free, or exactly one beat is on it (sent and not yet
\* acknowledged to the target).
ChannelOwned ==
  \A c \in Cmds :
    respCh[c] + Cardinality({t \in OfCmd(c) :
        /\ fsm[t] \in {"PartialResponse", "Response"}
        /\ PlacesOf(t, beatFifo[c]) = {}}) = 1

\* The responses to two reads with the same id never overlap.
SameIdReadsSerial ==
  \A t, u \in OfCmd("rd") :
    t # u /\ Id[t] = Id[u] => ~(Responding(t) /\ Responding(u))

\* Without rd_data_interleaving (or without a beat delay) the beats of two read
\* responses do not mix.
ReadBurstsNotInterleaved ==
  ~RdInterleaving \/ BeatDelays = {"zero"} =>
    Cardinality({t \in OfCmd("rd") : Responding(t)}) <= 1

\* outstanding_cnt, the counter that limits, counts the transactions between
\* the begin of the request and the end of the response.
OutstandingCntExact ==
  \A c \in Cmds :
    cnt[c] = Cardinality({t \in OfCmd(c) : fsm[t] \notin {"Idle", "WaitAck"}})

\* A handle returns to the pool only when its state machine is idle again and
\* nothing in the engine refers to the payload any more; a handle in use is
\* never idle.
FreedIsClean ==
  \A t \in Tx :
    IF t \in active THEN fsm[t] # "Idle"
    ELSE /\ fsm[t] = "Idle" /\ clkq[t] = << >> /\ PlacesOf(t, evq) = {}
         /\ \A c \in Cmds :
              /\ stalledTx[c] # t
              /\ PlacesOf(t, beatFifo[c]) = {}
              /\ t \notin Range(req2resp[c]) \union Range(respFifo[c])
         /\ rdStart.tx # t

\* No assertion, error message or exception of the two engines is reached and
\* no event falls on a state machine that does not expect it.
NoAlarm == iniAlarm = {} /\ tgtAlarm = {}

\* The protocol checker in the link has nothing to complain about.
NoComplaint == complaints = {}

\* The responses with one id come in the order of their requests.  The checker
\* keeps the order for ACE too, where its other complaints mean nothing: it does
\* not know the phase ACK.
ResponsesInOrder == "response" \notin complaints

\* When all transport calls have returned and all queues are empty the target
\* is inactive (axi_target_pe::is_active).
InactiveWhenQuiescent == Quiescent => active = {}

\* The counters of both engines agree with what is on its way: outstanding_cnt
\* of the target, rd/wr_waiting and rd/wr_outstanding of the initiator, which
\* many threads and callbacks change.
CountersExact ==
  OutstandingCntExact /\ \A c \in Cmds :
    /\ waiting[c] = Cardinality({t \in OfCmd(c) :
         ini[t] \in {"id", "chnl"} /\ (sent[t] = 0)})
    /\ outstanding[c] = Cardinality({t \in OfCmd(c) :
         \/ ini[t] \in {"send", "resp", "ack", "fin"}
         \/ ini[t] = "chnl" /\ sent[t] > 0})

\* Every transport call returns.
Completes == \A t \in Tx : ini[t] # "idle" ~> ini[t] = "idle"
=============================================================================
