----------------------------- MODULE SimpleLink -----------------------------
(***************************************************************************)
(* A simple_initiator connected to an axi_target_pe, directly or through   *)
(* an ace_target_pe, with the protocol checker in front of the target.     *)
(***************************************************************************)
EXTENDS SimpleInitiator, AxiTargetPe, AxiProtocolChecker, FiniteSets

vars == <<linkVars, ownVars, tgtVars, checkerVars>>

Init == LinkInit /\ OwnInit /\ TgtInit /\ CheckerInit

\* The payloads that a step announces a phase of in channel q.
Calls(q, r) == {t \in Tx : Len(r[t]) > Len(q[t])}

\* The checker sees the phase this step announces, if it announces one.
Observes ==
  IF Calls(fw, fw') \union Calls(bw, bw') = {} THEN UNCHANGED checkerVars
  ELSE \/ \E t \in Calls(fw, fw') : Observe(t, Last(fw'[t]))
       \/ \E t \in Calls(bw, bw') : Observe(t, Last(bw'[t]))

Next ==
  \/ OwnNext /\ UNCHANGED tgtVars /\ Observes
  \/ TgtNext /\ UNCHANGED ownVars /\ Observes

Spec == Init /\ [][Next]_vars
FairSpec == Spec /\ OwnFairness /\ TgtFairness
-----------------------------------------------------------------------------
(* Properties.                                                             *)

TypeOK == LinkTypeOK /\ OwnTypeOK /\ TgtTypeOK /\ CheckerTypeOK

\* No event of either engine lacks a handle, falls on a state machine that does
\* not expect it, or comes before the request was acknowledged.
NoAlarm == oAlarm = {} /\ tgtAlarm = {}

\* The beats of one request are not mixed with those of another of the same
\* command: one transaction at most is between its first beat and END_REQ.
OneRequestPerPort ==
  \A c \in Cmds :
    Cardinality({t \in Tx : /\ Cmd[t] = c
                            /\ oFsm[t] \in {"PartialRequest", "WriteIdle",
                                            "Request"}}) <= 1

\* Whatever the latencies, the initiator keeps to the protocol: the checker has
\* nothing to complain about (the payloads have different ids).
NoComplaint == complaints = {}

\* The link keeps to the protocol in whatever order requests and responses
\* meet.
ProtocolKept == TypeOK /\ NoAlarm /\ OneRequestPerPort /\ NoComplaint

\* A payload whose transport call has returned has no handle, no scheduled time
\* point and no phase on its way to the initiator: it may be used again.
ReturnedIsClean ==
  \A t \in Tx : call[t] = "idle" =>
    /\ t \notin oActive /\ oFsm[t] = "Idle" /\ oDue[t] = << >>
    /\ bw[t] = << >>
    /\ \A c \in Cmds : \A i \in 1 .. Len(port[c]) : port[c][i] # t

\* Every call of transport returns.
Completes == \A t \in Tx : call[t] # "idle" ~> call[t] = "idle"
=============================================================================
