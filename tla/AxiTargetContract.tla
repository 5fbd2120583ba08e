------------------------- MODULE AxiTargetContract -------------------------
(***************************************************************************)
(* What the users of an AXI target rely on, without the engine: a          *)
(* transaction is accepted, responded to and finished, in this order and   *)
(* once per request; at most Limit transactions of a command are accepted  *)
(* at a time (back-pressure); and the responses to reads with one id come  *)
(* one after the other.                                                    *)
(***************************************************************************)
EXTENDS Naturals, FiniteSets

CONSTANTS
  Tx,       (* The transactions.                                           *)
  Cmd,      (* Cmd[t] is "rd" or "wr".                                     *)
  Id,       (* Id[t]: the AXI id.                                          *)
  Limit     (* Supported outstanding transactions per command, 0: any.     *)

VARIABLE stage  (* stage[t]: how far the transaction is.                   *)

Stages == {"none", "accepted", "responding"}

Init == stage = [t \in Tx |-> "none"]

\* The transactions with the command of t that the target has taken.
Outstanding(t) == {u \in Tx : Cmd[u] = Cmd[t] /\ stage[u] # "none"}

Accept(t) ==
  /\ stage[t] = "none"
  /\ Limit > 0 => Cardinality(Outstanding(t)) < Limit
  /\ stage' = [stage EXCEPT ![t] = "accepted"]

Respond(t) ==
  /\ stage[t] = "accepted"
  /\ Cmd[t] = "rd" =>
       \A u \in Tx : Cmd[u] = "rd" /\ Id[u] = Id[t] => stage[u] # "responding"
  /\ stage' = [stage EXCEPT ![t] = "responding"]

Finish(t) ==
  /\ stage[t] = "responding"
  /\ stage' = [stage EXCEPT ![t] = "none"]

Next == \E t \in Tx : Accept(t) \/ Respond(t) \/ Finish(t)

\* Whatever is accepted is responded to, and finished.
Fairness == \A t \in Tx : SF_stage(Respond(t)) /\ WF_stage(Finish(t))

SafeSpec == Init /\ [][Next]_stage
Spec == SafeSpec /\ Fairness
=============================================================================
