---------------------------- MODULE AceTargetPe ----------------------------
(***************************************************************************)
(* ace_target_pe, the snooping side of an ACE link: snoop() blocks its     *)
(* caller until the initiator has answered.  What the engine does on the   *)
(* request channels is to hand every call on to an axi_target_pe.          *)
(*                                                                         *)
(* Unlike the request side the snoop side depends on how long things take, *)
(* so time is modelled: a clock cycle has three slots, in which everything *)
(* that is due happens in any order before time goes on.                   *)
(*                                                                         *)
(*   0  the clock edge, in which the clocked processes run                 *)
(*   1  later, at the same time or any time before                         *)
(*   2  the last picosecond before the next edge                           *)
(***************************************************************************)
EXTENDS Integers, Sequences, AxiFsm

CONSTANTS
  Snp,          (* The snoops (payload objects).                           *)
  Beats,        (* Beats[s]: axi::get_burst_length.                        *)
  FinishCycles  (* How many clock edges "3 * t" can take, see AfterThree.  *)

ASSUME SnoopAssumption ==
  /\ Beats \in [Snp -> Nat \ {0}]
  /\ FinishCycles \subseteq Nat

VARIABLES
  slot,    (* The slot of the clock cycle.                                 *)
  caller,  (* caller[s]: is a call of snoop(s) waiting for its answer.     *)
  tFsm,    (* tFsm[s]: the state of the snoop's state machine.             *)
  tBeat,   (* fsm_handle::beat_count.                                      *)
  tDue     (* tDue[s]: the scheduled time points and when they are due.    *)

aceVars == <<caller, tFsm, tBeat, tDue>>

Pending == [tp : TimePoints, in : Nat]

AceTypeOK ==
  /\ slot \in 0 .. 2
  /\ caller \in [Snp -> {"idle", "wait"}]
  /\ tFsm \in [Snp -> FsmStates]
  /\ \A s \in Snp : tBeat[s] \in 0 .. Beats[s] /\ tDue[s] \subseteq Pending

AceInit ==
  /\ slot = 1
  /\ caller = [s \in Snp |-> "idle"]
  /\ tFsm = [s \in Snp |-> "Idle"]
  /\ tBeat = [s \in Snp |-> 0]
  /\ tDue = [s \in Snp |-> {}]

-----------------------------------------------------------------------------
(* Delays, in slots from now.                                              *)

\* No delay: in this slot, but after the processes that run at the edge.
Soon == IF slot = 0 THEN 1 ELSE 0

\* scc::time_to_next_posedge(clk_if) - 1_ps.
BeforeEdge == 2 - slot

\* The n-th clock edge from now.
Edge(n) == 3 * n - slot

\* Mutant: the handle is freed with END_RESP.
AfterThreeMutant == {BeforeEdge}

\* Three times the time to the next edge: three cycles after an edge, less
\* when the response begins in the middle of a cycle.
AfterThree == {3 * n + 1 - slot : n \in FinishCycles}

\* The set d of scheduled time points with tp in it, due in n slots, and the
\* time points that are left when time moves on by a slot.
With(d, tp, n) == d \union {[tp |-> tp, in |-> n]}
Later(d) == {[e EXCEPT !.in = @ - 1] : e \in d}
IsDue(d, tp) == [tp |-> tp, in |-> 0] \in d
Without(d, tp) == d \ {[tp |-> tp, in |-> 0]}

-----------------------------------------------------------------------------
(* nb_transport_fw, snoop and the callbacks of the state machine.  A step  *)
(* that calls nb_transport_bw names the phase; the link makes the call.    *)

\* The time point a phase is scheduled as, in both engines.
TimePointOf ==
  [BEGIN_REQ |-> "BegReqE", END_REQ |-> "EndReqE",
   BEGIN_PARTIAL_RESP |-> "BegPartRespE", BEGIN_RESP |-> "BegRespE",
   END_PARTIAL_RESP |-> "EndPartRespE", END_RESP |-> "EndRespE"]

\* nb_transport_fw with one of the snoop's phases.
TgtFw(s, phase, n) ==
  /\ tDue' = [tDue EXCEPT ![s] = With(@, TimePointOf[phase], n)]
  /\ UNCHANGED <<caller, tFsm, tBeat>>

\* snoop() is called: the handle's state machine leaves Idle, which resets the
\* beats, and enters Request, which announces BEGIN_REQ.
Snoop(s) ==
  /\ caller[s] = "idle" /\ slot = 1
  /\ caller' = [caller EXCEPT ![s] = "wait"]
  /\ tFsm' = [tFsm EXCEPT ![s] = "Request"]
  /\ tBeat' = [tBeat EXCEPT ![s] = 0]
  /\ UNCHANGED tDue

\* The state machine of s takes the time point tp that is due ...
Takes(s, tp) ==
  /\ IsDue(tDue[s], tp)
  /\ Accepts(tFsm[s], EventOf(tp, FALSE, FALSE))
  /\ tFsm' = [tFsm EXCEPT ![s] = After(@, EventOf(tp, FALSE, FALSE))]

\* ... or discards it.
TgtDiscards(s, tp) ==
  /\ IsDue(tDue[s], tp)
  /\ ~Accepts(tFsm[s], EventOf(tp, FALSE, FALSE))
  /\ tDue' = [tDue EXCEPT ![s] = Without(@, tp)]
  /\ UNCHANGED <<caller, tFsm, tBeat>>

TgtEndReq(s) ==
  /\ Takes(s, "EndReqE")
  /\ tDue' = [tDue EXCEPT ![s] = Without(@, "EndReqE")]
  /\ UNCHANGED <<caller, tBeat>>

TgtBegPartResp(s) ==
  /\ Takes(s, "BegPartRespE")
  /\ tDue' = [tDue EXCEPT ![s] =
                With(Without(@, "BegPartRespE"), "EndPartRespE", BeforeEdge)]
  /\ UNCHANGED <<caller, tBeat>>

\* Announces END_PARTIAL_RESP.
TgtEndPartResp(s) ==
  /\ Takes(s, "EndPartRespE")
  /\ tDue' = [tDue EXCEPT ![s] = Without(@, "EndPartRespE")]
  /\ tBeat' = [tBeat EXCEPT ![s] = @ + 1]
  /\ UNCHANGED caller

\* Announces END_RESP for the end of the cycle.
TgtBegResp(s) ==
  /\ Takes(s, "BegRespE")
  /\ \E n \in AfterThree :
       tDue' = [tDue EXCEPT ![s] =
                  With(Without(@, "BegRespE"), "EndRespE", n)]
  /\ UNCHANGED <<caller, tBeat>>

\* The handle is freed and the call of snoop() returns.
TgtEndResp(s) ==
  /\ Takes(s, "EndRespE")
  /\ tDue' = [tDue EXCEPT ![s] = Without(@, "EndRespE")]
  /\ caller' = [caller EXCEPT ![s] = "idle"]
  /\ UNCHANGED tBeat
=============================================================================
