----------------------------- MODULE AxiChannel -----------------------------
(***************************************************************************)
(* The TLM link between an AXI/ACE initiator and a target: the             *)
(* transactions that use it and the two queues that hold the phases an     *)
(* nb_transport_fw or nb_transport_bw call has announced and the callee    *)
(* has not looked at yet.                                                  *)
(*                                                                         *)
(* Both callees store the phase in a payload event queue and return        *)
(* TLM_ACCEPTED: the target in fw_peq, the initiator in the peq of the     *)
(* transaction's tx_state.  The phases of one transaction arrive in the    *)
(* order they were sent, those of different transactions in any order (the *)
(* delays annotated to the calls differ).                                  *)
(***************************************************************************)
EXTENDS Integers, Sequences

CONSTANTS
  Tx,       (* The transactions (payload objects) of the link.             *)
  NoTx,     (* The null payload pointer.                                   *)
  Ids,      (* AXI ids.                                                    *)
  Cmd,      (* Cmd[t]: is the payload a read or a write.                   *)
  Id,       (* Id[t]: axi::get_axi_id.                                     *)
  BurstLen  (* BurstLen[t]: axi::get_burst_length, AxLEN + 1 beats.        *)

Cmds == {"rd", "wr"}

ASSUME ChannelAssumption ==
  /\ NoTx \notin Tx
  /\ Cmd \in [Tx -> Cmds]
  /\ Id  \in [Tx -> Ids]
  /\ BurstLen \in [Tx -> Nat \ {0}]

VARIABLES
  fw,       (* fw[t]: phases on their way to the target.                   *)
  bw        (* bw[t]: phases on their way to the initiator.                *)

linkVars == <<fw, bw>>

FwPhases == {"BEGIN_PARTIAL_REQ", "BEGIN_REQ", "END_PARTIAL_RESP", "END_RESP",
             "ACK"}
BwPhases == {"END_PARTIAL_REQ", "END_REQ", "BEGIN_PARTIAL_RESP", "BEGIN_RESP"}

LinkTypeOK ==
  /\ fw \in [Tx -> Seq(FwPhases)]
  /\ bw \in [Tx -> Seq(BwPhases)]

LinkInit ==
  /\ fw = [t \in Tx |-> << >>]
  /\ bw = [t \in Tx |-> << >>]

\* The queue q after phase p of transaction t was announced.
Put(q, t, p) == [q EXCEPT ![t] = Append(@, p)]

\* The queue q after the oldest phase of t was taken.
Drop(q, t) == [q EXCEPT ![t] = Tail(@)]
=============================================================================
