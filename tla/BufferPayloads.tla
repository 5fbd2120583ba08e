--------------------------- MODULE BufferPayloads ---------------------------
(***************************************************************************)
(* The payloads that go through the response buffers of the targets, and   *)
(* what the buffers have in common.                                        *)
(***************************************************************************)
EXTENDS Integers, Sequences, FiniteSets

CONSTANTS
  Tx,     (* The payloads, each sent once.                                 *)
  Ids,    (* The ids, numbers from 0.                                      *)
  Cmd,    (* Cmd[t]: rd or wr.                                             *)
  Id, Addr, Bytes, Qos   (* Id[t] in Ids; the data length; the QoS.        *)

Cmds == {"rd", "wr"}

\* A data length is an unsigned int, so there are finitely many.
ASSUME PayloadAssumption ==
  /\ Ids \subseteq Nat
  /\ Cmd \in [Tx -> Cmds] /\ Id \in [Tx -> Ids]
  /\ Bytes \in [Tx -> Nat] /\ IsFiniteSet({Bytes[t] : t \in Tx})

\* The entries of s at the positions D, in their order.
Rank(D, i) == Cardinality({j \in D : j <= i})
Place(D, k) == CHOOSE i \in D : Rank(D, i) = k
Picked(s, D) == [k \in 1 .. Cardinality(D) |-> s[Place(D, k)]]
=============================================================================
