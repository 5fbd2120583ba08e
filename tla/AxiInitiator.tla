---------------------------- MODULE AxiInitiator ----------------------------
(***************************************************************************)
(* axi_initiator_b: every call of transport(trans, false) is a process     *)
(* that drives one transaction over the link, blocking where the code      *)
(* waits.  The semaphores are scc::ordered_semaphore: a queue of the       *)
(* callers that wait, in which the first one holds the semaphore.          *)
(*                                                                         *)
(* The waits for a number of clock cycles (artv, awtv, wbv, rbr, br, rla,  *)
(* ba) only delay the next call, which the interleaving covers.  The       *)
(* arrival of a phase and the call that answers it are one action.         *)
(***************************************************************************)
EXTENDS AxiChannel

CONSTANTS
  Ace,              (* flavor == ACE: the initiator sends acknowledges.    *)
  IdSerializing,    (* enable_id_serializing.                              *)
  WrInterleaving    (* data_interleaving of write beats.                   *)

ASSUME InitiatorAssumption ==
  /\ Ace \in BOOLEAN
  /\ IdSerializing \in BOOLEAN
  /\ WrInterleaving \in BOOLEAN

VARIABLES
  ini,          (* ini[t]: where the transport call of t is.               *)
  sent,         (* Number of request beats acknowledged by the target.     *)
  left,         (* burst_length: response beats that are still expected.   *)
  chnl,         (* rd_chnl and wr_chnl.                                    *)
  idMtx,        (* id_mtx.                                                 *)
  waiting,      (* rd_waiting and wr_waiting.                              *)
  outstanding,  (* rd_outstanding and wr_outstanding.                      *)
  iniAlarm      (* History: the errors transport() and send() report.      *)

iniVars == <<ini, sent, left, chnl, idMtx, waiting, outstanding,
             iniAlarm>>

(***************************************************************************)
(* idle  no call                  id    waits for id_mtx                   *)
(* chnl  waits for rd/wr_chnl     send  a request beat is announced        *)
(* resp  waits for the response   ack   the acknowledge is due             *)
(* fin   the protocol is over, the clock edge after it is not              *)
(***************************************************************************)
IniPcs == {"idle", "id", "chnl", "send", "resp", "ack", "fin"}
IniAlarms == {"PhaseWaiting", "WrongReply", "WrongBeatCount"}

IniTypeOK ==
  /\ ini \in [Tx -> IniPcs]
  /\ sent \in [Tx -> Nat]
  /\ left \in [Tx -> Int]
  /\ chnl \in [Cmds -> Seq(Tx)]
  /\ idMtx \in [Ids -> Seq(Tx)]
  /\ waiting \in [Cmds -> Int]
  /\ outstanding \in [Cmds -> Int]
  /\ iniAlarm \subseteq IniAlarms

IniInit ==
  /\ ini = [t \in Tx |-> "idle"]
  /\ sent = [t \in Tx |-> 0]
  /\ left = [t \in Tx |-> 0]
  /\ chnl = [c \in Cmds |-> << >>]
  /\ idMtx = [i \in Ids |-> << >>]
  /\ waiting = [c \in Cmds |-> 0]
  /\ outstanding = [c \in Cmds |-> 0]
  /\ iniAlarm = {}

Goto(t, from, to) == ini[t] = from /\ ini' = [ini EXCEPT ![t] = to]

\* The waiting list s after post(): the semaphore passes to the next caller.
Release(s) == SubSeq(s, 2, Len(s))

\* transport() is called for payload t, which may be used again and again but
\* not by two calls at a time.  With id serialization it waits for its
\* id, otherwise it goes straight to the channel of its command.
Transport(t) ==
  /\ waiting' = [waiting EXCEPT ![Cmd[t]] = @ + 1]
  /\ sent' = [sent EXCEPT ![t] = 0]
  /\ left' = [left EXCEPT ![t] = IF Cmd[t] = "rd" THEN BurstLen[t] ELSE 1]
  /\ \/ /\ IdSerializing
        /\ Goto(t, "idle", "id")
        /\ idMtx' = [idMtx EXCEPT ![Id[t]] = Append(@, t)]
        /\ UNCHANGED chnl
     \/ /\ ~IdSerializing
        /\ Goto(t, "idle", "chnl")
        /\ chnl' = [chnl EXCEPT ![Cmd[t]] = Append(@, t)]
        /\ UNCHANGED idMtx
  /\ UNCHANGED <<linkVars, outstanding, iniAlarm>>

\* Mutant: the semaphore is not waited for.
HoldsIdOrNot(t) == idMtx[Id[t]] # << >>

\* t is the first one in the waiting list of a semaphore: it holds it.
HoldsId(t)   == idMtx[Id[t]] # << >> /\ Head(idMtx[Id[t]]) = t
HoldsChnl(t) == chnl[Cmd[t]] # << >> /\ Head(chnl[Cmd[t]]) = t

\* No other transaction with this id is running any more.
GetId(t) ==
  /\ HoldsId(t)
  /\ Goto(t, "id", "chnl")
  /\ chnl' = [chnl EXCEPT ![Cmd[t]] = Append(@, t)]
  /\ UNCHANGED <<linkVars, sent, left, idMtx, waiting, outstanding,
                 iniAlarm>>

\* Mutant: one beat too many.
LastBeatLate(t) == Cmd[t] = "rd" \/ sent[t] >= BurstLen[t]

\* The beat t announces is the last of its request.
LastBeat(t) == Cmd[t] = "rd" \/ sent[t] >= BurstLen[t] - 1

\* The counters change with the first beat.
FirstBeat(t) == sent[t] = 0

\* send(): the next request beat, BEGIN_REQ for the last (or only) one.  A phase
\* that is already there is a fatal error.
SendRequest(t) ==
  LET c == Cmd[t] IN
  /\ HoldsChnl(t)
  /\ Goto(t, "chnl", "send")
  /\ fw' = Put(fw, t, IF LastBeat(t) THEN "BEGIN_REQ" ELSE "BEGIN_PARTIAL_REQ")
  /\ iniAlarm' = IF bw[t] = << >> THEN iniAlarm
                 ELSE iniAlarm \union {"PhaseWaiting"}
  /\ IF FirstBeat(t)
       THEN /\ waiting' = [waiting EXCEPT ![c] = @ - 1]
            /\ outstanding' = [outstanding EXCEPT ![c] = @ + 1]
       ELSE UNCHANGED <<waiting, outstanding>>
  /\ UNCHANGED <<bw, sent, left, chnl, idMtx>>

\* A writer that interleaves its beats releases the channel after each one and
\* queues up again for the next.
Requeue(s, t) == Append(Release(s), t)

\* The answer to a beat that is not the last one, END_PARTIAL_REQ or a fatal
\* error.  The write channel is kept for the next beat, unless write beats may
\* interleave.
BeatAccepted(t) ==
  /\ ~LastBeat(t) /\ bw[t] # << >>
  /\ Goto(t, "send", "chnl")
  /\ bw' = Drop(bw, t)
  /\ sent' = [sent EXCEPT ![t] = @ + 1]
  /\ chnl' = IF WrInterleaving
             THEN [chnl EXCEPT !["wr"] = Requeue(@, t)] ELSE chnl
  /\ iniAlarm' = IF Head(bw[t]) = "END_PARTIAL_REQ" THEN iniAlarm
                 ELSE iniAlarm \union {"WrongReply"}
  /\ UNCHANGED <<fw, left, idMtx, waiting, outstanding>>

\* The answer to the last beat: END_REQ, or the response itself, which is then
\* left for the response loop.  The channel is released.
RequestAccepted(t) ==
  /\ LastBeat(t) /\ bw[t] # << >>
  /\ Goto(t, "send", "resp")
  /\ bw' = IF Head(bw[t]) \in {"BEGIN_PARTIAL_RESP", "BEGIN_RESP"} THEN bw
           ELSE Drop(bw, t)
  /\ chnl' = [chnl EXCEPT ![Cmd[t]] = Release(@)]
  /\ iniAlarm' = IF Head(bw[t]) # "END_PARTIAL_REQ" THEN iniAlarm
                 ELSE iniAlarm \union {"WrongReply"}
  /\ UNCHANGED <<fw, sent, left, idMtx, waiting, outstanding>>

\* Mutant: the acknowledge is never sent.
AfterResponseNoAck == "fin"

\* What follows the last response: only the flavor ACE acknowledges.
AfterResponse == IF Ace THEN "ack" ELSE "fin"

\* The response loop: a beat is acknowledged, the last one ends the protocol.
\* Other phases are skipped.
ResponseBeat(t) ==
  LET partial == Head(bw[t]) = "BEGIN_PARTIAL_RESP"
      final   == Head(bw[t]) = "BEGIN_RESP"
  IN
  /\ ini[t] = "resp" /\ bw[t] # << >>
  /\ bw' = Drop(bw, t)
  /\ fw' = IF partial THEN Put(fw, t, "END_PARTIAL_RESP")
           ELSE IF final THEN Put(fw, t, "END_RESP") ELSE fw
  /\ left' = IF partial \/ final THEN [left EXCEPT ![t] = @ - 1] ELSE left
  /\ ini' = IF final THEN [ini EXCEPT ![t] = AfterResponse]
            ELSE ini
  /\ iniAlarm' = IF final /\ left[t] # 1
                 THEN iniAlarm \union {"WrongBeatCount"} ELSE iniAlarm
  /\ UNCHANGED <<sent, chnl, idMtx, waiting, outstanding>>

\* The acknowledge of an ACE transaction, at least one clock edge after
\* END_RESP, which was announced for that edge and has been delivered.
SendAck(t) ==
  /\ fw[t] = << >>
  /\ Goto(t, "ack", "fin")
  /\ fw' = Put(fw, t, "ACK")
  /\ UNCHANGED <<bw, sent, left, chnl, idMtx, waiting, outstanding,
                 iniAlarm>>

\* The end of transport(), one clock edge after the last call, which has been
\* delivered at that edge.
Finish(t) ==
  /\ fw[t] = << >>
  /\ Goto(t, "fin", "idle")
  /\ outstanding' = [outstanding EXCEPT ![Cmd[t]] = @ - 1]
  /\ idMtx' = IF IdSerializing THEN [idMtx EXCEPT ![Id[t]] = Release(@)]
              ELSE idMtx
  /\ UNCHANGED <<linkVars, sent, left, chnl, waiting, iniAlarm>>

IniNext == \E t \in Tx :
  \/ Transport(t) \/ GetId(t) \/ SendRequest(t) \/ BeatAccepted(t)
  \/ RequestAccepted(t) \/ ResponseBeat(t) \/ SendAck(t) \/ Finish(t)

\* A transport process never stops by itself; nobody is obliged to call it.
IniFairness == \A t \in Tx :
  /\ WF_<<linkVars, iniVars>>(GetId(t))
  /\ WF_<<linkVars, iniVars>>(SendRequest(t))
  /\ WF_<<linkVars, iniVars>>(BeatAccepted(t))
  /\ WF_<<linkVars, iniVars>>(RequestAccepted(t))
  /\ WF_<<linkVars, iniVars>>(ResponseBeat(t))
  /\ WF_<<linkVars, iniVars>>(SendAck(t))
  /\ WF_<<linkVars, iniVars>>(Finish(t))
=============================================================================
