-------------------------- MODULE AxiSnoopThreads --------------------------
(***************************************************************************)
(* The snoop side of axi_initiator_b.  A fixed number of threads take the  *)
(* snoops, acknowledge them, ask the client and send the response; a       *)
(* client that wants to answer later calls snoop_resp from a process of    *)
(* its own.                                                                *)
(***************************************************************************)
EXTENDS AceTargetPe

CONSTANTS
  AnswerCycles, (* What bw_o->transport returns, in clock cycles.          *)
  SnoopThreads  (* outstanding_snoops.                                     *)

ASSUME ThreadAssumption == AnswerCycles \subseteq Nat /\ SnoopThreads \in Nat

VARIABLES
  snpPeq,    (* snp_peq: the snoops that have arrived.                     *)
  inFlight,  (* snoops_in_flight: the threads that have a snoop.           *)
  known,     (* The domain of snp_state_by_id.                             *)
  peq,       (* peq[s]: the replies to the response, tx_state::peq.        *)
  resp,      (* resp[s]: where the process that handles s is.              *)
  mine,      (* mine[s]: that process is a snoop thread.                   *)
  sleep,     (* sleep[s]: slots until it goes on.                          *)
  sentBeats, (* sentBeats[s]: partial beats that have been answered.       *)
  sresp,     (* The ordered semaphore sresp_chnl.                          *)
  aAlarm     (* History: failed assertions and reported errors.            *)

threadVars == <<snpPeq, inFlight, known, peq, resp, mine, sleep, sentBeats,
                sresp, aAlarm>>

(***************************************************************************)
(* none   no process             ask   in bw_o->transport                  *)
(* later  the client will answer wait  the cycles before the response      *)
(* chnl   waits for sresp_chnl   gap   the wait after a partial beat       *)
(* beat, last  a beat is sent    end   the wait after the response         *)
(***************************************************************************)
RespPcs == {"none", "ask", "later", "wait", "chnl", "gap", "beat", "last",
            "end"}
Sleeping == {"wait", "gap", "end"}

Reply == [phase : {"END_PARTIAL_RESP", "END_RESP"}, in : Nat]

ThreadTypeOK ==
  /\ \A e \in snpPeq : e.tx \in Snp /\ e.in \in Nat
  /\ inFlight \in 0 .. SnoopThreads
  /\ known \subseteq Snp
  /\ \A s \in Snp : peq[s] \subseteq Reply
  /\ resp \in [Snp -> RespPcs] /\ mine \in [Snp -> BOOLEAN]
  /\ sleep \in [Snp -> Nat] /\ sresp \in Seq(Snp)
  /\ \A s \in Snp : sentBeats[s] \in 0 .. Beats[s] - 1
  /\ aAlarm \subseteq {"Unknown", "PhaseWaiting", "WrongReply"}

ThreadInit ==
  /\ snpPeq = {} /\ inFlight = 0 /\ known = {}
  /\ peq = [s \in Snp |-> {}]
  /\ resp = [s \in Snp |-> "none"] /\ mine = [s \in Snp |-> FALSE]
  /\ sleep = [s \in Snp |-> 0] /\ sentBeats = [s \in Snp |-> 0]
  /\ sresp = << >> /\ aAlarm = {}

Goto(s, to) == resp' = [resp EXCEPT ![s] = to]
SleepUntil(s, to, n) == Goto(s, to) /\ sleep' = [sleep EXCEPT ![s] = n]

\* nb_transport_bw: a snoop arrives, or the answer to a beat.
AxiBw(s, phase, n) ==
  /\ IF phase = "BEGIN_REQ"
       THEN snpPeq' = snpPeq \union {[tx |-> s, in |-> n]} /\ UNCHANGED peq
       ELSE /\ peq' = [peq EXCEPT ![s] = @ \union {[phase |-> phase, in |-> n]}]
            /\ UNCHANGED snpPeq
  /\ aAlarm' = IF phase = "BEGIN_REQ" \/ s \in known THEN aAlarm
               ELSE aAlarm \union {"Unknown"}
  /\ UNCHANGED <<inFlight, known, resp, mine, sleep, sentBeats, sresp>>

\* A thread waits for a snoop.
FreeThread == inFlight < SnoopThreads

\* snoop_thread takes a snoop, announces END_REQ for the end of the cycle and
\* asks the client.
TakeSnoop(s) ==
  /\ FreeThread
  /\ [tx |-> s, in |-> 0] \in snpPeq
  /\ snpPeq' = snpPeq \ {[tx |-> s, in |-> 0]}
  /\ inFlight' = inFlight + 1
  /\ known' = known \union {s}
  /\ mine' = [mine EXCEPT ![s] = TRUE]
  /\ Goto(s, "ask")
  /\ TgtFw(s, "END_REQ", BeforeEdge)
  /\ UNCHANGED <<peq, sleep, sentBeats, sresp, aAlarm>>

\* The thread is free again.
ThreadDone == inFlight - 1

\* The client answers after some cycles, or keeps the snoop.
Asked(s) ==
  /\ resp[s] = "ask" /\ slot = 1
  /\ \/ \E n \in AnswerCycles :
          SleepUntil(s, "wait", Edge(n + 1)) /\ UNCHANGED <<inFlight, mine>>
     \/ /\ Goto(s, "later") /\ inFlight' = ThreadDone
        /\ mine' = [mine EXCEPT ![s] = FALSE]
        /\ UNCHANGED sleep
  /\ UNCHANGED <<snpPeq, known, peq, sentBeats, sresp, aAlarm, aceVars>>

\* snoop_resp begins: it queues for the response channel.
EnterResp(s) ==
  /\ \/ resp[s] = "wait" /\ sleep[s] = 0
     \/ resp[s] = "later" /\ slot = 1
  /\ Goto(s, "chnl")
  /\ sresp' = Append(sresp, s)
  /\ sentBeats' = [sentBeats EXCEPT ![s] = 0]
  /\ UNCHANGED <<snpPeq, inFlight, known, peq, mine, sleep, aAlarm, aceVars>>

\* Mutant: nobody waits for the channel.
HoldsMutant(s) == TRUE

\* s holds sresp_chnl.
HoldsSresp(s) == Head(sresp) = s

\* Data or not, all but the last beat are sent as partial beats.
MoreBeats(s) == sentBeats[s] < Beats[s] - 1

\* send() of the next beat.
SendBeat(s) ==
  /\ \/ resp[s] = "chnl" /\ HoldsSresp(s)
     \/ resp[s] = "gap" /\ sleep[s] = 0
  /\ \/ /\ MoreBeats(s) /\ Goto(s, "beat")
        /\ TgtFw(s, "BEGIN_PARTIAL_RESP", Soon)
     \/ /\ ~MoreBeats(s) /\ Goto(s, "last")
        /\ TgtFw(s, "BEGIN_RESP", Soon)
  /\ UNCHANGED <<snpPeq, inFlight, known, peq, mine, sleep, sentBeats, sresp,
                 aAlarm>>

\* The answer to the beat: the rest of the cycle is waited for, and wbv cycles
\* at least between two beats.
BeatAnswered(s) ==
  /\ resp[s] \in {"beat", "last"}
  /\ \E e \in peq[s] :
       /\ e.in = 0
       /\ peq' = [peq EXCEPT ![s] = @ \ {e}]
       /\ aAlarm' = aAlarm
            \union (IF peq[s] # {e} THEN {"PhaseWaiting"} ELSE {})
            \union (IF (resp[s] = "last") # (e.phase = "END_RESP")
                      THEN {"WrongReply"} ELSE {})
  /\ IF resp[s] = "beat"
       THEN /\ sentBeats' = [sentBeats EXCEPT ![s] = @ + 1]
            /\ SleepUntil(s, "gap", Edge(1))
       ELSE SleepUntil(s, "end", Edge(1)) /\ UNCHANGED sentBeats
  /\ UNCHANGED <<snpPeq, inFlight, known, mine, sresp, aceVars>>

\* snoop_resp returns: the channel and, if it was one, the thread are free.
LeaveResp(s) ==
  /\ resp[s] = "end" /\ sleep[s] = 0
  /\ sresp' = Tail(sresp)
  /\ Goto(s, "none")
  /\ inFlight' = IF mine[s] THEN ThreadDone ELSE inFlight
  /\ mine' = [mine EXCEPT ![s] = FALSE]
  /\ UNCHANGED <<snpPeq, known, peq, sleep, sentBeats, aAlarm, aceVars>>
=============================================================================
