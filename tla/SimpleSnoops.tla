---------------------------- MODULE SimpleSnoops ----------------------------
(***************************************************************************)
(* The snoop side of simple_initiator_b.  A snoop is acknowledged and      *)
(* handed to the client: to a handler thread, to a callback, or to nobody. *)
(* The latency the client returns is counted down in snp_resp_queue; a     *)
(* client that returns the largest unsigned answers later, with            *)
(* snoop_resp.  The semaphore snp lets one response through at a time.     *)
(***************************************************************************)
EXTENDS AceTargetPe

CONSTANTS
  Latencies,    (* What the client returns, in clock cycles.               *)
  FifoSize      (* Capacity of dispatch_queue, 16 in the code.             *)

ASSUME ClientAssumption == Latencies \subseteq Nat /\ FifoSize \in Nat

VARIABLES
  client,  (* Who answers: "thread" (bw_o), "callback" or "none".          *)
  iActive, (* The snoops that have a handle.                               *)
  iFsm, iBeat, iDue,
           (* The initiator's state machines, beats and time points.       *)
  data,    (* data[s]: is_snoop_data_transfer, set by the client.          *)
  snp,     (* The semaphore.                                               *)
  respq,   (* snp_resp_queue.                                              *)
  polled,  (* Has process_snoop_resp run at this edge.                     *)
  dispq,   (* dispatch_queue.                                              *)
  thr,     (* thread_avail, thread_active and threads not started yet.     *)
  busy,    (* The snoops in a call of bw_o->transport.                     *)
  later,   (* The snoops the client will answer with snoop_resp.           *)
  iAlarm   (* History: errors, and events no state machine expected.       *)

handlerVars == <<dispq, thr, busy>>
simpleVars == <<iActive, iFsm, iBeat, iDue, data, snp, respq, polled,
                handlerVars, later, iAlarm>>

Responses == [tp : {"BegPartRespE", "BegRespE"}, tx : Snp, wait : Nat]

SimpleTypeOK ==
  /\ client \in {"thread", "callback", "none"}
  /\ iActive \subseteq Snp /\ iFsm \in [Snp -> FsmStates]
  /\ \A s \in Snp : iBeat[s] \in 0 .. Beats[s] /\ iDue[s] \subseteq Pending
  /\ data \in [Snp -> BOOLEAN] /\ polled \in BOOLEAN
  /\ snp \in 0 .. 1
  /\ respq \in Seq(Responses) /\ dispq \in Seq(Snp) /\ Len(dispq) <= FifoSize
  /\ thr.avail \in Nat /\ thr.active \in Nat /\ thr.spawned \in Nat
  /\ busy \subseteq Snp /\ later \subseteq Snp
  /\ iAlarm \subseteq {"NoFsm", "Discarded", "FifoFull"}

SimpleInit ==
  /\ client \in {"thread", "callback", "none"}
  /\ iActive = {} /\ iFsm = [s \in Snp |-> "Idle"]
  /\ iBeat = [s \in Snp |-> 0] /\ iDue = [s \in Snp |-> {}]
  /\ data = [s \in Snp |-> FALSE]
  /\ snp = 1 /\ respq = << >> /\ polled = TRUE
  /\ dispq = << >> /\ thr = [avail |-> 0, active |-> 0, spawned |-> 0]
  /\ busy = {} /\ later = {} /\ iAlarm = {}

-----------------------------------------------------------------------------
(* The backward path.                                                      *)

\* nb_transport_bw: BEGIN_REQ finds or creates the handle, every phase is
\* scheduled.
SimpleBw(s, phase, n) ==
  /\ iActive' = IF phase = "BEGIN_REQ" THEN iActive \union {s} ELSE iActive
  /\ iDue' = [iDue EXCEPT ![s] = With(@, TimePointOf[phase], n)]
  /\ UNCHANGED <<iFsm, iBeat, data, snp, respq, polled, handlerVars, later,
                 iAlarm>>

\* react(): the state machine takes a time point that is due ...
Reacts(s, tp) ==
  /\ IsDue(iDue[s], tp)
  /\ s \in iActive /\ Accepts(iFsm[s], EventOf(tp, FALSE, FALSE))
  /\ iFsm' = [iFsm EXCEPT ![s] = After(@, EventOf(tp, FALSE, FALSE))]

\* ... or has no handle for it, or does not expect it.
IniDiscards(s, tp) ==
  /\ IsDue(iDue[s], tp)
  /\ ~(s \in iActive /\ Accepts(iFsm[s], EventOf(tp, FALSE, FALSE)))
  /\ iDue' = [iDue EXCEPT ![s] = Without(@, tp)]
  /\ iAlarm' = iAlarm \union
                 {IF s \in iActive THEN "Discarded" ELSE "NoFsm"}
  /\ UNCHANGED <<iActive, iFsm, iBeat, data, snp, respq, polled, handlerVars,
                 later>>

\* Entering Request.
IniBegReq(s) ==
  /\ Reacts(s, "BegReqE")
  /\ iBeat' = [iBeat EXCEPT ![s] = 0]
  /\ iDue' = [iDue EXCEPT ![s] = With(Without(@, "BegReqE"), "EndReqE", Soon)]
  /\ UNCHANGED <<iActive, data, snp, respq, polled, handlerVars, later,
                 iAlarm>>

\* The first phase of the response: partial when data follow in several beats.
FirstBeat(s, transfer) ==
  IF transfer /\ Beats[s] > 1 THEN "BegPartRespE" ELSE "BegRespE"

\* The client has looked at the snoop: the answer waits its latency, or the
\* client answers later.
Decided(s, transfer, n) ==
  /\ data' = [data EXCEPT ![s] = transfer]
  /\ respq' = Append(respq, [tp |-> FirstBeat(s, transfer), tx |-> s,
                             wait |-> n])
  /\ UNCHANGED later

Deferred(s) == later' = later \union {s} /\ UNCHANGED <<data, respq>>

\* A thread is spawned when none waits for a snoop.
Spawns == IF thr.avail = 0 THEN 1 ELSE 0

\* The snoop is put into the queue of the handler threads.
ToThreads(s) ==
  /\ client = "thread"
  /\ thr' = [thr EXCEPT !.spawned = @ + Spawns]
  /\ IF Len(dispq) < FifoSize
       THEN dispq' = Append(dispq, s) /\ UNCHANGED iAlarm
       ELSE iAlarm' = iAlarm \union {"FifoFull"} /\ UNCHANGED dispq
  /\ UNCHANGED <<data, respq, later, busy>>

\* The callback decides at once; without one there are no data and the latency
\* is snoop_latency.
AskCallback(s) ==
  /\ client # "thread"
  /\ \/ \E n \in Latencies, transfer \in BOOLEAN :
          /\ client = "none" => n = 1 /\ ~transfer
          /\ Decided(s, transfer, n)
     \/ client = "callback" /\ Deferred(s)
  /\ UNCHANGED <<handlerVars, iAlarm>>

\* Leaving Request: END_REQ is announced for the end of the cycle and the
\* client is asked.
IniEndReq(s) ==
  /\ Reacts(s, "EndReqE")
  /\ TgtFw(s, "END_REQ", BeforeEdge)
  /\ iBeat' = [iBeat EXCEPT ![s] = 0]
  /\ iDue' = [iDue EXCEPT ![s] = Without(@, "EndReqE")]
  /\ ToThreads(s) \/ AskCallback(s)
  /\ UNCHANGED <<iActive, snp, polled>>

-----------------------------------------------------------------------------
(* The handler threads: thread_avail goes up before a thread reads the     *)
(* queue and down after it has got something.                              *)

ThreadStarts ==
  /\ thr.spawned > 0
  /\ thr' = [avail |-> thr.avail + 1, active |-> thr.active + 1,
             spawned |-> thr.spawned - 1]
  /\ UNCHANGED <<iActive, iFsm, iBeat, iDue, data, snp, respq, polled, dispq,
                 busy, later, iAlarm>>

ThreadReads ==
  /\ thr.avail > 0 /\ dispq # << >>
  /\ thr' = [thr EXCEPT !.avail = @ - 1]
  /\ busy' = busy \union {Head(dispq)}
  /\ dispq' = Tail(dispq)
  /\ UNCHANGED <<iActive, iFsm, iBeat, iDue, data, snp, respq, polled, later,
                 iAlarm>>

\* The thread goes back to the queue.
ThreadFree == [thr EXCEPT !.avail = @ + 1]

\* bw_o->transport returns, at any time.
ThreadReturns(s) ==
  /\ s \in busy /\ slot = 1
  /\ busy' = busy \ {s}
  /\ thr' = ThreadFree
  /\ \/ \E n \in Latencies, transfer \in BOOLEAN : Decided(s, transfer, n)
     \/ Deferred(s)
  /\ UNCHANGED <<iActive, iFsm, iBeat, iDue, snp, polled, dispq, iAlarm>>

-----------------------------------------------------------------------------
(* The response.                                                           *)

PhaseOf(tp) == IF tp = "BegPartRespE" THEN "BEGIN_PARTIAL_RESP" ELSE "BEGIN_RESP"

\* react(): entering PartialResponse or Response announces the beat.
Begins(s, tp) ==
  /\ s \in iActive
  /\ iFsm' = [iFsm EXCEPT ![s] = After(@, EventOf(tp, FALSE, FALSE))]
  /\ iAlarm' = IF Accepts(iFsm[s], EventOf(tp, FALSE, FALSE)) THEN iAlarm
               ELSE iAlarm \union {"Discarded"}
  /\ TgtFw(s, PhaseOf(tp), Soon)

\* The entries q of snp_resp_queue that are not let through are pushed back,
\* one cycle less to wait for.
PushedBack(q) == [i \in 1 .. Len(q) |-> IF q[i].wait = 0 THEN q[i]
                                        ELSE [q[i] EXCEPT !.wait = @ - 1]]

\* The first entry that has waited its latency.
Ripe == {i \in 1 .. Len(respq) : respq[i].wait = 0}
FirstRipe == CHOOSE i \in Ripe : \A j \in Ripe : i <= j

\* snp.wait() when the semaphore is free.
TakeSnp == snp - 1

\* process_snoop_resp, at the clock edge: the first response that is ripe is
\* let through if the semaphore is free, all others are pushed back.
PollResponses ==
  /\ slot = 0 /\ ~polled
  /\ polled' = TRUE
  /\ IF snp > 0 /\ Ripe # {}
       THEN LET i == FirstRipe
                rest == SubSeq(respq, 1, i - 1)
                          \o SubSeq(respq, i + 1, Len(respq))
            IN  /\ snp' = TakeSnp
                /\ Begins(respq[i].tx, respq[i].tp)
                /\ respq' = PushedBack(rest)
       ELSE /\ respq' = PushedBack(respq)
            /\ UNCHANGED <<snp, iFsm, iAlarm, aceVars>>
  /\ UNCHANGED <<iActive, iBeat, iDue, data, handlerVars, later>>

\* snoop_resp: the client answers a snoop it has kept, at the next clock edge
\* if "sync", or when the semaphore is free.
SnoopResp(s, transfer, sync) ==
  /\ s \in later /\ slot = 1
  /\ later' = later \ {s}
  /\ data' = [data EXCEPT ![s] = transfer]
  /\ LET tp == FirstBeat(s, transfer) IN
     IF snp = 0
       THEN /\ respq' = Append(respq, [tp |-> tp, tx |-> s, wait |-> 0])
            /\ UNCHANGED <<iFsm, iDue, snp, iAlarm, aceVars>>
       ELSE /\ snp' = TakeSnp
            /\ UNCHANGED respq
            /\ IF sync
                 THEN /\ iDue' = [iDue EXCEPT ![s] = With(@, tp, Edge(1))]
                      /\ UNCHANGED <<iFsm, iAlarm, aceVars>>
                 ELSE Begins(s, tp) /\ UNCHANGED iDue
  /\ UNCHANGED <<iActive, iBeat, polled, handlerVars>>

\* A beat that fsm_clk_queue starts: the one after a beat, or the first one of
\* snoop_resp with "sync".
IniBegResp(s, tp) ==
  /\ Reacts(s, tp)
  /\ TgtFw(s, PhaseOf(tp), Soon)
  /\ iDue' = [iDue EXCEPT ![s] = Without(@, tp)]
  /\ UNCHANGED <<iActive, iBeat, data, snp, respq, polled, handlerVars, later,
                 iAlarm>>

\* Mutant: one beat too few.
NextBeatMutant(s, n) ==
  IF n < Beats[s] - 2 THEN "BegPartRespE" ELSE "BegRespE"

\* The beat after the first n ones.
NextBeat(s, n) == IF n < Beats[s] - 1 THEN "BegPartRespE" ELSE "BegRespE"

\* END_PARTIAL_RESP: the next beat is due at the next edge.
IniEndPartResp(s) ==
  /\ Reacts(s, "EndPartRespE")
  /\ iBeat' = [iBeat EXCEPT ![s] = @ + 1]
  /\ iDue' = [iDue EXCEPT ![s] =
                With(Without(@, "EndPartRespE"), NextBeat(s, iBeat[s] + 1),
                     Edge(1))]
  /\ UNCHANGED <<iActive, data, snp, respq, polled, handlerVars, later,
                 iAlarm>>

\* The handle goes back to the pool.
Freed(s) == iActive \ {s}

\* END_RESP: the next response may begin.
IniEndResp(s) ==
  /\ Reacts(s, "EndRespE")
  /\ snp' = snp + 1
  /\ iActive' = Freed(s)
  /\ iDue' = [iDue EXCEPT ![s] = Without(@, "EndRespE")]
  /\ UNCHANGED <<iBeat, data, respq, polled, handlerVars, later, iAlarm>>
=============================================================================
