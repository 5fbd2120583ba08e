-------------------------- MODULE ResponseBuffers --------------------------
(***************************************************************************)
(* The buffers between the user of a target and its protocol engine:       *)
(* rate_limiting_buffer (ordered_target), replay_buffer (replay_target)    *)
(* and tx_reorderer (reordering_target).  A behaviour is one of one kind;  *)
(* the others stay empty.                                                  *)
(***************************************************************************)
EXTENDS ReplayBuffer, TxReorderer

CONSTANTS
  Kinds,   (* A subset of {"rate", "replay", "reorder"}.                   *)
  Calls    (* Calls[kind]: the orders in which transport is called.        *)

VARIABLE kind    (* Never changes.                                         *)

vars == <<kind, rateVars, left, reorderVars>>

NoLimit == [total |-> 0, rd |-> 0, wr |-> 0]

Init ==
  /\ kind \in Kinds
  /\ RateInit /\ ReplayInit /\ ReorderInit
  /\ kind = "rate" \/ limit = NoLimit
  /\ kind = "reorder" \/ prio = [qos |-> FALSE, latency |-> FALSE]

\* start_wr_resp_thread of rate_limiting_buffer computes with the time of
\* reads, that of replay_buffer with its own.
WrPace == IF kind = "rate" THEN "rd" ELSE "wr"

Fifos == kind # "reorder" /\ UNCHANGED <<kind, reorderVars>>

Called == IF kind = "reorder" THEN came ELSE order

Transport(t) ==
  /\ \E s \in Calls[kind] : IsPrefix(Append(Called, t), s)
  /\ \/ Fifos /\ kind = "rate" /\ RateTransport(t) /\ UNCHANGED left
     \/ Fifos /\ kind = "replay" /\ ReplayTransport(t)
     \/ /\ kind = "reorder" /\ ReorderTransport(t)
        /\ UNCHANGED <<kind, rateVars, left>>

Clock == Fifos /\ Tick(WrPace) /\ UNCHANGED left
PickResponse(c) == Fifos /\ Pick(c, WrPace) /\ UNCHANGED left
DelayResponse(c) == Fifos /\ Delay(c, WrPace) /\ UNCHANGED left
AcceptResponse(c) == Fifos /\ Accepted(c, WrPace) /\ UNCHANGED left
RefuseResponse(c) == Fifos /\ Refused(c) /\ UNCHANGED left

Reorder ==
  kind = "reorder" /\ ReorderClock /\ UNCHANGED <<kind, rateVars, left>>

Next ==
  \/ \E t \in Tx : Transport(t)
  \/ Clock
  \/ \E c \in Cmds : \/ PickResponse(c) \/ DelayResponse(c)
                     \/ AcceptResponse(c) \/ RefuseResponse(c)
  \/ Reorder

Spec == Init /\ [][Next]_vars

\* The clock runs, a thread that is ready runs, and the target PE does not
\* refuse for ever.  (There are finitely many payloads, so it need not be said
\* for each.)
Fairness ==
  /\ WF_vars(Clock) /\ WF_vars(Reorder)
  /\ WF_vars(\E c \in Cmds : PickResponse(c) \/ DelayResponse(c))
  /\ SF_vars(\E c \in Cmds : AcceptResponse(c))
  /\ SF_vars(Reorder /\ gone' # gone)

FairSpec == Spec /\ Fairness

-----------------------------------------------------------------------------
(* Properties of the fifos and their threads.                              *)

\* The types of the variables of the fifos and threads.
TypeOK ==
  /\ kind \in Kinds /\ limit \in Limits \union {NoLimit}
  /\ \A c \in Cmds :
       /\ \A i \in DOMAIN lat[c] :
            lat[c][i] \in [t : {t \in Tx : Cmd[t] = c}, left : Nat]
       /\ resp[c] \in Seq(Tx)
       /\ thr[c] \in {"wait", "arb", "delay", "try", "again"}
       /\ (thr[c] = "delay") <=> togo[c] > 0
       /\ thr[c] # "wait" => resp[c] # << >>
  /\ \A p \in DOMAIN resid : resid[p] \in 0 .. Den - 1
  /\ arb \in {<< >>, <<"rd">>, <<"wr">>, <<"rd", "wr">>, <<"wr", "rd">>}

\* Every payload that was called is in one place: a latency fifo, a response
\* fifo, or answered.  transport, process_req2resp_fifos, the threads.
InOnePlace ==
  kind # "reorder" =>
    \A c \in Cmds :
      LET waits == [k \in DOMAIN lat[c] |-> lat[c][k].t]
          called == {t \in Range(order) : Cmd[t] = c}
      IN  /\ IsInjective(waits) /\ IsInjective(resp[c])
          /\ Range(waits) \intersect Range(resp[c]) = {}
          /\ Range(waits) \union Range(resp[c]) = called \ done

\* No response leaves the latency fifo before or after the clock edge its
\* latency says.
LatencyExact ==
  \A c \in Cmds :
    /\ \A k \in DOMAIN lat[c] :
         lat[c][k].left + age[lat[c][k].t] = drawn[lat[c][k].t]
    /\ \A t \in Range(resp[c]) \union done : age[t] > drawn[t]

\* A response overtakes another of its command only if its latency is
\* shorter.
OvertakesByLatency ==
  \A i, j \in DOMAIN order :
    LET t == order[i]
        u == order[j]
    IN  i < j /\ Cmd[t] = Cmd[u] /\ drawn[t] <= drawn[u] /\ u \in done
          => t \in done

\* Only one of the two threads is inside the section of total_arb.
OneInArbitration ==
  Time("total") > 0 => ~(thr["rd"] = "delay" /\ thr["wr"] = "delay")

\* The two response threads and the clocked method hand a payload on without
\* losing or doubling it, and keep each other out of the shared arbitration.
BuffersConsistent == TypeOK /\ InOnePlace /\ OneInArbitration

Costs(p, cs) == {Bytes[t] * Time(p) : t \in {u \in Tx : Cmd[u] \in cs}}
MaxCost(p, cs) == Max({0} \union Costs(p, cs))

\* However the responses arrive and are refused, the reads are not ahead of the
\* limit for reads, nor are both commands together ahead of a total limit, by
\* more than one response per thread and a clock period.  The writes have no
\* part of their own: start_wr_resp_thread of rate_limiting_buffer waits as long
\* as the pace of the reads asks, and wr_bw_limit_byte_per_sec, "the bandwidth
\* limit for write accesses" (ordered_target.h:50), is not kept.
BandwidthKept ==
  /\ Time("total") > 0 => owed["total"] < 2 * MaxCost("total", Cmds) + Den
  /\ Time("rd") > 0 => owed["rd"] < MaxCost("rd", {"rd"}) + Den

\* A replayed payload has the latency of the entry the recording has for it,
\* counted in the order of the calls, whatever lists they are spread over.
ReplaysRecording ==
  kind = "replay" =>
    \A k \in DOMAIN order : drawn[order[k]] = Expected(k)

-----------------------------------------------------------------------------
(* Properties of the reorder buffer.                                       *)

\* The responses of a command and id leave in the order they came.
PerIdOrder ==
  \A c \in Cmds, i \in Ids :
    LET all == gone[c][i] \o buf[c][i]
        calls == {k \in DOMAIN came : Cmd[came[k]] = c /\ Id[came[k]] = i}
    IN  [k \in DOMAIN all |-> all[k].t] = Picked(came, calls)

\* No response leaves before it has been the first of its id for MinLatency
\* clock edges (or for MaxLatency, if that is less: r1 goes before r2).
MinKept ==
  \A c \in Cmds, i \in Ids :
    \A k \in DOMAIN gone[c][i] :
      gone[c][i][k].age > Min({MinLatency, MaxLatency})

NoPriority == ~prio.qos /\ ~prio.latency

\* Without priorities the first response of an id is offered to the target PE
\* within the maximum latency.
OfferedInTime ==
  NoPriority =>
    \A c \in Cmds :
      \A i \in NonEmpty(buf[c]) : buf[c][i][1].held <= MaxLatency

\* A response leaves in the order of its command (rate limiting, by latency)
\* or of its id (reordering).
OrderKept == OvertakesByLatency /\ PerIdOrder

\* A response leaves neither before nor after its time: the latency drawn for
\* it, or the minimum and the maximum of the reorder buffer.
LatencyKept == LatencyExact /\ MinKept /\ OfferedInTime

Answered ==
  IF kind # "reorder" THEN done
  ELSE {t \in Tx : Contains([k \in DOMAIN gone[Cmd[t]][Id[t]] |->
                               gone[Cmd[t]][Id[t]][k].t], t)}

\* Every payload is answered in the end, whatever is called after it.
AllAnswered == <>[](Answered = ToSet(Called))
=============================================================================
