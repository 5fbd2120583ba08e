------------------------- MODULE AxiProtocolChecker -------------------------
(***************************************************************************)
(* axi::checker::axi_protocol: the protocol checker that is put into an    *)
(* AXI link and sees every nb_transport call before the callee does        *)
(* (fw_pre and bw_pre).  Both engines return TLM_ACCEPTED, for which       *)
(* fw_post and bw_post do nothing.  An error message is a complaint here.  *)
(* The checks of the signal settings (check_properties) are left out: they *)
(* only read the payload.                                                  *)
(***************************************************************************)
EXTENDS AxiChannel

CONSTANT NoId       \* umax: no id holds the channel
ASSUME CheckerAssumption == NoId \notin Ids

VARIABLES
  reqBeat,      (* req_beat: the unanswered request beat of a command.     *)
  respBeat,     (* resp_beat: the unanswered response beat.                *)
  reqId,        (* req_id: the id of the unanswered request beat.          *)
  respId,       (* resp_id: the id of the unanswered response beat.        *)
  wrReqBeats,   (* wr_req_beat_count.                                      *)
  rdRespBeats,  (* rd_resp_beat_count.                                     *)
  openTx,       (* open_tx_by_id: requested, not yet responded to.         *)
  complaints    (* History: the kinds of errors reported so far.           *)

checkerVars == <<reqBeat, respBeat, reqId, respId, wrReqBeats, rdRespBeats,
                 openTx, complaints>>

NoBeat == "UNINITIALIZED_PHASE"

\* The channels an observed phase belongs to.
ReqBegins  == {"BEGIN_PARTIAL_REQ", "BEGIN_REQ"}
ReqEnds    == {"END_PARTIAL_REQ", "END_REQ"}
RespBegins == {"BEGIN_PARTIAL_RESP", "BEGIN_RESP"}
RespEnds   == {"END_PARTIAL_RESP", "END_RESP"}

Complaints == {"phase", "ordering", "beats", "response"}

CheckerTypeOK ==
  /\ reqBeat \in [Cmds -> ReqBegins \union {NoBeat}]
  /\ respBeat \in [Cmds -> RespBegins \union {NoBeat}]
  /\ reqId \in [Cmds -> Ids \union {NoId}]
  /\ respId \in [Cmds -> Ids \union {NoId}]
  /\ wrReqBeats \in Nat
  /\ rdRespBeats \in [Ids -> Nat]
  /\ openTx \in [Cmds -> [Ids -> Seq(Tx)]]
  /\ complaints \subseteq Complaints

CheckerInit ==
  /\ reqBeat = [c \in Cmds |-> NoBeat]
  /\ respBeat = [c \in Cmds |-> NoBeat]
  /\ reqId = [c \in Cmds |-> NoId]
  /\ respId = [c \in Cmds |-> NoId]
  /\ wrReqBeats = 0
  /\ rdRespBeats = [i \in Ids |-> 0]
  /\ openTx = [c \in Cmds |-> [i \in Ids |-> << >>]]
  /\ complaints = {}

\* The complaint k, if b holds.
If(b, k) == IF b THEN {k} ELSE {}

\* The phase that the end of a beat must follow.
BeginOf == [END_PARTIAL_REQ |-> "BEGIN_PARTIAL_REQ", END_REQ |-> "BEGIN_REQ",
            END_PARTIAL_RESP |-> "BEGIN_PARTIAL_RESP",
            END_RESP |-> "BEGIN_RESP"]

\* check_phase_change: is p out of place on its channel.
IllegalPhase(c, p) ==
  \/ p \in ReqBegins  /\ reqBeat[c] # NoBeat
  \/ p \in ReqEnds    /\ reqBeat[c] # BeginOf[p]
  \/ p \in RespBegins /\ respBeat[c] # NoBeat
  \/ p \in RespEnds   /\ respBeat[c] # BeginOf[p]
  \/ p \notin ReqBegins \union ReqEnds \union RespBegins \union RespEnds

\* request_update for the beginning of a request beat: count the beats of a
\* write, and remember the order of the requests per id.
BeginRequestBeat(t, p) ==
  LET c     == Cmd[t]
      new   == reqId[c] = NoId
      beats == IF new THEN wrReqBeats + 1 ELSE wrReqBeats
      final == p = "BEGIN_REQ"
  IN
  /\ reqBeat' = [reqBeat EXCEPT ![c] = p]
  /\ reqId' = IF new /\ (c = "wr" \/ final)
              THEN [reqId EXCEPT ![c] = Id[t]] ELSE reqId
  /\ wrReqBeats' = IF c = "rd" THEN wrReqBeats ELSE IF final THEN 0 ELSE beats
  /\ openTx' = IF final /\ (c = "wr" \/ new)
               THEN [openTx EXCEPT ![c][Id[t]] = Append(@, t)] ELSE openTx
  /\ complaints' = complaints \union If(IllegalPhase(c, p), "phase")
       \union If(~new /\ reqId[c] # Id[t], "ordering")
       \union If(c = "rd" /\ ~final, "phase")
       \union If(c = "wr" /\ final /\ beats # BurstLen[t], "beats")
  /\ UNCHANGED <<respBeat, respId, rdRespBeats>>

\* response_update for the beginning of a response beat: the responses with one
\* id come in the order of their requests, and a read has all its beats.
BeginResponseBeat(t, p) ==
  LET c     == Cmd[t]
      i     == Id[t]
      new   == respId[c] = NoId
      beats == IF new THEN rdRespBeats[i] + 1 ELSE rdRespBeats[i]
      final == p = "BEGIN_RESP"
      first == openTx[c][i] # << >> /\ Head(openTx[c][i]) = t
  IN
  /\ respBeat' = [respBeat EXCEPT ![c] = p]
  /\ respId' = IF new /\ (c = "rd" \/ final)
               THEN [respId EXCEPT ![c] = i] ELSE respId
  /\ rdRespBeats' = IF c = "wr" THEN rdRespBeats
                    ELSE [rdRespBeats EXCEPT ![i] = IF final THEN 0 ELSE beats]
  /\ openTx' = IF final /\ openTx[c][i] # << >>
               THEN [openTx EXCEPT ![c][i] = Tail(@)] ELSE openTx
  /\ complaints' = complaints \union If(IllegalPhase(c, p), "phase")
       \union If(new /\ (c = "rd" \/ final) /\ ~first, "response")
       \union If(~new /\ respId[c] # i, "phase")
       \union If(c = "wr" /\ ~final, "phase")
       \union If(c = "rd" /\ final /\ beats # BurstLen[t], "beats")
  /\ UNCHANGED <<reqBeat, reqId, wrReqBeats>>

\* The end of a beat frees its channel.
EndBeat(t, p) ==
  LET c == Cmd[t] IN
  /\ reqBeat'  = IF p \in ReqEnds THEN [reqBeat EXCEPT ![c] = NoBeat]
                 ELSE reqBeat
  /\ reqId'    = IF p \in ReqEnds THEN [reqId EXCEPT ![c] = NoId] ELSE reqId
  /\ respBeat' = IF p \in RespEnds THEN [respBeat EXCEPT ![c] = NoBeat]
                 ELSE respBeat
  /\ respId'   = IF p \in RespEnds THEN [respId EXCEPT ![c] = NoId] ELSE respId
  /\ complaints' = complaints \union If(IllegalPhase(c, p), "phase")
  /\ UNCHANGED <<wrReqBeats, rdRespBeats, openTx>>

\* fw_pre and bw_pre: phase p of t passes the checker.  A phase that repeats the
\* one before it only causes the complaint.
Observe(t, p) ==
  IF p = reqBeat[Cmd[t]] \/ p = respBeat[Cmd[t]]
    THEN /\ complaints' = complaints \union {"phase"}
         /\ UNCHANGED <<reqBeat, respBeat, reqId, respId, wrReqBeats,
                        rdRespBeats, openTx>>
    ELSE \/ p \in ReqBegins  /\ BeginRequestBeat(t, p)
         \/ p \in RespBegins /\ BeginResponseBeat(t, p)
         \/ p \notin ReqBegins \union RespBegins /\ EndBeat(t, p)
=============================================================================
