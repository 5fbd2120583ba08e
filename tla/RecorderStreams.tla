-------------------------- MODULE RecorderStreams --------------------------
(***************************************************************************)
(* The transaction recorders: what one recorder does before and after a    *)
(* call it forwards, and the timed view it records, for the six of them    *)
(* (scv and lwtr, each for axi, ace and chi).                              *)
(*                                                                         *)
(* The payload has one address; it is used again, and gen is the use.  A   *)
(* recorder is its place on the path, 1 next to the initiator.  s is the   *)
(* state of payload and recorders:                                         *)
(*   s.ext      the recording extension: [gen, tx, owner, auto], tx the    *)
(*              recorder whose call its handle belongs to (of use gen);    *)
(*   s.map[r]   the handle maps, at the address of the payload;            *)
(*   s.open     the timed transactions begun and not ended;                *)
(*   s.n[r]     how many were begun in this use;                           *)
(*   s.peq[r]   lwtr: what waits in nb_timed_peq;                          *)
(*   s.bad      what must not happen and did.                              *)
(***************************************************************************)
EXTENDS Integers, Sequences, FiniteSets, SequencesExt

CONSTANT Recorders   (* 1 .. n.                                            *)

NoTx == [r |-> 0, gen |-> 0, kind |-> "none", n |-> 0]
NoExt == [gen |-> 0, tx |-> 0, owner |-> 0, auto |-> FALSE]

Maps == {"req", "lastReq", "resp", "lastResp", "data", "lastData", "ack"}

Fresh ==
  [ext |-> NoExt, map |-> [r \in Recorders |-> [x \in Maps |-> NoTx]],
   open |-> {}, n |-> [r \in Recorders |-> 0],
   peq |-> [r \in Recorders |-> << >>], bad |-> {}]

Flag(s, what) == [s EXCEPT !.bad = @ \union {what}]

-----------------------------------------------------------------------------
(* Steps of the timed view.                                                *)

Put(s, r, x, h) == [s EXCEPT !.map[r][x] = h]

Begin(s, r, g, x) ==
  LET h == [r |-> r, gen |-> g, kind |-> x, n |-> s.n[r]] IN
  [Put(s, r, x, h) EXCEPT !.open = @ \union {h}, !.n[r] = @ + 1]

End(s, h) ==
  IF h \in s.open THEN [s EXCEPT !.open = @ \ {h}] ELSE Flag(s, "ended twice")

\* end_transaction and erase of an entry that is there.
Close(s, r, x) ==
  IF s.map[r][x] = NoTx THEN s ELSE Put(End(s, s.map[r][x]), r, x, NoTx)

\* The closed transaction is kept as the possible predecessor of the next.
CloseAs(s, r, x, last) ==
  IF s.map[r][x] = NoTx THEN s
  ELSE Put(Close(s, r, x), r, last, s.map[r][x])

\* A relation to a predecessor, which is then forgotten.
LinkTo(s, r, g, last) ==
  IF s.map[r][last].gen = g THEN Put(s, r, last, NoTx)
  ELSE Put(Flag(s, "linked to another use"), r, last, NoTx)

LinkResp(s, r, g) ==
  IF s.map[r]["lastReq"] # NoTx THEN LinkTo(s, r, g, "lastReq")
  ELSE IF s.map[r]["lastResp"] # NoTx THEN LinkTo(s, r, g, "lastResp") ELSE s

OpenResp(s, r, g) == LinkResp(Begin(s, r, g, "resp"), r, g)

BeginReqs == {"BEGIN_REQ", "BEGIN_PARTIAL_REQ"}
EndReqs == {"END_REQ", "END_PARTIAL_REQ"}
BeginResps == {"BEGIN_RESP", "BEGIN_PARTIAL_RESP"}
EndResps == {"END_RESP", "END_PARTIAL_RESP"}
BeginDatas == {"BEGIN_DATA", "BEGIN_PARTIAL_DATA"}
EndDatas == {"END_DATA", "END_PARTIAL_DATA"}

-----------------------------------------------------------------------------
(* record_nb_tx, record_nb_timed, nbtx_cb.                                 *)

\* Mutant: END_PARTIAL_RESP leaves the response open.
AxiScvTimedMutant(s, r, g, ph) ==
  IF ph \in BeginReqs THEN Begin(s, r, g, "req")
  ELSE IF ph \in EndReqs THEN CloseAs(s, r, "req", "lastReq")
  ELSE IF ph \in BeginResps THEN OpenResp(CloseAs(s, r, "req", "lastReq"), r, g)
  ELSE IF ph = "END_RESP" THEN Close(s, r, "resp")
  ELSE s

AxiScvTimed(s, r, g, ph) ==
  IF ph \in BeginReqs THEN Begin(s, r, g, "req")
  ELSE IF ph \in EndReqs THEN CloseAs(s, r, "req", "lastReq")
  ELSE IF ph \in BeginResps THEN OpenResp(CloseAs(s, r, "req", "lastReq"), r, g)
  ELSE IF ph = "END_RESP" THEN Close(s, r, "resp")
  ELSE IF ph = "END_PARTIAL_RESP" THEN CloseAs(s, r, "resp", "lastResp")
  ELSE Flag(s, "assert")

\* One entry of the queue is handled per call.
AxiLwtrTimed(s, r, g, ph) == AxiScvTimed(s, r, g, ph)

\* An ACK is a transaction without duration.
Ack(s, r, g) == Close(Begin(s, r, g, "ack"), r, "ack")

\* The end of a request that is not open is an error here.
AceScvTimed(s, r, g, ph) ==
  IF ph = "ACK" THEN Ack(s, r, g)
  ELSE IF ph \in EndReqs /\ s.map[r]["req"] = NoTx THEN Flag(s, "assert")
  ELSE AxiScvTimed(s, r, g, ph)

AceLwtrTimed(s, r, g, ph) ==
  IF ph = "ACK" THEN Ack(s, r, g) ELSE AxiScvTimed(s, r, g, ph)

\* Data that arrives while the request is open ends the request but leaves it
\* in the map.
OpenData(s, r, g) ==
  LET q == s.map[r]["req"]
      e == IF q = NoTx THEN s ELSE Put(End(s, q), r, "lastReq", q)
      b == Begin(e, r, g, "data")
  IN  IF b.map[r]["lastData"] = NoTx THEN b ELSE LinkTo(b, r, g, "lastData")

\* The first ACK opens, the next one closes.
ToggleAck(s, r, g) ==
  IF s.map[r]["ack"] = NoTx THEN Begin(s, r, g, "ack") ELSE Close(s, r, "ack")

\* A request is a possible predecessor from its begin.  An END_RESP without a
\* response closes the request.
ChiScvTimed(s, r, g, ph, credit) ==
  IF credit THEN IF ph = "BEGIN_REQ" THEN Begin(s, r, g, "req")
                 ELSE Close(s, r, "req")
  ELSE IF ph = "BEGIN_REQ"
    THEN LET b == Begin(s, r, g, "req") IN Put(b, r, "lastReq", b.map[r]["req"])
  ELSE IF ph = "END_REQ" THEN Close(s, r, "req")
  ELSE IF ph = "BEGIN_RESP" THEN OpenResp(Close(s, r, "req"), r, g)
  ELSE IF ph = "END_RESP"
    THEN Close(s, r, IF s.map[r]["resp"] # NoTx THEN "resp" ELSE "req")
  ELSE IF ph \in BeginDatas THEN OpenData(s, r, g)
  ELSE IF ph \in EndDatas THEN Close(s, r, "data")
  ELSE IF ph = "ACK" THEN ToggleAck(s, r, g)
  ELSE Flag(s, "assert")

\* A credit is a transaction without duration.
ChiLwtrTimed(s, r, g, ph, credit) ==
  IF credit THEN s
  ELSE IF ph = "BEGIN_REQ" THEN Begin(s, r, g, "req")
  ELSE IF ph = "END_REQ" THEN CloseAs(s, r, "req", "lastReq")
  ELSE IF ph = "BEGIN_RESP" THEN OpenResp(CloseAs(s, r, "req", "lastReq"), r, g)
  ELSE IF ph = "END_RESP" THEN Close(s, r, "resp")
  ELSE IF ph \in BeginDatas THEN OpenData(s, r, g)
  ELSE IF ph \in EndDatas THEN Close(s, r, "data")
  ELSE IF ph = "ACK" THEN ToggleAck(s, r, g)
  ELSE Flag(s, "assert")
=============================================================================
