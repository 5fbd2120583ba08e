------------------------ MODULE AxiLinkToken_proofs ------------------------
(***************************************************************************)
(* The inductive invariant of AxiLink and what follows from it, for any    *)
(* transactions and any setting of the parameters.                         *)
(*                                                                         *)
(* A transaction moves like a token: its next step is in one place only,   *)
(* one of the queues, slots and FIFOs of the target, or a phase on its way *)
(* over the link.  The state of its state machine says which places these  *)
(* may be, and a place says which states the machine may be in.            *)
(***************************************************************************)
EXTENDS AxiLink_proofs, SeqLemmas

-----------------------------------------------------------------------------
(* The invariant.                                                          *)

\* The time points of t that may be due in state s of its state machine.
DueIn(t, s) ==
  CASE s = "PartialRequest"  -> {"EndPartReqE"}
    [] s = "Request"         -> {"EndReqE"}
    [] s = "WaitForResponse" /\ Cmd[t] = "rd" -> {"BegPartRespE", "BegRespE"}
    [] s = "WaitForResponse" /\ Cmd[t] # "rd" -> {"BegRespE"}
    [] s = "ReadIdle"        -> {"BegPartRespE", "BegRespE"}
    [] OTHER -> {}

\* No time point of t is in the queues q and k.
NotIn(t, q, k) == k[t] = << >> /\ \A e \in Range(q) : e.tx # t

\* No time point of t is scheduled.
NotDue(t) == NotIn(t, evq, clkq)

\* At most one time point of a transaction is in q and k, one that its state f
\* expects.
QueuesOK(q, k, f) ==
  /\ OneEach(q)
  /\ \A e \in Range(q) : e.tp \in DueIn(e.tx, f[e.tx]) /\ k[e.tx] = << >>
  /\ \A t \in Tx : k[t] # << >> =>
       Len(k[t]) = 1 /\ Head(k[t]) \in DueIn(t, f[t])

\* A handle is in use exactly while its state machine is not idle.
ActiveInv == active = {t \in Tx : fsm[t] # "Idle"}

DueInv == QueuesOK(evq, clkq, fsm)

\* A parked request is one of the command, and its answer is not scheduled.
ParkedInv ==
  \A c \in Cmds : stalledTx[c] # NoTx =>
    /\ Cmd[stalledTx[c]] = c
    /\ fsm[stalledTx[c]] \in {"PartialRequest", "Request"}
    /\ stalledTp[c] \in DueIn(stalledTx[c], fsm[stalledTx[c]])
    /\ NotDue(stalledTx[c])

\* A request on its way to the response is in one queue only.
WaitingInv ==
  /\ \A c \in Cmds :
       /\ IsInjective(req2resp[c]) /\ IsInjective(respFifo[c])
       /\ \A t \in Range(req2resp[c]) :
            /\ Cmd[t] = c /\ fsm[t] = "WaitForResponse" /\ NotDue(t)
            /\ t \notin Range(respFifo[c]) /\ rdStart.tx # t
       /\ \A t \in Range(respFifo[c]) :
            /\ Cmd[t] = c /\ fsm[t] = "WaitForResponse" /\ NotDue(t)
            /\ rdStart.tx # t
  /\ rdStart.tx # NoTx =>
       /\ Cmd[rdStart.tx] = "rd" /\ fsm[rdStart.tx] = "WaitForResponse"
       /\ NotDue(rdStart.tx)

\* A response beat that waits for the channel has not been sent.
BeatInv ==
  \A c \in Cmds :
    /\ OneEach(beatFifo[c])
    /\ \A e \in Range(beatFifo[c]) :
         /\ Cmd[e.tx] = c
         /\ \/ /\ e.tp = "BegPartRespE" /\ c = "rd"
               /\ fsm[e.tx] = "PartialResponse"
            \/ e.tp = "BegRespE" /\ fsm[e.tx] = "Response"
         /\ fw[e.tx] = << >> /\ bw[e.tx] \in {<< >>, <<"END_REQ">>}

\* The transport call, the phases on the link and the state machine agree.
\* RestStates: no handshake is under way.
RestStates == {"Idle", "WriteIdle", "WaitAck"}

LinkOK(t) ==
  \/ /\ ini[t] \in {"idle", "id", "chnl"}
     /\ fw[t] = << >> /\ bw[t] = << >> /\ fsm[t] \in RestStates
  \/ /\ ini[t] = "send"
     /\ \/ /\ fw[t] = <<IF LastBeat(t) THEN "BEGIN_REQ" ELSE "BEGIN_PARTIAL_REQ">>
           /\ bw[t] = << >> /\ fsm[t] \in RestStates
        \/ /\ fw[t] = << >> /\ bw[t] = << >>
           /\ fsm[t] \in {IF LastBeat(t) THEN "Request" ELSE "PartialRequest",
                          "WaitAck"}
        \/ /\ fw[t] = << >> /\ bw[t] = <<"END_PARTIAL_REQ">>
           /\ fsm[t] = "WriteIdle" /\ ~LastBeat(t)
        \/ /\ fw[t] = << >> /\ LastBeat(t)
           /\ \/ /\ bw[t] = <<"END_REQ">>
                 /\ fsm[t] \in {"WaitForResponse", "PartialResponse",
                                "Response"}
              \/ /\ bw[t] = <<"END_REQ", "BEGIN_PARTIAL_RESP">>
                 /\ fsm[t] = "PartialResponse"
              \/ /\ bw[t] = <<"END_REQ", "BEGIN_RESP">>
                 /\ fsm[t] = "Response"
  \/ /\ ini[t] = "resp"
     /\ \/ /\ fw[t] = << >> /\ bw[t] = << >>
           /\ fsm[t] \in {"WaitForResponse", "PartialResponse", "ReadIdle",
                          "Response"}
        \/ /\ fw[t] = << >> /\ bw[t] = <<"BEGIN_PARTIAL_RESP">>
           /\ fsm[t] = "PartialResponse"
        \/ /\ fw[t] = << >> /\ bw[t] = <<"BEGIN_RESP">> /\ fsm[t] = "Response"
        \/ /\ fw[t] = <<"END_PARTIAL_RESP">> /\ bw[t] = << >>
           /\ fsm[t] = "PartialResponse"
  \/ /\ ini[t] \in {"ack", "fin"} /\ bw[t] = << >>
     /\ \/ fw[t] = <<"END_RESP">> /\ fsm[t] = "Response"
        \/ fw[t] = << >> /\ fsm[t] \in {"WaitAck", "Idle"}
        \/ fw[t] = <<"ACK">> /\ fsm[t] \in {"WaitAck", "Idle"} /\ ini[t] = "fin"

LinkInv == \A t \in Tx : LinkOK(t)

\* The call whose request beat is on the link holds the channel.
ChannelInv == \A t \in Tx : ini[t] = "send" => HoldsChnl(t)

\* Between start_rd_resp_thread and the end of its response a read owns its id.
OwnsId(t) ==
  /\ Cmd[t] = "rd"
  /\ Responding(t) \/ (fsm[t] = "WaitForResponse" /\ ~NotDue(t))

IdInv ==
  /\ \A t \in Tx : OwnsId(t) => Id[t] \in activeRdId
  /\ \A t, u \in Tx : OwnsId(t) /\ OwnsId(u) /\ Id[t] = Id[u] => t = u

\* Only read responses have several beats.
ReadInv ==
  \A t \in Tx : fsm[t] \in {"PartialResponse", "ReadIdle"} => Cmd[t] = "rd"

TokenInv == /\ ActiveInv /\ DueInv /\ ParkedInv /\ WaitingInv /\ BeatInv
            /\ LinkInv /\ ChannelInv /\ IdInv /\ ReadInv

-----------------------------------------------------------------------------
(* The two queues of scheduled time points.                                *)

\* The entries are those of transactions, and their state is typed.
QueueTypes(q, k) == q \in Seq(Scheduled) /\ k \in [Tx -> Seq(TimePoints)]

\* q and k are the two queues without the entry of t.
LeftOver(t, q, k) ==
  /\ QueueTypes(q, k) /\ QueuesOK(q, k, fsm) /\ NotIn(t, q, k)
  /\ \A u \in Tx \ {t} : NotIn(u, q, k) <=> NotDue(u)

LEMMA EntryType ==
  ASSUME NEW q \in Seq(Scheduled), NEW e \in Range(q)
  PROVE  e \in Scheduled /\ e.tx \in Tx /\ e.tp \in TimePoints
<1>1. PICK i \in DOMAIN q : e = q[i]
  BY DEF Range
<1>2. e \in Scheduled
  BY <1>1
<1> QED
  BY <1>2 DEF Scheduled

LEMMA MemberType ==
  ASSUME NEW S, NEW s \in Seq(S), NEW e \in Range(s)
  PROVE  e \in S
BY DEF Range

\* A transaction without an entry may change its state.
LEMMA DueFrame ==
  ASSUME NEW q, NEW k, QueueTypes(q, k), NEW f, NEW g, NEW t \in Tx,
         QueuesOK(q, k, f), NotIn(t, q, k), \A u \in Tx \ {t} : g[u] = f[u]
  PROVE  QueuesOK(q, k, g)
<1>1. \A e \in Range(q) : e.tx \in Tx \ {t}
  BY EntryType DEF QueueTypes, NotIn
<1> QED
  BY <1>1 DEF QueuesOK, NotIn

LEMMA DueSchedule ==
  ASSUME NEW q, NEW k, QueueTypes(q, k), NEW g, NEW t \in Tx,
         NEW tp \in TimePoints, NEW kinds, QueuesOK(q, k, g), NotIn(t, q, k),
         tp \in DueIn(t, g[t]), Schedule(kinds, tp, t, q, k)
  PROVE  /\ QueuesOK(evq', clkq', g)
         /\ \A u \in Tx \ {t} : NotDue(u)' <=> NotIn(u, q, k)
<1> DEFINE e == [tp |-> tp, tx |-> t]
<1>1. e \in Scheduled /\ e.tx = t /\ e.tp = tp
  BY DEF Scheduled
<1> HIDE DEF e
<1>2. CASE evq' = Append(q, e) /\ clkq' = k
  <2>1. Range(evq') = Range(q) \union {e}
    BY <1>1, <1>2, RangeAppend DEF QueueTypes
  <2>2. OneEach(evq')
    BY <1>1, <1>2, OneEachAppend DEF QueueTypes, QueuesOK, NotIn
  <2>3. QueuesOK(evq', clkq', g)
    BY <1>1, <1>2, <2>1, <2>2 DEF QueuesOK, NotIn
  <2> QED
    BY <1>1, <1>2, <2>1, <2>3 DEF NotDue, NotIn
<1>3. CASE clkq' = [k EXCEPT ![t] = Append(@, tp)] /\ evq' = q
  <2>1. clkq'[t] = <<tp>> /\ \A u \in Tx \ {t} : clkq'[u] = k[u]
    BY <1>3, SeqOne DEF QueueTypes, NotIn
  <2>2. Len(<<tp>>) = 1 /\ Head(<<tp>>) = tp
    OBVIOUS
  <2>3. \A d \in Range(q) : d.tx \in Tx \ {t}
    BY EntryType DEF QueueTypes, NotIn
  <2>4. QueuesOK(evq', clkq', g)
    BY <1>3, <2>1, <2>2, <2>3 DEF QueuesOK
  <2> QED
    BY <1>3, <2>1, <2>4 DEF NotDue, NotIn
<1> QED
  BY <1>2, <1>3 DEF Schedule, e

LEMMA TakeFromEvq ==
  ASSUME TgtTypeOK, DueInv, evq # << >>
  PROVE  /\ LeftOver(Head(evq).tx, Tail(evq), clkq)
         /\ Head(evq).tp \in DueIn(Head(evq).tx, fsm[Head(evq).tx])
         /\ ~NotDue(Head(evq).tx) /\ Head(evq).tx \in Tx
<1> DEFINE e == Head(evq)
           q == Tail(evq)
<1>1. evq \in Seq(Scheduled) /\ clkq \in [Tx -> Seq(TimePoints)]
  BY DEF TgtTypeOK
<1>2. e \in Range(evq) /\ Range(q) \subseteq Range(evq) /\ q \in Seq(Scheduled)
  BY <1>1, RangeTail
<1>3. OneEach(q) /\ \A d \in Range(q) : d.tx # e.tx
  BY <1>1, OneEachTail DEF DueInv, QueuesOK
<1>4. \A d \in Range(evq) : d = e \/ d \in Range(q)
  BY <1>1, RangeHeadTail
<1> HIDE DEF e, q
<1>5. e.tx \in Tx /\ e.tp \in DueIn(e.tx, fsm[e.tx]) /\ clkq[e.tx] = << >>
  BY <1>1, <1>2, EntryType DEF DueInv, QueuesOK
<1>6. QueuesOK(q, clkq, fsm)
  BY <1>2, <1>3 DEF DueInv, QueuesOK
<1>7. NotIn(e.tx, q, clkq)
  BY <1>3, <1>5 DEF NotIn
<1>8. \A u \in Tx \ {e.tx} : NotIn(u, q, clkq) <=> NotDue(u)
  BY <1>2, <1>4 DEF NotIn, NotDue
<1>9. ~NotDue(e.tx)
  BY <1>2 DEF NotIn, NotDue
<1> QED
  BY <1>1, <1>2, <1>5, <1>6, <1>7, <1>8, <1>9 DEF LeftOver, QueueTypes, e, q

LEMMA TakeFromClkq ==
  ASSUME TgtTypeOK, DueInv, NEW t \in Tx, clkq[t] # << >>
  PROVE  /\ LeftOver(t, evq, [clkq EXCEPT ![t] = Tail(@)])
         /\ Head(clkq[t]) \in DueIn(t, fsm[t])
         /\ ~NotDue(t)
<1> DEFINE k == [clkq EXCEPT ![t] = Tail(@)]
<1>1. evq \in Seq(Scheduled) /\ clkq \in [Tx -> Seq(TimePoints)]
  BY DEF TgtTypeOK
<1>2. Len(clkq[t]) = 1 /\ Head(clkq[t]) \in DueIn(t, fsm[t])
  BY DEF DueInv, QueuesOK
<1>3. Tail(clkq[t]) = << >>
  BY <1>1, <1>2, TailOfOne
<1>4. /\ k \in [Tx -> Seq(TimePoints)] /\ k[t] = << >>
      /\ \A u \in Tx \ {t} : k[u] = clkq[u]
  BY <1>1, <1>3
<1> HIDE DEF k
<1>5. \A d \in Range(evq) : d.tx # t
  BY DEF DueInv, QueuesOK
<1>6. QueuesOK(evq, k, fsm)
  <2>1. \A d \in Range(evq) : d.tx \in Tx \ {t}
    BY <1>1, <1>5, EntryType
  <2> QED
    BY <1>4, <2>1 DEF DueInv, QueuesOK
<1>7. NotIn(t, evq, k) /\ ~NotDue(t)
  BY <1>4, <1>5 DEF NotIn, NotDue
<1>8. \A u \in Tx \ {t} : NotIn(u, evq, k) <=> NotDue(u)
  BY <1>4 DEF NotIn, NotDue
<1> QED
  BY <1>1, <1>2, <1>4, <1>6, <1>7, <1>8 DEF LeftOver, QueueTypes, k

-----------------------------------------------------------------------------
(* What a step that is about t leaves alone.                               *)

\* The step does not move the other transactions, nor are they scheduled.
Untouched(t) == \A u \in Tx \ {t} :
  /\ fsm'[u] = fsm[u] /\ fw'[u] = fw[u] /\ bw'[u] = bw[u]
  /\ ini'[u] = ini[u] /\ sent'[u] = sent[u]

Others(t) ==
  Untouched(t) /\ \A u \in Tx \ {t} : NotDue(u)' <=> NotDue(u)

LEMMA ParkedFrame ==
  ASSUME TgtTypeOK, ParkedInv, NEW t \in Tx, Others(t),
         UNCHANGED <<stalledTx, stalledTp>>,
         \A c \in Cmds : stalledTx[c] # t
  PROVE  ParkedInv'
<1> SUFFICES ASSUME NEW c \in Cmds, stalledTx[c] # NoTx
             PROVE  /\ Cmd[stalledTx[c]] = c
                    /\ fsm'[stalledTx[c]] \in {"PartialRequest", "Request"}
                    /\ stalledTp[c] \in DueIn(stalledTx[c], fsm'[stalledTx[c]])
                    /\ NotDue(stalledTx[c])'
  BY DEF ParkedInv
<1>1. stalledTx[c] \in Tx \ {t}
  BY DEF TgtTypeOK
<1>2. /\ fsm'[stalledTx[c]] = fsm[stalledTx[c]]
      /\ NotDue(stalledTx[c])' <=> NotDue(stalledTx[c])
  BY <1>1 DEF Untouched, Others
<1> QED
  BY <1>2 DEF ParkedInv

LEMMA WaitingFrame ==
  ASSUME TgtTypeOK, WaitingInv, NEW t \in Tx, Others(t),
         UNCHANGED <<req2resp, respFifo, rdStart>>, rdStart.tx # t,
         \A c \in Cmds : t \notin Range(req2resp[c]) \union Range(respFifo[c])
  PROVE  WaitingInv'
<1>1. ASSUME NEW u \in Tx \ {t}
      PROVE  fsm'[u] = fsm[u] /\ (NotDue(u)' <=> NotDue(u))
  BY <1>1 DEF Untouched, Others
<1>2. ASSUME NEW c \in Cmds
      PROVE  \A u \in Range(req2resp[c]) \union Range(respFifo[c]) :
               u \in Tx \ {t}
  BY MemberType DEF TgtTypeOK
<1>3. rdStart.tx # NoTx => rdStart.tx \in Tx \ {t}
  BY DEF TgtTypeOK
<1> QED
  BY <1>1, <1>2, <1>3 DEF WaitingInv

LEMMA BeatFrame ==
  ASSUME TgtTypeOK, BeatInv, NEW t \in Tx, Untouched(t), UNCHANGED beatFifo,
         \A c \in Cmds : \A e \in Range(beatFifo[c]) : e.tx # t
  PROVE  BeatInv'
<1>1. ASSUME NEW u \in Tx \ {t}
      PROVE  fsm'[u] = fsm[u] /\ fw'[u] = fw[u] /\ bw'[u] = bw[u]
  BY <1>1 DEF Untouched
<1>2. ASSUME NEW c \in Cmds
      PROVE  \A e \in Range(beatFifo[c]) : e.tx \in Tx \ {t}
  BY EntryType DEF TgtTypeOK
<1> QED
  BY <1>1, <1>2 DEF BeatInv

LEMMA LinkFrame ==
  ASSUME LinkInv, NEW t \in Tx, Untouched(t), LinkOK(t)'
  PROVE  LinkInv'
<1> SUFFICES ASSUME NEW u \in Tx \ {t} PROVE LinkOK(u)'
  BY DEF LinkInv
<1>1. /\ fsm'[u] = fsm[u] /\ fw'[u] = fw[u] /\ bw'[u] = bw[u]
      /\ ini'[u] = ini[u] /\ sent'[u] = sent[u]
  BY DEF Untouched
<1>2. LinkOK(u)
  BY DEF LinkInv
<1>3. LastBeat(u)' <=> LastBeat(u)
  BY <1>1 DEF LastBeat
<1> QED
  BY <1>1, <1>2, <1>3 DEF LinkOK, RestStates

LEMMA IdFrame ==
  ASSUME IdInv, NEW t \in Tx, Others(t), UNCHANGED activeRdId,
         OwnsId(t)' => OwnsId(t)
  PROVE  IdInv'
<1>1. ASSUME NEW u \in Tx PROVE OwnsId(u)' => OwnsId(u)
  <2>1. CASE u # t
    <3>1. fsm'[u] = fsm[u] /\ (NotDue(u)' <=> NotDue(u))
      BY <2>1 DEF Untouched, Others
    <3> QED
      BY <3>1 DEF OwnsId, Responding
  <2> QED
    BY <2>1
<1> QED
  BY <1>1 DEF IdInv

\* No state machine, scheduled time point, slot or id changes.
LEMMA UnmovedFrame ==
  ASSUME TokenInv, UNCHANGED <<active, fsm, evq, clkq, stalledTx, stalledTp,
                               activeRdId>>
  PROVE  /\ ActiveInv' /\ DueInv' /\ ParkedInv' /\ IdInv' /\ ReadInv'
         /\ \A u : NotDue(u)' <=> NotDue(u)
<1>1. \A u : NotDue(u)' <=> NotDue(u)
  BY DEF NotDue, NotIn
<1>2. \A u : OwnsId(u)' <=> OwnsId(u)
  BY <1>1 DEF OwnsId, Responding
<1>3. ActiveInv' /\ DueInv' /\ ReadInv'
  BY DEF TokenInv, ActiveInv, DueInv, QueuesOK, ReadInv
<1>4. ParkedInv'
  BY <1>1 DEF TokenInv, ParkedInv
<1>5. IdInv'
  BY <1>2 DEF TokenInv, IdInv
<1> QED
  BY <1>1, <1>3, <1>4, <1>5

-----------------------------------------------------------------------------
(* The steps of the initiator.                                             *)

LEMMA AppendHead ==
  ASSUME NEW s \in Seq(Tx), NEW e \in Tx, s # << >>
  PROVE  Append(s, e) # << >> /\ Head(Append(s, e)) = Head(s)
OBVIOUS

\* The part of the invariant that a step of the initiator can disturb.
LEMMA IniLinkStep ==
  ASSUME LinkTypeOK, IniTypeOK, LinkInv, NEW t \in Tx,
         \/ Transport(t) \/ GetId(t) \/ SendRequest(t) \/ BeatAccepted(t)
         \/ RequestAccepted(t) \/ ResponseBeat(t) \/ SendAck(t) \/ Finish(t),
         UNCHANGED fsm
  PROVE  LinkOK(t)'
<1>1. /\ fw \in [Tx -> Seq(FwPhases)] /\ bw \in [Tx -> Seq(BwPhases)]
      /\ ini \in [Tx -> IniPcs] /\ sent \in [Tx -> Nat]
  BY DEF LinkTypeOK, IniTypeOK
<1>2. LinkOK(t)
  BY DEF LinkInv
<1>3. CASE Transport(t)
  <2>1. ini[t] = "idle" /\ ini'[t] \in {"id", "chnl"} /\ UNCHANGED <<fw, bw>>
    BY <1>1, <1>3 DEF Transport, Goto, linkVars
  <2> QED
    BY <1>2, <2>1 DEF LinkOK
<1>4. CASE GetId(t)
  <2>1. ini[t] = "id" /\ ini'[t] = "chnl" /\ UNCHANGED <<fw, bw>>
    BY <1>1, <1>4 DEF GetId, Goto, linkVars
  <2> QED
    BY <1>2, <2>1 DEF LinkOK
<1>5. CASE SendRequest(t)
  <2>1. ini[t] = "chnl" /\ ini'[t] = "send" /\ UNCHANGED <<bw, sent>>
    BY <1>1, <1>5 DEF SendRequest, Goto
  <2>2. fw[t] = << >> /\ bw[t] = << >> /\ fsm[t] \in RestStates
    BY <1>2, <2>1 DEF LinkOK
  <2>3. fw'[t] = <<IF LastBeat(t) THEN "BEGIN_REQ" ELSE "BEGIN_PARTIAL_REQ">>
    BY <1>1, <1>5, <2>2, SeqOne DEF SendRequest, Put, FwPhases
  <2>4. LastBeat(t)' <=> LastBeat(t)
    BY <2>1 DEF LastBeat
  <2> QED
    BY <2>1, <2>2, <2>3, <2>4 DEF LinkOK
<1>6. CASE BeatAccepted(t)
  <2>1. /\ ini[t] = "send" /\ ini'[t] = "chnl" /\ UNCHANGED fw
        /\ ~LastBeat(t) /\ bw[t] # << >> /\ bw'[t] = Tail(bw[t])
    BY <1>1, <1>6 DEF BeatAccepted, Goto, Drop
  <2>2. bw[t] = <<"END_PARTIAL_REQ">> /\ fw[t] = << >> /\ fsm[t] = "WriteIdle"
    BY <1>2, <2>1 DEF LinkOK
  <2>3. bw'[t] = << >>
    BY <2>1, <2>2, SeqOne
  <2> QED
    BY <2>1, <2>2, <2>3 DEF LinkOK, RestStates
<1>7. CASE RequestAccepted(t)
  <2>1. /\ ini[t] = "send" /\ ini'[t] = "resp" /\ UNCHANGED fw
        /\ LastBeat(t) /\ bw[t] # << >>
        /\ bw'[t] = IF Head(bw[t]) \in {"BEGIN_PARTIAL_RESP", "BEGIN_RESP"}
                    THEN bw[t] ELSE Tail(bw[t])
    BY <1>1, <1>7 DEF RequestAccepted, Goto, Drop
  <2>2. fw[t] = << >>
    BY <1>2, <2>1 DEF LinkOK
  <2>3. CASE /\ bw[t] = <<"END_REQ">>
             /\ fsm[t] \in {"WaitForResponse", "PartialResponse", "Response"}
    <3>1. bw'[t] = << >>
      BY <2>1, <2>3, SeqOne
    <3> QED
      BY <2>1, <2>2, <2>3, <3>1 DEF LinkOK
  <2>4. CASE /\ bw[t] = <<"END_REQ", "BEGIN_PARTIAL_RESP">>
             /\ fsm[t] = "PartialResponse"
    <3>1. bw'[t] = <<"BEGIN_PARTIAL_RESP">>
      BY <2>1, <2>4, SeqTwo
    <3> QED
      BY <2>1, <2>2, <2>4, <3>1 DEF LinkOK
  <2>5. CASE bw[t] = <<"END_REQ", "BEGIN_RESP">> /\ fsm[t] = "Response"
    <3>1. bw'[t] = <<"BEGIN_RESP">>
      BY <2>1, <2>5, SeqTwo
    <3> QED
      BY <2>1, <2>2, <2>5, <3>1 DEF LinkOK
  <2> QED
    BY <1>2, <2>1, <2>3, <2>4, <2>5 DEF LinkOK
<1>8. CASE ResponseBeat(t)
  <2>1. /\ ini[t] = "resp" /\ bw[t] # << >> /\ bw'[t] = Tail(bw[t])
    BY <1>1, <1>8 DEF ResponseBeat, Drop
  <2>2. CASE bw[t] = <<"BEGIN_PARTIAL_RESP">> /\ fsm[t] = "PartialResponse"
    <3>1. bw'[t] = << >> /\ Head(bw[t]) = "BEGIN_PARTIAL_RESP"
      BY <2>1, <2>2, SeqOne
    <3>2. fw[t] = << >>
      BY <1>2, <2>1, <2>2 DEF LinkOK
    <3>3. fw'[t] = <<"END_PARTIAL_RESP">> /\ ini'[t] = "resp"
      BY <1>1, <1>8, <2>1, <3>1, <3>2, SeqOne DEF ResponseBeat, Put, FwPhases
    <3> QED
      BY <2>2, <3>1, <3>3 DEF LinkOK
  <2>3. CASE bw[t] = <<"BEGIN_RESP">> /\ fsm[t] = "Response"
    <3>1. bw'[t] = << >> /\ Head(bw[t]) = "BEGIN_RESP"
      BY <2>1, <2>3, SeqOne
    <3>2. fw[t] = << >>
      BY <1>2, <2>1, <2>3 DEF LinkOK
    <3>3. fw'[t] = <<"END_RESP">> /\ ini'[t] \in {"ack", "fin"}
      BY <1>1, <1>8, <3>1, <3>2, SeqOne
      DEF ResponseBeat, Put, FwPhases, AfterResponse
    <3> QED
      BY <2>3, <3>1, <3>3 DEF LinkOK
  <2> QED
    BY <1>2, <2>1, <2>2, <2>3 DEF LinkOK
<1>9. CASE SendAck(t)
  <2>1. fw[t] = << >> /\ ini[t] = "ack" /\ ini'[t] = "fin" /\ UNCHANGED bw
    BY <1>1, <1>9 DEF SendAck, Goto
  <2>2. fw'[t] = <<"ACK">>
    BY <1>1, <1>9, <2>1, SeqOne DEF SendAck, Put, FwPhases
  <2> QED
    BY <1>2, <2>1, <2>2 DEF LinkOK
<1>10. CASE Finish(t)
  <2>1. /\ fw[t] = << >> /\ ini[t] = "fin" /\ ini'[t] = "idle"
        /\ UNCHANGED <<fw, bw>>
    BY <1>1, <1>10 DEF Finish, Goto, linkVars
  <2> QED
    BY <1>2, <2>1 DEF LinkOK, RestStates
<1> QED
  BY <1>3, <1>4, <1>5, <1>6, <1>7, <1>8, <1>9, <1>10

\* The channel semaphore: a caller is let in at the head of the list only.
LEMMA IniChannelStep ==
  ASSUME IniTypeOK, ChannelInv, NEW t \in Tx,
         \/ Transport(t) \/ GetId(t) \/ SendRequest(t) \/ BeatAccepted(t)
         \/ RequestAccepted(t) \/ ResponseBeat(t) \/ SendAck(t) \/ Finish(t)
  PROVE  ChannelInv'
<1>1. /\ ini \in [Tx -> IniPcs] /\ chnl \in [Cmds -> Seq(Tx)]
      /\ \A u \in Tx : Cmd[u] \in Cmds
  BY ChannelAssumption DEF IniTypeOK, ChannelAssumption
<1>2. \A u \in Tx : ini[u] = "send" =>
        chnl[Cmd[u]] # << >> /\ Head(chnl[Cmd[u]]) = u
  BY DEF ChannelInv, HoldsChnl
<1> SUFFICES ASSUME NEW u \in Tx, ini'[u] = "send"
             PROVE  chnl'[Cmd[u]] # << >> /\ Head(chnl'[Cmd[u]]) = u
  BY DEF ChannelInv, HoldsChnl
<1>3. CASE Transport(t) \/ GetId(t)
  <2>1. ini[u] = "send"
    BY <1>1, <1>3 DEF Transport, GetId, Goto
  <2>2. /\ chnl[Cmd[u]] \in Seq(Tx) /\ chnl[Cmd[u]] # << >>
        /\ Head(chnl[Cmd[u]]) = u
    BY <1>1, <1>2, <2>1
  <2>3. chnl' = chnl \/ chnl' = [chnl EXCEPT ![Cmd[t]] = Append(@, t)]
    BY <1>3 DEF Transport, GetId
  <2>4. chnl'[Cmd[u]] = chnl[Cmd[u]] \/ chnl'[Cmd[u]] = Append(chnl[Cmd[u]], t)
    BY <1>1, <2>3
  <2> QED
    BY <2>2, <2>4, AppendHead
<1>4. CASE SendRequest(t)
  <2>1. HoldsChnl(t) /\ UNCHANGED chnl /\ (u = t \/ ini[u] = "send")
    BY <1>1, <1>4 DEF SendRequest, Goto
  <2> QED
    BY <1>2, <2>1 DEF HoldsChnl
<1>5. CASE BeatAccepted(t) \/ RequestAccepted(t)
  <2>1. ini[t] = "send" /\ ini[u] = "send" /\ u # t
    BY <1>1, <1>5 DEF BeatAccepted, RequestAccepted, Goto
  <2>2. Cmd[u] # Cmd[t]
    BY <1>2, <2>1
  <2>3. CASE Cmd[t] = "wr" \/ RequestAccepted(t)
    <3>1. chnl'[Cmd[u]] = chnl[Cmd[u]]
      BY <1>1, <1>5, <2>2, <2>3 DEF BeatAccepted, RequestAccepted
    <3> QED
      BY <1>2, <2>1, <3>1
  <2>4. CASE Cmd[t] # "wr" /\ BeatAccepted(t)
    BY <1>1, <2>4 DEF BeatAccepted, LastBeat, Cmds
  <2> QED
    BY <1>5, <2>3, <2>4
<1>6. CASE ResponseBeat(t) \/ SendAck(t) \/ Finish(t)
  <2>1. ini[u] = "send" /\ UNCHANGED chnl
    BY <1>1, <1>6 DEF ResponseBeat, SendAck, Finish, Goto, AfterResponse
  <2> QED
    BY <1>2, <2>1
<1> QED
  BY <1>3, <1>4, <1>5, <1>6

LEMMA IniTokenStep ==
  ASSUME TypeOK, TokenInv, IniNext, UNCHANGED tgtVars
  PROVE  TokenInv'
<1> USE DEF TypeOK, TokenInv
<1> PICK t \in Tx : \/ Transport(t) \/ GetId(t) \/ SendRequest(t)
                    \/ BeatAccepted(t) \/ RequestAccepted(t)
                    \/ ResponseBeat(t) \/ SendAck(t) \/ Finish(t)
  BY DEF IniNext
<1>1. UNCHANGED <<active, fsm, evq, clkq, stalledTx, stalledTp, req2resp,
                  respFifo, rdStart, activeRdId, beatFifo>>
  BY DEF tgtVars
<1>2. /\ ActiveInv' /\ DueInv' /\ ParkedInv' /\ IdInv' /\ ReadInv'
      /\ \A u : NotDue(u)' <=> NotDue(u)
  BY <1>1, UnmovedFrame
<1>3. WaitingInv'
  BY <1>1, <1>2 DEF WaitingInv
<1>4. \A u \in Tx \ {t} : /\ fw'[u] = fw[u] /\ bw'[u] = bw[u]
                          /\ ini'[u] = ini[u] /\ sent'[u] = sent[u]
  <2> USE DEF LinkTypeOK, IniTypeOK, Goto, Put, Drop, linkVars
  <2>1. \A u \in Tx \ {t} : fw'[u] = fw[u] /\ bw'[u] = bw[u]
    BY DEF Transport, GetId, SendRequest, BeatAccepted, RequestAccepted,
           ResponseBeat, SendAck, Finish
  <2>2. \A u \in Tx \ {t} : ini'[u] = ini[u] /\ sent'[u] = sent[u]
    BY DEF Transport, GetId, SendRequest, BeatAccepted, RequestAccepted,
           ResponseBeat, SendAck, Finish
  <2> QED
    BY <2>1, <2>2
<1>5. Others(t)
  BY <1>1, <1>4 DEF Untouched, Others, NotDue, NotIn
<1>6. LinkInv'
  BY <1>1, <1>5, IniLinkStep, LinkFrame DEF Others
<1>7. ChannelInv'
  BY IniChannelStep
<1>8. BeatInv'
  <2>1. ASSUME NEW c \in Cmds, NEW e \in Range(beatFifo[c]), e.tx = t
        PROVE  fw'[t] = << >> /\ bw'[t] \in {<< >>, <<"END_REQ">>}
    <3>1. /\ fw[t] = << >> /\ bw[t] \in {<< >>, <<"END_REQ">>}
          /\ fsm[t] \in {"PartialResponse", "Response"}
      BY <2>1 DEF BeatInv
    <3>2. LinkOK(t)
      BY DEF LinkInv
    <3>3. CASE ini[t] = "send"
      <4>1. /\ bw[t] = <<"END_REQ">> /\ LastBeat(t)
        BY <3>1, <3>2, <3>3 DEF LinkOK, RestStates
      <4>2. RequestAccepted(t)
        BY <3>3, <4>1 DEF Transport, GetId, SendRequest, BeatAccepted,
             ResponseBeat, SendAck, Finish, Goto
      <4>3. bw'[t] = << >> /\ UNCHANGED fw
        BY <4>1, <4>2, SeqOne DEF RequestAccepted, Drop, LinkTypeOK
      <4> QED
        BY <3>1, <4>3
    <3>4. CASE ini[t] # "send"
      <4>1. ini[t] = "resp" /\ bw[t] = << >>
        BY <3>1, <3>2, <3>4 DEF LinkOK, RestStates
      <4> QED
        BY <4>1 DEF Transport, GetId, SendRequest, BeatAccepted,
             RequestAccepted, ResponseBeat, SendAck, Finish, Goto
    <3> QED
      BY <3>3, <3>4
  <2>2. \A c \in Cmds : \A e \in Range(beatFifo[c]) : e.tx \in Tx
    BY EntryType DEF TgtTypeOK
  <2>3. ASSUME NEW c \in Cmds, NEW e \in Range(beatFifo[c])
        PROVE  fw'[e.tx] = << >> /\ bw'[e.tx] \in {<< >>, <<"END_REQ">>}
    <3>1. CASE e.tx = t
      BY <2>1, <3>1
    <3>2. CASE e.tx # t
      BY <1>4, <2>2, <3>2 DEF BeatInv
    <3> QED
      BY <3>1, <3>2
  <2> QED
    BY <1>1, <2>3 DEF BeatInv
<1> QED
  BY <1>2, <1>3, <1>6, <1>7, <1>8

-----------------------------------------------------------------------------
(* The steps of the target's threads.                                      *)

LEMMA ProcessReq2RespToken ==
  ASSUME TypeOK, TokenInv, UNCHANGED iniVars, NEW t \in Tx, ProcessReq2Resp(t)
  PROVE  TokenInv'
<1> USE DEF TypeOK, TokenInv
<1>1. UNCHANGED <<active, fsm, evq, clkq, stalledTx, stalledTp, rdStart,
                  activeRdId, beatFifo, fw, bw, ini, sent, chnl>>
  BY DEF ProcessReq2Resp, linkVars, fsmVars, admitVars, iniVars
<1>2. /\ ActiveInv' /\ DueInv' /\ ParkedInv' /\ IdInv' /\ ReadInv'
      /\ \A u : NotDue(u)' <=> NotDue(u)
  BY <1>1, UnmovedFrame
<1>3. LinkInv' /\ ChannelInv' /\ BeatInv'
  BY <1>1 DEF LinkInv, LinkOK, LastBeat, ChannelInv, HoldsChnl, BeatInv
<1>4. WaitingInv'
  <2> DEFINE c == Cmd[t]
  <2>1. c \in Cmds /\ req2resp[c] \in Seq(Tx) /\ respFifo[c] = << >>
    BY ChannelAssumption DEF ChannelAssumption, TgtTypeOK, ProcessReq2Resp
  <2>2. PICK i \in Done(c) :
          /\ req2resp[c][i] = t
          /\ req2resp' = [req2resp EXCEPT ![c] = RemoveAt(@, i)]
    BY DEF ProcessReq2Resp
  <2>3. i \in DOMAIN req2resp[c] /\ i \in 1..Len(req2resp[c])
    BY <2>1, <2>2 DEF Done
  <2>4. t \in Range(req2resp[c])
    BY <2>2, <2>3 DEF Range
  <2>5. /\ IsInjective(req2resp'[c])
        /\ Range(req2resp'[c]) \subseteq Range(req2resp[c]) \ {t}
    <3>1. req2resp'[c] = RemoveAt(req2resp[c], i)
      BY <2>1, <2>2 DEF TgtTypeOK
    <3>2. IsInjective(req2resp[c])
      BY <2>1 DEF WaitingInv
    <3> QED
      BY <2>1, <2>2, <2>3, <3>1, <3>2, InjectiveRemoveAt
  <2>6. respFifo'[c] = << t >>
    BY <2>1 DEF ProcessReq2Resp, TgtTypeOK
  <2>7. IsInjective(<< t >>) /\ Range(<< t >>) = {t}
    BY DEF IsInjective, Range
  <2>8. \A d \in Cmds : d # c => /\ req2resp'[d] = req2resp[d]
                                 /\ respFifo'[d] = respFifo[d]
    BY <2>2 DEF ProcessReq2Resp, TgtTypeOK
  <2>9. \A u \in Tx : NotDue(u)' <=> NotDue(u)
    BY <1>2
  <2>10. \A d \in Cmds :
           \A u \in Range(req2resp[d]) \union Range(respFifo[d]) : u \in Tx
    BY MemberType DEF TgtTypeOK
  <2> HIDE DEF c
  <2>11. ASSUME NEW d \in Cmds
         PROVE  /\ IsInjective(req2resp'[d]) /\ IsInjective(respFifo'[d])
                /\ \A u \in Range(req2resp'[d]) :
                     /\ Cmd[u] = d /\ fsm[u] = "WaitForResponse" /\ NotDue(u)
                     /\ u \notin Range(respFifo'[d]) /\ rdStart.tx # u
                /\ \A u \in Range(respFifo'[d]) :
                     /\ Cmd[u] = d /\ fsm[u] = "WaitForResponse" /\ NotDue(u)
                     /\ rdStart.tx # u
    <3>1. CASE d = c
      BY <2>1, <2>4, <2>5, <2>6, <2>7, <3>1 DEF WaitingInv
    <3>2. CASE d # c
      BY <2>8, <3>2 DEF WaitingInv
    <3> QED
      BY <3>1, <3>2
  <2>12. \A d \in Cmds :
           \A u \in Range(req2resp'[d]) \union Range(respFifo'[d]) : u \in Tx
    <3>1. ASSUME NEW d \in Cmds
          PROVE  /\ Range(req2resp'[d]) \subseteq Tx
                 /\ Range(respFifo'[d]) \subseteq Tx
      BY <2>5, <2>6, <2>7, <2>8, <2>10
    <3> QED
      BY <3>1
  <2>13. rdStart.tx # NoTx => rdStart.tx \in Tx
    BY DEF TgtTypeOK
  <2> QED
    BY <1>1, <2>9, <2>11, <2>12, <2>13 DEF WaitingInv
<1> QED
  BY <1>2, <1>3, <1>4

LEMMA StartRdReadToken ==
  ASSUME TypeOK, TokenInv, UNCHANGED iniVars, StartRdRead
  PROVE  TokenInv'
<1> USE DEF TypeOK, TokenInv, Cmds
<1>1. UNCHANGED <<active, fsm, evq, clkq, stalledTx, stalledTp, req2resp,
                  activeRdId, beatFifo, fw, bw, ini, sent, chnl>>
  BY DEF StartRdRead, startRdRest, linkVars, fsmVars, admitVars, iniVars
<1>2. /\ ActiveInv' /\ DueInv' /\ ParkedInv' /\ IdInv' /\ ReadInv'
      /\ \A u : NotDue(u)' <=> NotDue(u)
  BY <1>1, UnmovedFrame
<1>3. LinkInv' /\ ChannelInv' /\ BeatInv'
  BY <1>1 DEF LinkInv, LinkOK, LastBeat, ChannelInv, HoldsChnl, BeatInv
<1>4. WaitingInv'
  <2> DEFINE t == Head(respFifo["rd"])
  <2>1. respFifo["rd"] \in Seq(Tx) /\ respFifo["rd"] # << >>
    BY DEF StartRdRead, TgtTypeOK
  <2>2. /\ t \in Range(respFifo["rd"]) /\ t \in Tx
        /\ IsInjective(Tail(respFifo["rd"]))
        /\ Range(Tail(respFifo["rd"])) \subseteq Range(respFifo["rd"]) \ {t}
    BY <2>1, RangeTail, InjectiveTail DEF WaitingInv
  <2>3. /\ respFifo'["rd"] = Tail(respFifo["rd"])
        /\ respFifo'["wr"] = respFifo["wr"]
        /\ rdStart'.tx = t
    BY DEF StartRdRead, TgtTypeOK
  <2>4. /\ Cmd[t] = "rd" /\ fsm[t] = "WaitForResponse" /\ NotDue(t)
        /\ t \notin Range(req2resp["rd"])
    BY <2>2 DEF WaitingInv
  <2>5. t \notin Range(req2resp["wr"]) /\ t \notin Range(respFifo["wr"])
    BY <2>4 DEF WaitingInv
  <2>6. \A u : NotDue(u)' <=> NotDue(u)
    BY <1>2
  <2> HIDE DEF t
  <2> QED
    BY <1>1, <2>2, <2>3, <2>4, <2>5, <2>6 DEF WaitingInv
<1> QED
  BY <1>2, <1>3, <1>4

LEMMA StartRdSemToken ==
  ASSUME TypeOK, TokenInv, UNCHANGED iniVars, StartRdSem
  PROVE  TokenInv'
<1> USE DEF TypeOK, TokenInv
<1>1. UNCHANGED <<active, fsm, evq, clkq, stalledTx, stalledTp, req2resp,
                  respFifo, activeRdId, beatFifo, fw, bw, ini, sent, chnl>>
  BY DEF StartRdSem, startRdRest, linkVars, fsmVars, admitVars, iniVars
<1>2. /\ ActiveInv' /\ DueInv' /\ ParkedInv' /\ IdInv' /\ ReadInv'
      /\ \A u : NotDue(u)' <=> NotDue(u)
  BY <1>1, UnmovedFrame
<1>3. LinkInv' /\ ChannelInv' /\ BeatInv'
  BY <1>1 DEF LinkInv, LinkOK, LastBeat, ChannelInv, HoldsChnl, BeatInv
<1>4. WaitingInv'
  <2>1. rdStart'.tx = rdStart.tx
    BY DEF StartRdSem
  <2> QED
    BY <1>1, <1>2, <2>1 DEF WaitingInv
<1> QED
  BY <1>2, <1>3, <1>4

LEMMA PushBackOverdueToken ==
  ASSUME TypeOK, TokenInv, UNCHANGED iniVars, PushBackOverdue
  PROVE  TokenInv'
<1> USE DEF TypeOK, TokenInv
<1>1. UNCHANGED <<active, fsm, evq, clkq, stalledTx, stalledTp, req2resp,
                  rdStart, respFifo, activeRdId, beatFifo, fw, bw, ini, sent, chnl>>
  BY DEF PushBackOverdue, linkVars, fsmVars, admitVars, iniVars
<1>2. /\ ActiveInv' /\ DueInv' /\ ParkedInv' /\ IdInv' /\ ReadInv'
      /\ \A u : NotDue(u)' <=> NotDue(u)
  BY <1>1, UnmovedFrame
<1>3. LinkInv' /\ ChannelInv' /\ BeatInv'
  BY <1>1 DEF LinkInv, LinkOK, LastBeat, ChannelInv, HoldsChnl, BeatInv
<1>4. WaitingInv'
  BY <1>1, <1>2 DEF WaitingInv
<1> QED
  BY <1>2, <1>3, <1>4

\* A transaction of which nothing can be due is in no queue.
LEMMA NothingDue ==
  ASSUME TgtTypeOK, DueInv, NEW t \in Tx, DueIn(t, fsm[t]) = {}
  PROVE  NotDue(t) /\ LeftOver(t, evq, clkq)
<1>1. evq \in Seq(Scheduled) /\ clkq \in [Tx -> Seq(TimePoints)]
  BY DEF TgtTypeOK
<1>2. NotDue(t)
  BY DEF DueInv, QueuesOK, NotDue, NotIn
<1> QED
  BY <1>1, <1>2 DEF LeftOver, QueueTypes, DueInv, NotDue

\* The next time point of t is scheduled, nothing else changes in the queues.
LEMMA ScheduleFrame ==
  ASSUME TgtTypeOK, DueInv, NEW t \in Tx, NotDue(t),
         NEW tp \in DueIn(t, fsm[t]), NEW kinds, Schedule(kinds, tp, t, evq, clkq),
         UNCHANGED <<fsm, fw, bw, ini, sent>>
  PROVE  DueInv' /\ Others(t)
<1>1. QueueTypes(evq, clkq) /\ tp \in TimePoints
  BY DEF TgtTypeOK, QueueTypes, DueIn, TimePoints
<1>2. /\ QueuesOK(evq', clkq', fsm)
      /\ \A u \in Tx \ {t} : NotDue(u)' <=> NotIn(u, evq, clkq)
  BY <1>1, DueSchedule DEF DueInv, NotDue
<1>3. DueInv'
  BY <1>2 DEF DueInv
<1>4. \A u \in Tx \ {t} : NotDue(u)' <=> NotDue(u)
  BY <1>2 DEF NotDue
<1> QED
  BY <1>3, <1>4 DEF Untouched, Others

LEMMA StartRdBeginToken ==
  ASSUME TypeOK, TokenInv, UNCHANGED iniVars, StartRdBegin
  PROVE  TokenInv'
<1> USE DEF TypeOK, TokenInv
<1> DEFINE t  == rdStart.tx
           tp == IF BurstLen[t] = 1 THEN "BegRespE" ELSE "BegPartRespE"
<1>1. UNCHANGED <<active, fsm, stalledTx, stalledTp, req2resp, respFifo,
                  beatFifo, fw, bw, ini, sent, chnl>>
  BY DEF StartRdBegin, startRdRest, linkVars, fsmVars, admitVars, iniVars
<1>2. /\ t \in Tx /\ t # NoTx /\ Id[t] \notin activeRdId
      /\ Schedule(BeatDelays, tp, t, evq, clkq)
      /\ activeRdId' = activeRdId \union {Id[t]} /\ rdStart'.tx = NoTx
  BY ChannelAssumption DEF ChannelAssumption, StartRdBegin, IdFree, TgtTypeOK
<1>3. Cmd[t] = "rd" /\ fsm[t] = "WaitForResponse" /\ NotDue(t)
  BY <1>2 DEF WaitingInv
<1>4. tp \in DueIn(t, fsm[t])
  BY <1>3 DEF DueIn
<1> HIDE DEF tp
<1>5. DueInv' /\ Others(t)
  BY <1>1, <1>2, <1>3, <1>4, ScheduleFrame
<1>6. ActiveInv' /\ LinkInv' /\ ChannelInv' /\ ReadInv'
  BY <1>1
  DEF ActiveInv, ReadInv, LinkInv, LinkOK, LastBeat, ChannelInv, HoldsChnl
<1>7. ParkedInv'
  BY <1>1, <1>2, <1>3, <1>5, ParkedFrame DEF ParkedInv
<1>8. BeatInv'
  BY <1>1, <1>2, <1>3, <1>5, BeatFrame DEF BeatInv, Others
<1>9. WaitingInv'
  <2>1. ASSUME NEW c \in Cmds
        PROVE  \A u \in Range(req2resp[c]) \union Range(respFifo[c]) :
                 u \in Tx \ {t}
    BY MemberType DEF TgtTypeOK, WaitingInv
  <2>2. \A u \in Tx \ {t} : NotDue(u)' <=> NotDue(u)
    BY <1>5 DEF Untouched, Others
  <2>3. \A u \in Tx : NoTx # u
    BY ChannelAssumption DEF ChannelAssumption
  <2> QED
    BY <1>1, <1>2, <2>1, <2>2, <2>3 DEF WaitingInv
<1>10. IdInv'
  <2>1. \A u \in Tx \ {t} : OwnsId(u)' <=> OwnsId(u)
    BY <1>1, <1>5 DEF OwnsId, Responding, Untouched, Others
  <2>2. \A u \in Tx : OwnsId(u) => Id[u] \in activeRdId /\ Id[u] # Id[t]
    BY <1>2 DEF IdInv
  <2> QED
    BY <1>2, <2>1, <2>2 DEF IdInv
<1> QED
  BY <1>5, <1>6, <1>7, <1>8, <1>9, <1>10

LEMMA StartWrToken ==
  ASSUME TypeOK, TokenInv, UNCHANGED iniVars, StartWr
  PROVE  TokenInv'
<1> USE DEF TypeOK, TokenInv
<1>1. UNCHANGED <<active, fsm, stalledTx, stalledTp, req2resp, beatFifo,
                  rdStart, activeRdId, fw, bw, ini, sent, chnl>>
  BY DEF StartWr, startRdRest, linkVars, fsmVars, admitVars, iniVars
<1>2. respFifo["wr"] \in Seq(Tx) /\ respFifo["wr"] # << >>
  BY DEF StartWr, TgtTypeOK, Cmds
<1>0. PICK t \in Tx : t = Head(respFifo["wr"]) /\ t # NoTx
  BY <1>2, ChannelAssumption DEF ChannelAssumption
<1>3. /\ t \in Range(respFifo["wr"])
      /\ IsInjective(Tail(respFifo["wr"]))
      /\ Range(Tail(respFifo["wr"])) \subseteq Range(respFifo["wr"]) \ {t}
  BY <1>0, <1>2, RangeTail, InjectiveTail DEF WaitingInv, Cmds
<1>4. /\ respFifo'["wr"] = Tail(respFifo["wr"])
      /\ respFifo'["rd"] = respFifo["rd"]
      /\ Schedule({"zero"}, "BegRespE", t, evq, clkq)
  BY <1>0 DEF StartWr, TgtTypeOK, Cmds
<1>5. /\ Cmd[t] = "wr" /\ fsm[t] = "WaitForResponse" /\ NotDue(t)
      /\ t \notin Range(req2resp["wr"]) /\ rdStart.tx # t
  BY <1>3 DEF WaitingInv, Cmds
<1>6. t \notin Range(req2resp["rd"]) /\ t \notin Range(respFifo["rd"])
  BY <1>5 DEF WaitingInv, Cmds
<1>7. "BegRespE" \in DueIn(t, fsm[t])
  BY <1>5 DEF DueIn
<1>8. DueInv' /\ Others(t)
  BY <1>1, <1>3, <1>4, <1>5, <1>7, ScheduleFrame
<1>9. ActiveInv' /\ LinkInv' /\ ChannelInv' /\ ReadInv'
  BY <1>1
  DEF ActiveInv, ReadInv, LinkInv, LinkOK, LastBeat, ChannelInv, HoldsChnl
<1>10. ParkedInv'
  BY <1>0, <1>1, <1>5, <1>8, ParkedFrame DEF ParkedInv
<1>11. BeatInv'
  BY <1>1, <1>3, <1>5, <1>8, BeatFrame DEF BeatInv, Others
<1>12. IdInv'
  <2>1. ~OwnsId(t)'
    BY <1>5 DEF OwnsId
  <2> QED
    BY <1>1, <1>3, <1>8, <2>1, IdFrame
<1>13. WaitingInv'
  <2>1. ASSUME NEW c \in Cmds
        PROVE  \A u \in Range(req2resp[c]) \union Range(respFifo'[c]) :
                 u \in Tx \ {t}
    BY <1>3, <1>4, <1>5, <1>6, MemberType DEF TgtTypeOK, Cmds
  <2>2. \A u \in Tx \ {t} : NotDue(u)' <=> NotDue(u)
    BY <1>8 DEF Untouched, Others
  <2>3. \A c \in Cmds : /\ IsInjective(respFifo'[c])
                        /\ Range(respFifo'[c]) \subseteq Range(respFifo[c])
    BY <1>3, <1>4 DEF WaitingInv, Cmds
  <2>4. rdStart.tx # NoTx => rdStart.tx \in Tx \ {t}
    BY <1>5 DEF TgtTypeOK
  <2> QED
    BY <1>1, <2>1, <2>2, <2>3, <2>4 DEF WaitingInv
<1> QED
  BY <1>8, <1>9, <1>10, <1>11, <1>12, <1>13

LEMMA SendRespBeatToken ==
  ASSUME TypeOK, TokenInv, UNCHANGED iniVars, NEW c \in Cmds, SendRespBeat(c)
  PROVE  TokenInv'
<1> USE DEF TypeOK, TokenInv
<1> DEFINE e == Head(beatFifo[c])
           phase == IF c = "wr" \/ e.tp = "BegRespE" THEN "BEGIN_RESP"
                    ELSE "BEGIN_PARTIAL_RESP"
<1>1. UNCHANGED <<active, fsm, evq, clkq, stalledTx, stalledTp, req2resp,
                  respFifo, rdStart, activeRdId, fw, ini, sent, chnl>>
  BY DEF SendRespBeat, fsmVars, admitVars, respondVars, iniVars
<1>2. /\ beatFifo[c] \in Seq(Scheduled) /\ beatFifo[c] # << >>
      /\ bw \in [Tx -> Seq(BwPhases)]
  BY DEF SendRespBeat, TgtTypeOK, LinkTypeOK
<1>0. PICK t \in Tx : t = e.tx
  BY <1>2, EntryType, RangeTail
<1>3. /\ e \in Range(beatFifo[c])
      /\ Range(Tail(beatFifo[c])) \subseteq Range(beatFifo[c])
      /\ OneEach(Tail(beatFifo[c]))
      /\ \A d \in Range(Tail(beatFifo[c])) : d.tx # t
  BY <1>0, <1>2, RangeTail, OneEachTail DEF BeatInv
<1>4. /\ Cmd[t] = c /\ fw[t] = << >> /\ bw[t] \in {<< >>, <<"END_REQ">>}
      /\ \/ phase = "BEGIN_PARTIAL_RESP" /\ fsm[t] = "PartialResponse"
         \/ phase = "BEGIN_RESP" /\ fsm[t] = "Response"
  BY <1>0, <1>3 DEF BeatInv
<1>5. /\ bw' = [bw EXCEPT ![t] = Append(@, phase)]
      /\ beatFifo' = [beatFifo EXCEPT ![c] = Tail(@)]
  BY <1>0 DEF SendRespBeat, Put
<1>6. phase \in BwPhases /\ "END_REQ" \in BwPhases
  BY DEF BwPhases
<1> HIDE DEF e, phase
<1>7. /\ bw[t] = << >> => bw'[t] = <<phase>>
      /\ bw[t] = <<"END_REQ">> => bw'[t] = <<"END_REQ", phase>>
      /\ \A u \in Tx \ {t} : bw'[u] = bw[u]
  BY <1>2, <1>3, <1>5, <1>6, SeqOne, SeqTwo, ZenonT(40)
<1>8. /\ ActiveInv' /\ DueInv' /\ ParkedInv' /\ IdInv' /\ ReadInv'
      /\ \A u : NotDue(u)' <=> NotDue(u)
  BY <1>1, UnmovedFrame
<1>9. WaitingInv' /\ Others(t)
  BY <1>1, <1>7, <1>8 DEF WaitingInv, Untouched, Others
<1>10. ChannelInv'
  BY <1>1 DEF ChannelInv, HoldsChnl
<1>11. LinkOK(t)'
  <2>1. LinkOK(t)
    BY <1>3 DEF LinkInv
  <2>2. CASE bw[t] = << >>
    <3>1. ini[t] = "resp"
      BY <1>4, <2>1, <2>2 DEF LinkOK, RestStates
    <3> QED
      BY <1>1, <1>4, <1>7, <2>2, <3>1 DEF LinkOK
  <2>3. CASE bw[t] = <<"END_REQ">>
    <3>1. ini[t] = "send" /\ LastBeat(t)
      BY <1>4, <2>1, <2>3, SeqOne DEF LinkOK, RestStates
    <3>2. LastBeat(t)'
      BY <1>1, <3>1 DEF LastBeat
    <3> QED
      BY <1>1, <1>4, <1>7, <2>3, <3>1, <3>2 DEF LinkOK
  <2> QED
    BY <1>4, <2>2, <2>3
<1>12. LinkInv'
  BY <1>3, <1>9, <1>11, LinkFrame DEF Others
<1>13. BeatInv'
  <2>1. \A d \in Cmds : \A x \in Range(beatFifo'[d]) :
          x \in Range(beatFifo[d]) /\ x.tx \in Tx \ {t}
    <3> SUFFICES ASSUME NEW d \in Cmds
                 PROVE  \A x \in Range(beatFifo'[d]) :
                          x \in Range(beatFifo[d]) /\ x.tx \in Tx \ {t}
      OBVIOUS
    <3>1. CASE d = c
      <4>1. beatFifo'[c] = Tail(beatFifo[c])
        BY <1>5 DEF TgtTypeOK
      <4>2. \A x \in Range(beatFifo[c]) : x.tx \in Tx
        BY <1>2, EntryType
      <4> QED
        BY <1>3, <3>1, <4>1, <4>2
    <3>2. CASE d # c
      <4>1. beatFifo'[d] = beatFifo[d]
        BY <1>5, <3>2 DEF TgtTypeOK
      <4>2. \A x \in Range(beatFifo[d]) : x.tx \in Tx
        BY EntryType DEF TgtTypeOK
      <4>3. \A x \in Range(beatFifo[d]) : Cmd[x.tx] = d
        BY DEF BeatInv
      <4> QED
        BY <1>4, <3>2, <4>1, <4>2, <4>3
    <3> QED
      BY <3>1, <3>2
  <2>2. \A d \in Cmds : OneEach(beatFifo'[d])
    BY <1>3, <1>5 DEF BeatInv, TgtTypeOK
  <2> QED
    BY <1>1, <1>7, <2>1, <2>2 DEF BeatInv
<1> QED
  BY <1>8, <1>9, <1>10, <1>12, <1>13

-----------------------------------------------------------------------------
(* The steps of the state machines of the target keep the invariant, one   *)
(* lemma for each phase and time point; then the properties that follow.   *)

(* Steps that do not reach the response side.                              *)

\* What a step about t leaves alone when t has no response under way.
LEMMA EngineFrame ==
  ASSUME TypeOK, TokenInv, NEW t \in Tx, Others(t), UNCHANGED iniVars,
         UNCHANGED <<req2resp, respFifo, rdStart, activeRdId, beatFifo>>,
         fsm[t] # "WaitForResponse",
         \A c \in Cmds : \A e \in Range(beatFifo[c]) : e.tx # t,
         OwnsId(t)' => OwnsId(t), LinkOK(t)'
  PROVE  WaitingInv' /\ BeatInv' /\ LinkInv' /\ ChannelInv' /\ IdInv'
<1>1. \A c \in Cmds : t \notin Range(req2resp[c]) \union Range(respFifo[c])
  BY DEF TokenInv, WaitingInv
<1>2. rdStart.tx # t
  BY ChannelAssumption DEF ChannelAssumption, TokenInv, WaitingInv
<1>3. WaitingInv'
  BY <1>1, <1>2, WaitingFrame DEF TypeOK, TokenInv
<1>4. BeatInv'
  BY BeatFrame DEF TypeOK, TokenInv, Others
<1>5. LinkInv'
  BY LinkFrame DEF TokenInv, Others
<1>6. ChannelInv'
  BY DEF TokenInv, ChannelInv, HoldsChnl, iniVars
<1>7. IdInv'
  BY IdFrame DEF TokenInv
<1> QED
  BY <1>3, <1>4, <1>5, <1>6, <1>7

\* The response beats that wait are those of responding transactions.
LEMMA BeatOwner ==
  ASSUME BeatInv, NEW t, fsm[t] \notin {"PartialResponse", "Response"}
  PROVE  \A c \in Cmds : \A e \in Range(beatFifo[c]) : e.tx # t
BY DEF BeatInv

\* BEGIN_REQ and BEGIN_PARTIAL_REQ.
LEMMA BeginRequestToken ==
  ASSUME TypeOK, TokenInv, UNCHANGED iniVars, NEW t \in Tx, fw[t] # << >>,
         Head(fw[t]) \in {"BEGIN_REQ", "BEGIN_PARTIAL_REQ"}, fw' = Drop(fw, t),
         NEW tp, tp = (IF LastBeat(t) THEN "BegReqE" ELSE "BegPartReqE"),
         BeginRequest(t, tp)
  PROVE  TokenInv'
<1> DEFINE endTp == IF tp = "BegPartReqE" THEN "EndPartReqE" ELSE "EndReqE"
           next  == IF LastBeat(t) THEN "Request" ELSE "PartialRequest"
           event == EventOf(tp, Coherent, FALSE)
<1>1. /\ fw \in [Tx -> Seq(FwPhases)] /\ fsm \in [Tx -> FsmStates]
      /\ stalledTx \in [Cmds -> Tx \union {NoTx}] /\ Cmd[t] \in Cmds
      /\ stalledTp \in [Cmds -> TimePoints \union {CB_CNT}] /\ t # NoTx
  BY ChannelAssumption DEF ChannelAssumption, TypeOK, LinkTypeOK, TgtTypeOK
<1>2. LinkOK(t)
  BY DEF TokenInv, LinkInv
<1>3. /\ ini[t] = "send" /\ bw[t] = << >> /\ fsm[t] \in RestStates
      /\ fw'[t] = << >>
  BY <1>1, <1>2, SeqOne DEF LinkOK, Drop
<1>4. NotDue(t)
  BY <1>3, NothingDue DEF TypeOK, TokenInv, DueIn, RestStates
<1>5. /\ UNCHANGED <<bw, ini, sent, chnl, req2resp, respFifo, rdStart, activeRdId,
                     beatFifo>>
      /\ active' = active \union {t}
      /\ \A u \in Tx \ {t} : fw'[u] = fw[u]
      /\ LastBeat(t)' <=> LastBeat(t)
  BY <1>1 DEF BeginRequest, respondVars, iniVars, Drop, LastBeat
<1>6. fsm' = [fsm EXCEPT ![t] = After(@, event)]
  BY DEF BeginRequest
<1>7. /\ fsm[t] \in {"Idle", "WriteIdle"} => Accepts(fsm[t], event) /\ fsm'[t] = next
      /\ fsm[t] = "WaitAck" => ~Accepts(fsm[t], event) /\ fsm'[t] = "WaitAck"
  BY <1>1, <1>6 DEF After, Accepts, Reactions, EventOf
<1>8. fsm'[t] \in {next, "WaitAck"} /\ \A u \in Tx \ {t} : fsm'[u] = fsm[u]
  BY <1>1, <1>3, <1>6, <1>7 DEF RestStates
<1>9. Untouched(t)
  BY <1>5, <1>8 DEF Untouched, iniVars
<1>10. LinkOK(t)'
  BY <1>3, <1>5, <1>8 DEF LinkOK
<1>11. ActiveInv'
  BY <1>1, <1>5, <1>8 DEF TokenInv, ActiveInv
<1>12. ReadInv'
  BY <1>8 DEF TokenInv, ReadInv
<1> HIDE DEF event
<1>13. CASE ~Accepts(fsm[t], event)
  <2>1. UNCHANGED <<stalledTx, stalledTp, evq, clkq>>
    BY <1>13 DEF BeginRequest, admitVars, event
  <2>2. fsm' = fsm
    BY <1>1, <1>6, <1>13 DEF After
  <2>3. Others(t)
    BY <1>9, <2>1 DEF Others, NotDue, NotIn
  <2>4. DueInv' /\ ParkedInv'
    BY <2>1, <2>2 DEF TokenInv, DueInv, ParkedInv, QueuesOK, NotDue, NotIn
  <2>5. ~OwnsId(t)'
    BY <1>8 DEF OwnsId, Responding
  <2>6. \A c \in Cmds : \A e \in Range(beatFifo[c]) : e.tx # t
    BY <1>3, BeatOwner DEF TokenInv, RestStates
  <2> QED
    BY <1>3, <1>5, <1>10, <1>11, <1>12, <2>3, <2>4, <2>5, <2>6, EngineFrame
    DEF RestStates, TokenInv
<1>14. CASE Accepts(fsm[t], event)
  <2>1. fsm'[t] = next
    BY <1>3, <1>7, <1>14 DEF RestStates
  <2>2. endTp \in DueIn(t, fsm'[t]) /\ endTp \in TimePoints
    BY <2>1 DEF DueIn, TimePoints
  <2>3. \/ Park(t, endTp)
        \/ \E beats : Accept(t, endTp, beats)
    BY <1>14 DEF BeginRequest, event
  <2> HIDE DEF endTp, next
  <2>4. QueueTypes(evq, clkq) /\ QueuesOK(evq, clkq, fsm') /\ NotIn(t, evq, clkq)
    <3>1. QueueTypes(evq, clkq) /\ NotIn(t, evq, clkq) /\ QueuesOK(evq, clkq, fsm)
      BY <1>4 DEF QueueTypes, TypeOK, TgtTypeOK, NotDue, TokenInv, DueInv
    <3> QED
      BY <1>8, <3>1, DueFrame
  <2>5. DueInv' /\ ParkedInv' /\ Others(t)
    <3>1. CASE Park(t, endTp)
      <4>1. /\ UNCHANGED <<evq, clkq>>
            /\ stalledTx' = [stalledTx EXCEPT ![Cmd[t]] = t]
            /\ stalledTp' = [stalledTp EXCEPT ![Cmd[t]] = endTp]
        BY <3>1 DEF Park
      <4>2. \A u : NotDue(u)' <=> NotDue(u)
        BY <4>1 DEF NotDue, NotIn
      <4>3. DueInv' /\ Others(t)
        BY <1>9, <2>4, <4>1, <4>2 DEF DueInv, Others
      <4>4. ASSUME NEW c \in Cmds, stalledTx'[c] # NoTx
            PROVE  /\ Cmd[stalledTx'[c]] = c
                   /\ fsm'[stalledTx'[c]] \in {"PartialRequest", "Request"}
                   /\ stalledTp'[c] \in DueIn(stalledTx'[c], fsm'[stalledTx'[c]])
                   /\ NotDue(stalledTx'[c])
        <5>1. CASE c = Cmd[t]
          BY <1>1, <1>4, <2>1, <2>2, <4>1, <5>1 DEF next
        <5>2. CASE c # Cmd[t]
          <6>1. stalledTx'[c] = stalledTx[c] /\ stalledTp'[c] = stalledTp[c]
            BY <1>1, <4>1, <5>2
          <6>2. stalledTx[c] \in Tx \ {t}
            BY <1>1, <1>3, <4>4, <6>1 DEF TokenInv, ParkedInv, RestStates
          <6> QED
            BY <1>8, <4>4, <6>1, <6>2 DEF TokenInv, ParkedInv
        <5> QED
          BY <5>1, <5>2
      <4>5. ParkedInv'
        BY <4>2, <4>4 DEF ParkedInv
      <4> QED
        BY <4>3, <4>5
    <3>2. ASSUME NEW beats, Accept(t, endTp, beats)
          PROVE  DueInv' /\ ParkedInv' /\ Others(t)
      <4>1. /\ UNCHANGED <<stalledTx, stalledTp>>
            /\ Schedule(AcceptDelays, endTp, t, evq, clkq)
        BY <3>2 DEF Accept
      <4>2. /\ QueuesOK(evq', clkq', fsm')
            /\ \A u \in Tx \ {t} : NotDue(u)' <=> NotIn(u, evq, clkq)
        BY <2>2, <2>4, <4>1, DueSchedule
      <4>3. DueInv' /\ Others(t)
        BY <1>9, <4>2 DEF DueInv, Others, NotDue
      <4>4. \A c \in Cmds : stalledTx[c] # t
        BY <1>1, <1>3 DEF TokenInv, ParkedInv, RestStates
      <4> QED
        BY <4>1, <4>3, <4>4, ParkedFrame DEF TypeOK, TokenInv
    <3> QED
      BY <2>3, <3>1, <3>2
  <2>6. ~OwnsId(t)'
    BY <2>1 DEF OwnsId, Responding, next
  <2>7. \A c \in Cmds : \A e \in Range(beatFifo[c]) : e.tx # t
    BY <1>3, BeatOwner DEF TokenInv, RestStates
  <2> QED
    BY <1>3, <1>5, <1>10, <1>11, <1>12, <2>5, <2>6, <2>7, EngineFrame
    DEF RestStates, TokenInv
<1> QED
  BY <1>13, <1>14

-----------------------------------------------------------------------------
(* The reactions to a time point.                                          *)

\* The state machine expects time point tp in state s.
Expected(s, tp) ==
  /\ Accepts(s, EventOf(tp, Coherent, FALSE))
  /\ s = "Request" => tp = "EndReqE"

\* An expected time point of an active transaction takes its state machine to
\* the next state and runs the callback of the time point.
LEMMA ReactEffect ==
  ASSUME TypeOK, TokenInv, NEW t \in Tx, NEW tp \in TimePoints, NEW q, NEW k,
         React(t, tp, q, k), fsm[t] # "Idle", Expected(fsm[t], tp)
  PROVE  /\ fsm' = [fsm EXCEPT ![t] = Reactions[fsm[t]][EventOf(tp, Coherent, FALSE)]]
         /\ active' = IF Frees(tp) THEN active \ {t} ELSE active
         /\ UNCHANGED <<respFifo, rdStart>>
         /\ \/ tp = "EndPartReqE"  /\ EndPartReqCb(t, q, k)
            \/ tp = "EndReqE"      /\ EndReqCb(t, q, k)
            \/ tp \in {"BegPartRespE", "BegRespE"} /\ BegRespCb(t, tp, q, k)
            \/ tp = "EndPartRespE" /\ EndPartRespCb(t, q, k)
            \/ tp = "EndRespE"     /\ EndRespCb(t, q, k)
            \/ tp = "Ack"          /\ Quiet(q, k) /\ UNCHANGED tgtAlarm
<1> DEFINE event == EventOf(tp, Coherent, FALSE)
<1>1. t \in active
  BY DEF TokenInv, ActiveInv
<1>2. Accepts(fsm[t], event) /\ ~(fsm[t] = "Request" /\ tp # "EndReqE")
  BY DEF Expected
<1>3. After(fsm[t], event) = Reactions[fsm[t]][event]
  BY <1>2 DEF After
<1> HIDE DEF event
<1> QED
  BY <1>1, <1>2, <1>3 DEF React, respondVars, event

\* What is left of the queues is what is scheduled afterwards.
LEMMA KeepFrame ==
  ASSUME TypeOK, TokenInv, NEW t \in Tx, NEW q, NEW k, LeftOver(t, q, k),
         KeepQueues(q, k), Untouched(t)
  PROVE  DueInv' /\ Others(t) /\ NotDue(t)'
<1>1. \A u \in Tx : NotDue(u)' <=> NotIn(u, q, k)
  BY DEF KeepQueues, NotDue
<1>2. \A u \in Tx \ {t} : fsm'[u] = fsm[u]
  BY DEF Untouched
<1>3. QueuesOK(q, k, fsm')
  BY <1>2, DueFrame DEF LeftOver
<1>4. DueInv'
  BY <1>3 DEF DueInv, KeepQueues
<1> QED
  BY <1>1, <1>4 DEF Others, LeftOver

\* END_PARTIAL_REQ: the beat of a write is acknowledged.
LEMMA EndPartReqToken ==
  ASSUME TypeOK, TokenInv, UNCHANGED iniVars, UNCHANGED fw, NEW t \in Tx, NEW q,
         NEW k, LeftOver(t, q, k), fsm[t] = "PartialRequest", ~NotDue(t),
         React(t, "EndPartReqE", q, k)
  PROVE  TokenInv'
<1>1. Expected(fsm[t], "EndPartReqE") /\ fsm \in [Tx -> FsmStates]
  BY DEF Expected, Accepts, Reactions, EventOf, TypeOK, TgtTypeOK
<1>2. /\ fsm' = [fsm EXCEPT ![t] = "WriteIdle"] /\ active' = active
      /\ UNCHANGED <<respFifo, rdStart>>
      /\ EndPartReqCb(t, q, k)
  BY <1>1, ReactEffect DEF TimePoints, Frees, Reactions, EventOf
<1>3. /\ KeepQueues(q, k) /\ bw' = Put(bw, t, "END_PARTIAL_REQ")
      /\ UNCHANGED <<stalledTx, stalledTp, req2resp, activeRdId, beatFifo>>
  BY <1>2 DEF EndPartReqCb, admitVars
<1>4. /\ ini[t] = "send" /\ fw[t] = << >> /\ bw[t] = << >> /\ ~LastBeat(t)
  <2>1. LinkOK(t)
    BY DEF TokenInv, LinkInv
  <2> QED
    BY <2>1 DEF LinkOK, RestStates
<1>5. bw \in [Tx -> Seq(BwPhases)] /\ "END_PARTIAL_REQ" \in BwPhases
  BY DEF TypeOK, LinkTypeOK, BwPhases
<1>6. bw'[t] = <<"END_PARTIAL_REQ">> /\ \A u \in Tx \ {t} : bw'[u] = bw[u]
  BY <1>3, <1>4, <1>5, SeqOne DEF Put
<1>7. fsm'[t] = "WriteIdle" /\ \A u \in Tx \ {t} : fsm'[u] = fsm[u]
  BY <1>1, <1>2
<1>8. Untouched(t) /\ (LastBeat(t)' <=> LastBeat(t))
  BY <1>6, <1>7 DEF Untouched, iniVars, LastBeat
<1>9. DueInv' /\ Others(t)
  BY <1>3, <1>8, KeepFrame
<1>10. LinkOK(t)'
  BY <1>4, <1>6, <1>7, <1>8 DEF LinkOK, iniVars
<1>11. ActiveInv' /\ ReadInv'
  BY <1>2, <1>7 DEF TokenInv, ActiveInv, ReadInv
<1>12. ParkedInv'
  <2>1. \A c \in Cmds : stalledTx[c] # t
    BY ChannelAssumption DEF ChannelAssumption, TokenInv, ParkedInv
  <2> QED
    BY <1>3, <1>9, <2>1, ParkedFrame DEF TypeOK, TokenInv
<1>13. WaitingInv' /\ BeatInv' /\ LinkInv' /\ ChannelInv' /\ IdInv'
  <2>1. ~OwnsId(t)'
    BY <1>7 DEF OwnsId, Responding
  <2>2. \A c \in Cmds : \A e \in Range(beatFifo[c]) : e.tx # t
    BY BeatOwner DEF TokenInv
  <2> QED
    BY <1>2, <1>3, <1>9, <1>10, <2>1, <2>2, EngineFrame
<1> QED
  BY <1>9, <1>11, <1>12, <1>13 DEF TokenInv

\* END_REQ: the request is complete and waits for its response.
LEMMA EndReqToken ==
  ASSUME TypeOK, TokenInv, UNCHANGED iniVars, UNCHANGED fw, NEW t \in Tx, NEW q,
         NEW k, LeftOver(t, q, k), fsm[t] = "Request", ~NotDue(t),
         React(t, "EndReqE", q, k)
  PROVE  TokenInv'
<1>1. Expected(fsm[t], "EndReqE") /\ fsm \in [Tx -> FsmStates]
  BY DEF Expected, Accepts, Reactions, EventOf, TypeOK, TgtTypeOK
<1>2. /\ fsm' = [fsm EXCEPT ![t] = "WaitForResponse"] /\ active' = active
      /\ UNCHANGED <<respFifo, rdStart>>
      /\ EndReqCb(t, q, k)
  BY <1>1, ReactEffect DEF TimePoints, Frees, Reactions, EventOf
<1>3. /\ KeepQueues(q, k) /\ bw' = Put(bw, t, "END_REQ")
      /\ req2resp' = [req2resp EXCEPT ![Cmd[t]] = Append(@, t)]
      /\ UNCHANGED <<stalledTx, stalledTp, activeRdId, beatFifo>>
  BY <1>2 DEF EndReqCb, admitVars
<1>4. /\ ini[t] = "send" /\ fw[t] = << >> /\ bw[t] = << >> /\ LastBeat(t)
  <2>1. LinkOK(t)
    BY DEF TokenInv, LinkInv
  <2> QED
    BY <2>1 DEF LinkOK, RestStates
<1>5. bw \in [Tx -> Seq(BwPhases)] /\ "END_REQ" \in BwPhases
  BY DEF TypeOK, LinkTypeOK, BwPhases
<1>6. bw'[t] = <<"END_REQ">> /\ \A u \in Tx \ {t} : bw'[u] = bw[u]
  BY <1>3, <1>4, <1>5, SeqOne DEF Put
<1>7. fsm'[t] = "WaitForResponse" /\ \A u \in Tx \ {t} : fsm'[u] = fsm[u]
  BY <1>1, <1>2
<1>8. Untouched(t) /\ (LastBeat(t)' <=> LastBeat(t))
  BY <1>6, <1>7 DEF Untouched, iniVars, LastBeat
<1>9. DueInv' /\ Others(t) /\ NotDue(t)'
  BY <1>3, <1>8, KeepFrame
<1>10. LinkInv'
  <2>1. LinkOK(t)'
    BY <1>4, <1>6, <1>7, <1>8 DEF LinkOK, iniVars
  <2> QED
    BY <1>8, <2>1, LinkFrame DEF TokenInv
<1>11. ActiveInv' /\ ReadInv' /\ ChannelInv'
  BY <1>2, <1>7 DEF TokenInv, ActiveInv, ReadInv, ChannelInv, HoldsChnl, iniVars
<1>12. ParkedInv'
  <2>1. \A c \in Cmds : stalledTx[c] # t
    BY ChannelAssumption DEF ChannelAssumption, TokenInv, ParkedInv
  <2> QED
    BY <1>3, <1>9, <2>1, ParkedFrame DEF TypeOK, TokenInv
<1>13. BeatInv'
  <2>1. \A c \in Cmds : \A e \in Range(beatFifo[c]) : e.tx # t
    BY BeatOwner DEF TokenInv
  <2> QED
    BY <1>3, <1>8, <2>1, BeatFrame DEF TypeOK, TokenInv
<1>14. IdInv'
  <2>1. ~OwnsId(t)'
    BY <1>7, <1>9 DEF OwnsId, Responding
  <2> QED
    BY <1>3, <1>9, <2>1, IdFrame DEF TokenInv
<1>15. WaitingInv'
  <2> DEFINE c == Cmd[t]
  <2>1. /\ req2resp \in [Cmds -> Seq(Tx)] /\ respFifo \in [Cmds -> Seq(Tx)]
        /\ c \in Cmds /\ t # NoTx
    BY ChannelAssumption DEF ChannelAssumption, TypeOK, TgtTypeOK
  <2>2. /\ \A d \in Cmds : t \notin Range(req2resp[d]) \union Range(respFifo[d])
        /\ rdStart.tx # t
    BY <2>1 DEF TokenInv, WaitingInv
  <2>3. IsInjective(req2resp[c])
    BY <2>1 DEF TokenInv, WaitingInv
  <2>4. req2resp'[c] = Append(req2resp[c], t)
    BY <1>3, <2>1
  <2>5. /\ IsInjective(req2resp'[c])
        /\ Range(req2resp'[c]) = Range(req2resp[c]) \union {t}
    BY <2>1, <2>2, <2>3, <2>4, InjectiveAppend, RangeAppend
  <2>6. \A d \in Cmds : d # c => req2resp'[d] = req2resp[d]
    BY <1>3, <2>1
  <2>7. ASSUME NEW u \in Tx \ {t}
        PROVE  fsm'[u] = fsm[u] /\ (NotDue(u)' <=> NotDue(u))
    BY <1>9 DEF Others, Untouched
  <2>8. ASSUME NEW d \in Cmds
        PROVE  /\ Range(req2resp[d]) \subseteq Tx \ {t}
               /\ Range(respFifo[d]) \subseteq Tx \ {t}
    BY <2>1, <2>2, MemberType
  <2>9. rdStart.tx # NoTx => rdStart.tx \in Tx \ {t}
    BY <2>2 DEF TypeOK, TgtTypeOK
  <2> HIDE DEF c
  <2>10. ASSUME NEW d \in Cmds
         PROVE  /\ IsInjective(req2resp'[d]) /\ IsInjective(respFifo[d])
                /\ \A u \in Range(req2resp'[d]) :
                     /\ Cmd[u] = d /\ fsm'[u] = "WaitForResponse" /\ NotDue(u)'
                     /\ u \notin Range(respFifo[d]) /\ rdStart.tx # u
    <3>1. \A u \in Range(req2resp[d]) :
            /\ Cmd[u] = d /\ fsm'[u] = "WaitForResponse" /\ NotDue(u)'
            /\ u \notin Range(respFifo[d]) /\ rdStart.tx # u
      BY <2>7, <2>8 DEF TokenInv, WaitingInv
    <3>2. IsInjective(req2resp[d]) /\ IsInjective(respFifo[d])
      BY DEF TokenInv, WaitingInv
    <3>3. CASE d = c
      BY <1>7, <1>9, <2>2, <2>5, <3>1, <3>2, <3>3 DEF c
    <3>4. CASE d # c
      BY <2>6, <3>1, <3>2, <3>4
    <3> QED
      BY <3>3, <3>4
  <2>11. \A d \in Cmds : \A u \in Range(respFifo[d]) :
           /\ Cmd[u] = d /\ fsm'[u] = "WaitForResponse" /\ NotDue(u)'
           /\ rdStart.tx # u
    BY <2>7, <2>8 DEF TokenInv, WaitingInv
  <2>12. rdStart.tx # NoTx =>
           /\ Cmd[rdStart.tx] = "rd" /\ fsm'[rdStart.tx] = "WaitForResponse"
           /\ NotDue(rdStart.tx)'
    BY <1>2, <2>7, <2>9 DEF TokenInv, WaitingInv
  <2> QED
    BY <1>2, <2>10, <2>11, <2>12 DEF WaitingInv
<1> QED
  BY <1>9, <1>10, <1>11, <1>12, <1>13, <1>14, <1>15 DEF TokenInv

\* BEGIN_PARTIAL_RESP and BEGIN_RESP: the response beat is queued.
LEMMA BegRespToken ==
  ASSUME TypeOK, TokenInv, UNCHANGED iniVars, UNCHANGED fw, NEW t \in Tx, NEW q,
         NEW k, LeftOver(t, q, k), fsm[t] \in {"WaitForResponse", "ReadIdle"},
         NEW tp \in DueIn(t, fsm[t]), ~NotDue(t), React(t, tp, q, k)
  PROVE  TokenInv'
<1> DEFINE next == IF tp = "BegRespE" THEN "Response" ELSE "PartialResponse"
           c    == Cmd[t]
           e    == [tp |-> tp, tx |-> t]
<1>1. /\ tp \in {"BegPartRespE", "BegRespE"} /\ tp \in TimePoints
      /\ tp = "BegPartRespE" => Cmd[t] = "rd"
      /\ c \in Cmds /\ t # NoTx
  BY ChannelAssumption
  DEF ChannelAssumption, DueIn, TimePoints, TokenInv, ReadInv
<1>2. Expected(fsm[t], tp) /\ fsm \in [Tx -> FsmStates]
  BY <1>1 DEF Expected, Accepts, Reactions, EventOf, TypeOK, TgtTypeOK
<1>3. Reactions[fsm[t]][EventOf(tp, Coherent, FALSE)] = next
  <2>1. CASE tp = "BegRespE"
    <3>1. EventOf(tp, Coherent, FALSE) = "BegResp"
      BY <2>1 DEF EventOf
    <3>2. /\ Reactions["WaitForResponse"]["BegResp"] = "Response"
          /\ Reactions["ReadIdle"]["BegResp"] = "Response"
      BY DEF Reactions
    <3> QED
      BY <2>1, <3>1, <3>2
  <2>2. CASE tp = "BegPartRespE"
    <3>1. EventOf(tp, Coherent, FALSE) = "BegPartResp"
      BY <2>2 DEF EventOf
    <3>2. /\ Reactions["WaitForResponse"]["BegPartResp"] = "PartialResponse"
          /\ Reactions["ReadIdle"]["BegPartResp"] = "PartialResponse"
      BY DEF Reactions
    <3> QED
      BY <2>2, <3>1, <3>2
  <2> QED
    BY <1>1, <2>1, <2>2
<1>4. /\ fsm' = [fsm EXCEPT ![t] = next] /\ active' = active
      /\ UNCHANGED <<respFifo, rdStart>>
      /\ BegRespCb(t, tp, q, k)
  BY <1>1, <1>2, <1>3, ReactEffect DEF Frees
<1>5. /\ KeepQueues(q, k)
      /\ UNCHANGED <<bw, stalledTx, stalledTp, req2resp, activeRdId>>
      /\ \/ beatFifo' = beatFifo
         \/ beatFifo' = [beatFifo EXCEPT ![c] = Append(@, e)]
  BY <1>4 DEF BegRespCb, admitVars
<1>6. /\ next \in {"PartialResponse", "Response"}
      /\ next = "PartialResponse" => tp = "BegPartRespE" /\ Cmd[t] = "rd"
      /\ next = "Response" => tp = "BegRespE"
  BY <1>1
<1> HIDE DEF next
<1>7. fsm'[t] = next /\ \A u \in Tx \ {t} : fsm'[u] = fsm[u]
  BY <1>2, <1>4
<1>8. Untouched(t) /\ (LastBeat(t)' <=> LastBeat(t))
  BY <1>5, <1>7 DEF Untouched, iniVars, LastBeat
<1>9. DueInv' /\ Others(t)
  BY <1>5, <1>8, KeepFrame
<1>10. /\ fw[t] = << >> /\ bw[t] \in {<< >>, <<"END_REQ">>}
       /\ \/ ini[t] = "send" /\ LastBeat(t) /\ bw[t] = <<"END_REQ">>
          \/ ini[t] = "resp" /\ bw[t] = << >>
  <2>1. LinkOK(t)
    BY DEF TokenInv, LinkInv
  <2> QED
    BY <2>1 DEF LinkOK, RestStates
<1>11. LinkInv'
  <2>1. LinkOK(t)'
    BY <1>5, <1>6, <1>7, <1>8, <1>10 DEF LinkOK, iniVars
  <2> QED
    BY <1>8, <2>1, LinkFrame DEF TokenInv
<1>12. ActiveInv' /\ ReadInv' /\ ChannelInv'
  BY <1>4, <1>6, <1>7
  DEF TokenInv, ActiveInv, ReadInv, ChannelInv, HoldsChnl, iniVars
<1>13. ParkedInv'
  <2>1. \A d \in Cmds : stalledTx[d] # t
    BY <1>1 DEF TokenInv, ParkedInv
  <2> QED
    BY <1>5, <1>9, <2>1, ParkedFrame DEF TypeOK, TokenInv
<1>14. WaitingInv'
  <2>1. rdStart.tx # t
    BY <1>1 DEF TokenInv, WaitingInv
  <2>2. \A d \in Cmds : t \notin Range(req2resp[d]) \union Range(respFifo[d])
    BY DEF TokenInv, WaitingInv
  <2> QED
    BY <1>4, <1>5, <1>9, <2>1, <2>2, WaitingFrame DEF TypeOK, TokenInv
<1>15. IdInv'
  <2>1. OwnsId(t)' => OwnsId(t)
    BY DEF OwnsId, Responding
  <2> QED
    BY <1>5, <1>9, <2>1, IdFrame DEF TokenInv
<1>16. BeatInv'
  <2>1. \A d \in Cmds : \A x \in Range(beatFifo[d]) : x.tx # t
    BY BeatOwner DEF TokenInv
  <2>2. CASE beatFifo' = beatFifo
    BY <1>8, <2>1, <2>2, BeatFrame DEF TypeOK, TokenInv
  <2>3. CASE beatFifo' = [beatFifo EXCEPT ![c] = Append(@, e)]
    <3>1. beatFifo \in [Cmds -> Seq(Scheduled)]
      BY DEF TypeOK, TgtTypeOK
    <3>2. e \in Scheduled /\ e.tx = t /\ e.tp = tp
      BY <1>1 DEF Scheduled
    <3> HIDE DEF e, c
    <3>3. beatFifo'[c] = Append(beatFifo[c], e)
      BY <1>1, <2>3, <3>1
    <3>4. \A d \in Cmds : d # c => beatFifo'[d] = beatFifo[d]
      BY <2>3, <3>1
    <3>5. OneEach(beatFifo[c])
      BY <1>1 DEF TokenInv, BeatInv
    <3>6. /\ OneEach(beatFifo'[c])
          /\ Range(beatFifo'[c]) = Range(beatFifo[c]) \union {e}
      BY <1>1, <2>1, <3>1, <3>2, <3>3, <3>5, OneEachAppend, RangeAppend
    <3>7. ASSUME NEW d \in Cmds, NEW x \in Range(beatFifo[d])
          PROVE  /\ Cmd[x.tx] = d
                 /\ \/ /\ x.tp = "BegPartRespE" /\ d = "rd"
                       /\ fsm'[x.tx] = "PartialResponse"
                    \/ x.tp = "BegRespE" /\ fsm'[x.tx] = "Response"
                 /\ fw[x.tx] = << >> /\ bw[x.tx] \in {<< >>, <<"END_REQ">>}
      <4>1. x.tx \in Tx \ {t}
        BY <2>1, <3>1, EntryType
      <4> QED
        BY <1>7, <4>1 DEF TokenInv, BeatInv
    <3>8. /\ Cmd[e.tx] = c
          /\ \/ /\ e.tp = "BegPartRespE" /\ c = "rd"
                /\ fsm'[e.tx] = "PartialResponse"
             \/ e.tp = "BegRespE" /\ fsm'[e.tx] = "Response"
          /\ fw[e.tx] = << >> /\ bw[e.tx] \in {<< >>, <<"END_REQ">>}
      BY <1>6, <1>7, <1>10, <3>2 DEF c
    <3>9. \A d \in Cmds : OneEach(beatFifo'[d])
      BY <3>4, <3>6 DEF TokenInv, BeatInv
    <3>10. \A d \in Cmds : \A x \in Range(beatFifo'[d]) :
             \/ x \in Range(beatFifo[d])
             \/ d = c /\ x = e
      BY <3>4, <3>6
    <3> QED
      BY <1>5, <3>7, <3>8, <3>9, <3>10 DEF BeatInv
  <2> QED
    BY <1>5, <2>2, <2>3
<1> QED
  BY <1>9, <1>11, <1>12, <1>13, <1>14, <1>15, <1>16 DEF TokenInv

\* END_PARTIAL_RESP: the next response beat of a read is scheduled.
LEMMA EndPartRespToken ==
  ASSUME TypeOK, TokenInv, UNCHANGED iniVars, NEW t \in Tx, fw[t] # << >>,
         Head(fw[t]) = "END_PARTIAL_RESP", fw' = Drop(fw, t),
         React(t, "EndPartRespE", evq, clkq)
  PROVE  TokenInv'
<1>1. /\ fw \in [Tx -> Seq(FwPhases)] /\ fsm \in [Tx -> FsmStates]
      /\ beat \in [Tx -> Nat] /\ BurstLen[t] \in Nat /\ t # NoTx
  BY ChannelAssumption
  DEF ChannelAssumption, TypeOK, LinkTypeOK, TgtTypeOK
<1>2. /\ ini[t] = "resp" /\ fw[t] = <<"END_PARTIAL_RESP">> /\ bw[t] = << >>
      /\ fsm[t] = "PartialResponse"
  <2>1. LinkOK(t)
    BY DEF TokenInv, LinkInv
  <2> QED
    BY <2>1, SeqOne DEF LinkOK
<1>3. Cmd[t] = "rd" /\ NotDue(t) /\ LeftOver(t, evq, clkq)
  BY <1>2, NothingDue DEF TypeOK, TokenInv, ReadInv, DueIn
<1>4. /\ fsm' = [fsm EXCEPT ![t] = "ReadIdle"] /\ active' = active
      /\ UNCHANGED <<respFifo, rdStart>>
      /\ EndPartRespCb(t, evq, clkq)
  <2>1. Expected(fsm[t], "EndPartRespE")
    BY <1>2 DEF Expected, Accepts, Reactions, EventOf
  <2> QED
    BY <1>2, <2>1, ReactEffect DEF TimePoints, Frees, Reactions, EventOf
<1>5. PICK tp \in {"BegPartRespE", "BegRespE"} :
        Schedule({"cycles"}, tp, t, evq, clkq)
  BY <1>4 DEF EndPartRespCb, NextRespBeat
<1>6. UNCHANGED <<bw, stalledTx, stalledTp, req2resp, activeRdId, beatFifo>>
  BY <1>4 DEF EndPartRespCb, admitVars
<1>7. fsm'[t] = "ReadIdle" /\ \A u \in Tx \ {t} : fsm'[u] = fsm[u]
  BY <1>1, <1>4
<1>8. fw'[t] = << >> /\ \A u \in Tx \ {t} : fw'[u] = fw[u]
  BY <1>1, <1>2, SeqOne DEF Drop
<1>9. Untouched(t)
  BY <1>6, <1>7, <1>8 DEF Untouched, iniVars
<1>10. DueInv' /\ Others(t)
  <2>1. QueueTypes(evq, clkq) /\ NotIn(t, evq, clkq) /\ QueuesOK(evq, clkq, fsm')
    BY <1>3, <1>7, DueFrame DEF LeftOver
  <2>2. tp \in DueIn(t, fsm'[t]) /\ tp \in TimePoints
    BY <1>7 DEF DueIn, TimePoints
  <2>3. /\ QueuesOK(evq', clkq', fsm')
        /\ \A u \in Tx \ {t} : NotDue(u)' <=> NotIn(u, evq, clkq)
    BY <1>5, <2>1, <2>2, DueSchedule
  <2> QED
    BY <1>9, <2>3 DEF DueInv, Others, NotDue
<1>11. LinkOK(t)'
  BY <1>2, <1>6, <1>7, <1>8 DEF LinkOK, iniVars
<1>12. ActiveInv' /\ ReadInv'
  BY <1>2, <1>3, <1>4, <1>7 DEF TokenInv, ActiveInv, ReadInv
<1>13. ParkedInv'
  <2>1. \A d \in Cmds : stalledTx[d] # t
    BY <1>1, <1>2 DEF TokenInv, ParkedInv
  <2> QED
    BY <1>6, <1>10, <2>1, ParkedFrame DEF TypeOK, TokenInv
<1>14. WaitingInv' /\ BeatInv' /\ LinkInv' /\ ChannelInv' /\ IdInv'
  <2>1. OwnsId(t)
    BY <1>2, <1>3 DEF OwnsId, Responding
  <2>2. \A c \in Cmds : \A e \in Range(beatFifo[c]) : e.tx # t
    BY <1>2 DEF TokenInv, BeatInv
  <2> QED
    BY <1>2, <1>4, <1>6, <1>10, <1>11, <2>1, <2>2, EngineFrame
<1> QED
  BY <1>10, <1>12, <1>13, <1>14 DEF TokenInv

\* ACK ends an ACE transaction; one that does not expect it is not active.
LEMMA AckToken ==
  ASSUME TypeOK, TokenInv, UNCHANGED iniVars, NEW t \in Tx, fw[t] # << >>,
         Head(fw[t]) = "ACK", fw' = Drop(fw, t),
         React(t, "Ack", evq, clkq)
  PROVE  TokenInv'
<1>1. /\ fw \in [Tx -> Seq(FwPhases)] /\ fsm \in [Tx -> FsmStates]
      /\ t # NoTx
  BY ChannelAssumption
  DEF ChannelAssumption, TypeOK, LinkTypeOK, TgtTypeOK
<1>2. /\ ini[t] = "fin" /\ fw[t] = <<"ACK">> /\ bw[t] = << >>
      /\ fsm[t] \in {"WaitAck", "Idle"}
  <2>1. LinkOK(t)
    BY DEF TokenInv, LinkInv
  <2> QED
    BY <2>1, SeqOne DEF LinkOK
<1>3. /\ fsm'[t] = "Idle" /\ \A u \in Tx \ {t} : fsm'[u] = fsm[u]
      /\ active' = active \ {t}
      /\ UNCHANGED <<respFifo, rdStart>>
      /\ Quiet(evq, clkq)
  <2>1. CASE fsm[t] = "WaitAck"
    <3>1. Expected(fsm[t], "Ack")
      BY <2>1 DEF Expected, Accepts, Reactions, EventOf
    <3>2. /\ fsm' = [fsm EXCEPT ![t] = "Idle"] /\ active' = active \ {t}
          /\ UNCHANGED <<respFifo, rdStart>>
          /\ Quiet(evq, clkq)
      BY <2>1, <3>1, ReactEffect DEF TimePoints, Frees, Reactions, EventOf
    <3> QED
      BY <1>1, <3>2
  <2>2. CASE fsm[t] = "Idle"
    <3>1. t \notin active
      BY <2>2 DEF TokenInv, ActiveInv
    <3> QED
      BY <2>2, <3>1 DEF React, Frees, respondVars
  <2> QED
    BY <1>2, <2>1, <2>2
<1>4. UNCHANGED <<bw, evq, clkq, stalledTx, stalledTp, req2resp, activeRdId,
                  beatFifo>>
  BY <1>3 DEF Quiet, KeepQueues, admitVars
<1>5. fw'[t] = << >> /\ \A u \in Tx \ {t} : fw'[u] = fw[u]
  BY <1>1, <1>2, SeqOne DEF Drop
<1>6. Untouched(t)
  BY <1>3, <1>4, <1>5 DEF Untouched, iniVars
<1>7. DueInv' /\ Others(t)
  <2>1. LeftOver(t, evq, clkq)
    BY <1>2, NothingDue DEF TypeOK, TokenInv, DueIn
  <2> QED
    BY <1>3, <1>6, <2>1, KeepFrame DEF Quiet
<1>8. LinkOK(t)'
  BY <1>2, <1>3, <1>4, <1>5 DEF LinkOK, iniVars
<1>9. ActiveInv' /\ ReadInv'
  BY <1>3 DEF TokenInv, ActiveInv, ReadInv
<1>10. ParkedInv'
  <2>1. \A d \in Cmds : stalledTx[d] # t
    BY <1>1, <1>2 DEF TokenInv, ParkedInv
  <2> QED
    BY <1>4, <1>7, <2>1, ParkedFrame DEF TypeOK, TokenInv
<1>11. WaitingInv' /\ BeatInv' /\ LinkInv' /\ ChannelInv' /\ IdInv'
  <2>1. ~OwnsId(t)'
    BY <1>3 DEF OwnsId, Responding
  <2>2. \A c \in Cmds : \A e \in Range(beatFifo[c]) : e.tx # t
    BY <1>2 DEF TokenInv, BeatInv
  <2> QED
    BY <1>2, <1>3, <1>4, <1>7, <1>8, <2>1, <2>2, EngineFrame
<1> QED
  BY <1>7, <1>9, <1>10, <1>11 DEF TokenInv

\* END_RESP: what the transaction held is free, a parked request is let in.
LEMMA EndRespToken ==
  ASSUME TypeOK, TokenInv, UNCHANGED iniVars, NEW t \in Tx, fw[t] # << >>,
         Head(fw[t]) = "END_RESP", fw' = Drop(fw, t),
         React(t, "EndRespE", evq, clkq)
  PROVE  TokenInv'
<1> DEFINE next == IF Coherent THEN "WaitAck" ELSE "Idle"
           c    == Cmd[t]
           u    == stalledTx[c]
<1>1. /\ fw \in [Tx -> Seq(FwPhases)] /\ fsm \in [Tx -> FsmStates]
      /\ stalledTx \in [Cmds -> Tx \union {NoTx}]
      /\ stalledTp \in [Cmds -> TimePoints \union {CB_CNT}]
      /\ c \in Cmds /\ t # NoTx /\ Coherent \in BOOLEAN
  BY ChannelAssumption, TargetAssumption
  DEF ChannelAssumption, TargetAssumption, TypeOK, LinkTypeOK, TgtTypeOK
<1>2. /\ ini[t] \in {"ack", "fin"} /\ fw[t] = <<"END_RESP">> /\ bw[t] = << >>
      /\ fsm[t] = "Response"
  <2>1. LinkOK(t)
    BY DEF TokenInv, LinkInv
  <2> QED
    BY <2>1, SeqOne DEF LinkOK
<1>3. /\ fsm' = [fsm EXCEPT ![t] = next]
      /\ active' = IF Coherent THEN active ELSE active \ {t}
      /\ UNCHANGED <<respFifo, rdStart>>
      /\ EndRespCb(t, evq, clkq)
  <2>1. /\ Accepts("Response", "EndRespNoAck") /\ Accepts("Response", "EndResp")
        /\ Reactions["Response"]["EndRespNoAck"] = "WaitAck"
        /\ Reactions["Response"]["EndResp"] = "Idle"
    BY DEF Accepts, Reactions
  <2>2. /\ Expected(fsm[t], "EndRespE")
        /\ Reactions[fsm[t]][EventOf("EndRespE", Coherent, FALSE)] = next
    <3>1. CASE Coherent
      <4>1. EventOf("EndRespE", Coherent, FALSE) = "EndRespNoAck"
        BY <3>1 DEF EventOf
      <4> QED
        BY <1>2, <2>1, <3>1, <4>1 DEF Expected
    <3>2. CASE ~Coherent
      <4>1. EventOf("EndRespE", Coherent, FALSE) = "EndResp"
        BY <3>2 DEF EventOf
      <4> QED
        BY <1>2, <2>1, <3>2, <4>1 DEF Expected
    <3> QED
      BY <3>1, <3>2
  <2> QED
    BY <1>2, <2>2, ReactEffect DEF TimePoints, Frees
<1>4. /\ UNCHANGED <<bw, req2resp, beatFifo>>
      /\ activeRdId' = IF c = "rd" THEN activeRdId \ {Id[t]} ELSE activeRdId
      /\ IF u # NoTx
           THEN LetIn(c, evq, clkq)
           ELSE KeepQueues(evq, clkq) /\ UNCHANGED <<stalledTx, stalledTp>>
  BY <1>3 DEF EndRespCb
<1>5. next \in {"Idle", "WaitAck"} /\ (next = "Idle" <=> ~Coherent)
  BY <1>1
<1> HIDE DEF next
<1>6. fsm'[t] = next /\ \A v \in Tx \ {t} : fsm'[v] = fsm[v]
  BY <1>1, <1>3
<1>7. fw'[t] = << >> /\ \A v \in Tx \ {t} : fw'[v] = fw[v]
  BY <1>1, <1>2, SeqOne DEF Drop
<1>8. Untouched(t)
  BY <1>4, <1>6, <1>7 DEF Untouched, iniVars
<1>9. NotDue(t) /\ LeftOver(t, evq, clkq)
  BY <1>2, NothingDue DEF TypeOK, TokenInv, DueIn
<1>10. QueueTypes(evq, clkq) /\ QueuesOK(evq, clkq, fsm')
  BY <1>6, <1>9, DueFrame DEF LeftOver
\* The queues and the slot afterwards.
<1>11. /\ DueInv'
       /\ \A v \in Tx : v # u => (NotDue(v)' <=> NotDue(v))
       /\ stalledTx'[c] = NoTx
       /\ \A d \in Cmds : d # c => /\ stalledTx'[d] = stalledTx[d]
                                   /\ stalledTp'[d] = stalledTp[d]
  <2>1. CASE u = NoTx
    BY <1>1, <1>4, <1>10, <2>1 DEF KeepQueues, DueInv, NotDue, NotIn
  <2>2. CASE u # NoTx
    <3>1. /\ Schedule(AcceptDelays, stalledTp[c], u, evq, clkq)
          /\ stalledTx' = [stalledTx EXCEPT ![c] = NoTx]
          /\ stalledTp' = [stalledTp EXCEPT ![c] = CB_CNT]
      BY <1>4, <2>2 DEF LetIn
    <3>2. /\ u \in Tx /\ stalledTp[c] \in DueIn(u, fsm[u]) /\ NotDue(u)
          /\ fsm[u] \in {"PartialRequest", "Request"}
      BY <1>1, <2>2 DEF TokenInv, ParkedInv
    <3>3. u # t /\ fsm'[u] = fsm[u]
      BY <1>2, <1>6, <3>2
    <3>4. stalledTp[c] \in TimePoints
      BY <3>2 DEF DueIn, TimePoints
    <3>5. NotIn(u, evq, clkq)
      BY <3>2 DEF NotDue
    <3>6. /\ QueuesOK(evq', clkq', fsm')
          /\ \A v \in Tx \ {u} : NotDue(v)' <=> NotIn(v, evq, clkq)
      <4> HIDE DEF u, c
      <4> QED
        BY <1>10, <3>1, <3>2, <3>3, <3>4, <3>5, DueSchedule
    <3> QED
      BY <1>1, <3>1, <3>6 DEF DueInv, NotDue
  <2> QED
    BY <2>1, <2>2
\* The parked request is neither this transaction nor one that waits for a
\* response.
<1>12. u # NoTx => /\ u \in Tx \ {t} /\ Cmd[u] = c
                   /\ fsm[u] \in {"PartialRequest", "Request"}
  BY <1>1, <1>2 DEF TokenInv, ParkedInv
<1>13. LinkInv'
  <2>1. LinkOK(t)'
    BY <1>2, <1>4, <1>5, <1>6, <1>7 DEF LinkOK, iniVars
  <2> QED
    BY <1>8, <2>1, LinkFrame DEF TokenInv
<1>14. ActiveInv' /\ ReadInv' /\ ChannelInv'
  BY <1>2, <1>3, <1>5, <1>6
  DEF TokenInv, ActiveInv, ReadInv, ChannelInv, HoldsChnl, iniVars
<1>15. BeatInv'
  <2>1. \A d \in Cmds : \A e \in Range(beatFifo[d]) : e.tx # t
    BY <1>2 DEF TokenInv, BeatInv
  <2> QED
    BY <1>4, <1>8, <2>1, BeatFrame DEF TypeOK, TokenInv
<1>16. ParkedInv'
  <2> SUFFICES ASSUME NEW d \in Cmds, stalledTx'[d] # NoTx
               PROVE  /\ Cmd[stalledTx'[d]] = d
                      /\ fsm'[stalledTx'[d]] \in {"PartialRequest", "Request"}
                      /\ stalledTp'[d] \in
                           DueIn(stalledTx'[d], fsm'[stalledTx'[d]])
                      /\ NotDue(stalledTx[d])'
    BY DEF ParkedInv
  <2>1. /\ d # c /\ stalledTx'[d] = stalledTx[d] /\ stalledTp'[d] = stalledTp[d]
        /\ stalledTx[d] # NoTx
    BY <1>11
  <2>2. PICK v \in Tx : v = stalledTx[d]
    BY <1>1, <2>1
  <2>3. /\ Cmd[v] = d /\ fsm[v] \in {"PartialRequest", "Request"}
        /\ stalledTp[d] \in DueIn(v, fsm[v]) /\ NotDue(v)
    BY <2>1, <2>2 DEF TokenInv, ParkedInv
  <2>4. v # t /\ v # u
    BY <1>1, <1>2, <1>12, <2>1, <2>3, <2>2
  <2>5. fsm'[v] = fsm[v] /\ NotDue(v)'
    BY <1>6, <1>11, <2>3, <2>4
  <2>6. NotDue(stalledTx[d])'
    BY <2>1, <2>2, <2>5
  <2> QED
    BY <2>1, <2>2, <2>3, <2>5, <2>6
<1>17. WaitingInv'
  <2>1. ASSUME NEW v \in Tx, fsm[v] = "WaitForResponse"
        PROVE  fsm'[v] = fsm[v] /\ (NotDue(v)' <=> NotDue(v))
    <3>1. v # u /\ v # t
      BY <1>1, <1>2, <1>12, <2>1, ChannelAssumption DEF ChannelAssumption
    <3> QED
      BY <1>6, <1>11, <3>1
  <2>2. ASSUME NEW d \in Cmds
        PROVE  Range(req2resp[d]) \subseteq Tx /\ Range(respFifo[d]) \subseteq Tx
    BY MemberType DEF TypeOK, TgtTypeOK
  <2>3. ASSUME NEW d \in Cmds
        PROVE  /\ \A v \in Range(req2resp[d]) :
                    fsm'[v] = "WaitForResponse" /\ NotDue(v)'
               /\ \A v \in Range(respFifo[d]) :
                    fsm'[v] = "WaitForResponse" /\ NotDue(v)'
    BY <2>1, <2>2 DEF TokenInv, WaitingInv
  <2>4. rdStart.tx # NoTx =>
          fsm'[rdStart.tx] = "WaitForResponse" /\ NotDue(rdStart.tx)'
    <3>1. rdStart.tx # NoTx => rdStart.tx \in Tx
      BY DEF TypeOK, TgtTypeOK
    <3> QED
      BY <1>3, <2>1, <3>1 DEF TokenInv, WaitingInv
  <2>5. UNCHANGED <<req2resp, respFifo, rdStart>> /\ WaitingInv
    BY <1>3, <1>4 DEF TokenInv
  <2> QED
    BY <2>3, <2>4, <2>5 DEF WaitingInv
<1>18. IdInv'
  <2>1. ~OwnsId(t)'
    BY <1>5, <1>6 DEF OwnsId, Responding
  <2>2. ASSUME NEW v \in Tx \ {t} PROVE OwnsId(v)' => OwnsId(v)
    <3>1. CASE v = u
      BY <1>1, <1>6, <1>12, <3>1, ChannelAssumption
      DEF ChannelAssumption, OwnsId, Responding
    <3>2. CASE v # u
      <4>1. fsm'[v] = fsm[v] /\ (NotDue(v)' <=> NotDue(v))
        BY <1>6, <1>11, <3>2
      <4> QED
        BY <4>1 DEF OwnsId, Responding
    <3> QED
      BY <3>1, <3>2
  <2>3. Cmd[t] = "rd" => OwnsId(t)
    BY <1>2 DEF OwnsId, Responding
  <2>4. ASSUME NEW v \in Tx \ {t}, OwnsId(v)
        PROVE  Id[v] \in activeRdId'
    <3>1. Id[v] \in activeRdId /\ Cmd[v] = "rd"
      BY <2>4 DEF TokenInv, IdInv, OwnsId
    <3>2. c = "rd" => Id[v] # Id[t]
      BY <2>3, <2>4 DEF TokenInv, IdInv
    <3> QED
      BY <1>4, <3>1, <3>2
  <2>5. \A v, w \in Tx : OwnsId(v)' /\ OwnsId(w)' /\ Id[v] = Id[w] => v = w
    BY <2>1, <2>2 DEF TokenInv, IdInv
  <2>6. \A v \in Tx : OwnsId(v)' => Id[v] \in activeRdId'
    BY <2>1, <2>2, <2>4
  <2> QED
    BY <2>5, <2>6 DEF IdInv
<1> QED
  BY <1>11, <1>13, <1>14, <1>15, <1>16, <1>17, <1>18 DEF TokenInv

-----------------------------------------------------------------------------
(* The invariant.                                                          *)

\* A time point that was due, whichever queue it comes from.
LEMMA DueToken ==
  ASSUME TypeOK, TokenInv, UNCHANGED iniVars, UNCHANGED fw, NEW t \in Tx, NEW q,
         NEW k, LeftOver(t, q, k), NEW tp \in DueIn(t, fsm[t]), ~NotDue(t),
         React(t, tp, q, k)
  PROVE  TokenInv'
<1>1. CASE fsm[t] = "PartialRequest"
  <2>1. tp = "EndPartReqE"
    BY <1>1 DEF DueIn
  <2> QED
    BY <1>1, <2>1, EndPartReqToken
<1>2. CASE fsm[t] = "Request"
  <2>1. tp = "EndReqE"
    BY <1>2 DEF DueIn
  <2> QED
    BY <1>2, <2>1, EndReqToken
<1>3. CASE fsm[t] \in {"WaitForResponse", "ReadIdle"}
  BY <1>3, BegRespToken
<1>4. CASE fsm[t] \notin {"PartialRequest", "Request", "WaitForResponse",
                          "ReadIdle"}
  BY <1>4 DEF DueIn
<1> QED
  BY <1>1, <1>2, <1>3, <1>4

\* A phase that arrives from the initiator.
LEMMA NbFwToken ==
  ASSUME TypeOK, TokenInv, UNCHANGED iniVars, NEW t \in Tx, NbFw(t)
  PROVE  TokenInv'
<1> DEFINE phase == Head(fw[t])
<1>1. LinkOK(t) /\ fw[t] # << >> /\ fw' = Drop(fw, t)
  BY DEF TokenInv, LinkInv, NbFw
<1>2. CASE phase = "BEGIN_PARTIAL_REQ"
  <2>1. ~LastBeat(t)
    BY <1>1, <1>2, SeqOne DEF LinkOK
  <2>2. Cmd[t] = "wr"
    BY <2>1, ChannelAssumption DEF LastBeat, ChannelAssumption, Cmds
  <2>3. BeginRequest(t, "BegPartReqE")
    BY <1>2, <2>2 DEF NbFw
  <2> QED
    BY <1>1, <1>2, <2>1, <2>3, BeginRequestToken
<1>3. CASE phase = "BEGIN_REQ"
  <2>1. LastBeat(t)
    BY <1>1, <1>3, SeqOne DEF LinkOK
  <2>2. BeginRequest(t, "BegReqE")
    BY <1>3 DEF NbFw
  <2> QED
    BY <1>1, <1>3, <2>1, <2>2, BeginRequestToken
<1>4. CASE phase = "END_PARTIAL_RESP"
  <2>1. React(t, "EndPartRespE", evq, clkq)
    BY <1>4 DEF NbFw
  <2> QED
    BY <1>1, <1>4, <2>1, EndPartRespToken
<1>5. CASE phase = "END_RESP"
  <2>1. React(t, "EndRespE", evq, clkq)
    BY <1>5 DEF NbFw
  <2> QED
    BY <1>1, <1>5, <2>1, EndRespToken
<1>6. CASE phase = "ACK"
  <2>1. React(t, "Ack", evq, clkq)
    BY <1>6 DEF NbFw
  <2> QED
    BY <1>1, <1>6, <2>1, AckToken
<1> QED
  BY <1>2, <1>3, <1>4, <1>5, <1>6 DEF NbFw

LEMMA TgtTokenStep ==
  ASSUME TypeOK, TokenInv, TgtNext, UNCHANGED iniVars
  PROVE  TokenInv'
<1>1. ASSUME NEW t \in Tx, NbFw(t) PROVE TokenInv'
  BY <1>1, NbFwToken
<1>2. ASSUME NEW t \in Tx, ProcessFsmClkQueue(t) PROVE TokenInv'
  <2>1. /\ LeftOver(t, evq, [clkq EXCEPT ![t] = Tail(@)])
        /\ Head(clkq[t]) \in DueIn(t, fsm[t]) /\ ~NotDue(t)
    BY <1>2, TakeFromClkq DEF TypeOK, TokenInv, ProcessFsmClkQueue
  <2> QED
    BY <1>2, <2>1, DueToken DEF ProcessFsmClkQueue
<1>3. ASSUME NEW t \in Tx, ProcessReq2Resp(t) PROVE TokenInv'
  BY <1>3, ProcessReq2RespToken
<1>4. CASE ProcessFsmEvent
  <2> DEFINE t  == Head(evq).tx
             tp == Head(evq).tp
  <2>1. /\ LeftOver(t, Tail(evq), clkq) /\ tp \in DueIn(t, fsm[t])
        /\ ~NotDue(t) /\ t \in Tx
    BY <1>4, TakeFromEvq DEF TypeOK, TokenInv, ProcessFsmEvent
  <2>2. React(t, tp, Tail(evq), clkq) /\ UNCHANGED fw
    BY <1>4 DEF ProcessFsmEvent
  <2> HIDE DEF t, tp
  <2> QED
    BY <2>1, <2>2, DueToken
<1>5. CASE PushBackOverdue
  BY <1>5, PushBackOverdueToken
<1>6. ASSUME NEW c \in Cmds, SendRespBeat(c) PROVE TokenInv'
  BY <1>6, SendRespBeatToken
<1>7. CASE StartRdRead
  BY <1>7, StartRdReadToken
<1>8. CASE StartRdSem
  BY <1>8, StartRdSemToken
<1>9. CASE StartRdBegin
  BY <1>9, StartRdBeginToken
<1>10. CASE StartWr
  BY <1>10, StartWrToken
<1> QED
  BY <1>1, <1>2, <1>3, <1>4, <1>5, <1>6, <1>7, <1>8, <1>9, <1>10 DEF TgtNext

LEMMA InitToken == Init => TokenInv
<1> SUFFICES ASSUME Init PROVE TokenInv
  OBVIOUS
<1>1. /\ active = {} /\ evq = << >> /\ rdStart.tx = NoTx /\ activeRdId = {}
      /\ \A t \in Tx : /\ fsm[t] = "Idle" /\ clkq[t] = << >>
                       /\ fw[t] = << >> /\ bw[t] = << >> /\ ini[t] = "idle"
      /\ \A c \in Cmds : /\ stalledTx[c] = NoTx /\ req2resp[c] = << >>
                         /\ respFifo[c] = << >> /\ beatFifo[c] = << >>
  BY DEF Init, LinkInit, IniInit, TgtInit
<1>2. IsInjective(<< >>) /\ Range(<< >>) = {} /\ OneEach(<< >>)
  BY DEF IsInjective, Range, OneEach
<1>3. ActiveInv /\ ReadInv /\ LinkInv /\ ChannelInv
  BY <1>1 DEF ActiveInv, ReadInv, LinkInv, LinkOK, RestStates, ChannelInv
<1>4. DueInv /\ ParkedInv /\ WaitingInv /\ BeatInv
  BY <1>1, <1>2 DEF DueInv, QueuesOK, ParkedInv, WaitingInv, BeatInv
<1>5. IdInv
  BY <1>1 DEF IdInv, OwnsId, Responding
<1> QED
  BY <1>3, <1>4, <1>5 DEF TokenInv

LEMMA NextToken ==
  ASSUME TypeOK, TokenInv, [Next]_vars
  PROVE  TokenInv'
<1>1. CASE Next
  BY <1>1, IniTokenStep, TgtTokenStep DEF Next
<1>2. CASE UNCHANGED vars
  <2>1. UNCHANGED <<iniVars, linkVars, tgtVars>>
    BY <1>2 DEF vars
  <2>2. /\ ActiveInv' /\ DueInv' /\ ParkedInv' /\ IdInv' /\ ReadInv'
        /\ \A u : NotDue(u)' <=> NotDue(u)
    BY <2>1, UnmovedFrame DEF tgtVars
  <2>3. WaitingInv'
    BY <2>1, <2>2 DEF TokenInv, WaitingInv, tgtVars
  <2>4. BeatInv' /\ ChannelInv'
    BY <2>1 DEF TokenInv, BeatInv, ChannelInv, HoldsChnl, tgtVars, iniVars,
                linkVars
  <2>5. LinkInv'
    BY <2>1 DEF TokenInv, LinkInv, LinkOK, LastBeat, tgtVars, iniVars, linkVars
  <2> QED
    BY <2>2, <2>3, <2>4, <2>5 DEF TokenInv
<1> QED
  BY <1>1, <1>2

\* At any time the next step of a transaction is in one place, one that the
\* state of its state machine expects.
THEOREM TokenInvariant == Spec => [](TypeOK /\ TokenInv)
<1>1. Init => TokenInv
  BY InitToken
<1>2. TypeOK /\ TokenInv /\ [Next]_vars => TokenInv'
  BY NextToken
<1> QED
  BY <1>1, <1>2, TypeCorrect, PTL DEF Spec

-----------------------------------------------------------------------------
(* The properties.                                                         *)

\* fsm_event_queue and fsm_clk_queue never hold two time points of one
\* transaction: process_fsm_event and process_fsm_clk_queue cannot race.
THEOREM ScheduledOnceHolds == Spec => []ScheduledOnce
<1>1. TypeOK /\ TokenInv => ScheduledOnce
  <2> SUFFICES ASSUME TypeOK, TokenInv, NEW t \in Tx
               PROVE  /\ \A i, j \in DOMAIN clkq[t] : i = j
                      /\ \A i, j \in PlacesOf(t, evq) : i = j
                      /\ DOMAIN clkq[t] = {} \/ PlacesOf(t, evq) = {}
    BY DEF ScheduledOnce
  <2>1. /\ clkq[t] \in Seq(TimePoints) /\ evq \in Seq(Scheduled)
        /\ QueuesOK(evq, clkq, fsm)
    BY DEF TypeOK, TgtTypeOK, TokenInv, DueInv
  <2>2. \A i, j \in DOMAIN clkq[t] : i = j
    <3>1. clkq[t] = << >> \/ Len(clkq[t]) = 1
      BY <2>1 DEF QueuesOK
    <3> QED
      BY <2>1, <3>1
  <2>3. \A i, j \in PlacesOf(t, evq) : i = j
    BY <2>1 DEF PlacesOf, QueuesOK, OneEach
  <2>4. ASSUME NEW i \in PlacesOf(t, evq) PROVE clkq[t] = << >>
    <3>1. evq[i] \in Range(evq) /\ evq[i].tx = t
      BY <2>4 DEF PlacesOf, Range
    <3> QED
      BY <2>1, <3>1 DEF QueuesOK
  <2> QED
    BY <2>2, <2>3, <2>4
<1> QED
  BY <1>1, TokenInvariant, PTL

\* A handle that is back in the pool is idle, and no queue, slot or FIFO of
\* axi_target_pe still refers to its payload.
THEOREM FreedIsCleanHolds == Spec => []FreedIsClean
<1>1. TypeOK /\ TokenInv => FreedIsClean
  <2> SUFFICES ASSUME TypeOK, TokenInv, NEW t \in Tx, t \notin active
               PROVE  /\ fsm[t] = "Idle" /\ clkq[t] = << >>
                      /\ PlacesOf(t, evq) = {}
                      /\ \A c \in Cmds :
                           /\ stalledTx[c] # t
                           /\ PlacesOf(t, beatFifo[c]) = {}
                           /\ t \notin Range(req2resp[c]) \union Range(respFifo[c])
                      /\ rdStart.tx # t
    BY DEF FreedIsClean, TokenInv, ActiveInv
  <2>1. fsm[t] = "Idle" /\ t # NoTx
    BY ChannelAssumption DEF ChannelAssumption, TokenInv, ActiveInv
  <2>2. NotDue(t)
    BY <2>1, NothingDue DEF TypeOK, TokenInv, DueIn
  <2>3. clkq[t] = << >> /\ PlacesOf(t, evq) = {}
    BY <2>2 DEF NotDue, NotIn, PlacesOf, Range
  <2>4. \A c \in Cmds : stalledTx[c] # t
    BY <2>1 DEF TokenInv, ParkedInv
  <2>5. \A c \in Cmds : PlacesOf(t, beatFifo[c]) = {}
    BY <2>1, BeatOwner DEF TokenInv, PlacesOf, Range
  <2>6. /\ \A c \in Cmds : t \notin Range(req2resp[c]) \union Range(respFifo[c])
        /\ rdStart.tx # t
    BY <2>1 DEF TokenInv, WaitingInv
  <2> QED
    BY <2>1, <2>3, <2>4, <2>5, <2>6
<1> QED
  BY <1>1, TokenInvariant, PTL

\* active_rdresp_id keeps the responses to reads with one id apart.
THEOREM SameIdReadsSerialHolds == Spec => []SameIdReadsSerial
<1>1. TypeOK /\ TokenInv => SameIdReadsSerial
  BY DEF SameIdReadsSerial, OfCmd, TokenInv, IdInv, OwnsId
<1> QED
  BY <1>1, TokenInvariant, PTL

\* stalled_tx holds one request per command.  It is never overwritten while it
\* is in use, because the initiator keeps the request channel of the command
\* until the parked request is answered.
THEOREM StallSlotKeptHolds == Spec => StallSlotKept
<1> DEFINE Kept == \A c \in Cmds :
             stalledTx[c] # NoTx => stalledTx'[c] \in {stalledTx[c], NoTx}
<1>1. ASSUME TypeOK, NEW t, NEW tp, NEW q, NEW k, React(t, tp, q, k)
      PROVE  Kept
  <2>1. CASE UNCHANGED stalledTx
    BY <2>1
  <2>2. CASE \E c : stalledTx' = [stalledTx EXCEPT ![c] = NoTx]
    BY <1>1, <2>2 DEF TypeOK, TgtTypeOK
  <2>3. ASSUME EndRespCb(t, q, k)
        PROVE  \/ UNCHANGED stalledTx
               \/ \E c : stalledTx' = [stalledTx EXCEPT ![c] = NoTx]
    BY <2>3 DEF EndRespCb, LetIn
  <2> QED
    BY <1>1, <2>1, <2>2, <2>3
    DEF React, Quiet, EndPartReqCb, EndReqCb, BegRespCb, EndPartRespCb, admitVars
<1>2. ASSUME TypeOK, TokenInv, NEW t \in Tx, NEW tp, fw[t] # << >>,
             Head(fw[t]) \in {"BEGIN_REQ", "BEGIN_PARTIAL_REQ"},
             BeginRequest(t, tp)
      PROVE  Kept
  <2>1. CASE UNCHANGED stalledTx
    BY <2>1
  <2>2. CASE stalledTx' = [stalledTx EXCEPT ![Cmd[t]] = t]
    <3> SUFFICES stalledTx[Cmd[t]] = NoTx
      BY <1>2, <2>2 DEF TypeOK, TgtTypeOK
    <3> SUFFICES ASSUME stalledTx[Cmd[t]] # NoTx PROVE FALSE
      OBVIOUS
    <3>1. PICK u \in Tx : u = stalledTx[Cmd[t]]
      BY <1>2, ChannelAssumption DEF ChannelAssumption, TypeOK, TgtTypeOK
    <3>2. fsm[u] \in {"PartialRequest", "Request"} /\ Cmd[u] = Cmd[t]
      BY <1>2, <3>1, ChannelAssumption
      DEF ChannelAssumption, TokenInv, ParkedInv
    <3>3. LinkOK(t) /\ LinkOK(u)
      BY <1>2 DEF TokenInv, LinkInv
    <3>4. ini[t] = "send" /\ fsm[t] \in RestStates
      BY <1>2, <3>3, SeqOne DEF LinkOK
    <3>5. ini[u] = "send"
      BY <3>2, <3>3 DEF LinkOK, RestStates
    <3>6. t = u
      BY <1>2, <3>2, <3>4, <3>5 DEF TokenInv, ChannelInv, HoldsChnl
    <3> QED
      BY <3>2, <3>4, <3>6 DEF RestStates
  <2> QED
    BY <1>2, <2>1, <2>2 DEF BeginRequest, Park, Accept, admitVars
<1>3. ASSUME TypeOK, TokenInv, NEW t \in Tx, NbFw(t) PROVE Kept
  <2>1. /\ fw[t] # << >>
        /\ \/ /\ Head(fw[t]) \in {"BEGIN_REQ", "BEGIN_PARTIAL_REQ"}
              /\ \E tp : BeginRequest(t, tp)
           \/ \E tp : React(t, tp, evq, clkq)
    BY <1>3 DEF NbFw
  <2> QED
    BY <1>1, <1>2, <1>3, <2>1
<1>4. ASSUME TypeOK, TokenInv, TgtNext PROVE Kept
  <2>1. CASE UNCHANGED stalledTx
    BY <2>1
  <2>2. ASSUME NEW t \in Tx, ProcessFsmClkQueue(t) PROVE Kept
    BY <1>1, <1>4, <2>2 DEF ProcessFsmClkQueue
  <2>3. CASE ProcessFsmEvent
    BY <1>1, <1>4, <2>3 DEF ProcessFsmEvent
  <2> HIDE DEF Kept
  <2>4. CASE \/ \E t \in Tx : ProcessReq2Resp(t)
             \/ PushBackOverdue
             \/ \E c \in Cmds : SendRespBeat(c)
             \/ StartRdRead \/ StartRdSem \/ StartRdBegin \/ StartWr
    BY <2>1, <2>4
    DEF ProcessReq2Resp, PushBackOverdue, SendRespBeat, StartRdRead, StartRdSem,
        StartRdBegin, StartWr, startRdRest, admitVars
  <2> QED
    BY <1>3, <1>4, <2>2, <2>3, <2>4 DEF TgtNext
<1>5. TypeOK /\ TokenInv /\ [Next]_vars => [Kept]_vars
  <2>1. ASSUME UNCHANGED tgtVars PROVE Kept
    BY <2>1 DEF tgtVars
  <2> QED
    BY <1>4, <2>1 DEF Next
<1> QED
  BY <1>5, TokenInvariant, PTL DEF Spec, StallSlotKept
=============================================================================
