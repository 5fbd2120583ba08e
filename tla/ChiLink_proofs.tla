--------------------------- MODULE ChiLink_proofs ---------------------------
(***************************************************************************)
(* Theorems about ChiLink for any payloads, requests and limits: credits   *)
(* are conserved in both directions, the id lock of transport keeps        *)
(* requests with one id apart, the gate lets ordered requests pass one at  *)
(* a time, and a data burst keeps its channel; the state of a transaction  *)
(* has one owner, the handlers and calls are counted, and what a process   *)
(* waits for fits what the home node has still to send.                    *)
(***************************************************************************)
EXTENDS ChiLink, Integers, SeqLemmas, FiniteSetTheorems, TLAPS

-----------------------------------------------------------------------------
(* The credits for REQ, WDAT and SRSP, which the home node hands out.      *)

ReceivedInv ==
  /\ crd \in [Channels -> Int] /\ owed \in [Channels -> Int]
  /\ ReceivedCreditsConserved

\* A phase that is sent uses a credit, which the home node owes from then on;
\* n come back in the same call.
LEMMA SpendKeeps ==
  ASSUME ReceivedInv, NEW c \in Channels, NEW n \in Int,
         crd' = Spend(c, n), HN!Return(c, n)
  PROVE  ReceivedInv'
BY ChiAssumption DEF ReceivedInv, ReceivedCreditsConserved, Spend, HN!Return,
   ChiAssumption

\* n credits the home node owes come back.
LEMMA ReturnKeeps ==
  ASSUME ReceivedInv, NEW c \in Channels, NEW n \in Int,
         crd' = [crd EXCEPT ![c] = @ + n], owed' = [owed EXCEPT ![c] = @ - n]
  PROVE  ReceivedInv'
BY ChiAssumption DEF ReceivedInv, ReceivedCreditsConserved, ChiAssumption

LEMMA ReturnedType ==
  ASSUME ReceivedInv, NEW c \in Channels
  PROVE  HN!Returned(c) \in Int /\ HN!ReturnedNow(c) \in Int
BY DEF ReceivedInv, HN!Returned, HN!ReturnedNow

LEMMA ReceivedFrame ==
  ASSUME ReceivedInv, UNCHANGED <<crd, owed>>
  PROVE  ReceivedInv'
BY DEF ReceivedInv, ReceivedCreditsConserved

LEMMA TransportReceived ==
  ASSUME ReceivedInv, NEW t \in Reqs, TransportStep(t)
  PROVE  ReceivedInv'
<1>1. CASE IdleHn /\ (Transport(t) \/ PassOrder(t) \/ PassStrict(t)
                        \/ PassId(t) \/ ReqDone(t) \/ Finish(t))
  BY <1>1, ReceivedFrame DEF IdleHn, hnVars, crdVars, Transport, PassOrder,
     PassStrict, PassId, ReqDone, Finish
<1>2. ASSUME NEW n, n = HN!ReturnedNow("REQ"), SendReq(t, mode.sync, n),
             HN!HnRequest(t, req[t], n)
      PROVE  ReceivedInv'
  <2>1. "REQ" \in Channels
    BY DEF Channels
  <2>2. n \in Int
    BY <1>2, <2>1, ReturnedType
  <2> QED
    BY <1>2, <2>1, <2>2, SpendKeeps DEF SendReq, HN!HnRequest
<1>3. CASE \/ Response(t) /\ HN!HnEnd(t, 0)
           \/ AtomicResponse(t) /\ HN!HnEnd(t, 0)
  BY <1>3, ReceivedFrame DEF Response, AtomicResponse, HN!HnEnd, crdVars
<1>4. CASE AtomicIn(t) /\ (IdleHn \/ HN!HnEnd(t, AtomicTopUp))
  BY <1>4, ReceivedFrame DEF AtomicIn, HN!HnEnd, IdleHn, hnVars
<1> QED
  BY <1>1, <1>2, <1>3, <1>4 DEF TransportStep

LEMMA SnoopReceived ==
  ASSUME ReceivedInv, NEW s \in Snps, SnoopStep(s)
  PROVE  ReceivedInv'
<1>1. CASE IdleHn /\ ((\E k \in Kinds : SnoopResp(s, k))
                        \/ Join(s) \/ FinishSnoop(s))
  BY <1>1, ReceivedFrame DEF IdleHn, hnVars, crdVars, SnoopResp, Join,
     FinishSnoop
<1>2. ASSUME NEW n, NEW pulled, n = HN!ReturnedNow("SRSP"),
             SendSnoopResp(s, mode.sync, n), HN!HnSnoopResp(s, pulled, n)
      PROVE  ReceivedInv'
  <2>1. "SRSP" \in Channels
    BY DEF Channels
  <2>2. n \in Int
    BY <1>2, <2>1, ReturnedType
  <2> QED
    BY <1>2, <2>1, <2>2, SpendKeeps DEF SendSnoopResp, HN!HnSnoopResp
<1>3. CASE SnoopWait(s) /\ (IdleHn \/ HN!HnEnd(s, 0))
  BY <1>3, ReceivedFrame DEF SnoopWait, HN!HnEnd, IdleHn, hnVars, crdVars
<1> QED
  BY <1>1, <1>2, <1>3 DEF SnoopStep

LEMMA DataReceived ==
  ASSUME ReceivedInv, NEW x \in Xs, DataStep(x)
  PROVE  ReceivedInv'
<1>1. ASSUME NEW n, NEW last, n = HN!ReturnedNow("WDAT"),
             SendData(x, mode.sync, n), HN!HnData(x, last, n)
      PROVE  ReceivedInv'
  <2>1. "WDAT" \in Channels
    BY DEF Channels
  <2>2. n \in Int
    BY <1>1, <2>1, ReturnedType
  <2> QED
    BY <1>1, <2>1, <2>2, SpendKeeps DEF SendData, HN!HnData
<1>2. CASE DataDone(x) /\ IdleHn
  BY <1>2, ReceivedFrame DEF DataDone, IdleHn, hnVars, crdVars
<1>3. ASSUME NEW n, n = HN!Returned("SRSP"), SendAck(x, n), HN!HnAck(n)
      PROVE  ReceivedInv'
  <2>1. "SRSP" \in Channels
    BY DEF Channels
  <2>2. n \in Int
    BY <1>3, <2>1, ReturnedType
  <2> QED
    BY <1>3, <2>1, <2>2, SpendKeeps DEF SendAck, HN!HnAck
<1> QED
  BY <1>1, <1>2, <1>3 DEF DataStep

\* An answer of the home node that carries credits, for a request; the answers
\* to a snoop carry none.
LEMMA HnReceived ==
  ASSUME ReceivedInv, NEW x \in Xs, HnStep(x)
  PROVE  ReceivedInv'
<1>1. ASSUME NEW phase, NEW op, HN!HnSend(x, req[x].beats),
             BwPhase(x, phase, op, 0)
      PROVE  ReceivedInv'
  BY <1>1, ReceivedFrame DEF HN!HnSend, BwPhase
<1>2. ASSUME NEW phase, NEW c, NEW n, c = CreditOf(phase),
             n = IF mode.attach /\ x \notin Snps THEN owed[c] ELSE 0,
             HN!HnAnswer(x, c, n), BwPhase(x, phase, NoResponse, n)
      PROVE  ReceivedInv'
  <2>1. c \in Channels
    BY <1>2 DEF CreditOf, Channels
  <2>2. n \in Int /\ (x \in Snps => n = 0)
    BY <1>2, <2>1 DEF ReceivedInv
  <2>3. crd' = [crd EXCEPT ![c] = @ + n]
    <3>1. crd' = IF x \in Snps \/ n = 0 THEN crd
                 ELSE [crd EXCEPT ![c] = @ + n]
      BY <1>2 DEF BwPhase
    <3>2. n = 0 => crd = [crd EXCEPT ![c] = @ + n]
      BY <2>1 DEF ReceivedInv
    <3> QED
      BY <2>2, <3>1, <3>2
  <2>4. owed' = [owed EXCEPT ![c] = @ - n]
    BY <1>2 DEF HN!HnAnswer
  <2> QED
    BY <2>1, <2>2, <2>3, <2>4, ReturnKeeps
<1> QED
  BY <1>1, <1>2 DEF HnStep, HnRespond, HnEndPhase

LEMMA NextReceived ==
  ASSUME ReceivedInv, [Next]_vars
  PROVE  ReceivedInv'
<1>1. CASE HandlerStep \/ ClkStep \/ \E s \in Snps : SendSnoop(s)
  BY <1>1, ReceivedFrame DEF HandlerStep, ClkStep, SendSnoop, Dispatch,
     HandlerIdle, TakeSnoop, ClkCounter, BwSnoop, IdleHn, hnVars, crdVars,
     HN!HnCredits, HN!HnSnoop
<1>2. ASSUME NEW c \in Channels, Grant(c)
      PROVE  ReceivedInv'
  <2>1. owed[c] \in Int
    BY DEF ReceivedInv
  <2> QED
    BY <1>2, <2>1, ReturnKeeps DEF Grant, HN!HnGrant, BwCredit
<1>3. CASE UNCHANGED vars
  BY <1>3, ReceivedFrame DEF vars, rnVars, hnVars, crdVars
<1> QED
  BY <1>1, <1>2, <1>3, TransportReceived, SnoopReceived, DataReceived,
     HnReceived DEF Next

LEMMA InitReceived ==
  ASSUME Init
  PROVE  ReceivedInv
BY ChiAssumption DEF Init, RnInit, HN!HnInit, ReceivedInv, ChiAssumption,
   ReceivedCreditsConserved

-----------------------------------------------------------------------------
(* Most steps move one process between places in the middle of its work.   *)

Working == Pcs \ {"idle", "order", "strict", "id", "snp", "later", "done"}

Quiet(x) ==
  /\ UNCHANGED <<req, idq, snpq, dispq, kind>>
  /\ pc[x] \in Working
  /\ \E to \in Working : Goto(x, to)

LEMMA ContinueQuiet ==
  ASSUME NEW t, NEW left, NEW q, Continue(t, left, q)
  PROVE  \E to \in Working : Goto(t, to)
BY DEF Continue, Working, Pcs

LEMMA SnpContinueQuiet ==
  ASSUME NEW s, NEW left, NEW q, SnpContinue(s, left, q)
  PROVE  \E to \in Working : Goto(s, to)
BY DEF SnpContinue, Working, Pcs

LEMMA RequestQuiet ==
  ASSUME NEW t, NEW upd, NEW n, SendReq(t, upd, n) \/ ReqDone(t)
  PROVE  Quiet(t)
BY DEF SendReq, ReqDone, Quiet, Working, Pcs, fixed, gateVars, snpVars

LEMMA ResponseQuiet ==
  ASSUME NEW t, Response(t)
  PROVE  Quiet(t)
<1>1. \E to \in Working : Goto(t, to)
  <2>1. CASE TakeResponse(t)
    <3>1. CASE Goto(t, "wdat")
      BY <3>1 DEF Working, Pcs
    <3> QED
      BY <2>1, <3>1, ContinueQuiet DEF TakeResponse
  <2>2. CASE TakeData(t) \/ TakeIllegal(t)
    BY <2>2, ContinueQuiet DEF TakeData, TakeIllegal
  <2> QED
    BY <2>1, <2>2 DEF Response
<1> QED
  BY <1>1 DEF Response, Quiet, Working, Pcs, fixed, snpVars

LEMMA AtomicQuiet ==
  ASSUME NEW t, AtomicResponse(t) \/ AtomicIn(t)
  PROVE  Quiet(t)
<1>1. CASE AtomicResponse(t)
  BY <1>1 DEF AtomicResponse, Quiet, Working, Pcs, fixed, snpVars
<1>2. CASE AtomicIn(t)
  BY <1>2 DEF AtomicIn, Quiet, Working, Pcs, fixed, gateVars, snpVars
<1> QED
  BY <1>1, <1>2

LEMMA DataQuiet ==
  ASSUME NEW x, DataStep(x)
  PROVE  Quiet(x)
<1>1. ASSUME NEW upd, NEW n, SendData(x, upd, n) \/ SendAck(x, n)
      PROVE  Quiet(x)
  BY <1>1 DEF SendData, SendAck, Quiet, Working, Pcs, fixed, gateVars, snpVars
<1>2. CASE DataDone(x)
  <2>1. \E to \in Working : Goto(x, to)
    <3>1. CASE Goto(x, "ain") \/ Goto(x, "wdat") \/ Goto(x, "end")
      BY <3>1 DEF Working, Pcs
    <3> QED
      BY <1>2, <3>1, ContinueQuiet DEF DataDone
  <2>2. pc[x] \in Working
    BY <1>2 DEF DataDone, Working, Pcs
  <2> QED
    BY <1>2, <2>1, <2>2 DEF DataDone, Quiet, fixed, gateVars
<1> QED
  BY <1>1, <1>2 DEF DataStep

LEMMA SnoopQuiet ==
  ASSUME NEW s, NEW upd, NEW n,
         SendSnoopResp(s, upd, n) \/ SnoopWait(s) \/ Join(s)
  PROVE  Quiet(s)
<1>1. CASE Join(s)
  BY <1>1 DEF Join, SendPc, Quiet, Working, Pcs, fixed, gateVars, snpVars
<1>2. CASE SendSnoopResp(s, upd, n)
  <2>1. \E to \in Working : Goto(s, to)
    BY <1>2, SnpContinueQuiet DEF SendSnoopResp
  <2> QED
    BY <1>2, <2>1 DEF SendSnoopResp, Quiet, Working, Pcs, fixed, gateVars
<1>3. CASE SnoopWait(s)
  <2>1. \E to \in Working : Goto(s, to)
    BY <1>3, SnpContinueQuiet DEF SnoopWait
  <2> QED
    BY <1>3, <2>1 DEF SnoopWait, Quiet, Working, Pcs, fixed, gateVars
<1> QED
  BY <1>1, <1>2, <1>3

-----------------------------------------------------------------------------
(* The id lock.                                                            *)

PcInv ==
  /\ req \in Scenarios
  /\ pc \in [Xs -> Pcs]
  /\ \A x \in Xs : pc[x] # "idle" => x \in DOMAIN req
  /\ \A t \in Reqs : pc[t] \notin {"snp", "later"}

IdLine(t) == idq[req[t].txn]

\* A request at work is the first in the queue of its id, one that waits for
\* the lock is somewhere in it.
IdInv ==
  /\ idq \in [TxnIds -> Seq(Reqs)]
  /\ \A t \in Reqs \intersect DOMAIN req :
       /\ pc[t] = "id" => \E i \in 1 .. Len(IdLine(t)) : IdLine(t)[i] = t
       /\ pc[t] \in Working => IdLine(t) # << >> /\ Head(IdLine(t)) = t

LEMMA PcMoves ==
  ASSUME PcInv, NEW x \in Xs, NEW to \in Pcs, Goto(x, to), req' = req,
         x \in DOMAIN req, x \in Reqs => to \notin {"snp", "later"}
  PROVE  PcInv'
BY DEF PcInv, Goto

LEMMA QuietPc ==
  ASSUME PcInv, NEW x \in Xs, Quiet(x)
  PROVE  PcInv'
BY PcMoves DEF Quiet, PcInv, Working

LEMMA QuietId ==
  ASSUME PcInv, IdInv, NEW x \in Xs, Quiet(x)
  PROVE  IdInv'
<1>1. PICK to \in Working : pc' = [pc EXCEPT ![x] = to]
  BY DEF Quiet, Goto
<1>2. \A t \in Reqs : /\ pc'[t] = "id" => pc[t] = "id"
                      /\ pc'[t] \in Working => pc[t] \in Working
  BY <1>1 DEF Quiet, PcInv, Working, Xs
<1> QED
  BY <1>2 DEF IdInv, IdLine, Quiet

\* A step that neither touches the locks nor lets a request work keeps IdInv.
LEMMA OutsideId ==
  ASSUME PcInv, IdInv, NEW x \in Xs, NEW to \in Pcs, Goto(x, to),
         UNCHANGED <<req, idq>>,
         x \in Reqs => to \notin Working \union {"id"}
  PROVE  IdInv'
<1>1. \A t \in Reqs : /\ pc'[t] = "id" => pc[t] = "id"
                      /\ pc'[t] \in Working => pc[t] \in Working
  BY ChiAssumption DEF PcInv, Goto, Xs, ChiAssumption
<1> QED
  BY <1>1 DEF IdInv, IdLine

LEMMA EnterId ==
  ASSUME PcInv, IdInv, NEW t \in Reqs, t \in DOMAIN req, Goto(t, "id"),
         req' = req, idq' = Enter(idq, req[t].txn, t)
  PROVE  IdInv'
<1> DEFINE n == req[t].txn
<1>1. n \in TxnIds /\ \A u \in DOMAIN req : req[u].txn \in TxnIds
  BY ChiAssumption DEF ChiAssumption, PcInv
<1>2. idq' = [idq EXCEPT ![n] = Append(@, t)] /\ idq[n] \in Seq(Reqs)
  BY <1>1 DEF Enter, IdInv
<1>3. idq' \in [TxnIds -> Seq(Reqs)]
  BY <1>1, <1>2 DEF IdInv
<1>4. /\ Len(Append(idq[n], t)) = Len(idq[n]) + 1
      /\ Append(idq[n], t)[Len(idq[n]) + 1] = t
      /\ \A i \in 1 .. Len(idq[n]) : Append(idq[n], t)[i] = idq[n][i]
      /\ Len(idq[n]) \in Nat
  BY <1>2
<1>5. idq[n] # << >> => /\ Append(idq[n], t) # << >>
                       /\ Head(Append(idq[n], t)) = Head(idq[n])
  BY <1>2
<1>6. ASSUME NEW u \in Reqs, u \in DOMAIN req
      PROVE  /\ pc'[u] = "id"
                   => \E i \in 1 .. Len(IdLine(u)') : IdLine(u)'[i] = u
             /\ pc'[u] \in Working
                   => IdLine(u)' # << >> /\ Head(IdLine(u)') = u
  <2>1. CASE u = t
    <3>1. pc'[u] = "id" /\ IdLine(u)' = Append(idq[n], t)
      BY <2>1, <1>1, <1>2 DEF PcInv, Goto, Xs, IdInv, IdLine
    <3>2. Len(idq[n]) + 1 \in 1 .. Len(IdLine(u)')
      BY <3>1, <1>4
    <3> QED
      BY <2>1, <3>1, <3>2, <1>4 DEF Working
  <2>2. CASE u # t
    <3>1. pc'[u] = pc[u]
      BY <2>2 DEF PcInv, Goto, Xs
    <3>2. CASE req[u].txn = n
      <4>1. IdLine(u)' = Append(idq[n], t) /\ IdLine(u) = idq[n]
        BY <3>2, <1>1, <1>2 DEF IdInv, IdLine
      <4>2. pc[u] = "id" => \E i \in 1 .. Len(IdLine(u)') :
                                IdLine(u)'[i] = u
        <5>1. ASSUME pc[u] = "id"
              PROVE  \E i \in 1 .. Len(IdLine(u)') : IdLine(u)'[i] = u
          <6>1. PICK i \in 1 .. Len(idq[n]) : idq[n][i] = u
            BY <1>6, <5>1, <4>1 DEF IdInv
          <6>2. i \in 1 .. Len(IdLine(u)')
            BY <6>1, <4>1, <1>4
          <6> QED
            BY <6>1, <6>2, <4>1, <1>4
        <5> QED
          BY <5>1
      <4> QED
        BY <1>6, <3>1, <4>1, <4>2, <1>5 DEF IdInv
    <3>3. CASE req[u].txn # n
      <4>1. IdLine(u)' = IdLine(u)
        BY <3>3, <1>1, <1>2 DEF IdInv, IdLine
      <4> QED
        BY <1>6, <3>1, <4>1 DEF IdInv
    <3> QED
      BY <3>2, <3>3
  <2> QED
    BY <2>1, <2>2
<1> QED
  BY <1>3, <1>6 DEF IdInv

\* transport goes on: to the queue of strict order, or to that of the id.
LEMMA OnwardKeeps ==
  ASSUME PcInv, IdInv, NEW t \in Reqs, NEW q, t \in DOMAIN req, Onward(t, q),
         req' = req
  PROVE  PcInv' /\ IdInv'
<1>1. CASE Goto(t, "strict") /\ UNCHANGED idq
  <2>1. "strict" \in Pcs /\ "strict" \notin Working \union {"id"}
    BY DEF Pcs, Working
  <2> QED
    BY <1>1, <2>1, PcMoves, OutsideId DEF Xs
<1>2. CASE Goto(t, "id") /\ idq' = Enter(idq, req[t].txn, t)
  <2>1. "id" \in Pcs
    BY DEF Pcs
  <2> QED
    BY <1>2, <2>1, PcMoves, EnterId DEF Xs
<1> QED
  BY <1>1, <1>2 DEF Onward

LEMMA GatesKeep ==
  ASSUME PcInv, IdInv, NEW t \in Reqs,
         Transport(t) \/ PassOrder(t) \/ PassStrict(t)
  PROVE  PcInv' /\ IdInv'
<1>1. t \in DOMAIN req /\ req' = req
  BY DEF Transport, PassOrder, PassStrict, PcInv, fixed, Xs
<1>2. CASE Goto(t, "order") /\ UNCHANGED idq
  <2>1. "order" \in Pcs /\ "order" \notin Working \union {"id"}
    BY DEF Pcs, Working
  <2> QED
    BY <1>1, <1>2, <2>1, PcMoves, OutsideId DEF Xs
<1>3. CASE PassStrict(t)
  <2>1. "id" \in Pcs
    BY DEF Pcs
  <2> QED
    BY <1>1, <1>3, <2>1, PcMoves, EnterId DEF PassStrict, Xs
<1> QED
  BY <1>1, <1>2, <1>3, OnwardKeeps DEF Transport, PassOrder

LEMMA PassIdKeeps ==
  ASSUME PcInv, IdInv, NEW t \in Reqs, PassId(t)
  PROVE  PcInv' /\ IdInv'
<1>1. /\ t \in DOMAIN req /\ UNCHANGED <<req, idq>> /\ Goto(t, "req")
      /\ pc[t] = "id" /\ Head(IdLine(t)) = t
  BY DEF PassId, HoldsId, PcInv, fixed, gateVars, IdLine, Xs
<1>2. "req" \in Pcs
  BY DEF Pcs
<1>3. IdLine(t) \in Seq(Reqs)
  BY <1>1, ChiAssumption DEF IdLine, IdInv, PcInv, ChiAssumption
<1>4. IdLine(t) # << >>
  BY <1>1, <1>3 DEF IdInv
<1>5. \A u \in Reqs : u # t => pc'[u] = pc[u]
  BY <1>1 DEF Goto, PcInv
<1>6. pc'[t] = "req"
  BY <1>1 DEF Goto, PcInv, Xs
<1>7. \A u \in Reqs : IdLine(u)' = IdLine(u)
  BY <1>1 DEF IdLine
<1>8. IdInv'
  BY <1>1, <1>4, <1>5, <1>6, <1>7 DEF IdInv
<1> QED
  BY <1>1, <1>2, <1>8, PcMoves DEF Xs

\* The call that ends was the first in the queue of its id.
LEMMA FinishKeeps ==
  ASSUME PcInv, IdInv, NEW t \in Reqs, Finish(t)
  PROVE  PcInv' /\ IdInv'
<1> DEFINE n == req[t].txn
<1>1. /\ t \in DOMAIN req /\ req' = req /\ Goto(t, "done")
      /\ pc[t] = "end" /\ idq' = [idq EXCEPT ![n] = Tail(@)]
  BY DEF Finish, PcInv, fixed, Xs, Leave
<1>2. "done" \in Pcs
  BY DEF Pcs
<1>3. n \in TxnIds /\ \A u \in DOMAIN req : req[u].txn \in TxnIds
  BY <1>1, ChiAssumption DEF ChiAssumption, PcInv
<1>4. idq[n] \in Seq(Reqs) /\ idq[n] # << >> /\ idq[n][1] = t
  <2>1. idq[n] \in Seq(Reqs) /\ IdLine(t) = idq[n]
    BY <1>3 DEF IdInv, IdLine
  <2>2. "end" \in Working
    BY DEF Working, Pcs
  <2>3. idq[n] # << >> /\ Head(idq[n]) = t
    BY <1>1, <2>1, <2>2 DEF IdInv
  <2> QED
    BY <2>1, <2>3
<1>5. /\ Tail(idq[n]) \in Seq(Reqs) /\ Len(idq[n]) \in Nat \ {0}
      /\ Len(Tail(idq[n])) = Len(idq[n]) - 1
      /\ \A i \in 1 .. Len(idq[n]) - 1 : Tail(idq[n])[i] = idq[n][i + 1]
  BY <1>4
<1>6. idq' \in [TxnIds -> Seq(Reqs)]
  BY <1>1, <1>3, <1>5 DEF IdInv
<1>7. ASSUME NEW u \in Reqs, u \in DOMAIN req
      PROVE  /\ pc'[u] = "id"
                   => \E i \in 1 .. Len(IdLine(u)') : IdLine(u)'[i] = u
             /\ pc'[u] \in Working
                   => IdLine(u)' # << >> /\ Head(IdLine(u)') = u
  <2>1. CASE u = t
    BY <1>1, <2>1 DEF Goto, PcInv, Xs, Working
  <2>2. CASE u # t
    <3>1. pc'[u] = pc[u]
      BY <1>1, <2>2 DEF PcInv, Goto, Xs
    <3>2. CASE req[u].txn = n
      <4>1. IdLine(u)' = Tail(idq[n]) /\ IdLine(u) = idq[n]
        BY <1>1, <1>3, <3>2 DEF IdInv, IdLine
      <4>2. pc[u] \notin Working
        BY <1>4, <1>7, <2>2, <4>1 DEF IdInv
      <4>3. ASSUME pc[u] = "id"
            PROVE  \E i \in 1 .. Len(IdLine(u)') : IdLine(u)'[i] = u
        <5>1. PICK i \in 1 .. Len(idq[n]) : idq[n][i] = u
          BY <1>7, <4>1, <4>3 DEF IdInv
        <5>2. i # 1
          BY <1>4, <2>2, <5>1
        <5>3. i - 1 \in 1 .. Len(idq[n]) - 1 /\ (i - 1) + 1 = i
          BY <5>1, <5>2, <1>5
        <5>4. Tail(idq[n])[i - 1] = u
          BY <5>1, <5>3, <1>5
        <5> QED
          BY <4>1, <5>3, <5>4, <1>5
      <4> QED
        BY <3>1, <4>2, <4>3
    <3>3. CASE req[u].txn # n
      <4>1. IdLine(u)' = IdLine(u)
        BY <1>1, <1>3, <1>7, <3>3 DEF IdInv, IdLine
      <4> QED
        BY <1>7, <3>1, <4>1 DEF IdInv
    <3> QED
      BY <3>2, <3>3
  <2> QED
    BY <2>1, <2>2
<1>8. IdInv'
  BY <1>1, <1>6, <1>7 DEF IdInv
<1> QED
  BY <1>1, <1>2, <1>8, PcMoves DEF Xs

-----------------------------------------------------------------------------
(* The snoops on their way to a handler.                                   *)

Waiting == {"idle", "snp", "later"}

\* The queue q holds snoops that wait for a handler, each once.
InLine(q) ==
  /\ q \in Seq(Snps)
  /\ \A i \in 1 .. Len(q) : pc[q[i]] = "snp"
  /\ \A i, j \in 1 .. Len(q) : q[i] = q[j] => i = j

SnoopInv ==
  /\ InLine(snpq) /\ InLine(dispq)
  /\ \A i \in 1 .. Len(snpq), j \in 1 .. Len(dispq) : snpq[i] # dispq[j]
  /\ kind \in [Snps -> Kinds \union {"none"}]
  /\ \A s \in Snps : pc[s] \in Waiting => kind[s] = "none"

\* The process of x moves, and x is in neither queue.
LEMMA SnoopFrame ==
  ASSUME PcInv, SnoopInv, NEW x \in Xs, NEW to \in Pcs, Goto(x, to),
         UNCHANGED <<snpq, dispq, kind>>,
         x \in Snps => pc[x] # "snp" /\ to \notin Waiting
  PROVE  SnoopInv'
<1>1. \A s \in Snps : /\ pc[s] = "snp" => pc'[s] = "snp"
                      /\ pc'[s] \in Waiting => pc[s] \in Waiting
  BY ChiAssumption DEF PcInv, Goto, Xs, ChiAssumption
<1>2. ASSUME NEW q \in Seq(Snps), \A i \in 1 .. Len(q) : pc[q[i]] = "snp"
      PROVE  \A i \in 1 .. Len(q) : pc'[q[i]] = "snp"
  <2>1. \A i \in 1 .. Len(q) : q[i] \in Snps
    BY <1>2
  <2> QED
    BY <1>1, <1>2, <2>1
<1>3. InLine(snpq)' /\ InLine(dispq)'
  BY <1>2 DEF SnoopInv, InLine
<1> QED
  BY <1>1, <1>3 DEF SnoopInv

LEMMA QuietSnoop ==
  ASSUME PcInv, SnoopInv, NEW x \in Xs, Quiet(x)
  PROVE  SnoopInv'
BY SnoopFrame DEF Quiet, Working, Waiting

LEMMA TailLine ==
  ASSUME NEW q, InLine(q), q # << >>
  PROVE  /\ Tail(q) \in Seq(Snps) /\ Head(q) \in Snps /\ pc[Head(q)] = "snp"
         /\ \A i \in 1 .. Len(Tail(q)) :
              /\ i + 1 \in 1 .. Len(q) /\ Tail(q)[i] = q[i + 1]
              /\ Tail(q)[i] # Head(q) /\ pc[Tail(q)[i]] = "snp"
         /\ \A i, j \in 1 .. Len(Tail(q)) : Tail(q)[i] = Tail(q)[j] => i = j
         /\ 1 \in 1 .. Len(q) /\ Head(q) = q[1]
<1>1. q \in Seq(Snps)
  BY DEF InLine
<1>2. /\ Tail(q) \in Seq(Snps) /\ Head(q) \in Snps /\ Head(q) = q[1]
      /\ Len(q) \in Nat \ {0} /\ Len(Tail(q)) = Len(q) - 1
      /\ \A i \in 1 .. Len(q) - 1 : Tail(q)[i] = q[i + 1]
  BY <1>1
<1>3. \A i \in 1 .. Len(Tail(q)) : i + 1 \in 1 .. Len(q) /\ i + 1 # 1
  BY <1>2
<1>4. 1 \in 1 .. Len(q)
  BY <1>2
<1> QED
  BY <1>2, <1>3, <1>4 DEF InLine

LEMMA AppendLine ==
  ASSUME NEW q \in Seq(Snps), NEW s \in Snps
  PROVE  /\ Append(q, s) \in Seq(Snps)
         /\ \A i \in 1 .. Len(Append(q, s)) :
              \/ i \in 1 .. Len(q) /\ Append(q, s)[i] = q[i]
              \/ i = Len(q) + 1 /\ Append(q, s)[i] = s
<1>1. /\ Append(q, s) \in Seq(Snps) /\ Len(q) \in Nat
      /\ Len(Append(q, s)) = Len(q) + 1
      /\ Append(q, s)[Len(q) + 1] = s
      /\ \A i \in 1 .. Len(q) : Append(q, s)[i] = q[i]
  OBVIOUS
<1>2. \A i \in 1 .. Len(q) + 1 : i \in 1 .. Len(q) \/ i = Len(q) + 1
  BY <1>1
<1> QED
  BY <1>1, <1>2

LEMMA DispatchSnoop ==
  ASSUME SnoopInv, Dispatch
  PROVE  SnoopInv'
<1> DEFINE s == Head(snpq)
<1>1. /\ snpq # << >> /\ snpq' = Tail(snpq) /\ dispq' = Append(dispq, s)
      /\ UNCHANGED <<pc, kind>>
  BY DEF Dispatch
<1>2. InLine(snpq) /\ InLine(dispq) /\ dispq \in Seq(Snps)
  BY DEF SnoopInv, InLine
<1>3. \A i \in 1 .. Len(dispq) : dispq[i] # s
  BY <1>1, <1>2, TailLine DEF SnoopInv
<1>4. InLine(snpq)'
  BY <1>1, <1>2, TailLine DEF InLine
<1>5. InLine(dispq)'
  BY <1>1, <1>2, <1>3, TailLine, AppendLine DEF InLine
<1>6. \A i \in 1 .. Len(snpq'), j \in 1 .. Len(dispq') : snpq'[i] # dispq'[j]
  <2>1. ASSUME NEW i \in 1 .. Len(snpq'), NEW j \in 1 .. Len(dispq')
        PROVE  snpq'[i] # dispq'[j]
    <3>1. snpq'[i] # s /\ i + 1 \in 1 .. Len(snpq)
             /\ snpq'[i] = snpq[i + 1]
      BY <1>1, <1>2, TailLine
    <3>2. \/ j \in 1 .. Len(dispq) /\ dispq'[j] = dispq[j]
          \/ dispq'[j] = s
      BY <1>1, <1>2, TailLine, AppendLine
    <3> QED
      BY <3>1, <3>2 DEF SnoopInv
  <2> QED
    BY <2>1
<1> QED
  BY <1>1, <1>4, <1>5, <1>6 DEF SnoopInv

LEMMA BwSnoopKeeps ==
  ASSUME PcInv, IdInv, SnoopInv, NEW s \in Snps, BwSnoop(s)
  PROVE  PcInv' /\ IdInv' /\ SnoopInv'
<1>1. /\ s \in DOMAIN req /\ pc[s] = "idle" /\ Goto(s, "snp")
      /\ snpq' = Append(snpq, s)
      /\ UNCHANGED <<req, idq, dispq, kind>>
  BY DEF BwSnoop, fixed, gateVars
<1>2. "snp" \in Pcs /\ s \in Xs /\ s \notin Reqs
  BY ChiAssumption DEF Pcs, Xs, ChiAssumption
<1>3. PcInv' /\ IdInv'
  BY <1>1, <1>2, PcMoves, OutsideId
<1>4. /\ snpq \in Seq(Snps) /\ \A i \in 1 .. Len(snpq) : snpq[i] # s
      /\ dispq \in Seq(Snps) /\ \A i \in 1 .. Len(dispq) : dispq[i] # s
  BY <1>1 DEF SnoopInv, InLine
<1>5. \A u \in Snps : pc'[u] = IF u = s THEN "snp" ELSE pc[u]
  BY <1>1, <1>2 DEF Goto, PcInv, Xs
<1>6. InLine(dispq)'
  <2>1. \A i \in 1 .. Len(dispq) : dispq[i] \in Snps
    BY <1>4
  <2> QED
    BY <1>1, <1>4, <1>5, <2>1 DEF SnoopInv, InLine
<1>7. InLine(snpq)'
  <2>1. \A i \in 1 .. Len(snpq) : /\ snpq[i] \in Snps /\ snpq[i] # s
                                   /\ pc[snpq[i]] = "snp"
    BY <1>4 DEF SnoopInv, InLine
  <2>2. /\ snpq' \in Seq(Snps)
        /\ \A i \in 1 .. Len(snpq') :
             \/ i \in 1 .. Len(snpq) /\ snpq'[i] = snpq[i]
             \/ i = Len(snpq) + 1 /\ snpq'[i] = s
    BY <1>1, <1>4, AppendLine
  <2>3. \A i \in 1 .. Len(snpq') : pc'[snpq'[i]] = "snp"
    BY <1>5, <2>1, <2>2
  <2>4. \A i, j \in 1 .. Len(snpq') : snpq'[i] = snpq'[j] => i = j
    BY <2>1, <2>2 DEF SnoopInv, InLine
  <2> QED
    BY <2>2, <2>3, <2>4 DEF InLine
<1>8. \A i \in 1 .. Len(snpq'), j \in 1 .. Len(dispq) : snpq'[i] # dispq[j]
  BY <1>1, <1>4, AppendLine DEF SnoopInv
<1> QED
  BY <1>1, <1>3, <1>5, <1>6, <1>7, <1>8 DEF SnoopInv, Waiting

LEMMA TakeSnoopKeeps ==
  ASSUME PcInv, IdInv, SnoopInv, NEW fresh,
         NEW k \in Kinds \union {"later"}, TakeSnoop(fresh, k)
  PROVE  PcInv' /\ IdInv' /\ SnoopInv'
<1> DEFINE s == Head(dispq)
<1>1. /\ dispq # << >> /\ dispq' = Tail(dispq) /\ snpq' = snpq
      /\ UNCHANGED <<req, idq>>
  BY DEF TakeSnoop, fixed, gateVars
<1>2. InLine(dispq) /\ InLine(snpq)
  BY DEF SnoopInv
<1>3. s \in Snps /\ pc[s] = "snp" /\ kind[s] = "none"
  BY <1>1, <1>2, TailLine DEF SnoopInv, Waiting
<1>4. s \in Xs /\ s \notin Reqs /\ s \in DOMAIN req
  BY <1>3, ChiAssumption DEF Xs, ChiAssumption, PcInv
<1>5. \/ Goto(s, "later") /\ kind' = kind
      \/ /\ \E to \in Pcs \ Waiting : Goto(s, to)
         /\ kind' = [kind EXCEPT ![s] = k] /\ k \in Kinds
  <2>1. CASE k = "later"
    BY <2>1 DEF TakeSnoop
  <2>2. CASE k # "later"
    <3>1. Answer(s, k, TRUE)
      BY <2>2 DEF TakeSnoop
    <3> QED
      BY <2>2, <3>1 DEF Answer, SendPc, Pcs, Waiting
  <2> QED
    BY <2>1, <2>2
<1>6. PICK to \in Pcs \ {"idle", "snp"} : Goto(s, to)
  BY <1>5 DEF Pcs, Waiting
<1>7. PcInv' /\ IdInv'
  BY <1>1, <1>4, <1>6, PcMoves, OutsideId
<1>8. \A u \in Snps : u # s => pc'[u] = pc[u]
  BY <1>6 DEF Goto, PcInv, Xs
<1>9. InLine(dispq)'
  <2>1. \A i \in 1 .. Len(Tail(dispq)) : Tail(dispq)[i] \in Snps \ {s}
    <3>1. /\ Tail(dispq) \in Seq(Snps)
          /\ \A i \in 1 .. Len(Tail(dispq)) : Tail(dispq)[i] # s
      BY <1>1, <1>2, TailLine
    <3> QED
      BY <3>1
  <2> QED
    BY <1>1, <1>2, <1>8, <2>1, TailLine DEF InLine
<1>10. InLine(snpq)'
  <2>1. \A i \in 1 .. Len(snpq) : snpq[i] \in Snps \ {s}
    BY <1>1, <1>2, TailLine DEF SnoopInv, InLine
  <2> QED
    BY <1>1, <1>2, <1>8, <2>1 DEF InLine
<1>11. \A i \in 1 .. Len(snpq), j \in 1 .. Len(dispq') : snpq[i] # dispq'[j]
  BY <1>1, <1>2, TailLine DEF SnoopInv
<1>12. /\ kind' \in [Snps -> Kinds \union {"none"}]
       /\ \A u \in Snps : pc'[u] \in Waiting => kind'[u] = "none"
  <2>1. CASE Goto(s, "later") /\ kind' = kind
    BY <1>3, <1>8, <2>1 DEF SnoopInv
  <2>2. CASE /\ \E p \in Pcs \ Waiting : Goto(s, p)
             /\ kind' = [kind EXCEPT ![s] = k] /\ k \in Kinds
    <3>1. pc'[s] \notin Waiting
      BY <1>4, <2>2 DEF Goto, PcInv
    <3> QED
      BY <1>8, <2>2, <3>1 DEF SnoopInv
  <2> QED
    BY <1>5, <2>1, <2>2
<1> QED
  BY <1>1, <1>7, <1>9, <1>10, <1>11, <1>12 DEF SnoopInv

LEMMA SnoopRespKeeps ==
  ASSUME PcInv, IdInv, SnoopInv, NEW s \in Snps, NEW k \in Kinds,
         SnoopResp(s, k)
  PROVE  PcInv' /\ IdInv' /\ SnoopInv'
<1>1. /\ pc[s] = "later" /\ UNCHANGED <<req, idq, snpq, dispq>>
      /\ kind' = [kind EXCEPT ![s] = k]
      /\ \E to \in Pcs \ Waiting : Goto(s, to)
  BY DEF SnoopResp, Answer, SendPc, Pcs, Waiting, fixed, gateVars
<1>2. s \in Xs /\ s \notin Reqs /\ s \in DOMAIN req
  BY <1>1, ChiAssumption DEF Xs, ChiAssumption, PcInv
<1>3. PICK to \in Pcs \ Waiting : Goto(s, to)
  BY <1>1
<1>4. PcInv' /\ IdInv'
  BY <1>1, <1>2, <1>3, PcMoves, OutsideId DEF Waiting
<1>5. pc'[s] \notin Waiting /\ \A u \in Snps : u # s => pc'[u] = pc[u]
  BY <1>2, <1>3 DEF Goto, PcInv, Xs
<1>6. ASSUME NEW q, InLine(q)
      PROVE  \A i \in 1 .. Len(q) : pc'[q[i]] = "snp"
  <2>1. \A i \in 1 .. Len(q) : q[i] \in Snps /\ q[i] # s
    BY <1>1, <1>6 DEF InLine
  <2> QED
    BY <1>5, <1>6, <2>1 DEF InLine
<1>7. InLine(snpq)' /\ InLine(dispq)'
  <2>1. InLine(snpq) /\ InLine(dispq)
    BY DEF SnoopInv
  <2>2. /\ \A i \in 1 .. Len(snpq) : pc'[snpq[i]] = "snp"
        /\ \A i \in 1 .. Len(dispq) : pc'[dispq[i]] = "snp"
    BY <1>6, <2>1
  <2> QED
    BY <1>1, <2>1, <2>2 DEF InLine
<1> QED
  BY <1>1, <1>4, <1>5, <1>7 DEF SnoopInv

\* The calls of transport that do no snoop.
LEMMA RequestStepKeeps ==
  ASSUME PcInv, IdInv, SnoopInv, NEW t \in Reqs, TransportStep(t)
  PROVE  PcInv' /\ IdInv' /\ SnoopInv'
<1>1. t \in Xs /\ t \notin Snps
  BY ChiAssumption DEF Xs, ChiAssumption
<1>2. CASE Quiet(t)
  BY <1>1, <1>2, QuietPc, QuietId, QuietSnoop
<1>3. CASE Transport(t) \/ PassOrder(t) \/ PassStrict(t)
  <2>1. \E to \in Pcs : Goto(t, to)
    BY <1>3 DEF Transport, PassOrder, PassStrict, Onward, Pcs
  <2>2. UNCHANGED <<snpq, dispq, kind>>
    BY <1>3 DEF Transport, PassOrder, PassStrict, snpVars
  <2> QED
    BY <1>1, <1>3, <2>1, <2>2, GatesKeep, SnoopFrame
<1>4. CASE PassId(t) \/ Finish(t)
  <2>1. \E to \in Pcs : Goto(t, to)
    BY <1>4 DEF PassId, Finish, Pcs
  <2>2. UNCHANGED <<snpq, dispq, kind>>
    BY <1>4 DEF PassId, Finish, snpVars
  <2> QED
    BY <1>1, <1>4, <2>1, <2>2, PassIdKeeps, FinishKeeps, SnoopFrame
<1> QED
  BY <1>2, <1>3, <1>4, RequestQuiet, ResponseQuiet, AtomicQuiet
     DEF TransportStep

LEMMA SnoopStepKeeps ==
  ASSUME PcInv, IdInv, SnoopInv, NEW s \in Snps, SnoopStep(s)
  PROVE  PcInv' /\ IdInv' /\ SnoopInv'
<1>1. s \in Xs /\ s \notin Reqs
  BY ChiAssumption DEF Xs, ChiAssumption
<1>2. CASE Quiet(s)
  BY <1>1, <1>2, QuietPc, QuietId, QuietSnoop
<1>3. CASE FinishSnoop(s)
  <2>1. /\ pc[s] = "end" /\ Goto(s, "done") /\ s \in DOMAIN req
        /\ UNCHANGED <<req, idq, snpq, dispq, kind>>
    BY <1>1, <1>3 DEF FinishSnoop, PcInv, fixed, gateVars
  <2>2. "done" \in Pcs /\ "done" \notin Waiting
    BY DEF Pcs, Waiting
  <2> QED
    BY <1>1, <2>1, <2>2, PcMoves, OutsideId, SnoopFrame
<1> QED
  BY <1>2, <1>3, SnoopRespKeeps, SnoopQuiet DEF SnoopStep

LEMMA PlacesFrame ==
  ASSUME PcInv, IdInv, SnoopInv,
         UNCHANGED <<req, pc, idq, snpq, dispq, kind>>
  PROVE  PcInv' /\ IdInv' /\ SnoopInv'
<1>1. PcInv' /\ IdInv'
  BY DEF PcInv, IdInv, IdLine
<1>2. InLine(snpq)' /\ InLine(dispq)'
  BY SMTT(30) DEF SnoopInv, InLine
<1> QED
  BY <1>1, <1>2 DEF SnoopInv

PlacesInv == PcInv /\ IdInv /\ SnoopInv

LEMMA NextPlaces ==
  ASSUME PlacesInv, [Next]_vars
  PROVE  PlacesInv'
<1> USE DEF PlacesInv
<1>1. ASSUME NEW x \in Xs, DataStep(x)
      PROVE  PlacesInv'
  BY <1>1, DataQuiet, QuietPc, QuietId, QuietSnoop
<1>2. ASSUME NEW x \in Xs, HnStep(x)
      PROVE  PlacesInv'
  BY <1>2, PlacesFrame DEF HnStep, HnRespond, HnEndPhase, BwPhase, fixed,
     gateVars, snpVars
<1>3. CASE HandlerStep
  <2>1. CASE Dispatch
    BY <2>1, PlacesFrame, DispatchSnoop DEF Dispatch, fixed, gateVars, PcInv,
       IdInv, IdLine
  <2>2. CASE HandlerIdle
    BY <2>2, PlacesFrame DEF HandlerIdle, fixed, gateVars
  <2> QED
    BY <1>3, <2>1, <2>2, TakeSnoopKeeps DEF HandlerStep
<1>4. CASE ClkStep
  BY <1>4, PlacesFrame DEF ClkStep, ClkCounter, fixed, gateVars, snpVars
<1>5. ASSUME NEW c \in Channels, Grant(c)
      PROVE  PlacesInv'
  BY <1>5, PlacesFrame DEF Grant, BwCredit, fixed, gateVars, snpVars
<1>6. ASSUME NEW s \in Snps, SendSnoop(s)
      PROVE  PlacesInv'
  BY <1>6, BwSnoopKeeps DEF SendSnoop
<1>7. CASE UNCHANGED vars
  BY <1>7, PlacesFrame DEF vars, rnVars, fixed, gateVars, snpVars
<1> QED
  BY <1>1, <1>2, <1>3, <1>4, <1>5, <1>6, <1>7, RequestStepKeeps,
     SnoopStepKeeps DEF Next

LEMMA InitPlaces ==
  ASSUME Init
  PROVE  PlacesInv
<1>1. PcInv
  BY DEF Init, RnInit, PcInv, Pcs, Xs
<1>2. IdInv
  BY ChiAssumption DEF Init, RnInit, IdInv, Working, Xs
<1>3. SnoopInv
  BY DEF Init, RnInit, SnoopInv, InLine
<1> QED
  BY <1>1, <1>2, <1>3 DEF PlacesInv

\* However many calls of transport run, two with the same transaction id are
\* never on the link together.
THEOREM SameTxnSerialHolds == Spec => []SameTxnSerial
<1>1. Init => PlacesInv
  BY InitPlaces
<1>2. PlacesInv /\ [Next]_vars => PlacesInv'
  BY NextPlaces
<1>3. PlacesInv => SameTxnSerial
  <2>1. SUFFICES ASSUME PlacesInv,
                        NEW t \in Reqs \intersect DOMAIN req,
                        NEW u \in Reqs \intersect DOMAIN req,
                        t # u, req[t].txn = req[u].txn,
                        pc[t] \notin {"idle", "order", "strict", "id", "done"},
                        pc[u] \notin {"idle", "order", "strict", "id", "done"}
                 PROVE  FALSE
    BY DEF SameTxnSerial
  <2>2. pc[t] \in Working /\ pc[u] \in Working
    BY <2>1 DEF PlacesInv, PcInv, Working, Xs
  <2>3. Head(IdLine(t)) = t /\ Head(IdLine(u)) = u
    BY <2>1, <2>2 DEF PlacesInv, IdInv
  <2> QED
    BY <2>1, <2>3 DEF IdLine
<1> QED
  BY <1>1, <1>2, <1>3, PTL DEF Spec

-----------------------------------------------------------------------------
(* The credits for SNP, CRSP and RDAT, which the request node hands out.   *)

BeatPhases == {"BEGIN_DATA", "BEGIN_PARTIAL_DATA"}
EndPhases == {"END_REQ", "END_RESP", "END_DATA", "END_PARTIAL_DATA"}
ProvKinds == {"SNP", "CRSP", "RDAT"}

\* What the home node still has to send.  For a snoop that is read data, and
\* only if the snoop pulls it.
PlanInv ==
  /\ plan = [x \in Xs |-> plan[x]]
  /\ due \in [Xs -> Seq(EndPhases)]
  /\ rbeat \in [Xs -> Int]
  /\ \A s \in Snps : /\ plan[s] \in Seq(BeatPhases)
                     /\ kind[s] # "pull" => plan[s] = << >>

ProvidedInv ==
  /\ prov \in [ProvKinds -> Int] /\ hnCrd \in [ProvKinds -> Int]
  /\ ProvidedCreditsExact

LEMMA PlanFrame ==
  ASSUME PlanInv, UNCHANGED <<plan, due, rbeat, kind>>
  PROVE  PlanInv'
BY DEF PlanInv

LEMMA ProvidedFrame ==
  ASSUME ProvidedInv, UNCHANGED <<prov, hnCrd, kind>>
  PROVE  ProvidedInv'
BY DEF ProvidedInv, ProvidedCreditsExact

LEMMA AnswerLaterType ==
  ASSUME PlanInv, NEW x \in Xs, NEW phase \in EndPhases,
         HN!AnswerLater(x, phase)
  PROVE  due' \in [Xs -> Seq(EndPhases)]
BY DEF PlanInv, HN!AnswerLater

\* An answer that hands out n credits for read data.
LEMMA TopUpKeeps ==
  ASSUME ProvidedInv, NEW n \in Int, prov.RDAT + n <= RdatLimit,
         prov' = [prov EXCEPT !.RDAT = @ + n],
         hnCrd' = [hnCrd EXCEPT !.RDAT = @ + n], kind' = kind
  PROVE  ProvidedInv'
<1>1. /\ prov' \in [ProvKinds -> Int] /\ hnCrd' \in [ProvKinds -> Int]
      /\ prov'.RDAT = prov.RDAT + n /\ hnCrd'.RDAT = hnCrd.RDAT + n
      /\ prov'.SNP = prov.SNP /\ hnCrd'.SNP = hnCrd.SNP
      /\ prov'.CRSP = prov.CRSP /\ hnCrd'.CRSP = hnCrd.CRSP
  BY DEF ProvidedInv, ProvKinds
<1>2. /\ prov.RDAT \in Int /\ hnCrd.RDAT \in Int /\ RdatLimit \in Int
  BY ChiAssumption DEF ProvidedInv, ProvKinds, ChiAssumption
<1> QED
  BY <1>1, <1>2 DEF ProvidedInv, ProvidedCreditsExact

LEMMA NothingAdded ==
  ASSUME ProvidedInv, hnCrd' = [hnCrd EXCEPT !.RDAT = @ + 0]
  PROVE  hnCrd' = hnCrd
BY DEF ProvidedInv, ProvKinds

LEMMA AtomicTopUpType ==
  ASSUME ProvidedInv
  PROVE  AtomicTopUp \in Int /\ prov.RDAT + AtomicTopUp <= RdatLimit
<1>1. prov.RDAT \in Int /\ prov.RDAT <= RdatLimit
  BY DEF ProvidedInv, ProvKinds, ProvidedCreditsExact
<1>2. RdatLimit \in Int
  BY ChiAssumption DEF ChiAssumption
<1> QED
  BY <1>1, <1>2 DEF AtomicTopUp

LEMMA AtomicInKeeps ==
  ASSUME PlanInv, ProvidedInv, NEW t \in Reqs, AtomicIn(t),
         IF rbeat'[t] = rbeat[t] THEN IdleHn ELSE HN!HnEnd(t, AtomicTopUp)
  PROVE  PlanInv' /\ ProvidedInv'
<1>1. /\ kind' = kind /\ plan' = plan /\ due' = due
      /\ rbeat[t] \in Int /\ t \in Xs
  BY DEF AtomicIn, snpVars, IdleHn, hnVars, HN!HnEnd, PlanInv, Xs
<1>2. CASE rbeat' = rbeat /\ prov' = prov
  BY <1>1, <1>2, PlanFrame, ProvidedFrame DEF IdleHn, hnVars
<1>3. CASE rbeat' = [rbeat EXCEPT ![t] = @ + 0]
             /\ prov' = [prov EXCEPT !.RDAT = @ + 0]
  <2>1. rbeat' = rbeat
    BY <1>3 DEF PlanInv
  <2>2. prov' = prov
    BY <1>3 DEF ProvidedInv, ProvKinds
  <2> QED
    BY <1>2, <2>1, <2>2
<1>4. CASE rbeat' = [rbeat EXCEPT ![t] = @ + 1]
             /\ prov' = [prov EXCEPT !.RDAT = @ + AtomicTopUp]
  <2>1. rbeat'[t] # rbeat[t] /\ rbeat' \in [Xs -> Int]
    BY <1>1, <1>4 DEF PlanInv
  <2>2. hnCrd' = [hnCrd EXCEPT !.RDAT = @ + AtomicTopUp]
    BY <2>1 DEF HN!HnEnd
  <2>3. ProvidedInv'
    BY <1>1, <1>4, <2>2, AtomicTopUpType, TopUpKeeps
  <2> QED
    BY <1>1, <2>1, <2>3 DEF PlanInv
<1> QED
  BY <1>2, <1>3, <1>4 DEF AtomicIn

LEMMA TransportProvided ==
  ASSUME PlanInv, ProvidedInv, NEW t \in Reqs, TransportStep(t)
  PROVE  PlanInv' /\ ProvidedInv'
<1>1. CASE IdleHn /\ (Transport(t) \/ PassOrder(t) \/ PassStrict(t)
                        \/ PassId(t) \/ ReqDone(t) \/ Finish(t))
  <2>1. UNCHANGED <<plan, due, rbeat, kind, prov, hnCrd>>
    BY <1>1 DEF IdleHn, hnVars, crdVars, snpVars, beatVars, Transport,
       PassOrder, PassStrict, PassId, ReqDone, Finish
  <2> QED
    BY <2>1, PlanFrame, ProvidedFrame
<1>2. ASSUME NEW n, SendReq(t, mode.sync, n), HN!HnRequest(t, req[t], n)
      PROVE  PlanInv' /\ ProvidedInv'
  <2>1. /\ UNCHANGED <<rbeat, kind, prov, hnCrd>>
        /\ \E p : plan' = [plan EXCEPT ![t] = p]
        /\ HN!AnswerLater(t, "END_REQ")
    BY <1>2 DEF SendReq, HN!HnRequest, snpVars, beatVars
  <2>2. t \in Xs /\ t \notin Snps /\ "END_REQ" \in EndPhases
    BY ChiAssumption DEF Xs, ChiAssumption, EndPhases
  <2>3. due' \in [Xs -> Seq(EndPhases)]
    BY <2>1, <2>2, AnswerLaterType
  <2>4. /\ plan' = [x \in Xs |-> plan'[x]]
        /\ \A s \in Snps : plan'[s] = plan[s]
    BY <2>1, <2>2 DEF PlanInv, Xs
  <2> QED
    BY <2>1, <2>3, <2>4, ProvidedFrame DEF PlanInv
<1>3. CASE \/ Response(t) /\ HN!HnEnd(t, 0)
           \/ AtomicResponse(t) /\ HN!HnEnd(t, 0)
  <2>1. UNCHANGED <<plan, due, kind, prov, hnCrd>>
    BY <1>3, NothingAdded DEF Response, AtomicResponse, HN!HnEnd, crdVars,
       snpVars
  <2>2. rbeat' = rbeat \/ rbeat' = [rbeat EXCEPT ![t] = @ + 1]
    BY <1>3 DEF Response, AtomicResponse, TakeResponse, TakeData, TakeIllegal,
       beatVars
  <2>3. rbeat' \in [Xs -> Int]
    BY <2>2 DEF PlanInv
  <2> QED
    BY <2>1, <2>3, ProvidedFrame DEF PlanInv
<1> QED
  BY <1>1, <1>2, <1>3, AtomicInKeeps DEF TransportStep

\* A snoop that waited gets its kind of answer: nothing is planned for it yet.
LEMMA KindKeeps ==
  ASSUME PlanInv, SnoopInv, NEW s \in Snps, NEW k \in Kinds, pc[s] \in Waiting,
         kind' = [kind EXCEPT ![s] = k], UNCHANGED <<plan, due, rbeat>>
  PROVE  /\ PlanInv'
         /\ (\A u \in Snps : kind'[u] # "pull")
               => \A u \in Snps : kind[u] # "pull"
<1>1. kind[s] = "none" /\ plan[s] = << >>
  BY DEF SnoopInv, PlanInv
<1>2. \A u \in Snps : u # s => kind'[u] = kind[u]
  BY DEF SnoopInv
<1> QED
  BY <1>1, <1>2 DEF PlanInv

\* The snoop response: what it pulls is planned.
LEMMA SnoopRespProvided ==
  ASSUME PlacesInv, PlanInv, ProvidedInv, NEW s \in Snps, NEW n,
         SendSnoopResp(s, mode.sync, n),
         HN!HnSnoopResp(s, IF kind[s] = "pull" THEN req[s].beats ELSE 0, n)
  PROVE  PlanInv' /\ ProvidedInv'
<1> DEFINE pulled == IF kind[s] = "pull" THEN req[s].beats ELSE 0
<1>1. /\ UNCHANGED <<rbeat, kind, prov, hnCrd>>
      /\ plan' = [plan EXCEPT ![s] = HN!Beats(pulled)]
      /\ HN!AnswerLater(s, "END_RESP")
  BY DEF SendSnoopResp, HN!HnSnoopResp, beatVars
<1>2. s \in Xs /\ "END_RESP" \in EndPhases /\ s \in DOMAIN req
  BY DEF Xs, EndPhases, SendSnoopResp, PlacesInv, PcInv
<1>3. due' \in [Xs -> Seq(EndPhases)]
  BY <1>1, <1>2, AnswerLaterType
<1>4. pulled \in Nat
  BY <1>2, ChiAssumption DEF PlacesInv, PcInv, ChiAssumption
<1>5. HN!Beats(pulled) \in Seq(BeatPhases)
  BY <1>4 DEF HN!Beats, BeatPhases
<1>6. kind[s] # "pull" => HN!Beats(pulled) = << >>
  <2>1. ASSUME kind[s] # "pull"
        PROVE  HN!Beats(pulled) = << >>
    <3>1. pulled = 0
      BY <2>1
    <3>2. Len(HN!Beats(0)) = 0
      BY DEF HN!Beats
    <3> QED
      BY <1>5, <3>1, <3>2
  <2> QED
    BY <2>1
<1>7. /\ plan' = [x \in Xs |-> plan'[x]]
      /\ plan'[s] = HN!Beats(pulled)
      /\ \A u \in Snps : u # s => plan'[u] = plan[u]
  BY <1>1, <1>2 DEF PlanInv, Xs
<1>8. PlanInv'
  BY <1>1, <1>3, <1>5, <1>6, <1>7 DEF PlanInv
<1> QED
  BY <1>1, <1>8, ProvidedFrame

LEMMA SnoopProvided ==
  ASSUME PlacesInv, PlanInv, ProvidedInv, NEW s \in Snps, SnoopStep(s)
  PROVE  PlanInv' /\ ProvidedInv'
<1>1. CASE IdleHn /\ (Join(s) \/ FinishSnoop(s))
  <2>1. UNCHANGED <<plan, due, rbeat, kind, prov, hnCrd>>
    BY <1>1 DEF IdleHn, hnVars, crdVars, snpVars, beatVars, Join, FinishSnoop
  <2> QED
    BY <2>1, PlanFrame, ProvidedFrame
<1>2. ASSUME NEW k \in Kinds, SnoopResp(s, k), IdleHn
      PROVE  PlanInv' /\ ProvidedInv'
  <2>1. /\ UNCHANGED <<plan, due, rbeat, prov, hnCrd>>
        /\ kind' = [kind EXCEPT ![s] = k] /\ pc[s] \in Waiting
    BY <1>2 DEF SnoopResp, Answer, IdleHn, hnVars, crdVars, beatVars, Waiting
  <2> QED
    BY <2>1, KindKeeps DEF PlacesInv, ProvidedInv, ProvidedCreditsExact
<1>3. CASE SnoopWait(s) /\ (IdleHn \/ HN!HnEnd(s, 0))
  <2>1. UNCHANGED <<plan, due, kind, prov, hnCrd>>
    BY <1>3, NothingAdded DEF SnoopWait, HN!HnEnd, IdleHn, hnVars, crdVars
  <2>2. \/ rbeat' = [rbeat EXCEPT ![s] = @ + 1]
        \/ rbeat' = [rbeat EXCEPT ![s] = @ + 0]
    BY <1>3 DEF SnoopWait
  <2>3. rbeat' \in [Xs -> Int]
    BY <2>2 DEF PlanInv
  <2> QED
    BY <2>1, <2>3, ProvidedFrame DEF PlanInv
<1> QED
  BY <1>1, <1>2, <1>3, SnoopRespProvided DEF SnoopStep

LEMMA DataProvided ==
  ASSUME PlanInv, ProvidedInv, NEW x \in Xs, DataStep(x)
  PROVE  PlanInv' /\ ProvidedInv'
<1>1. ASSUME NEW n, NEW last, SendData(x, mode.sync, n), HN!HnData(x, last, n)
      PROVE  PlanInv' /\ ProvidedInv'
  <2>1. UNCHANGED <<plan, rbeat, kind, prov, hnCrd>>
    BY <1>1 DEF SendData, HN!HnData, snpVars
  <2>2. due' \in [Xs -> Seq(EndPhases)]
    BY <1>1, AnswerLaterType DEF HN!HnData, EndPhases
  <2> QED
    BY <2>1, <2>2, ProvidedFrame DEF PlanInv
<1>2. CASE DataDone(x) /\ IdleHn
  <2>1. UNCHANGED <<plan, due, rbeat, kind, prov, hnCrd>>
    BY <1>2 DEF DataDone, IdleHn, hnVars, crdVars, beatVars
  <2> QED
    BY <2>1, PlanFrame, ProvidedFrame
<1>3. ASSUME NEW n, SendAck(x, n), HN!HnAck(n)
      PROVE  PlanInv' /\ ProvidedInv'
  <2>1. UNCHANGED <<plan, due, rbeat, kind, prov, hnCrd>>
    BY <1>3 DEF SendAck, HN!HnAck, snpVars
  <2> QED
    BY <2>1, PlanFrame, ProvidedFrame
<1> QED
  BY <1>1, <1>2, <1>3 DEF DataStep

LEMMA TakeSnoopProvided ==
  ASSUME PlacesInv, PlanInv, ProvidedInv, NEW fresh,
         NEW k \in Kinds \union {"later"}, TakeSnoop(fresh, k),
         HN!HnCredits([SNP |-> SnoopCredit, CRSP |-> 0, RDAT |-> 0])
  PROVE  PlanInv' /\ ProvidedInv'
<1> DEFINE s == Head(dispq)
           n == SnoopCredit
<1>1. /\ UNCHANGED <<plan, due, rbeat>> /\ dispq # << >>
      /\ prov' = [prov EXCEPT !.SNP = @ + n]
      /\ hnCrd' = [c \in DOMAIN hnCrd |->
                     hnCrd[c] + [SNP |-> n, CRSP |-> 0, RDAT |-> 0][c]]
  BY DEF TakeSnoop, HN!HnCredits, beatVars
<1>2. s \in Snps /\ pc[s] \in Waiting
  BY <1>1, TailLine DEF PlacesInv, SnoopInv, Waiting
<1>3. kind' = kind \/ (k \in Kinds /\ kind' = [kind EXCEPT ![s] = k])
  BY DEF TakeSnoop, Answer
<1>4. /\ PlanInv'
      /\ (\A u \in Snps : kind'[u] # "pull")
            => \A u \in Snps : kind[u] # "pull"
  BY <1>1, <1>2, <1>3, KindKeeps, PlanFrame DEF PlacesInv
<1>5. n \in Int /\ prov.SNP + n <= SnpLimit
  <2>1. prov.SNP \in Int /\ SnpLimit \in Int /\ prov.SNP <= SnpLimit
    BY ChiAssumption DEF ProvidedInv, ProvKinds, ProvidedCreditsExact,
       ChiAssumption
  <2> QED
    BY <2>1 DEF SnoopCredit
<1>6. /\ prov' \in [ProvKinds -> Int] /\ hnCrd' \in [ProvKinds -> Int]
      /\ prov'.SNP = prov.SNP + n /\ hnCrd'.SNP = hnCrd.SNP + n
      /\ prov'.CRSP = prov.CRSP /\ hnCrd'.CRSP = hnCrd.CRSP
      /\ prov'.RDAT = prov.RDAT /\ hnCrd'.RDAT = hnCrd.RDAT
  BY <1>1, <1>5 DEF ProvidedInv, ProvKinds
<1> QED
  BY <1>4, <1>5, <1>6 DEF ProvidedInv, ProvidedCreditsExact

\* The clock never grants more than the limits.
LEMMA GrantedType ==
  ASSUME ProvidedInv, snpCnt \in Int
  PROVE  /\ Granted \in [ProvKinds -> Int]
         /\ prov.SNP + Granted.SNP <= SnpLimit
         /\ prov.CRSP + Granted.CRSP <= CrespLimit
         /\ prov.RDAT + Granted.RDAT <= RdatLimit
<1>1. {prov.SNP, prov.CRSP, prov.RDAT} \subseteq Int
  BY DEF ProvidedInv, ProvKinds
<1>2. {SnpReqLimit, SnpLimit, CrespLimit, RdatLimit} \subseteq Int
  BY ChiAssumption DEF ChiAssumption
<1>3. /\ prov.SNP <= SnpLimit /\ prov.CRSP <= CrespLimit
      /\ prov.RDAT <= RdatLimit
  BY DEF ProvidedInv, ProvidedCreditsExact
<1>4. Granted.SNP \in Int /\ prov.SNP + Granted.SNP <= SnpLimit
  BY <1>1, <1>2, <1>3 DEF Granted
<1>5. Granted.CRSP \in Int /\ prov.CRSP + Granted.CRSP <= CrespLimit
  BY <1>1, <1>2, <1>3 DEF Granted
<1>6. Granted.RDAT \in Int /\ prov.RDAT + Granted.RDAT <= RdatLimit
  BY <1>1, <1>2, <1>3 DEF Granted
<1>7. Granted = [SNP |-> Granted.SNP, CRSP |-> Granted.CRSP,
                 RDAT |-> Granted.RDAT]
  BY DEF Granted
<1>8. Granted \in [ProvKinds -> Int]
  BY <1>4, <1>5, <1>6, <1>7 DEF ProvKinds
<1> QED
  BY <1>4, <1>5, <1>6, <1>8

LEMMA ClkProvided ==
  ASSUME PlanInv, ProvidedInv, snpCnt \in Int, ClkStep
  PROVE  PlanInv' /\ ProvidedInv'
<1>1. /\ UNCHANGED <<plan, due, rbeat, kind>>
      /\ prov' = [c \in DOMAIN prov |-> prov[c] + Granted[c]]
      /\ hnCrd' = [c \in DOMAIN hnCrd |-> hnCrd[c] + Granted[c]]
  BY DEF ClkStep, ClkCounter, HN!HnCredits, beatVars, snpVars
<1>2. /\ prov' \in [ProvKinds -> Int] /\ hnCrd' \in [ProvKinds -> Int]
      /\ \A c \in ProvKinds : /\ prov'[c] = prov[c] + Granted[c]
                              /\ hnCrd'[c] = hnCrd[c] + Granted[c]
  BY <1>1, GrantedType DEF ProvidedInv
<1>3. /\ prov'.SNP = prov.SNP + Granted.SNP
      /\ prov'.CRSP = prov.CRSP + Granted.CRSP
      /\ prov'.RDAT = prov.RDAT + Granted.RDAT
      /\ hnCrd'.SNP = hnCrd.SNP + Granted.SNP
      /\ hnCrd'.CRSP = hnCrd.CRSP + Granted.CRSP
      /\ hnCrd'.RDAT = hnCrd.RDAT + Granted.RDAT
  BY <1>2 DEF ProvKinds
<1>4. {prov.RDAT, hnCrd.RDAT, Granted.RDAT} \subseteq Int
  BY GrantedType DEF ProvidedInv, ProvKinds
<1>5. ProvidedInv'
  BY <1>1, <1>2, <1>3, <1>4, GrantedType DEF ProvidedInv, ProvidedCreditsExact
<1> QED
  BY <1>1, <1>5, PlanFrame

\* A response or a beat uses one credit; only the beats a snoop pulls are not
\* counted by the request node.
LEMMA HnRespondProvided ==
  ASSUME PlanInv, ProvidedInv, NEW x \in Xs, HnRespond(x)
  PROVE  PlanInv' /\ ProvidedInv'
<1> DEFINE item == Head(plan[x])
           phase == IF HN!IsBeat(item) THEN item ELSE "BEGIN_RESP"
           c == IF HN!IsBeat(item) THEN "RDAT" ELSE "CRSP"
<1>1. /\ plan[x] # << >> /\ plan' = [plan EXCEPT ![x] = Tail(@)]
      /\ hnCrd' = [hnCrd EXCEPT ![c] = @ - 1]
      /\ BwPhase(x, phase, item, 0) /\ UNCHANGED <<due, rbeat, kind>>
  BY DEF HnRespond, HN!HnSend, HN!Ready, BwPhase, snpVars
<1>2. /\ plan' = [y \in Xs |-> plan'[y]] /\ plan'[x] = Tail(plan[x])
      /\ \A s \in Snps : s # x => plan'[s] = plan[s]
  BY <1>1 DEF PlanInv, Xs
<1>3. x \in Snps => /\ plan[x] \in Seq(BeatPhases) /\ kind[x] = "pull"
                    /\ Tail(plan[x]) \in Seq(BeatPhases)
                    /\ HN!IsBeat(item)
  <2>1. x \in Snps => /\ plan[x] \in Seq(BeatPhases) /\ kind[x] = "pull"
    BY <1>1 DEF PlanInv
  <2>2. plan[x] \in Seq(BeatPhases) => /\ Tail(plan[x]) \in Seq(BeatPhases)
                                      /\ item \in BeatPhases
    BY <1>1
  <2> QED
    BY <2>1, <2>2 DEF BeatPhases, HN!IsBeat
<1>4. PlanInv'
  BY <1>1, <1>2, <1>3 DEF PlanInv
<1>5. prov' = IF x \in Snps THEN prov ELSE [prov EXCEPT ![c] = @ - 1]
  <2>1. CASE HN!IsBeat(item)
    BY <1>1, <2>1 DEF BwPhase, HN!IsBeat, PartialPhases
  <2>2. CASE ~HN!IsBeat(item)
    BY <1>1, <1>3, <2>2 DEF BwPhase, HN!IsBeat, PartialPhases
  <2> QED
    BY <2>1, <2>2
<1>6. /\ {prov.SNP, prov.CRSP, prov.RDAT} \subseteq Int
      /\ {hnCrd.SNP, hnCrd.CRSP, hnCrd.RDAT} \subseteq Int
      /\ {SnpLimit, CrespLimit, RdatLimit} \subseteq Int
  BY ChiAssumption DEF ProvidedInv, ProvKinds, ChiAssumption
<1>7. CASE x \in Snps
  <2>1. /\ hnCrd' \in [ProvKinds -> Int] /\ hnCrd'.RDAT = hnCrd.RDAT - 1
        /\ hnCrd'.SNP = hnCrd.SNP /\ hnCrd'.CRSP = hnCrd.CRSP
    BY <1>1, <1>3, <1>7 DEF ProvidedInv, ProvKinds
  <2>2. ~ \A s \in Snps : kind'[s] # "pull"
    BY <1>1, <1>3, <1>7
  <2>3. ProvidedInv'
    BY <1>5, <1>6, <1>7, <2>1, <2>2 DEF ProvidedInv, ProvidedCreditsExact
  <2> QED
    BY <1>4, <2>3
<1>8. CASE x \notin Snps /\ c = "RDAT"
  <2>1. /\ hnCrd' \in [ProvKinds -> Int] /\ hnCrd'.RDAT = hnCrd.RDAT - 1
        /\ hnCrd'.SNP = hnCrd.SNP /\ hnCrd'.CRSP = hnCrd.CRSP
        /\ prov' \in [ProvKinds -> Int] /\ prov'.RDAT = prov.RDAT - 1
        /\ prov'.SNP = prov.SNP /\ prov'.CRSP = prov.CRSP
    BY <1>1, <1>5, <1>8 DEF ProvidedInv, ProvKinds
  <2>2. ProvidedInv'
    BY <1>1, <1>6, <2>1 DEF ProvidedInv, ProvidedCreditsExact
  <2> QED
    BY <1>4, <2>2
<1>9. CASE x \notin Snps /\ c = "CRSP"
  <2>1. /\ hnCrd' \in [ProvKinds -> Int] /\ hnCrd'.CRSP = hnCrd.CRSP - 1
        /\ hnCrd'.SNP = hnCrd.SNP /\ hnCrd'.RDAT = hnCrd.RDAT
        /\ prov' \in [ProvKinds -> Int] /\ prov'.CRSP = prov.CRSP - 1
        /\ prov'.SNP = prov.SNP /\ prov'.RDAT = prov.RDAT
    BY <1>1, <1>5, <1>9 DEF ProvidedInv, ProvKinds
  <2>2. ProvidedInv'
    BY <1>1, <1>6, <2>1 DEF ProvidedInv, ProvidedCreditsExact
  <2> QED
    BY <1>4, <2>2
<1> QED
  BY <1>7, <1>8, <1>9

LEMMA HnEndPhaseProvided ==
  ASSUME PlanInv, ProvidedInv, NEW x \in Xs, HnEndPhase(x)
  PROVE  PlanInv' /\ ProvidedInv'
<1> DEFINE phase == Head(due[x])
<1>1. /\ due[x] # << >> /\ due' = [due EXCEPT ![x] = Tail(@)]
      /\ UNCHANGED <<plan, rbeat, kind, hnCrd>>
      /\ \E n : BwPhase(x, phase, NoResponse, n)
  BY DEF HnEndPhase, HN!HnAnswer, BwPhase, snpVars
<1>2. phase \in EndPhases /\ due' \in [Xs -> Seq(EndPhases)]
  BY <1>1 DEF PlanInv
<1>3. phase # "BEGIN_RESP" /\ phase \notin PartialPhases
  BY <1>2 DEF EndPhases, PartialPhases
<1>4. prov' = prov
  BY <1>1, <1>3 DEF BwPhase
<1> QED
  BY <1>1, <1>2, <1>4, ProvidedFrame DEF PlanInv

LEMMA SendSnoopProvided ==
  ASSUME PlanInv, ProvidedInv, NEW s \in Snps, SendSnoop(s)
  PROVE  PlanInv' /\ ProvidedInv'
<1>1. /\ UNCHANGED <<plan, due, rbeat, kind>>
      /\ prov' = [prov EXCEPT !.SNP = @ - 1]
      /\ hnCrd' = [hnCrd EXCEPT !.SNP = @ - 1]
  BY DEF SendSnoop, HN!HnSnoop, BwSnoop, beatVars
<1>2. /\ prov' \in [ProvKinds -> Int] /\ hnCrd' \in [ProvKinds -> Int]
      /\ prov'.SNP = prov.SNP - 1 /\ hnCrd'.SNP = hnCrd.SNP - 1
      /\ prov'.CRSP = prov.CRSP /\ hnCrd'.CRSP = hnCrd.CRSP
      /\ prov'.RDAT = prov.RDAT /\ hnCrd'.RDAT = hnCrd.RDAT
  BY <1>1 DEF ProvidedInv, ProvKinds
<1>3. {prov.SNP, hnCrd.SNP, SnpLimit} \subseteq Int
  BY ChiAssumption DEF ProvidedInv, ProvKinds, ChiAssumption
<1>4. ProvidedInv'
  BY <1>1, <1>2, <1>3 DEF ProvidedInv, ProvidedCreditsExact
<1> QED
  BY <1>1, <1>4, PlanFrame

LEMMA HandlerProvided ==
  ASSUME PlacesInv, PlanInv, ProvidedInv, HandlerStep
  PROVE  PlanInv' /\ ProvidedInv'
<1>1. CASE (Dispatch \/ HandlerIdle) /\ IdleHn
  <2>1. UNCHANGED <<plan, due, rbeat, kind, prov, hnCrd>>
    BY <1>1 DEF Dispatch, HandlerIdle, IdleHn, hnVars, crdVars, beatVars
  <2> QED
    BY <2>1, PlanFrame, ProvidedFrame
<1> QED
  BY <1>1, TakeSnoopProvided DEF HandlerStep

LEMMA SnpCntType ==
  ASSUME snpCnt \in Int, [Next]_vars
  PROVE  snpCnt' \in Int
<1>1. ASSUME NEW t \in Reqs, TransportStep(t)
      PROVE  snpCnt' = snpCnt
  BY <1>1 DEF TransportStep, Transport, PassOrder, PassStrict, PassId,
     ReqDone, Finish, SendReq, Response, AtomicResponse, AtomicIn, snpVars
<1>2. ASSUME NEW s \in Snps, SnoopStep(s)
      PROVE  snpCnt' \in {snpCnt, snpCnt - 1}
  BY <1>2 DEF SnoopStep, SnoopResp, Join, FinishSnoop, SendSnoopResp,
     SnoopWait, SnpContinue, snpVars
<1>3. ASSUME NEW x \in Xs, DataStep(x)
      PROVE  snpCnt' \in {snpCnt, snpCnt - 1}
  BY <1>3 DEF DataStep, SendData, DataDone, SendAck, snpVars
<1>4. ASSUME NEW x \in Xs, HnStep(x)
      PROVE  snpCnt' = snpCnt
  BY <1>4 DEF HnStep, HnRespond, HnEndPhase, BwPhase, snpVars
<1>5. ASSUME HandlerStep
      PROVE  snpCnt' \in {snpCnt, snpCnt + 1}
  BY <1>5 DEF HandlerStep, Dispatch, HandlerIdle, TakeSnoop
<1>6. ASSUME \/ ClkStep \/ \E c \in Channels : Grant(c)
             \/ \E s \in Snps : SendSnoop(s)
             \/ UNCHANGED vars
      PROVE  snpCnt' = snpCnt
  BY <1>6 DEF ClkStep, ClkCounter, Grant, BwCredit, SendSnoop, BwSnoop, vars,
     rnVars, snpVars
<1> QED
  BY <1>1, <1>2, <1>3, <1>4, <1>5, <1>6 DEF Next

CreditInv ==
  ReceivedInv /\ PlacesInv /\ PlanInv /\ ProvidedInv /\ snpCnt \in Int

LEMMA NextCredit ==
  ASSUME CreditInv, [Next]_vars
  PROVE  CreditInv'
<1>1. ReceivedInv' /\ PlacesInv' /\ snpCnt' \in Int
  BY NextReceived, NextPlaces, SnpCntType DEF CreditInv
<1>2. PlanInv' /\ ProvidedInv'
  <2>1. ASSUME NEW c \in Channels, Grant(c)
        PROVE  PlanInv' /\ ProvidedInv'
    <3>1. UNCHANGED <<plan, due, rbeat, kind, prov, hnCrd>>
      BY <2>1 DEF Grant, HN!HnGrant, BwCredit, snpVars, beatVars
    <3> QED
      BY <3>1, PlanFrame, ProvidedFrame DEF CreditInv
  <2>2. CASE UNCHANGED vars
    <3>1. UNCHANGED <<plan, due, rbeat, kind, prov, hnCrd>>
      BY <2>2 DEF vars, rnVars, hnVars, crdVars, snpVars, beatVars
    <3> QED
      BY <3>1, PlanFrame, ProvidedFrame DEF CreditInv
  <2>3. ASSUME NEW x \in Xs, HnStep(x)
        PROVE  PlanInv' /\ ProvidedInv'
    BY <2>3, HnRespondProvided, HnEndPhaseProvided DEF HnStep, CreditInv
  <2> QED
    BY <2>1, <2>2, <2>3, TransportProvided, SnoopProvided, DataProvided,
       HandlerProvided, ClkProvided, SendSnoopProvided DEF Next, CreditInv
<1> QED
  BY <1>1, <1>2 DEF CreditInv

LEMMA InitCredit ==
  ASSUME Init
  PROVE  CreditInv
<1>1. PlanInv
  BY DEF Init, RnInit, HN!HnInit, PlanInv, Xs
<1>2. ProvidedInv
  BY ChiAssumption DEF Init, RnInit, HN!HnInit, ProvidedInv, ProvKinds,
     ProvidedCreditsExact, ChiAssumption
<1>3. snpCnt \in Int
  BY DEF Init, RnInit
<1> QED
  BY <1>1, <1>2, <1>3, InitReceived, InitPlaces DEF CreditInv

\* Credits are conserved in both directions, for any limits and any number of
\* transactions and snoops: what the home node hands out is spent, returned or
\* owed, and what the request node believes to have granted is what the home
\* node has, except for the beats of snoops that pull data.
THEOREM CreditsExactHolds == Spec => []CreditsExact
<1>1. Init => CreditInv
  BY InitCredit
<1>2. CreditInv /\ [Next]_vars => CreditInv'
  BY NextCredit
<1>3. CreditInv => CreditsExact
  BY DEF CreditInv, ReceivedInv, ProvidedInv, CreditsExact
<1> QED
  BY <1>1, <1>2, <1>3, PTL DEF Spec

-----------------------------------------------------------------------------
(* The WDAT channel belongs to one payload from the first to the last beat *)
(* of a burst, for any payloads and burst lengths.                         *)

DataPcs == {"wdat", "wwait", "wsync", "ain"}
Aside == Pcs \ (DataPcs \union {"exec", "aresp"})

Midway(x) == wbeat[x] \in 1 .. req[x].beats - 1
Whole(x) == ~config.interleaving \/ Returning(x)

\* The payload x is entitled to the channel.
Claims(x) ==
  \/ pc[x] \in {"wwait", "wsync", "ain"}
  \/ pc[x] = "wdat" /\ Midway(x) /\ Whole(x)

BurstType ==
  /\ queue = [s \in Semaphores |-> queue[s]] /\ queue["WDAT"] \in Seq(Xs)
  /\ wbeat \in [Xs -> Nat]
  /\ todo = [x \in Xs |-> todo[x]]

Burst(x) ==
  /\ Claims(x) => queue["WDAT"] # << >> /\ Head(queue["WDAT"]) = x
  /\ Midway(x) => pc[x] \in DataPcs
  /\ pc[x] = "exec" => ~Returning(x)
  /\ pc[x] \in {"aresp", "ain"} => Returning(x)
  /\ Returning(x) /\ wbeat[x] < req[x].beats
       /\ pc[x] \in DataPcs \union {"aresp"} => "OUT" \in todo[x]

\* Who claims the channel has it; a burst in progress claims it, and is not
\* given up before its last beat.
BurstInv == BurstType /\ \A x \in Xs \intersect DOMAIN req : Burst(x)

\* The holder of the channel is the same before and after, unless it was x.
KeepsHead(x) ==
  /\ queue' = [s \in Semaphores |-> queue'[s]] /\ queue'["WDAT"] \in Seq(Xs)
  /\ queue["WDAT"] # << >> /\ Head(queue["WDAT"]) # x
       => queue'["WDAT"] # << >> /\ Head(queue'["WDAT"]) = Head(queue["WDAT"])

\* Only what belongs to x changes.
StepOf(x) ==
  /\ UNCHANGED fixed
  /\ \E to \in Pcs : Goto(x, to)
  /\ todo' = todo \/ \E f : todo' = [todo EXCEPT ![x] = f]
  /\ KeepsHead(x)

LEMMA StepKeeps ==
  ASSUME PlacesInv, BurstInv, NEW x \in Xs, StepOf(x), Burst(x)',
         wbeat' \in [Xs -> Nat], \A y \in Xs : y # x => wbeat'[y] = wbeat[y]
  PROVE  BurstInv'
<1>1. /\ UNCHANGED <<req, config>>
      /\ \A y \in Xs : y # x => /\ pc'[y] = pc[y] /\ todo'[y] = todo[y]
                                /\ wbeat'[y] = wbeat[y]
  BY DEF StepOf, fixed, Goto, PlacesInv, PcInv, BurstInv, BurstType
<1>2. BurstType'
  BY DEF StepOf, KeepsHead, BurstInv, BurstType
<1>3. ASSUME NEW y \in Xs, y \in DOMAIN req, y # x
      PROVE  Burst(y)'
  <2>1. Burst(y)
    BY <1>3 DEF BurstInv
  <2>2. Midway(y)' <=> Midway(y)
    BY <1>1, <1>3 DEF Midway
  <2>3. Returning(y)' <=> Returning(y)
    BY <1>1, <1>3 DEF Returning, Op
  <2>4. Claims(y)' <=> Claims(y)
    BY <1>1, <1>3, <2>2, <2>3 DEF Claims, Whole
  <2>5. Claims(y) => queue'["WDAT"] # << >> /\ Head(queue'["WDAT"]) = y
    BY <1>3, <2>1 DEF Burst, StepOf, KeepsHead
  <2> QED
    BY <1>1, <1>3, <2>1, <2>2, <2>3, <2>4, <2>5 DEF Burst
<1> QED
  BY <1>1, <1>2, <1>3 DEF BurstInv

\* x was not sending data and does not start to.
LEMMA AsideKeeps ==
  ASSUME PlacesInv, BurstInv, NEW x \in Xs, StepOf(x), wbeat' = wbeat,
         x \in DOMAIN req, pc[x] \notin DataPcs,
         pc'[x] \in Aside
  PROVE  BurstInv'
<1>1. Burst(x) /\ wbeat \in [Xs -> Nat] /\ req' = req
  BY DEF BurstInv, BurstType, StepOf, fixed
<1>2. Burst(x)'
  BY <1>1 DEF Burst, Midway, Claims, DataPcs, Aside
<1> QED
  BY <1>1, <1>2, StepKeeps

\* x is going to send data.
LEMMA ToDataKeeps ==
  ASSUME PlacesInv, BurstInv, NEW x \in Xs, StepOf(x), wbeat' = wbeat,
         x \in DOMAIN req, pc[x] \notin DataPcs, pc'[x] = "wdat",
         Returning(x) => pc[x] = "aresp" /\ todo' = todo
  PROVE  BurstInv'
<1>1. Burst(x) /\ wbeat \in [Xs -> Nat] /\ req' = req
  BY DEF BurstInv, BurstType, StepOf, fixed
<1>2. Returning(x)' <=> Returning(x)
  BY <1>1 DEF Returning, Op
<1>3. Burst(x)'
  BY <1>1, <1>2 DEF Burst, Midway, Claims, DataPcs
<1> QED
  BY <1>1, <1>3, StepKeeps

-----------------------------------------------------------------------------
(* The queue of the channel.                                               *)

LEMMA SameHead ==
  ASSUME BurstInv, NEW x, queue' = queue
  PROVE  KeepsHead(x)
BY DEF KeepsHead, BurstInv, BurstType

LEMMA OtherHead ==
  ASSUME BurstInv, NEW x, queue' = [s \in Semaphores |-> queue'[s]],
         queue'["WDAT"] = queue["WDAT"]
  PROVE  KeepsHead(x)
BY DEF KeepsHead, BurstInv, BurstType

LEMMA EnterHead ==
  ASSUME BurstInv, NEW x \in Xs, NEW s \in Semaphores,
         queue' = Enter(queue, s, x)
  PROVE  KeepsHead(x)
<1>1. CASE s = "WDAT"
  <2>1. queue'["WDAT"] = Append(queue["WDAT"], x)
    BY <1>1 DEF Enter, BurstInv, BurstType, Semaphores
  <2>2. queue["WDAT"] \in Seq(Xs)
    BY DEF BurstInv, BurstType
  <2>3. /\ Append(queue["WDAT"], x) \in Seq(Xs)
        /\ queue["WDAT"] # << >>
             => /\ Append(queue["WDAT"], x) # << >>
                /\ Head(Append(queue["WDAT"], x)) = Head(queue["WDAT"])
    BY <2>2
  <2>4. queue' = [c \in Semaphores |-> queue'[c]]
    BY DEF Enter, BurstInv, BurstType
  <2> QED
    BY <2>1, <2>3, <2>4 DEF KeepsHead
<1>2. CASE s # "WDAT"
  <2>1. queue'["WDAT"] = queue["WDAT"]
    BY <1>2 DEF Enter, BurstInv, BurstType, Semaphores
  <2> QED
    BY <2>1, OtherHead DEF Enter, BurstInv, BurstType
<1> QED
  BY <1>1, <1>2

LEMMA FirstHead ==
  ASSUME BurstInv, NEW x \in Xs, NEW s \in {"WDAT", "SRSP"}, NEW r,
         r \in {"prioWDAT", "prioSRSP"},
         queue' = EnterFirst(Leave(queue, r), s, x)
  PROVE  KeepsHead(x)
<1> DEFINE q == queue["WDAT"]
<1>1. q \in Seq(Xs) /\ queue' = [c \in Semaphores |-> queue'[c]]
  BY DEF EnterFirst, Leave, BurstInv, BurstType
<1>2. Leave(queue, r)["WDAT"] = q
  BY DEF Leave, BurstInv, BurstType, Semaphores
<1>3. queue'["WDAT"] = q
        \/ queue'["WDAT"] = IF q = << >> THEN <<x>>
                            ELSE <<Head(q), x>> \o Tail(q)
  BY <1>2 DEF EnterFirst, Leave, BurstInv, BurstType, Semaphores
<1>4. q # << >> => /\ <<Head(q), x>> \o Tail(q) \in Seq(Xs)
                   /\ <<Head(q), x>> \o Tail(q) # << >>
                   /\ Head(<<Head(q), x>> \o Tail(q)) = Head(q)
  <2>1. ASSUME q # << >>
        PROVE  /\ <<Head(q), x>> \o Tail(q) \in Seq(Xs)
               /\ <<Head(q), x>> \o Tail(q) # << >>
               /\ Head(<<Head(q), x>> \o Tail(q)) = Head(q)
    <3>1. Head(q) \in Xs /\ Tail(q) \in Seq(Xs)
      BY <1>1, <2>1
    <3>2. <<Head(q), x>> \in Seq(Xs) /\ Len(<<Head(q), x>>) = 2
      BY <3>1
    <3>3. /\ <<Head(q), x>> \o Tail(q) \in Seq(Xs)
          /\ Len(<<Head(q), x>> \o Tail(q)) = 2 + Len(Tail(q))
          /\ (<<Head(q), x>> \o Tail(q))[1] = Head(q)
      BY <3>1, <3>2
    <3> QED
      BY <3>1, <3>3
  <2> QED
    BY <2>1
<1>5. <<x>> \in Seq(Xs)
  OBVIOUS
<1> QED
  BY <1>1, <1>3, <1>4, <1>5 DEF KeepsHead

\* A step that does nothing with the channel.
LEMMA StepAside ==
  ASSUME BurstInv, NEW x \in Xs, UNCHANGED fixed, NEW to \in Pcs, Goto(x, to),
         todo' = todo \/ \E f : todo' = [todo EXCEPT ![x] = f],
         queue' = [s \in Semaphores |-> queue'[s]],
         queue'["WDAT"] = queue["WDAT"]
  PROVE  StepOf(x)
BY OtherHead DEF StepOf

LEMMA GotoAt ==
  ASSUME PlacesInv, NEW x \in Xs, NEW to, Goto(x, to)
  PROVE  pc'[x] = to
BY DEF PlacesInv, PcInv, Goto

-----------------------------------------------------------------------------
(* The steps of transport.                                                 *)

LEMMA GatesBurst ==
  ASSUME PlacesInv, BurstInv, NEW t \in Reqs,
         \/ Transport(t) \/ PassOrder(t) \/ PassStrict(t) \/ PassId(t)
         \/ Finish(t) \/ \E upd, n : SendReq(t, upd, n)
  PROVE  BurstInv'
<1>1. PICK to \in Aside : Goto(t, to)
  BY DEF Transport, PassOrder, PassStrict, PassId, Finish, SendReq, Onward,
     Pcs, DataPcs, Aside
<1>2. /\ pc[t] \notin DataPcs /\ t \in Xs /\ t \in DOMAIN req
      /\ UNCHANGED <<fixed, todo, wbeat>>
  BY DEF Transport, PassOrder, PassStrict, PassId, HoldsId, Finish, SendReq,
     DataPcs, Xs, beatVars, PlacesInv, PcInv
<1>3. queue = [s \in Semaphores |-> queue[s]]
  BY DEF BurstInv, BurstType
<1>4. /\ queue' = [s \in Semaphores |-> queue'[s]]
      /\ queue'["WDAT"] = queue["WDAT"]
  <2>1. CASE Transport(t)
    BY <1>3, <2>1 DEF Transport, Onward, Enter, Semaphores
  <2>2. CASE PassOrder(t)
    BY <1>3, <2>2 DEF PassOrder, Onward, Enter, Leave, Semaphores
  <2>3. CASE PassId(t)
    BY <1>3, <2>3 DEF PassId, Enter, Leave, Semaphores
  <2>4. CASE \/ PassStrict(t) \/ Finish(t) \/ \E upd, n : SendReq(t, upd, n)
    BY <1>3, <2>4 DEF PassStrict, Finish, SendReq
  <2> QED
    BY <2>1, <2>2, <2>3, <2>4
<1>5. StepOf(t)
  BY <1>1, <1>2, <1>4, StepAside DEF Aside
<1> QED
  BY <1>1, <1>2, <1>5, GotoAt, AsideKeeps

LEMMA ReqDoneBurst ==
  ASSUME PlacesInv, BurstInv, NEW t \in Reqs, ReqDone(t)
  PROVE  BurstInv'
<1>1. /\ pc[t] \in {"synced", "sent"} /\ t \in Xs /\ t \in DOMAIN req
      /\ UNCHANGED <<fixed, wbeat>>
      /\ todo' = [todo EXCEPT ![t] = FirstTodo(t)]
      /\ queue' = Leave(queue, "REQ")
  BY DEF ReqDone, Xs, beatVars, PlacesInv, PcInv
<1>2. PICK to \in Pcs : /\ Goto(t, to)
                        /\ to = IF Returning(t) THEN "aresp" ELSE "exec"
  BY DEF ReqDone, Pcs
<1>3. /\ queue' = [s \in Semaphores |-> queue'[s]]
      /\ queue'["WDAT"] = queue["WDAT"]
  BY <1>1 DEF BurstInv, BurstType, Leave, Semaphores
<1>4. StepOf(t)
  BY <1>1, <1>2, <1>3, StepAside
<1>5. pc'[t] = IF Returning(t) THEN "aresp" ELSE "exec"
  BY <1>1, <1>2, GotoAt
<1>6. Returning(t)' <=> Returning(t)
  BY <1>1 DEF Returning, Op, fixed
<1>7. Returning(t) => "OUT" \in todo'[t]
  BY <1>1 DEF FirstTodo, BurstInv, BurstType
<1>8. ~Midway(t) /\ Midway(t)' = Midway(t) /\ wbeat \in [Xs -> Nat]
  BY <1>1 DEF BurstInv, BurstType, Burst, DataPcs, Midway, fixed
<1>9. Burst(t)'
  BY <1>5, <1>6, <1>7, <1>8 DEF Burst, Claims
<1> QED
  BY <1>1, <1>4, <1>8, <1>9, StepKeeps

LEMMA ContinueAt ==
  ASSUME PlacesInv, BurstInv, NEW t \in Xs, NEW left,
         Continue(t, left, queue), UNCHANGED fixed
  PROVE  StepOf(t) /\ pc'[t] \in {"exec", "ack", "end"}
<1>1. /\ \/ Goto(t, "exec") /\ queue' = queue
         \/ Goto(t, "ack") /\ queue' = Enter(queue, "SRSP", t)
         \/ Goto(t, "end") /\ queue' = queue
      /\ todo' = [todo EXCEPT ![t] = left]
  BY DEF Continue
<1>2. \E to \in Pcs : Goto(t, to)
  BY <1>1 DEF Pcs
<1>3. KeepsHead(t)
  BY <1>1, SameHead, EnterHead DEF Semaphores
<1>4. StepOf(t)
  BY <1>1, <1>2, <1>3 DEF StepOf
<1> QED
  BY <1>1, <1>4, GotoAt

\* In the loop over responses: on to the next one, or to the write data.
LEMMA ResponseBurst ==
  ASSUME PlacesInv, BurstInv, NEW t \in Reqs, Response(t)
  PROVE  BurstInv'
<1>1. /\ pc[t] = "exec" /\ t \in Xs /\ t \in DOMAIN req
      /\ UNCHANGED <<fixed, wbeat>> /\ UNCHANGED <<req, config>>
  BY DEF Response, Xs, PlacesInv, PcInv, fixed
<1>2. ~Returning(t) /\ ~Midway(t) /\ Burst(t) /\ wbeat \in [Xs -> Nat]
  BY <1>1 DEF BurstInv, BurstType, Burst, DataPcs
<1>3. Returning(t)' = Returning(t) /\ Midway(t)' = Midway(t)
  BY <1>1 DEF Returning, Op, Midway
<1>4. CASE \E left : Continue(t, left, queue)
  <2>1. StepOf(t) /\ pc'[t] \in {"exec", "ack", "end"}
    BY <1>1, <1>4, ContinueAt
  <2>2. Burst(t)'
    BY <1>2, <1>3, <2>1 DEF Burst, Claims
  <2> QED
    BY <1>1, <1>2, <2>1, <2>2, StepKeeps
<1>5. CASE /\ Goto(t, "wdat") /\ queue' = Enter(queue, "WDAT", t)
           /\ \E f : todo' = [todo EXCEPT ![t] = f]
  <2>1. "wdat" \in Pcs /\ "WDAT" \in Semaphores
    BY DEF Pcs, Semaphores
  <2>2. StepOf(t)
    BY <1>1, <1>5, <2>1, EnterHead DEF StepOf
  <2>3. pc'[t] = "wdat" /\ pc[t] \notin DataPcs
    BY <1>1, <1>5, GotoAt DEF DataPcs
  <2> QED
    BY <1>1, <1>2, <2>2, <2>3, ToDataKeeps
<1>6. TakeResponse(t) \/ TakeData(t) \/ TakeIllegal(t)
  BY DEF Response
<1>7. CASE TakeResponse(t)
  BY <1>4, <1>5, <1>7 DEF TakeResponse
<1>8. CASE TakeData(t) \/ TakeIllegal(t)
  BY <1>4, <1>8 DEF TakeData, TakeIllegal
<1> QED
  BY <1>6, <1>7, <1>8

LEMMA AtomicResponseBurst ==
  ASSUME PlacesInv, BurstInv, NEW t \in Reqs, AtomicResponse(t)
  PROVE  BurstInv'
<1>1. /\ pc[t] = "aresp" /\ t \in Xs /\ t \in DOMAIN req
      /\ UNCHANGED <<fixed, wbeat, todo>> /\ Goto(t, "wdat")
      /\ queue' = Enter(queue, "WDAT", t)
  BY DEF AtomicResponse, Xs, PlacesInv, PcInv, beatVars
<1>2. "wdat" \in Pcs /\ "WDAT" \in Semaphores
  BY DEF Pcs, Semaphores
<1>3. StepOf(t)
  BY <1>1, <1>2, EnterHead DEF StepOf
<1>4. pc'[t] = "wdat" /\ pc[t] \notin DataPcs
  BY <1>1, GotoAt DEF DataPcs
<1> QED
  BY <1>1, <1>3, <1>4, ToDataKeeps

-----------------------------------------------------------------------------
(* The beats.                                                              *)

LEMMA SendDataBurst ==
  ASSUME PlacesInv, BurstInv, NEW x \in Xs, NEW upd, NEW n, SendData(x, upd, n)
  PROVE  /\ BurstInv' /\ x \in DOMAIN req
         /\ queue["WDAT"] # << >> /\ Head(queue["WDAT"]) = x
         /\ \A y \in Xs : y # x => wbeat'[y] = wbeat[y]
<1>1. /\ pc[x] = "wdat" /\ x \in DOMAIN req
      /\ UNCHANGED <<fixed, todo, queue>> /\ UNCHANGED <<req, config>>
      /\ wbeat' = [wbeat EXCEPT ![x] = @ + 1]
      /\ queue["WDAT"] # << >> /\ Head(queue["WDAT"]) = x
  BY DEF SendData, Holds, PlacesInv, PcInv, fixed
<1>2. PICK to \in {"wsync", "wwait"} : Goto(x, to)
  BY DEF SendData
<1>3. StepOf(x)
  BY <1>1, <1>2, SameHead DEF StepOf, Pcs
<1>4. pc'[x] \in {"wsync", "wwait"}
  BY <1>2, GotoAt
<1>5. /\ wbeat' \in [Xs -> Nat] /\ wbeat'[x] = wbeat[x] + 1 /\ wbeat[x] \in Nat
      /\ \A y \in Xs : y # x => wbeat'[y] = wbeat[y]
  BY <1>1 DEF BurstInv, BurstType
<1>6. Returning(x)' = Returning(x) /\ Burst(x) /\ req[x].beats \in Nat
  BY <1>1, ChiAssumption DEF Returning, Op, BurstInv, PlacesInv, PcInv,
     ChiAssumption
<1>7. Returning(x) /\ wbeat'[x] < req[x].beats => "OUT" \in todo[x]
  BY <1>1, <1>5, <1>6 DEF Burst, DataPcs
<1>8. Burst(x)'
  BY <1>1, <1>4, <1>6, <1>7 DEF Burst, Claims, Midway, DataPcs
<1> QED
  BY <1>1, <1>3, <1>5, <1>8, StepKeeps

\* The holder of the channel goes to its end or leaves it.
LEMMA HolderHead ==
  ASSUME BurstInv, NEW x \in Xs,
         queue["WDAT"] # << >>, Head(queue["WDAT"]) = x,
         \/ queue' = NextHolder(x) \/ queue' = Leave(queue, "WDAT")
         \/ queue' = Enter(Leave(queue, "WDAT"), "SRSP", x)
  PROVE  KeepsHead(x)
<1> DEFINE q == queue["WDAT"]
<1>1. q \in Seq(Xs) /\ Tail(q) \in Seq(Xs) /\ Append(Tail(q), x) \in Seq(Xs)
  BY DEF BurstInv, BurstType
<1>2. queue' = [s \in Semaphores |-> queue'[s]]
  BY DEF NextHolder, Leave, Enter, BurstInv, BurstType
<1>3. queue'["WDAT"] \in {q, Tail(q), Append(Tail(q), x)}
  BY DEF NextHolder, Leave, Enter, BurstInv, BurstType, Semaphores
<1> QED
  BY <1>1, <1>2, <1>3 DEF KeepsHead

LEMMA DataDoneBurst ==
  ASSUME PlacesInv, BurstInv, NEW x \in Xs, DataDone(x)
  PROVE  BurstInv'
<1>1. /\ pc[x] \in {"wsync", "wwait"} /\ x \in DOMAIN req
      /\ UNCHANGED <<fixed, wbeat>> /\ UNCHANGED <<req, config>>
  BY DEF DataDone, beatVars, PlacesInv, PcInv, fixed
<1>2. /\ Burst(x) /\ queue["WDAT"] # << >> /\ Head(queue["WDAT"]) = x
      /\ wbeat \in [Xs -> Nat] /\ todo = [y \in Xs |-> todo[y]]
  BY <1>1 DEF BurstInv, BurstType, Burst, Claims
<1>3. Returning(x)' = Returning(x) /\ Midway(x)' = Midway(x)
  BY <1>1 DEF Returning, Op, Midway
<1>4. Whole(x)' = Whole(x)
  BY <1>1, <1>3 DEF Whole
<1>5. CASE /\ Returning(x) /\ Goto(x, "ain") /\ queue' = queue
           /\ todo' = [todo EXCEPT ![x] = IF wbeat[x] = req[x].beats
                                            THEN @ \ {"OUT"} ELSE @]
  <2>1. StepOf(x)
    BY <1>1, <1>5, SameHead DEF StepOf, Pcs
  <2>2. pc'[x] = "ain"
    BY <1>5, GotoAt
  <2>3. req[x].beats \in Nat /\ wbeat[x] \in Nat
    BY <1>1, <1>2, ChiAssumption DEF PlacesInv, PcInv, ChiAssumption
  <2>4. wbeat[x] < req[x].beats => "OUT" \in todo'[x]
    BY <1>1, <1>2, <1>5, <2>3 DEF Burst, DataPcs
  <2>5. Burst(x)'
    BY <1>1, <1>2, <1>3, <1>5, <2>2, <2>4 DEF Burst, Claims, DataPcs
  <2> QED
    BY <1>1, <1>2, <2>1, <2>5, StepKeeps
<1>6. CASE /\ ~Returning(x) /\ Goto(x, "wdat") /\ queue' = NextHolder(x)
           /\ todo' = todo
  <2>1. StepOf(x)
    BY <1>1, <1>2, <1>6, HolderHead DEF StepOf, Pcs
  <2>2. pc'[x] = "wdat"
    BY <1>6, GotoAt
  <2>3. Whole(x) => queue' = queue
    BY <1>6 DEF Whole, NextHolder
  <2>4. Burst(x)'
    BY <1>1, <1>2, <1>3, <1>4, <1>6, <2>2, <2>3 DEF Burst, Claims, DataPcs
  <2> QED
    BY <1>1, <1>2, <2>1, <2>4, StepKeeps
<1>7. CASE /\ ~Returning(x) /\ wbeat[x] = req[x].beats
           /\ \/ Continue(x, todo[x] \ {"DATA"}, Leave(queue, "WDAT"))
              \/ /\ Goto(x, "end") /\ queue' = Leave(queue, "WDAT")
                 /\ todo' = todo
  <2>1. \E to \in {"exec", "ack", "end"} : Goto(x, to)
    BY <1>7 DEF Continue
  <2>2. /\ todo' = todo \/ \E f : todo' = [todo EXCEPT ![x] = f]
        /\ \/ queue' = Leave(queue, "WDAT")
           \/ queue' = Enter(Leave(queue, "WDAT"), "SRSP", x)
    BY <1>7 DEF Continue
  <2>3. StepOf(x)
    BY <1>1, <1>2, <2>1, <2>2, HolderHead DEF StepOf, Pcs
  <2>4. pc'[x] \in {"exec", "ack", "end"}
    BY <2>1, GotoAt
  <2>5. ~Midway(x)
    BY <1>1, <1>7, ChiAssumption DEF Midway, PlacesInv, PcInv, ChiAssumption
  <2>6. Burst(x)'
    BY <1>3, <1>7, <2>4, <2>5 DEF Burst, Claims, DataPcs
  <2> QED
    BY <1>1, <1>2, <2>3, <2>6, StepKeeps
<1>8. CASE Returning(x)
  <2>1. x \notin Snps
    BY <1>8, ChiAssumption DEF Returning, ChiAssumption
  <2> QED
    BY <1>5, <1>8, <2>1 DEF DataDone
<1>9. CASE ~Returning(x)
  BY <1>6, <1>7, <1>9 DEF DataDone
<1> QED
  BY <1>8, <1>9

\* An atomic keeps the channel until its last beat is sent and received.
LEMMA AtomicInBurst ==
  ASSUME PlacesInv, BurstInv, NEW t \in Reqs, AtomicIn(t)
  PROVE  BurstInv'
<1>1. /\ pc[t] = "ain" /\ t \in Xs /\ t \in DOMAIN req
      /\ UNCHANGED <<fixed, wbeat>> /\ UNCHANGED <<req, config>>
  BY DEF AtomicIn, PlacesInv, PcInv, fixed, Xs
<1>2. /\ Burst(t) /\ queue["WDAT"] # << >> /\ Head(queue["WDAT"]) = t
      /\ wbeat \in [Xs -> Nat] /\ todo = [y \in Xs |-> todo[y]]
      /\ Returning(t) /\ req[t].beats \in Nat
  BY <1>1, ChiAssumption DEF BurstInv, BurstType, Burst, Claims, PlacesInv,
     PcInv, ChiAssumption
<1>3. Returning(t)' = Returning(t) /\ Midway(t)' = Midway(t)
  BY <1>1 DEF Returning, Op, Midway
<1>4. CASE /\ Goto(t, "wdat") \/ Goto(t, "ain")
           /\ queue' = queue
           /\ todo' = todo \/ todo' = [todo EXCEPT ![t] = todo[t] \ {"IN"}]
                \/ todo' = [todo EXCEPT ![t] = todo[t] \ {}]
  <2>1. StepOf(t)
    BY <1>1, <1>4, SameHead DEF StepOf, Pcs
  <2>2. pc'[t] \in {"wdat", "ain"}
    BY <1>1, <1>4, GotoAt
  <2>3. "OUT" \in todo[t] => "OUT" \in todo'[t]
    BY <1>1, <1>2, <1>4
  <2>4. Burst(t)'
    BY <1>1, <1>2, <1>3, <1>4, <2>2, <2>3 DEF Burst, Claims, DataPcs
  <2> QED
    BY <1>1, <1>2, <2>1, <2>4, StepKeeps
<1>5. CASE /\ Goto(t, "end") /\ queue' = Leave(queue, "WDAT")
           /\ "OUT" \notin todo[t]
           /\ \E f : todo' = [todo EXCEPT ![t] = f]
  <2>1. StepOf(t)
    BY <1>1, <1>2, <1>5, HolderHead DEF StepOf, Pcs
  <2>2. pc'[t] = "end"
    BY <1>1, <1>5, GotoAt
  <2>3. ~(wbeat[t] < req[t].beats)
    BY <1>1, <1>2, <1>5 DEF Burst, DataPcs
  <2>4. ~Midway(t)
    BY <1>2, <2>3 DEF Midway
  <2>5. Burst(t)'
    BY <1>3, <2>2, <2>4 DEF Burst, Claims, DataPcs
  <2> QED
    BY <1>1, <1>2, <2>1, <2>5, StepKeeps
<1>6. PICK left : /\ left = todo[t] \ {"IN"} \/ left = todo[t] \ {}
                  /\ \/ /\ todo' = [todo EXCEPT ![t] = left]
                        /\ IF left = {}
                             THEN Goto(t, "end") /\ queue' = Leave(queue, "WDAT")
                             ELSE /\ Goto(t, "wdat") \/ Goto(t, "ain")
                                  /\ queue' = queue
                     \/ /\ Goto(t, "wdat") \/ Goto(t, "ain")
                        /\ queue' = queue /\ todo' = todo
  <2> DEFINE last == HasEntry(t) /\ Entry(t)[2] = "BEGIN_DATA"
             left == todo[t] \ IF last THEN {"IN"} ELSE {}
  <2>1. \/ /\ todo' = [todo EXCEPT ![t] = left]
           /\ IF left = {}
                THEN Goto(t, "end") /\ queue' = Leave(queue, "WDAT")
                ELSE /\ Goto(t, "wdat") \/ Goto(t, "ain")
                     /\ queue' = queue
        \/ /\ Goto(t, "wdat") \/ Goto(t, "ain")
           /\ queue' = queue /\ todo' = todo
    BY DEF AtomicIn
  <2>2. left = todo[t] \ {"IN"} \/ left = todo[t] \ {}
    OBVIOUS
  <2> HIDE DEF left
  <2> QED
    BY <2>1, <2>2
<1>7. CASE left = {} /\ todo' = [todo EXCEPT ![t] = left]
           /\ Goto(t, "end") /\ queue' = Leave(queue, "WDAT")
  <2>1. "OUT" \notin todo[t]
    BY <1>6, <1>7
  <2> QED
    BY <1>5, <1>7, <2>1
<1>8. CASE todo' = [todo EXCEPT ![t] = left] /\ queue' = queue
           /\ (Goto(t, "wdat") \/ Goto(t, "ain"))
  BY <1>4, <1>6, <1>8
<1>9. CASE todo' = todo /\ queue' = queue
           /\ (Goto(t, "wdat") \/ Goto(t, "ain"))
  BY <1>4, <1>9
<1> QED
  BY <1>6, <1>7, <1>8, <1>9

-----------------------------------------------------------------------------
(* Snoops and the other steps.                                             *)

LEMMA SendAckBurst ==
  ASSUME PlacesInv, BurstInv, NEW x \in Xs, NEW n, SendAck(x, n)
  PROVE  BurstInv'
<1>1. /\ pc[x] = "ack" /\ x \in DOMAIN req /\ Goto(x, "end")
      /\ UNCHANGED <<fixed, wbeat, todo>> /\ queue' = Leave(queue, "SRSP")
  BY DEF SendAck, PlacesInv, PcInv
<1>2. /\ queue' = [s \in Semaphores |-> queue'[s]]
      /\ queue'["WDAT"] = queue["WDAT"]
  BY <1>1 DEF Leave, BurstInv, BurstType, Semaphores
<1>3. StepOf(x)
  BY <1>1, <1>2, StepAside DEF Pcs
<1>4. pc'[x] = "end"
  BY <1>1, GotoAt
<1> QED
  BY <1>1, <1>3, <1>4, AsideKeeps DEF DataPcs, Aside, Pcs

\* The answer to a snoop takes its place in a queue.
LEMMA AnswerBurst ==
  ASSUME PlacesInv, BurstInv, NEW s \in Snps, NEW k, NEW timed,
         Answer(s, k, timed), UNCHANGED <<fixed, wbeat>>,
         pc[s] \in {"later", "snp"}
  PROVE  BurstInv'
<1>1. s \in Xs /\ s \in DOMAIN req /\ pc[s] \notin DataPcs /\ ~Returning(s)
  BY ChiAssumption DEF Xs, PlacesInv, PcInv, DataPcs, Returning,
     ChiAssumption
<1>2. PICK c \in Semaphores, to \in {"prio", "wdat", "srsp"} :
        Goto(s, to) /\ queue' = Enter(queue, c, s)
  BY DEF Answer, SendPc, Prio, Semaphores
<1>3. \E f : todo' = [todo EXCEPT ![s] = f]
  BY DEF Answer
<1>4. StepOf(s)
  BY <1>1, <1>2, <1>3, EnterHead DEF StepOf, Pcs
<1>5. pc'[s] = to
  BY <1>1, <1>2, GotoAt
<1>6. CASE to = "wdat"
  BY <1>1, <1>4, <1>5, <1>6, ToDataKeeps
<1>7. CASE to # "wdat"
  BY <1>1, <1>4, <1>5, <1>7, AsideKeeps DEF DataPcs, Aside, Pcs
<1> QED
  BY <1>6, <1>7

LEMMA JoinBurst ==
  ASSUME PlacesInv, BurstInv, NEW s \in Snps, Join(s)
  PROVE  BurstInv'
<1>1. /\ s \in Xs /\ s \in DOMAIN req /\ pc[s] \notin DataPcs /\ ~Returning(s)
      /\ UNCHANGED <<fixed, wbeat, todo>>
  BY ChiAssumption DEF Join, Xs, PlacesInv, PcInv, DataPcs, Returning,
     ChiAssumption, beatVars
<1>2. PICK ch \in {"WDAT", "SRSP"} :
        /\ Goto(s, SendPc(ch))
        /\ queue' = EnterFirst(Leave(queue, Prio(ch)), ch, s)
  BY DEF Join
<1>3. SendPc(ch) \in {"wdat", "srsp"} /\ Prio(ch) \in {"prioWDAT", "prioSRSP"}
  BY DEF SendPc, Prio
<1>4. KeepsHead(s)
  BY <1>1, <1>2, <1>3, FirstHead
<1>5. StepOf(s)
  BY <1>1, <1>2, <1>3, <1>4 DEF StepOf, Pcs
<1>6. pc'[s] \in {"wdat", "srsp"}
  BY <1>1, <1>2, <1>3, GotoAt
<1>7. CASE pc'[s] = "wdat"
  BY <1>1, <1>5, <1>7, ToDataKeeps
<1>8. CASE pc'[s] = "srsp"
  BY <1>1, <1>5, <1>8, AsideKeeps DEF DataPcs, Aside, Pcs
<1> QED
  BY <1>6, <1>7, <1>8

LEMMA SnoopBurst ==
  ASSUME PlacesInv, BurstInv, NEW s \in Snps, SnoopStep(s)
  PROVE  BurstInv'
<1>1. ASSUME /\ pc[s] \notin DataPcs /\ UNCHANGED <<fixed, wbeat>>
             /\ \E to \in Aside : Goto(s, to)
             /\ pc[s] # "idle"
             /\ todo' = todo \/ \E f : todo' = [todo EXCEPT ![s] = f]
             /\ \/ queue' = queue \/ queue' = Leave(queue, "SRSP")
                \/ queue' = Enter(queue, "SRSP", s)
                \/ queue' = Enter(Leave(queue, "SRSP"), "SRSP", s)
      PROVE  BurstInv'
  <2>1. s \in Xs /\ s \in DOMAIN req
    BY <1>1 DEF Xs, PlacesInv, PcInv
  <2>2. /\ queue' = [c \in Semaphores |-> queue'[c]]
        /\ queue'["WDAT"] = queue["WDAT"]
    BY <1>1 DEF Leave, Enter, BurstInv, BurstType, Semaphores
  <2>3. StepOf(s)
    BY <1>1, <2>1, <2>2, StepAside DEF Aside
  <2>4. pc'[s] \in Aside
    BY <1>1, <2>1, GotoAt
  <2> QED
    BY <1>1, <2>1, <2>3, <2>4, AsideKeeps
<1>2. CASE FinishSnoop(s)
  <2>1. "done" \in Aside
    BY DEF Pcs, DataPcs, Aside
  <2> QED
    BY <1>1, <1>2, <2>1 DEF FinishSnoop, DataPcs, beatVars
<1>3. ASSUME NEW left, NEW q, SnpContinue(s, left, q)
      PROVE  /\ \E to \in Aside : Goto(s, to)
             /\ \E f : todo' = [todo EXCEPT ![s] = f]
             /\ queue' = q \/ queue' = Enter(q, "SRSP", s)
  BY <1>3 DEF SnpContinue, Pcs, DataPcs, Aside
<1>4. ASSUME NEW upd, NEW n, SendSnoopResp(s, upd, n)
      PROVE  BurstInv'
  <2>1. /\ pc[s] = "srsp" /\ UNCHANGED <<fixed, wbeat>>
        /\ \E left : SnpContinue(s, left, Leave(queue, "SRSP"))
    BY <1>4 DEF SendSnoopResp, beatVars
  <2>2. /\ \E to \in Aside : Goto(s, to)
        /\ \E f : todo' = [todo EXCEPT ![s] = f]
        /\ \/ queue' = Leave(queue, "SRSP")
           \/ queue' = Enter(Leave(queue, "SRSP"), "SRSP", s)
    BY <1>3, <2>1
  <2> QED
    BY <1>1, <2>1, <2>2 DEF DataPcs
<1>5. CASE SnoopWait(s)
  <2>1. /\ pc[s] = "swait" /\ UNCHANGED <<fixed, wbeat>>
        /\ \E left : SnpContinue(s, left, queue)
    BY <1>5 DEF SnoopWait
  <2>2. /\ \E to \in Aside : Goto(s, to)
        /\ \E f : todo' = [todo EXCEPT ![s] = f]
        /\ queue' = queue \/ queue' = Enter(queue, "SRSP", s)
    BY <1>3, <2>1
  <2> QED
    BY <1>1, <2>1, <2>2 DEF DataPcs
<1>6. ASSUME NEW k, SnoopResp(s, k)
      PROVE  BurstInv'
  BY <1>6, AnswerBurst DEF SnoopResp, beatVars
<1> QED
  BY <1>2, <1>4, <1>5, <1>6, JoinBurst DEF SnoopStep

LEMMA BurstFrame ==
  ASSUME BurstInv, UNCHANGED <<req, config, pc, todo, wbeat, queue>>
  PROVE  BurstInv'
<1>1. BurstType'
  BY DEF BurstInv, BurstType
<1>2. ASSUME NEW x \in Xs, x \in DOMAIN req
      PROVE  Burst(x)'
  <2>1. Burst(x)
    BY <1>2 DEF BurstInv
  <2> QED
    BY <2>1 DEF Burst, Claims, Midway, Whole, Returning, Op
<1> QED
  BY <1>1, <1>2 DEF BurstInv

LEMMA TakeSnoopBurst ==
  ASSUME PlacesInv, BurstInv, NEW fresh, NEW k, TakeSnoop(fresh, k)
  PROVE  BurstInv'
<1> DEFINE s == Head(dispq)
<1>1. s \in Snps /\ pc[s] = "snp" /\ s \in Xs /\ s \in DOMAIN req
  BY TailLine DEF TakeSnoop, PlacesInv, PcInv, SnoopInv, Xs
<1>2. UNCHANGED <<fixed, wbeat>>
  BY DEF TakeSnoop, beatVars
<1>3. CASE Goto(s, "later") /\ UNCHANGED <<todo, queue>>
  <2>1. StepOf(s)
    BY <1>1, <1>2, <1>3, SameHead DEF StepOf, Pcs
  <2>2. pc'[s] = "later"
    BY <1>1, <1>3, GotoAt
  <2> QED
    BY <1>1, <1>2, <2>1, <2>2, AsideKeeps DEF DataPcs, Aside, Pcs
<1>4. CASE Answer(s, k, TRUE)
  BY <1>1, <1>2, <1>4, AnswerBurst
<1> QED
  BY <1>3, <1>4 DEF TakeSnoop

LEMMA BwSnoopBurst ==
  ASSUME PlacesInv, BurstInv, NEW s \in Snps, BwSnoop(s)
  PROVE  BurstInv'
<1>1. /\ pc[s] = "idle" /\ s \in Xs /\ s \in DOMAIN req /\ Goto(s, "snp")
      /\ UNCHANGED <<fixed, wbeat, todo, queue>>
  BY DEF BwSnoop, beatVars, Xs
<1>2. StepOf(s)
  BY <1>1, SameHead DEF StepOf, Pcs
<1>3. pc'[s] = "snp"
  BY <1>1, GotoAt
<1> QED
  BY <1>1, <1>2, <1>3, AsideKeeps DEF DataPcs, Aside, Pcs

\* Of all steps only SendData sends a beat, and its payload has the channel.
LEMMA NextBurst ==
  ASSUME PlacesInv, BurstInv, [Next]_vars
  PROVE  /\ BurstInv'
         /\ \/ wbeat' = wbeat
            \/ \E x \in Xs :
                 /\ queue["WDAT"] # << >> /\ Head(queue["WDAT"]) = x
                 /\ \A y \in Xs : y # x => wbeat'[y] = wbeat[y]
<1>1. ASSUME NEW t \in Reqs, TransportStep(t)
      PROVE  BurstInv' /\ wbeat' = wbeat
  <2>1. wbeat' = wbeat
    BY <1>1 DEF TransportStep, Transport, PassOrder, PassStrict, PassId,
       ReqDone, Finish, SendReq, Response, AtomicResponse, AtomicIn, beatVars
  <2> QED
    BY <1>1, <2>1, GatesBurst, ReqDoneBurst, ResponseBurst,
       AtomicResponseBurst, AtomicInBurst DEF TransportStep
<1>2. ASSUME NEW s \in Snps, SnoopStep(s)
      PROVE  BurstInv' /\ wbeat' = wbeat
  <2>1. wbeat' = wbeat
    BY <1>2 DEF SnoopStep, SnoopResp, Join, FinishSnoop, SendSnoopResp,
       SnoopWait, beatVars
  <2> QED
    BY <1>2, <2>1, SnoopBurst
<1>3. ASSUME NEW x \in Xs, NEW upd, NEW n, SendData(x, upd, n)
      PROVE  /\ BurstInv' /\ queue["WDAT"] # << >> /\ Head(queue["WDAT"]) = x
             /\ \A y \in Xs : y # x => wbeat'[y] = wbeat[y]
  BY <1>3, SendDataBurst
<1>4. ASSUME NEW x \in Xs, DataDone(x) \/ \E n : SendAck(x, n)
      PROVE  BurstInv' /\ wbeat' = wbeat
  <2>1. wbeat' = wbeat
    BY <1>4 DEF DataDone, SendAck, beatVars
  <2> QED
    BY <1>4, <2>1, DataDoneBurst, SendAckBurst
<1>5. CASE HandlerStep
  <2>1. CASE Dispatch \/ HandlerIdle
    <3>1. UNCHANGED <<req, config, pc, todo, wbeat, queue>>
      BY <2>1 DEF Dispatch, HandlerIdle, fixed, beatVars
    <3> QED
      BY <3>1, BurstFrame
  <2>2. ASSUME NEW fresh, NEW k, TakeSnoop(fresh, k)
        PROVE  BurstInv' /\ wbeat' = wbeat
    <3>1. wbeat' = wbeat
      BY <2>2 DEF TakeSnoop, beatVars
    <3> QED
      BY <2>2, <3>1, TakeSnoopBurst
  <2> QED
    BY <1>5, <2>1, <2>2 DEF HandlerStep
<1>6. ASSUME NEW s \in Snps, SendSnoop(s)
      PROVE  BurstInv' /\ wbeat' = wbeat
  <2>1. wbeat' = wbeat
    BY <1>6 DEF SendSnoop, BwSnoop, beatVars
  <2> QED
    BY <1>6, <2>1, BwSnoopBurst DEF SendSnoop
<1>7. ASSUME NEW x \in Xs, HnStep(x)
      PROVE  BurstInv' /\ wbeat' = wbeat
  <2>1. UNCHANGED <<req, config, pc, todo, wbeat, queue>>
    BY <1>7 DEF HnStep, HnRespond, HnEndPhase, BwPhase, fixed
  <2> QED
    BY <2>1, BurstFrame
<1>8. CASE ClkStep \/ UNCHANGED vars \/ \E c \in Channels : Grant(c)
  <2>1. UNCHANGED <<req, config, pc, todo, wbeat, queue>>
    BY <1>8 DEF ClkStep, ClkCounter, Grant, BwCredit, vars, rnVars, fixed,
       beatVars
  <2> QED
    BY <2>1, BurstFrame
<1>9. ASSUME NEW x \in Xs, DataStep(x)
      PROVE  /\ BurstInv'
             /\ \/ wbeat' = wbeat
                \/ /\ queue["WDAT"] # << >> /\ Head(queue["WDAT"]) = x
                   /\ \A y \in Xs : y # x => wbeat'[y] = wbeat[y]
  BY <1>3, <1>4, <1>9 DEF DataStep
<1> QED
  BY <1>1, <1>2, <1>5, <1>6, <1>7, <1>8, <1>9 DEF Next

LEMMA InitBurst ==
  ASSUME Init
  PROVE  BurstInv
BY DEF Init, RnInit, BurstInv, BurstType, Burst, Claims, Midway, DataPcs,
   Semaphores

\* From the first to the last beat of a burst no other payload sends data,
\* unless both the parameter and the payload allow it: for any number of
\* requests and snoops, whichever way and in whichever order they get their
\* responses, and although snoop responses pass the callers that wait.
THEOREM BurstsWholeHolds == Spec => BurstsWhole
<1> DEFINE Inv == PlacesInv /\ BurstInv
           Kept == \A x \in DOMAIN req :
                     /\ wbeat[x] \in 1 .. req[x].beats - 1
                     /\ ~config.interleaving \/ Returning(x)
                     => \A y \in Xs \ {x} : wbeat'[y] = wbeat[y]
<1>1. Init => Inv
  BY InitPlaces, InitBurst
<1>2. Inv /\ [Next]_vars => Inv'
  BY NextPlaces, NextBurst
<1>3. Inv /\ [Next]_vars => [Kept]_vars
  <2>1. SUFFICES ASSUME Inv, [Next]_vars, NEW x \in DOMAIN req, Midway(x),
                        Whole(x), NEW y \in Xs \ {x}
                 PROVE  wbeat'[y] = wbeat[y]
    BY DEF Midway, Whole
  <2>2. x \in Xs
    BY <2>1, ChiAssumption DEF PlacesInv, PcInv, ChiAssumption
  <2>3. queue["WDAT"] # << >> => Head(queue["WDAT"]) = x
    BY <2>1, <2>2 DEF BurstInv, Burst, Claims, DataPcs
  <2> QED
    BY <2>1, <2>3, NextBurst
<1>4. Inv /\ [Next]_vars => [Kept]_vars /\ Inv'
  BY <1>2, <1>3
<1> QED
  BY <1>1, <1>2, <1>3, PTL DEF Spec, BurstsWhole
-----------------------------------------------------------------------------
(* The tx_state of a transaction.                                          *)

Phases == {"BEGIN_RESP"} \union BeatPhases \union EndPhases
HasSlot == Pcs \ {"idle", "snp", "done"}
Slots == 1 .. Cardinality(Xs)

\* A process in the middle of its work has a tx_state, nobody else has it, and
\* it is not in the pool, which holds nothing twice.
OwnerInv ==
  /\ slot \in [Xs -> {0} \union Slots] /\ pool \in Seq(Slots)
  /\ \A x \in Xs : slot[x] # 0 <=> pc[x] \in HasSlot
  /\ \A x, y \in Xs : slot[x] # 0 /\ slot[x] = slot[y] => x = y
  /\ \A i, j \in 1 .. Len(pool) : pool[i] = pool[j] => i = j
  /\ \A x \in Xs, i \in 1 .. Len(pool) : slot[x] # pool[i]

\* The tx_states are numbered in the order in which they were made.
CreatedInv == Created = 1 .. Cardinality(Created)

\* The phases in the queue of a tx_state belong to the payload that has it.
EntryInv ==
  /\ peq \in [Slots -> Seq(Xs \X Phases)]
  /\ \A k \in Slots : \A i \in 1 .. Len(peq[k]) : slot[peq[k][i][1]] = k

SlotInv == OwnerInv /\ CreatedInv /\ EntryInv

\* A step that leaves the tx_states with their payloads.
LEMMA OwnerFrame ==
  ASSUME OwnerInv, CreatedInv, UNCHANGED <<slot, pool>>,
         \A x \in Xs : pc'[x] \in HasSlot <=> pc[x] \in HasSlot
  PROVE  OwnerInv' /\ CreatedInv'
<1>1. OwnerInv'
  BY DEF OwnerInv
<1>2. CreatedInv'
  BY DEF CreatedInv, Created
<1> QED
  BY <1>1, <1>2

\* The process of x takes an entry out of its queue.
LEMMA PopEntry ==
  ASSUME OwnerInv, EntryInv, NEW x \in Xs, HasEntry(x), Pop(x)
  PROVE  EntryInv'
<1> DEFINE k == slot[x]
<1>1. k \in Slots /\ peq[k] \in Seq(Xs \X Phases) /\ peq[k] # << >>
  BY DEF OwnerInv, EntryInv, HasEntry
<1>2. peq' = [peq EXCEPT ![k] = Tail(@)] /\ slot' = slot
  BY DEF Pop
<1>3. /\ Tail(peq[k]) \in Seq(Xs \X Phases)
      /\ \A i \in 1 .. Len(Tail(peq[k])) :
           i + 1 \in 1 .. Len(peq[k]) /\ Tail(peq[k])[i] = peq[k][i + 1]
  BY <1>1, TailElements
<1>4. peq' \in [Slots -> Seq(Xs \X Phases)]
  BY <1>1, <1>2, <1>3 DEF EntryInv
<1>5. ASSUME NEW l \in Slots, NEW i \in 1 .. Len(peq'[l])
      PROVE  slot[peq'[l][i][1]] = l
  <2>1. CASE l = k
    BY <2>1, <1>1, <1>2, <1>3, <1>5 DEF EntryInv
  <2>2. CASE l # k
    BY <2>2, <1>1, <1>2, <1>5 DEF EntryInv
  <2> QED
    BY <2>1, <2>2
<1> QED
  BY <1>2, <1>4, <1>5 DEF EntryInv

\* A phase that comes for x goes into its queue.
LEMMA PhaseEntry ==
  ASSUME OwnerInv, EntryInv, NEW x \in Xs, NEW phase \in Phases, slot' = slot,
         IF slot[x] = 0 THEN UNCHANGED peq
         ELSE peq' = [peq EXCEPT ![slot[x]] = Append(@, <<x, phase>>)]
  PROVE  EntryInv'
<1>1. CASE slot[x] = 0
  BY <1>1 DEF EntryInv
<1>2. CASE slot[x] # 0
  <2> DEFINE k == slot[x]
             e == <<x, phase>>
  <2>1. k \in Slots /\ peq[k] \in Seq(Xs \X Phases) /\ e \in Xs \X Phases
    BY <1>2 DEF OwnerInv, EntryInv
  <2>2. peq' = [peq EXCEPT ![k] = Append(@, e)]
    BY <1>2
  <2> HIDE DEF e
  <2>3. /\ Append(peq[k], e) \in Seq(Xs \X Phases)
        /\ \A i \in 1 .. Len(Append(peq[k], e)) :
             \/ i \in 1 .. Len(peq[k]) /\ Append(peq[k], e)[i] = peq[k][i]
             \/ Append(peq[k], e)[i] = e
    BY <2>1
  <2>4. peq' \in [Slots -> Seq(Xs \X Phases)]
    BY <2>1, <2>2, <2>3 DEF EntryInv
  <2>5. ASSUME NEW l \in Slots, NEW i \in 1 .. Len(peq'[l])
        PROVE  slot[peq'[l][i][1]] = l
    <3>1. CASE l = k
      <4>1. e[1] = x
        BY DEF e
      <4> QED
        BY <3>1, <4>1, <2>1, <2>2, <2>3, <2>5 DEF EntryInv
    <3>2. CASE l # k
      BY <3>2, <2>1, <2>2, <2>5 DEF EntryInv
    <3> QED
      BY <3>1, <3>2
  <2> QED
    BY <2>4, <2>5 DEF EntryInv
<1> QED
  BY <1>1, <1>2

\* The tx_state of x at the end of its work: nothing is left in its queue.
LEMMA ReturnKeepsOwner ==
  ASSUME OwnerInv, CreatedInv, EntryInv, NEW x \in Xs, NEW to, Goto(x, to),
         ReturnSlot(x), pc[x] \in HasSlot, to \notin HasSlot, PcInv
  PROVE  SlotInv'
<1> DEFINE k == slot[x]
<1>1. k \in Slots /\ k # 0 /\ pool \in Seq(Slots)
  BY DEF OwnerInv
<1>2. /\ slot' = [slot EXCEPT ![x] = 0] /\ pool' = <<k>> \o pool
      /\ peq' = [peq EXCEPT ![k] = << >>]
  BY DEF ReturnSlot
<1>3. /\ pool' \in Seq(Slots) /\ Len(pool') = Len(pool) + 1
      /\ pool'[1] = k
      /\ \A i \in 2 .. Len(pool') :
           i - 1 \in 1 .. Len(pool) /\ pool'[i] = pool[i - 1]
  BY <1>1, <1>2
<1>4. slot' \in [Xs -> {0} \union Slots] /\ slot'[x] = 0
  BY <1>2 DEF OwnerInv
<1>5. \A y \in Xs \ {x} : slot'[y] = slot[y] /\ slot'[y] # k /\ pc'[y] = pc[y]
  BY <1>1, <1>2 DEF OwnerInv, Goto, PcInv
<1>6. pc'[x] = to
  BY DEF Goto, PcInv
<1>7. OwnerInv'
  <2>1. \A y \in Xs : slot'[y] # 0 <=> pc'[y] \in HasSlot
    BY <1>4, <1>5, <1>6 DEF OwnerInv
  <2>2. \A y, z \in Xs : slot'[y] # 0 /\ slot'[y] = slot'[z] => y = z
    BY <1>4, <1>5 DEF OwnerInv
  <2>3. \A i, j \in 1 .. Len(pool') : pool'[i] = pool'[j] => i = j
    <3>1. ASSUME NEW i \in 1 .. Len(pool'), NEW j \in 1 .. Len(pool'),
                 pool'[i] = pool'[j]
          PROVE  i = j
      <4>1. CASE i = 1 \/ j = 1
        BY <4>1, <3>1, <1>3, <1>1 DEF OwnerInv
      <4>2. CASE i # 1 /\ j # 1
        <5>1. i \in 2 .. Len(pool') /\ j \in 2 .. Len(pool')
          BY <4>2, <1>3, <1>1
        <5> QED
          BY <5>1, <3>1, <1>3 DEF OwnerInv
      <4> QED
        BY <4>1, <4>2
    <3> QED
      BY <3>1
  <2>4. \A y \in Xs, i \in 1 .. Len(pool') : slot'[y] # pool'[i]
    <3>1. ASSUME NEW y \in Xs, NEW i \in 1 .. Len(pool')
          PROVE  slot'[y] # pool'[i]
      <4>1. pool'[i] \in Slots
        BY <1>3
      <4>5. pool'[i] # 0
        BY <4>1 DEF Slots
      <4>2. CASE i = 1
        BY <4>5, <4>2, <1>3, <1>4, <1>5
      <4>3. CASE i # 1
        <5>1. i \in 2 .. Len(pool')
          BY <4>3, <1>3, <1>1
        <5> QED
          BY <5>1, <4>5, <1>3, <1>4, <1>5 DEF OwnerInv
      <4> QED
        BY <4>2, <4>3
    <3> QED
      BY <3>1
  <2> QED
    BY <2>1, <2>2, <2>3, <2>4, <1>3, <1>4 DEF OwnerInv
<1>8. Created' = Created
  <2>1. \A n : n \in Created' => n \in Created
    BY <1>1, <1>3, <1>4, <1>5 DEF Created
  <2>2. ASSUME NEW y \in Xs, slot[y] # 0
        PROVE  slot[y] \in Created'
    <3>1. CASE y = x
      <4>1. 1 \in 1 .. Len(pool') /\ pool'[1] = slot[y]
        BY <3>1, <1>3, <1>1
      <4> QED
        BY <4>1 DEF Created
    <3>2. CASE y # x
      BY <3>2, <2>2, <1>5 DEF Created
    <3> QED
      BY <3>1, <3>2
  <2>3. ASSUME NEW i \in 1 .. Len(pool)
        PROVE  pool[i] \in Created'
    <3>1. i + 1 \in 2 .. Len(pool') /\ i + 1 \in 1 .. Len(pool') /\ (i + 1) - 1 = i
      BY <1>3, <1>1
    <3>2. pool'[i + 1] = pool[i]
      BY <3>1, <1>3
    <3> QED
      BY <3>1, <3>2 DEF Created
  <2>4. \A n : n \in Created => n \in Created'
    BY <2>2, <2>3 DEF Created
  <2> QED
    BY <2>1, <2>4
<1>9. CreatedInv'
  BY <1>8 DEF CreatedInv
<1>10. EntryInv'
  <2>1. peq' \in [Slots -> Seq(Xs \X Phases)]
    BY <1>1, <1>2 DEF EntryInv
  <2>2. ASSUME NEW l \in Slots, NEW i \in 1 .. Len(peq'[l])
        PROVE  slot'[peq'[l][i][1]] = l
    <3>1. l # k
      BY <2>2, <1>1, <1>2 DEF EntryInv
    <3>2. peq'[l] = peq[l] /\ peq[l] \in Seq(Xs \X Phases)
      BY <3>1, <1>1, <1>2 DEF EntryInv
    <3>3. peq[l][i] \in Xs \X Phases
      BY <3>2, <2>2
    <3>4. peq[l][i][1] \in Xs
      BY <3>3
    <3>5. slot[peq[l][i][1]] = l
      BY <3>2, <2>2 DEF EntryInv
    <3> QED
      BY <3>1, <3>2, <3>4, <3>5, <1>5
  <2> QED
    BY <2>1, <2>2 DEF EntryInv
<1> QED
  BY <1>7, <1>9, <1>10 DEF SlotInv

\* A process takes a tx_state from the pool, or a new one with the next number.
LEMMA TakeKeepsOwner ==
  ASSUME IsFiniteSet(Xs), OwnerInv, CreatedInv, EntryInv, NEW x \in Xs, NEW to,
         Goto(x, to), TakeSlot(x), pc[x] \notin HasSlot, to \in HasSlot, PcInv
  PROVE  SlotInv'
<1>1. slot[x] = 0 /\ pool \in Seq(Slots)
  BY DEF OwnerInv
<1>2. pc'[x] = to /\ \A y \in Xs \ {x} : pc'[y] = pc[y]
  BY DEF Goto, PcInv
<1>3. Cardinality(Xs) \in Nat
  BY FS_CardinalityType
<1>4. PICK k \in Slots :
        /\ slot' = [slot EXCEPT ![x] = k] /\ k # 0
        /\ \A y \in Xs : slot[y] # k
        /\ \A i \in 1 .. Len(pool') : pool'[i] # k
        /\ pool' \in Seq(Slots)
        /\ \A i, j \in 1 .. Len(pool') : pool'[i] = pool'[j] => i = j
        /\ \A y \in Xs, i \in 1 .. Len(pool') : slot[y] # pool'[i]
        /\ Created' = 1 .. Cardinality(Created')
  <2>1. CASE pool # << >>
    <3>1. /\ Head(pool) \in Slots /\ Head(pool) = pool[1] /\ 1 \in 1 .. Len(pool)
          /\ Tail(pool) \in Seq(Slots)
          /\ \A i \in 1 .. Len(Tail(pool)) :
               i + 1 \in 2 .. Len(pool) /\ Tail(pool)[i] = pool[i + 1]
          /\ Len(Tail(pool)) = Len(pool) - 1
      BY <2>1, <1>1
    <3>2. slot' = [slot EXCEPT ![x] = Head(pool)] /\ pool' = Tail(pool)
      BY <2>1 DEF TakeSlot
    <3>3. Head(pool) # 0
      BY <3>1 DEF Slots
    <3>4. \A y \in Xs : slot[y] # Head(pool)
      BY <3>1 DEF OwnerInv
    <3>5. \A i \in 1 .. Len(pool') : pool'[i] # Head(pool)
      BY <3>1, <3>2 DEF OwnerInv
    <3>6. \A i, j \in 1 .. Len(pool') : pool'[i] = pool'[j] => i = j
      <4>1. ASSUME NEW i \in 1 .. Len(pool'), NEW j \in 1 .. Len(pool'),
                   pool'[i] = pool'[j]
            PROVE  i = j
        <5>1. /\ i + 1 \in 1 .. Len(pool) /\ j + 1 \in 1 .. Len(pool)
              /\ pool[i + 1] = pool[j + 1]
          BY <4>1, <3>1, <3>2
        <5>2. i + 1 = j + 1
          BY <5>1 DEF OwnerInv
        <5> QED
          BY <5>2
      <4> QED
        BY <4>1
    <3>7. \A y \in Xs, i \in 1 .. Len(pool') : slot[y] # pool'[i]
      BY <3>1, <3>2 DEF OwnerInv
    <3>8. slot' \in [Xs -> {0} \union Slots] /\ slot'[x] = Head(pool)
          /\ \A y \in Xs \ {x} : slot'[y] = slot[y]
      BY <3>1, <3>2 DEF OwnerInv
    <3>9. Created' = Created
      <4>1. ASSUME NEW y \in Xs, slot'[y] # 0
            PROVE  slot'[y] \in Created
        <5>1. CASE y = x
          BY <5>1, <3>1, <3>8 DEF Created
        <5>2. CASE y # x
          BY <5>2, <4>1, <3>8 DEF Created
        <5> QED
          BY <5>1, <5>2
      <4>2. ASSUME NEW i \in 1 .. Len(pool')
            PROVE  pool'[i] \in Created
        <5>1. i + 1 \in 1 .. Len(pool) /\ pool'[i] = pool[i + 1]
          BY <4>2, <3>1, <3>2
        <5> QED
          BY <5>1 DEF Created
      <4>3. ASSUME NEW y \in Xs, slot[y] # 0
            PROVE  slot[y] \in Created'
        <5>1. y # x /\ slot'[y] = slot[y]
          BY <4>3, <1>1, <3>8
        <5> QED
          BY <5>1, <4>3 DEF Created
      <4>4. ASSUME NEW i \in 1 .. Len(pool)
            PROVE  pool[i] \in Created'
        <5>1. CASE i = 1
          BY <5>1, <3>1, <3>3, <3>8 DEF Created
        <5>2. CASE i # 1
          <6>1. i - 1 \in 1 .. Len(pool') /\ (i - 1) + 1 = i
            BY <4>4, <5>2, <3>1, <3>2, <1>1
          <6>2. pool'[i - 1] = pool[i]
            BY <6>1, <3>1, <3>2
          <6> QED
            BY <6>1, <6>2 DEF Created
        <5> QED
          BY <5>1, <5>2
      <4>5. \A n : n \in Created' => n \in Created
        BY <4>1, <4>2 DEF Created
      <4>6. \A n : n \in Created => n \in Created'
        BY <4>3, <4>4 DEF Created
      <4> QED
        BY <4>5, <4>6
    <3>10. Created' = 1 .. Cardinality(Created')
      BY <3>9 DEF CreatedInv
    <3> QED
      BY <3>1, <3>2, <3>3, <3>4, <3>5, <3>6, <3>7, <3>10
  <2>2. CASE pool = << >>
    <3> DEFINE S == {y \in Xs : slot[y] # 0}
               n == Cardinality(Created)
    <3>1. Created = {slot[y] : y \in S}
      BY <2>2 DEF Created
    <3>2. /\ IsFiniteSet(S) /\ Cardinality(S) \in Nat
          /\ Cardinality(S) <= Cardinality(Xs) - 1
      <4>1. IsFiniteSet(Xs \ {x}) /\ Cardinality(Xs \ {x}) = Cardinality(Xs) - 1
        BY FS_RemoveElement
      <4>2. S \in SUBSET (Xs \ {x})
        BY <1>1
      <4>3. IsFiniteSet(S) /\ Cardinality(S) <= Cardinality(Xs \ {x})
        BY <4>1, <4>2, FS_Subset
      <4> QED
        BY <4>1, <4>3, FS_CardinalityType
    <3>3. /\ IsFiniteSet(Created) /\ n \in Nat /\ n <= Cardinality(S)
      <4> DEFINE f == [y \in S |-> slot[y]]
      <4>1. f \in Surjection(S, Created)
        BY <3>1 DEF Surjection
      <4>2. IsFiniteSet(Created) /\ Cardinality(Created) <= Cardinality(S)
        BY <3>2, <4>1, FS_Surjection
      <4> QED
        BY <4>2, FS_CardinalityType
    <3>4. Created = 1 .. n
      BY DEF CreatedInv
    <3>5. n + 1 \in Slots /\ n + 1 # 0
      BY <3>2, <3>3, <1>3 DEF Slots
    <3>6. n + 1 \notin Created
      BY <3>3, <3>4
    <3>7. slot' = [slot EXCEPT ![x] = n + 1] /\ pool' = << >>
      BY <2>2 DEF TakeSlot
    <3>8. \A y \in Xs : slot[y] # n + 1
      <4>1. ASSUME NEW y \in Xs, slot[y] = n + 1
            PROVE  FALSE
        <5>1. slot[y] \in Created
          BY <4>1, <3>5, <3>1
        <5> QED
          BY <5>1, <4>1, <3>6
      <4> QED
        BY <4>1
    <3>9. /\ slot'[x] = n + 1 /\ \A y \in Xs \ {x} : slot'[y] = slot[y]
      BY <3>7 DEF OwnerInv
    <3>10. Created' = {slot'[y] : y \in {z \in Xs : slot'[z] # 0}}
      BY <3>7 DEF Created
    <3>11. Created' = Created \union {n + 1}
      BY <3>1, <3>9, <3>10, <3>5, <1>1
    <3>12. Created' = 1 .. (n + 1)
      BY <3>3, <3>4, <3>11
    <3>13. Cardinality(1 .. (n + 1)) = n + 1
      BY <3>3, FS_Interval
    <3>14. Created' = 1 .. Cardinality(Created')
      BY <3>12, <3>13
    <3>15. pool' \in Seq(Slots) /\ 1 .. Len(pool') = {}
      BY <3>7
    <3> QED
      BY <3>5, <3>7, <3>8, <3>14, <3>15
  <2> QED
    BY <2>1, <2>2
<1>5. /\ slot' \in [Xs -> {0} \union Slots] /\ slot'[x] = k
      /\ \A y \in Xs \ {x} : slot'[y] = slot[y]
  BY <1>4 DEF OwnerInv
<1>6. OwnerInv'
  <2>1. \A y \in Xs : slot'[y] # 0 <=> pc'[y] \in HasSlot
    BY <1>2, <1>4, <1>5 DEF OwnerInv
  <2>2. \A y, z \in Xs : slot'[y] # 0 /\ slot'[y] = slot'[z] => y = z
    BY <1>4, <1>5 DEF OwnerInv
  <2>3. \A y \in Xs, i \in 1 .. Len(pool') : slot'[y] # pool'[i]
    BY <1>4, <1>5
  <2> QED
    BY <2>1, <2>2, <2>3, <1>4, <1>5 DEF OwnerInv
<1>7. EntryInv'
  <2>1. peq' = peq
    BY DEF TakeSlot
  <2>2. ASSUME NEW l \in Slots, NEW i \in 1 .. Len(peq[l])
        PROVE  slot'[peq[l][i][1]] = l
    <3>1. peq[l] \in Seq(Xs \X Phases)
      BY DEF EntryInv
    <3>2. peq[l][i] \in Xs \X Phases
      BY <3>1, <2>2
    <3>3. peq[l][i][1] \in Xs
      BY <3>2
    <3>4. slot[peq[l][i][1]] = l
      BY <2>2 DEF EntryInv
    <3>5. peq[l][i][1] # x
      BY <3>4, <1>1 DEF Slots
    <3> QED
      BY <3>3, <3>4, <3>5, <1>5
  <2> QED
    BY <2>1, <2>2 DEF EntryInv
<1> QED
  BY <1>4, <1>6, <1>7 DEF SlotInv, CreatedInv

\* The process of x goes on and keeps its tx_state, or waits as long without.
LEMMA SlotStays ==
  ASSUME PcInv, SlotInv, NEW x \in Xs, NEW to, Goto(x, to),
         pc[x] \in HasSlot <=> to \in HasSlot,
         UNCHANGED slotVars \/ (HasEntry(x) /\ Pop(x))
  PROVE  SlotInv'
<1>1. /\ UNCHANGED <<slot, pool>>
      /\ \A y \in Xs : pc'[y] \in HasSlot <=> pc[y] \in HasSlot
  BY DEF slotVars, Pop, Goto, PcInv
<1>2. EntryInv'
  BY PopEntry, <1>1 DEF SlotInv, slotVars, EntryInv
<1> QED
  BY <1>1, <1>2, OwnerFrame DEF SlotInv

LEMMA SlotQuiet ==
  ASSUME PcInv, SlotInv, NEW x \in Xs, Quiet(x),
         UNCHANGED slotVars \/ (HasEntry(x) /\ Pop(x))
  PROVE  SlotInv'
<1>1. Working \subseteq HasSlot
  BY DEF Working, HasSlot
<1>2. PICK to \in Working : Goto(x, to)
  BY DEF Quiet
<1> QED
  BY <1>1, <1>2, SlotStays DEF Quiet

LEMMA SlotFrame ==
  ASSUME SlotInv, UNCHANGED <<pc, slotVars>>
  PROVE  SlotInv'
<1>1. EntryInv'
  BY DEF SlotInv, EntryInv, slotVars
<1> QED
  BY <1>1, OwnerFrame DEF SlotInv, slotVars

LEMMA TransportSlot ==
  ASSUME IsFiniteSet(Xs), PcInv, SlotInv, NEW t \in Reqs, TransportStep(t)
  PROVE  SlotInv'
<1>1. t \in Xs
  BY DEF Xs
<1>2. CASE Transport(t)
  <2>1. PICK to \in {"order", "strict", "id"} : Goto(t, to)
    BY <1>2 DEF Transport, Onward
  <2>2. pc[t] \notin HasSlot /\ to \in HasSlot
    BY <1>2 DEF Transport, HasSlot, Pcs
  <2> QED
    BY <1>1, <1>2, <2>1, <2>2, TakeKeepsOwner DEF Transport, SlotInv
<1>3. CASE PassOrder(t) \/ PassStrict(t) \/ PassId(t)
  <2>1. PICK to \in {"strict", "id", "req"} : Goto(t, to)
    BY <1>3 DEF PassOrder, PassStrict, PassId, Onward
  <2>2. pc[t] \in HasSlot /\ to \in HasSlot
    BY <1>3 DEF PassOrder, PassStrict, PassId, HoldsId, HasSlot, Pcs
  <2> QED
    BY <1>1, <1>3, <2>1, <2>2, SlotStays DEF PassOrder, PassStrict, PassId
<1>4. CASE ReqDone(t)
  BY <1>1, <1>4, RequestQuiet, SlotQuiet DEF ReqDone
<1>5. CASE Finish(t)
  <2>1. pc[t] \in HasSlot /\ "done" \notin HasSlot
    BY <1>5 DEF Finish, HasSlot, Pcs
  <2> QED
    BY <1>1, <1>5, <2>1, ReturnKeepsOwner DEF Finish, SlotInv
<1>6. ASSUME NEW upd, NEW n, SendReq(t, upd, n)
      PROVE  SlotInv'
  BY <1>1, <1>6, RequestQuiet, SlotQuiet DEF SendReq
<1>7. CASE Response(t)
  BY <1>1, <1>7, ResponseQuiet, SlotQuiet DEF Response
<1>8. CASE AtomicResponse(t)
  BY <1>1, <1>8, AtomicQuiet, SlotQuiet DEF AtomicResponse
<1>9. CASE AtomicIn(t)
  BY <1>1, <1>9, AtomicQuiet, SlotQuiet DEF AtomicIn
<1> QED
  BY <1>2, <1>3, <1>4, <1>5, <1>6, <1>7, <1>8, <1>9 DEF TransportStep

LEMMA SnoopSlot ==
  ASSUME PcInv, SlotInv, NEW s \in Snps, SnoopStep(s)
  PROVE  SlotInv'
<1>1. s \in Xs
  BY DEF Xs
<1>2. ASSUME NEW k, SnoopResp(s, k)
      PROVE  SlotInv'
  <2>1. PICK to \in {"prio", "wdat", "srsp"} : Goto(s, to)
    BY <1>2 DEF SnoopResp, Answer, SendPc
  <2>2. pc[s] \in HasSlot /\ to \in HasSlot
    BY <1>2 DEF SnoopResp, HasSlot, Pcs
  <2> QED
    BY <1>1, <1>2, <2>1, <2>2, SlotStays DEF SnoopResp
<1>3. CASE Join(s)
  BY <1>1, <1>3, SnoopQuiet, SlotQuiet DEF Join
<1>4. CASE FinishSnoop(s)
  <2>1. pc[s] \in HasSlot /\ "done" \notin HasSlot
    BY <1>4 DEF FinishSnoop, HasSlot, Pcs
  <2> QED
    BY <1>1, <1>4, <2>1, ReturnKeepsOwner DEF FinishSnoop, SlotInv
<1>5. ASSUME NEW upd, NEW n, SendSnoopResp(s, upd, n)
      PROVE  SlotInv'
  BY <1>1, <1>5, SnoopQuiet, SlotQuiet DEF SendSnoopResp
<1>6. CASE SnoopWait(s)
  BY <1>1, <1>6, SnoopQuiet, SlotQuiet DEF SnoopWait
<1> QED
  BY <1>2, <1>3, <1>4, <1>5, <1>6 DEF SnoopStep

LEMMA DataSlot ==
  ASSUME PcInv, SlotInv, NEW x \in Xs, DataStep(x)
  PROVE  SlotInv'
<1>1. Quiet(x)
  BY DataQuiet
<1>2. UNCHANGED slotVars \/ (HasEntry(x) /\ Pop(x))
  BY DEF DataStep, SendData, DataDone, SendAck
<1> QED
  BY <1>1, <1>2, SlotQuiet

LEMMA HandlerSlot ==
  ASSUME IsFiniteSet(Xs), PlacesInv, SlotInv, HandlerStep
  PROVE  SlotInv'
<1>1. CASE Dispatch \/ HandlerIdle
  BY <1>1, SlotFrame DEF Dispatch, HandlerIdle
<1>2. ASSUME NEW fresh, NEW k, TakeSnoop(fresh, k)
      PROVE  SlotInv'
  <2> DEFINE s == Head(dispq)
  <2>1. s \in Snps /\ pc[s] = "snp"
    BY <1>2, TailLine DEF TakeSnoop, PlacesInv, SnoopInv
  <2>2. PICK to \in {"later", "prio", "wdat", "srsp"} : Goto(s, to)
    BY <1>2 DEF TakeSnoop, Answer, SendPc
  <2>3. pc[s] \notin HasSlot /\ to \in HasSlot
    BY <2>1 DEF HasSlot, Pcs
  <2>4. TakeSlot(s)
    BY <1>2 DEF TakeSnoop
  <2> QED
    BY <2>1, <2>2, <2>3, <2>4, TakeKeepsOwner DEF Xs, SlotInv, PlacesInv
<1> QED
  BY <1>1, <1>2 DEF HandlerStep

\* A phase of the home node.
LEMMA HnSlot ==
  ASSUME PlanInv, SlotInv, NEW x \in Xs, HnStep(x)
  PROVE  SlotInv'
<1>1. ASSUME NEW phase \in Phases, NEW op, NEW n, BwPhase(x, phase, op, n)
      PROVE  SlotInv'
  <2>1. EntryInv'
    BY <1>1, PhaseEntry DEF BwPhase, SlotInv
  <2> QED
    BY <1>1, <2>1, OwnerFrame DEF BwPhase, SlotInv
<1>2. CASE HnRespond(x)
  <2> DEFINE item == Head(plan[x])
             phase == IF HN!IsBeat(item) THEN item ELSE "BEGIN_RESP"
  <2>1. phase \in Phases
    BY DEF HN!IsBeat, Phases, BeatPhases
  <2>2. BwPhase(x, phase, item, 0)
    BY <1>2 DEF HnRespond
  <2> QED
    BY <1>1, <2>1, <2>2
<1>3. CASE HnEndPhase(x)
  <2>1. Head(due[x]) \in Phases
    BY <1>3 DEF HnEndPhase, PlanInv, Phases
  <2>2. \E n : BwPhase(x, Head(due[x]), NoResponse, n)
    BY <1>3 DEF HnEndPhase
  <2> QED
    BY <1>1, <2>1, <2>2
<1> QED
  BY <1>2, <1>3 DEF HnStep

LEMMA NextSlot ==
  ASSUME IsFiniteSet(Xs), PlacesInv, PlanInv, SlotInv, [Next]_vars
  PROVE  SlotInv'
<1>1. ASSUME NEW s \in Snps, SendSnoop(s)
      PROVE  SlotInv'
  <2>1. /\ s \in Xs /\ Goto(s, "snp") /\ UNCHANGED slotVars
        /\ pc[s] \notin HasSlot /\ "snp" \notin HasSlot
    BY <1>1 DEF SendSnoop, BwSnoop, HasSlot, Xs
  <2> QED
    BY <2>1, SlotStays DEF PlacesInv
<1>2. CASE ClkStep
  BY <1>2, SlotFrame DEF ClkStep, ClkCounter
<1>3. ASSUME NEW c \in Channels, Grant(c)
      PROVE  SlotInv'
  BY <1>3, SlotFrame DEF Grant, BwCredit
<1>4. CASE UNCHANGED vars
  BY <1>4, SlotFrame DEF vars, rnVars, slotVars
<1> QED
  BY <1>1, <1>2, <1>3, <1>4, TransportSlot, SnoopSlot, DataSlot, HandlerSlot,
     HnSlot DEF Next, PlacesInv

LEMMA InitSlot ==
  ASSUME IsFiniteSet(Xs), Init
  PROVE  SlotInv
<1>1. OwnerInv
  BY DEF Init, RnInit, OwnerInv, HasSlot
<1>2. CreatedInv
  <2>1. Created = {}
    BY DEF Init, RnInit, Created
  <2> QED
    BY <2>1, FS_EmptySet DEF CreatedInv
<1>3. EntryInv
  BY DEF Init, RnInit, EntryInv, Slots
<1> QED
  BY <1>1, <1>2, <1>3 DEF SlotInv

\* The state of a transaction has one owner, for any number of transport calls
\* and snoops: a tx_state is not in the pool while it is used, the pool holds
\* none twice and only such with an empty queue, and a phase that comes for one
\* payload is never seen by another.
THEOREM StateOwnedHolds ==
  ASSUME IsFiniteSet(Xs)
  PROVE  Spec => []StateOwned
<1>1. SlotInv => StateOwned
  <2>1. ASSUME SlotInv, NEW i \in 1 .. Len(pool)
        PROVE  peq[pool[i]] = << >>
    <3>1. pool[i] \in Slots
      BY <2>1 DEF SlotInv, OwnerInv
    <3>2. peq[pool[i]] \in Seq(Xs \X Phases)
      BY <3>1, <2>1 DEF SlotInv, EntryInv
    <3>3. ASSUME NEW j \in 1 .. Len(peq[pool[i]])
          PROVE  FALSE
      <4>1. peq[pool[i]][j] \in Xs \X Phases
        BY <3>2, <3>3
      <4>2. peq[pool[i]][j][1] \in Xs
        BY <4>1
      <4>3. slot[peq[pool[i]][j][1]] = pool[i]
        BY <3>1, <3>3, <2>1 DEF SlotInv, EntryInv
      <4> QED
        BY <4>2, <4>3, <2>1 DEF SlotInv, OwnerInv
    <3> QED
      BY <3>2, <3>3
  <2> QED
    BY <2>1 DEF SlotInv, OwnerInv, StateOwned
<1>2. Init => CreditInv /\ SlotInv
  BY InitCredit, InitSlot
<1>3. CreditInv /\ SlotInv /\ [Next]_vars => (CreditInv /\ SlotInv)'
  BY NextCredit, NextSlot DEF CreditInv
<1> QED
  BY <1>1, <1>2, <1>3, PTL DEF Spec
-----------------------------------------------------------------------------
(* The snoop handlers.                                                     *)

Counted == {"prio", "later", "srsp", "swait", "wdat", "wwait", "wsync"}
Replying == {"prio", "srsp", "swait", "wdat", "wwait", "wsync", "ack", "end"}

Replies == {s \in Snps : pc[s] \in Counted}

\* Who is answered by a handler itself is between its END_REQ and the end.
HandlerInv ==
  /\ threads \in [avail : Nat, active : Nat, spawned : Nat]
  /\ own \subseteq {s \in Snps : pc[s] \in Replying}
  /\ HandlersCounted

LEMMA SnpsFinite ==
  ASSUME IsFiniteSet(Xs)
  PROVE  /\ IsFiniteSet(Snps)
         /\ \A S \in SUBSET Snps : IsFiniteSet(S) /\ Cardinality(S) \in Nat
<1>1. Snps \in SUBSET Xs
  BY DEF Xs
<1>2. IsFiniteSet(Snps)
  BY <1>1, FS_Subset
<1>3. ASSUME NEW S \in SUBSET Snps
      PROVE  IsFiniteSet(S) /\ Cardinality(S) \in Nat
  BY <1>2, FS_Subset, FS_CardinalityType
<1> QED
  BY <1>2, <1>3

\* The snoops stay where they are.
LEMMA HandlerFrame ==
  ASSUME HandlerInv, UNCHANGED <<threads, own, snpCnt>>,
         \A s \in Snps : pc'[s] = pc[s]
  PROVE  HandlerInv'
BY DEF HandlerInv, HandlersCounted

\* A request does something.
LEMMA HandlerRequest ==
  ASSUME PcInv, HandlerInv, NEW t \in Reqs, NEW to, Goto(t, to),
         UNCHANGED <<threads, own, snpCnt>>
  PROVE  HandlerInv'
<1>1. \A s \in Snps : pc'[s] = pc[s]
  BY ChiAssumption DEF ChiAssumption, Goto, PcInv, Xs
<1> QED
  BY <1>1, HandlerFrame

\* The number of snoops at work, when s moves.
LEMMA RepliesMove ==
  ASSUME IsFiniteSet(Xs), PcInv, NEW s \in Snps, NEW to, Goto(s, to)
  PROVE  /\ Cardinality(Replies) \in Nat
         /\ Cardinality(Replies') =
              Cardinality(Replies)
                + (IF to \in Counted THEN 1 ELSE 0)
                - (IF pc[s] \in Counted THEN 1 ELSE 0)
<1>1. pc'[s] = to /\ \A u \in Snps \ {s} : pc'[u] = pc[u]
  BY DEF Goto, PcInv, Xs
<1> DEFINE S == Replies \ {s}
<1>2. /\ IsFiniteSet(Replies) /\ Cardinality(Replies) \in Nat
      /\ IsFiniteSet(S) /\ Cardinality(S) \in Nat
  BY SnpsFinite DEF Replies
<1>3. Cardinality(S) = IF s \in Replies THEN Cardinality(Replies) - 1
                       ELSE Cardinality(Replies)
  BY <1>2, FS_RemoveElement
<1>4. s \in Replies <=> pc[s] \in Counted
  BY DEF Replies
<1>5. CASE to \in Counted
  <2>1. Replies' = S \union {s}
    BY <1>1, <1>5 DEF Replies
  <2>2. Cardinality(S \union {s}) = Cardinality(S) + 1
    BY <1>2, FS_AddElement
  <2> QED
    BY <2>1, <2>2, <1>2, <1>3, <1>4, <1>5
<1>6. CASE to \notin Counted
  <2>1. Replies' = S
    BY <1>1, <1>6 DEF Replies
  <2> QED
    BY <2>1, <1>2, <1>3, <1>4, <1>6
<1> QED
  BY <1>2, <1>5, <1>6

\* The answer to a snoop goes on; snp_counter is decremented at its end.
LEMMA HandlerGoes ==
  ASSUME IsFiniteSet(Xs), PcInv, HandlerInv, NEW s \in Snps, NEW to \in Replying,
         Goto(s, to), pc[s] \in Replying \/ pc[s] = "later",
         UNCHANGED <<threads, own>>,
         pc[s] \in Counted \/ to \notin Counted,
         snpCnt' = IF pc[s] \in Counted /\ to \notin Counted
                     THEN snpCnt - 1 ELSE snpCnt
  PROVE  HandlerInv'
<1>1. snpCnt = Cardinality(Replies)
  BY DEF HandlerInv, HandlersCounted, Replies, Counted
<1>2. /\ Cardinality(Replies) \in Nat
      /\ Cardinality(Replies') = Cardinality(Replies)
           + (IF to \in Counted THEN 1 ELSE 0)
           - (IF pc[s] \in Counted THEN 1 ELSE 0)
  BY RepliesMove
<1>3. snpCnt' = Cardinality(Replies')
  BY <1>1, <1>2
<1>4. pc'[s] = to /\ \A u \in Snps \ {s} : pc'[u] = pc[u]
  BY DEF Goto, PcInv, Xs
<1>5. own' \subseteq {u \in Snps : pc'[u] \in Replying}
  BY <1>4 DEF HandlerInv
<1> QED
  BY <1>3, <1>5 DEF HandlerInv, HandlersCounted, Replies, Counted

\* A request's step changes nothing of the handlers.
LEMMA TransportHandler ==
  ASSUME PcInv, HandlerInv, NEW t \in Reqs, TransportStep(t)
  PROVE  HandlerInv'
<1>1. UNCHANGED <<threads, own, snpCnt>>
  BY DEF TransportStep, Transport, PassOrder, PassStrict, PassId, SendReq, ReqDone,
         Response, AtomicResponse, AtomicIn, Finish, snpVars
<1>2. \E to : Goto(t, to)
  <2>1. CASE Transport(t) \/ PassOrder(t) \/ PassStrict(t) \/ PassId(t) \/ Finish(t)
    BY <2>1 DEF Transport, PassOrder, PassStrict, PassId, Finish, Onward
  <2>2. CASE \/ \E upd, n : SendReq(t, upd, n)
             \/ ReqDone(t) \/ Response(t) \/ AtomicResponse(t) \/ AtomicIn(t)
    BY <2>2, RequestQuiet, ResponseQuiet, AtomicQuiet DEF Quiet
  <2> QED
    BY <2>1, <2>2 DEF TransportStep
<1> QED
  BY <1>1, <1>2, HandlerRequest

LEMMA SnoopHandler ==
  ASSUME IsFiniteSet(Xs), PcInv, HandlerInv, NEW s \in Snps, SnoopStep(s)
  PROVE  HandlerInv'
<1>1. ASSUME NEW k, SnoopResp(s, k)
      PROVE  HandlerInv'
  <2>1. PICK to \in {"prio", "wdat", "srsp"} : Goto(s, to)
    BY <1>1 DEF SnoopResp, Answer, SendPc
  <2>2. pc[s] = "later" /\ UNCHANGED <<threads, own, snpCnt>>
    BY <1>1 DEF SnoopResp
  <2> QED
    BY <2>1, <2>2, HandlerGoes DEF Counted, Replying
<1>2. CASE Join(s)
  <2>1. PICK to \in {"wdat", "srsp"} : Goto(s, to)
    BY <1>2 DEF Join, SendPc
  <2>2. pc[s] = "prio" /\ UNCHANGED <<threads, own, snpCnt>>
    BY <1>2 DEF Join, snpVars
  <2> QED
    BY <2>1, <2>2, HandlerGoes DEF Counted, Replying
<1>3. ASSUME NEW left, NEW q, SnpContinue(s, left, q), UNCHANGED <<threads, own>>,
             pc[s] \in {"srsp", "swait"}
      PROVE  HandlerInv'
  <2>1. PICK to \in {"swait", "ack", "end"} :
          /\ Goto(s, to)
          /\ snpCnt' = IF to = "swait" THEN snpCnt ELSE snpCnt - 1
    BY <1>3 DEF SnpContinue
  <2> QED
    BY <2>1, <1>3, HandlerGoes DEF Counted, Replying
<1>4. ASSUME NEW upd, NEW n, SendSnoopResp(s, upd, n)
      PROVE  HandlerInv'
  BY <1>3, <1>4 DEF SendSnoopResp
<1>5. CASE SnoopWait(s)
  BY <1>3, <1>5 DEF SnoopWait
<1>6. CASE FinishSnoop(s)
  <2>1. /\ Goto(s, "done") /\ pc[s] = "end" /\ own' = own \ {s} /\ snpCnt' = snpCnt
        /\ threads' = [threads EXCEPT !.avail = @ + IF s \in own THEN 1 ELSE 0]
    BY <1>6 DEF FinishSnoop
  <2>2. /\ Cardinality(Replies) \in Nat
        /\ Cardinality(Replies') = Cardinality(Replies)
             + (IF "done" \in Counted THEN 1 ELSE 0)
             - (IF pc[s] \in Counted THEN 1 ELSE 0)
    BY <2>1, RepliesMove
  <2>3. snpCnt' = Cardinality(Replies')
    BY <2>1, <2>2 DEF HandlerInv, HandlersCounted, Replies, Counted
  <2>4. IsFiniteSet(own) /\ Cardinality(own) \in Nat
    BY SnpsFinite DEF HandlerInv
  <2>5. Cardinality(own') = IF s \in own THEN Cardinality(own) - 1
                            ELSE Cardinality(own)
    BY <2>1, <2>4, FS_RemoveElement
  <2>6. /\ threads' \in [avail : Nat, active : Nat, spawned : Nat]
        /\ threads'.avail = threads.avail + (IF s \in own THEN 1 ELSE 0)
        /\ threads'.active = threads.active /\ threads.avail \in Nat
    BY <2>1 DEF HandlerInv
  <2>7. threads'.avail + Cardinality(own') = threads'.active
    BY <2>4, <2>5, <2>6 DEF HandlerInv, HandlersCounted
  <2>8. \A u \in Snps \ {s} : pc'[u] = pc[u]
    BY <2>1 DEF Goto, PcInv, Xs
  <2>9. own' \subseteq {u \in Snps : pc'[u] \in Replying}
    BY <2>1, <2>8 DEF HandlerInv
  <2> QED
    BY <2>3, <2>6, <2>7, <2>9 DEF HandlerInv, HandlersCounted, Replies, Counted
<1> QED
  BY <1>1, <1>2, <1>4, <1>5, <1>6 DEF SnoopStep

LEMMA DataHandler ==
  ASSUME IsFiniteSet(Xs), PcInv, HandlerInv, NEW x \in Xs, DataStep(x)
  PROVE  HandlerInv'
<1>1. CASE x \in Reqs
  <2>1. UNCHANGED <<threads, own, snpCnt>>
    BY <1>1, ChiAssumption DEF ChiAssumption, DataStep, SendData, DataDone, SendAck,
      snpVars
  <2> QED
    BY <2>1, <1>1, DataQuiet, HandlerRequest DEF Quiet
<1>2. CASE x \in Snps
  <2>1. ASSUME NEW upd, NEW n, SendData(x, upd, n)
        PROVE  HandlerInv'
    <3>1. PICK to \in {"wwait", "wsync"} : Goto(x, to)
      BY <2>1 DEF SendData
    <3>2. pc[x] = "wdat" /\ UNCHANGED <<threads, own, snpCnt>>
      BY <2>1 DEF SendData, snpVars
    <3> QED
      BY <3>1, <3>2, <1>2, HandlerGoes DEF Counted, Replying
  <2>2. CASE DataDone(x)
    <3>1. x \notin Reqs /\ ~Returning(x)
      BY <1>2, ChiAssumption DEF ChiAssumption, Returning
    <3>2. /\ pc[x] \in {"wwait", "wsync"} /\ UNCHANGED <<threads, own>>
          /\ \/ Goto(x, "wdat") /\ snpCnt' = snpCnt
             \/ Goto(x, "end") /\ snpCnt' = snpCnt - 1
      BY <2>2, <3>1 DEF DataDone
    <3> QED
      BY <3>2, <1>2, HandlerGoes DEF Counted, Replying
  <2>3. ASSUME NEW n, SendAck(x, n)
        PROVE  HandlerInv'
    <3>1. pc[x] = "ack" /\ Goto(x, "end") /\ UNCHANGED <<threads, own, snpCnt>>
      BY <2>3 DEF SendAck, snpVars
    <3> QED
      BY <3>1, <1>2, HandlerGoes DEF Counted, Replying
  <2> QED
    BY <2>1, <2>2, <2>3 DEF DataStep
<1> QED
  BY <1>1, <1>2 DEF Xs

\* A handler takes a snoop and answers it, or leaves that to snoop_resp.
LEMMA TakeSnoopHandler ==
  ASSUME IsFiniteSet(Xs), PlacesInv, HandlerInv, NEW fresh \in BOOLEAN,
         NEW k \in Kinds \union {"later"}, TakeSnoop(fresh, k)
  PROVE  HandlerInv'
<1> DEFINE s == Head(dispq)
<1>1. s \in Snps /\ pc[s] = "snp"
  BY TailLine DEF TakeSnoop, PlacesInv, SnoopInv
<1>2. PICK to \in {"later", "prio", "wdat", "srsp"} :
        /\ Goto(s, to) /\ (to = "later" <=> k = "later")
        /\ own' = IF k = "later" THEN own ELSE own \union {s}
  BY DEF TakeSnoop, Answer, SendPc
<1>3. snpCnt' = snpCnt + 1
  BY DEF TakeSnoop
<1>4. PcInv
  BY DEF PlacesInv
<1>5. pc'[s] = to /\ \A u \in Snps \ {s} : pc'[u] = pc[u]
  BY <1>1, <1>2, <1>4 DEF Goto, PcInv, Xs
<1>6. snpCnt' = Cardinality(Replies')
  <2>1. /\ Cardinality(Replies) \in Nat
        /\ Cardinality(Replies') = Cardinality(Replies)
             + (IF to \in Counted THEN 1 ELSE 0)
             - (IF pc[s] \in Counted THEN 1 ELSE 0)
    BY <1>1, <1>2, <1>4, RepliesMove
  <2>2. to \in Counted /\ pc[s] \notin Counted
    BY <1>1, <1>2 DEF Counted
  <2> QED
    BY <2>1, <2>2, <1>3 DEF HandlerInv, HandlersCounted, Replies, Counted
<1>7. IsFiniteSet(own) /\ Cardinality(own) \in Nat /\ s \notin own
  BY SnpsFinite, <1>1 DEF HandlerInv, Replying
<1>8. Cardinality(own') = Cardinality(own) + (IF k = "later" THEN 0 ELSE 1)
  <2>1. Cardinality(own \union {s}) = Cardinality(own) + 1
    BY <1>7, FS_AddElement
  <2> QED
    BY <1>2, <1>7, <2>1
<1>9. /\ IF fresh THEN threads.spawned > 0 ELSE threads.avail > 0
      /\ threads.avail \in Nat /\ threads.active \in Nat /\ threads.spawned \in Nat
      /\ threads' =
           [avail   |-> threads.avail + (IF fresh THEN 0 ELSE 0 - 1)
                          + (IF k = "later" THEN 1 ELSE 0),
            active  |-> threads.active + IF fresh THEN 1 ELSE 0,
            spawned |-> threads.spawned - IF fresh THEN 1 ELSE 0]
  BY DEF TakeSnoop, HandlerInv
<1>10. threads' \in [avail : Nat, active : Nat, spawned : Nat]
  BY <1>9
<1>11. threads'.avail + Cardinality(own') = threads'.active
  <2>1. threads.avail + Cardinality(own) = threads.active
    BY DEF HandlerInv, HandlersCounted
  <2>2. CASE k = "later"
    BY <2>1, <2>2, <1>7, <1>8, <1>9
  <2>3. CASE k # "later"
    BY <2>1, <2>3, <1>7, <1>8, <1>9
  <2> QED
    BY <2>2, <2>3
<1>12. own' \subseteq {u \in Snps : pc'[u] \in Replying}
  BY <1>1, <1>2, <1>5 DEF HandlerInv, Replying
<1> QED
  BY <1>6, <1>10, <1>11, <1>12 DEF HandlerInv, HandlersCounted, Replies, Counted

LEMMA NextHandler ==
  ASSUME IsFiniteSet(Xs), PlacesInv, HandlerInv, [Next]_vars
  PROVE  HandlerInv'
<1>1. PcInv
  BY DEF PlacesInv
<1>2. ASSUME NEW s \in Snps, SendSnoop(s)
      PROVE  HandlerInv'
  <2>1. /\ Goto(s, "snp") /\ pc[s] = "idle" /\ UNCHANGED <<threads, own, snpCnt>>
    BY <1>2 DEF SendSnoop, BwSnoop
  <2>2. /\ Cardinality(Replies) \in Nat
        /\ Cardinality(Replies') = Cardinality(Replies)
             + (IF "snp" \in Counted THEN 1 ELSE 0)
             - (IF pc[s] \in Counted THEN 1 ELSE 0)
    BY <1>1, <2>1, RepliesMove
  <2>3. snpCnt' = Cardinality(Replies')
    BY <2>1, <2>2 DEF HandlerInv, HandlersCounted, Replies, Counted
  <2>4. \A u \in Snps \ {s} : pc'[u] = pc[u]
    BY <1>1, <2>1 DEF Goto, PcInv, Xs
  <2>5. own' \subseteq {u \in Snps : pc'[u] \in Replying}
    BY <2>1, <2>4 DEF HandlerInv, Replying
  <2> QED
    BY <2>1, <2>3, <2>5 DEF HandlerInv, HandlersCounted, Replies, Counted
<1>3. CASE Dispatch
  <2>1. /\ Spawns \in Nat /\ UNCHANGED <<own, snpCnt, pc>>
        /\ threads' = [threads EXCEPT !.spawned = @ + Spawns]
    BY <1>3 DEF Dispatch, Spawns
  <2> QED
    BY <2>1 DEF HandlerInv, HandlersCounted
<1>4. CASE HandlerIdle
  <2>1. /\ UNCHANGED <<own, snpCnt, pc>> /\ threads.spawned > 0
        /\ threads' = [avail |-> threads.avail + 1, active |-> threads.active + 1,
                       spawned |-> threads.spawned - 1]
    BY <1>4 DEF HandlerIdle
  <2>2. Cardinality(own) \in Nat
    BY SnpsFinite DEF HandlerInv
  <2> QED
    BY <2>1, <2>2 DEF HandlerInv, HandlersCounted
<1>5. CASE HandlerStep
  BY <1>3, <1>4, <1>5, TakeSnoopHandler DEF HandlerStep
<1>6. ASSUME NEW x \in Xs, HnStep(x)
      PROVE  HandlerInv'
  BY <1>6, HandlerFrame DEF HnStep, HnRespond, HnEndPhase, BwPhase, snpVars
<1>7. CASE ClkStep
  BY <1>7, HandlerFrame DEF ClkStep, ClkCounter, snpVars
<1>8. ASSUME NEW c \in Channels, Grant(c)
      PROVE  HandlerInv'
  BY <1>8, HandlerFrame DEF Grant, BwCredit, snpVars
<1>9. CASE UNCHANGED vars
  BY <1>9, HandlerFrame DEF vars, rnVars, snpVars
<1> QED
  BY <1>1, <1>2, <1>5, <1>6, <1>7, <1>8, <1>9, TransportHandler, SnoopHandler,
     DataHandler DEF Next

LEMMA InitHandler ==
  ASSUME Init
  PROVE  HandlerInv
<1>1. Replies = {}
  BY DEF Init, RnInit, Replies, Xs, Counted
<1>2. Cardinality({}) = 0
  BY FS_EmptySet
<1>3. /\ threads = [avail |-> 0, active |-> 0, spawned |-> 0]
      /\ own = {} /\ snpCnt = 0
  BY DEF Init, RnInit
<1>4. threads.avail + Cardinality(own) = threads.active
  BY <1>2, <1>3
<1>5. HandlersCounted
  BY <1>1, <1>2, <1>3, <1>4 DEF HandlersCounted, Replies, Counted
<1> QED
  BY <1>3, <1>5 DEF HandlerInv

\* The handlers are counted: each is free or answers a snoop of its own, and
\* snp_counter, which limits the credits, is the number of snoops at work.
THEOREM HandlersCountedHolds ==
  ASSUME IsFiniteSet(Xs)
  PROVE  Spec => []HandlersCounted
<1>1. Init => CreditInv /\ HandlerInv
  BY InitCredit, InitHandler
<1>2. CreditInv /\ HandlerInv /\ [Next]_vars => (CreditInv /\ HandlerInv)'
  BY NextCredit, NextHandler DEF CreditInv
<1>3. HandlerInv => HandlersCounted
  BY DEF HandlerInv
<1> QED
  BY <1>1, <1>2, <1>3, PTL DEF Spec
-----------------------------------------------------------------------------
(* What belongs to one payload.  A step of its process, or of the home     *)
(* node for it, leaves that of the others alone.                           *)

\* The phases that have come for x and are not looked at yet.
Mail(x) == IF slot[x] = 0 THEN << >> ELSE peq[slot[x]]

LEMMA MailType ==
  ASSUME SlotInv, NEW x \in Xs
  PROVE  /\ Mail(x) \in Seq(Xs \X Phases)
         /\ \A i \in 1 .. Len(Mail(x)) : Mail(x)[i] = <<x, Mail(x)[i][2]>>
         /\ \A i \in 1 .. Len(Mail(x)) : Mail(x)[i][2] \in Phases
         /\ HasEntry(x) <=> Mail(x) # << >>
         /\ HasEntry(x) => Entry(x) = Head(Mail(x))
<1>1. CASE slot[x] = 0
  BY <1>1 DEF Mail, HasEntry
<1>2. CASE slot[x] # 0
  <2>1. /\ slot[x] \in Slots /\ Mail(x) = peq[slot[x]]
        /\ Mail(x) \in Seq(Xs \X Phases)
    BY <1>2 DEF SlotInv, OwnerInv, EntryInv, Mail
  <2>2. ASSUME NEW i \in 1 .. Len(Mail(x))
        PROVE  Mail(x)[i] = <<x, Mail(x)[i][2]>> /\ Mail(x)[i][2] \in Phases
    <3>1. Mail(x)[i] \in Xs \X Phases /\ slot[Mail(x)[i][1]] = slot[x]
      BY <2>1, <2>2 DEF SlotInv, EntryInv
    <3>2. PICK y \in Xs, p \in Phases : Mail(x)[i] = <<y, p>>
      BY <3>1
    <3>3. y = x
      BY <3>1, <3>2, <1>2 DEF SlotInv, OwnerInv
    <3> QED
      BY <3>2, <3>3
  <2> QED
    BY <2>1, <2>2, <1>2 DEF HasEntry, Entry
<1> QED
  BY <1>1, <1>2

LEMMA MailSame ==
  ASSUME UNCHANGED slotVars
  PROVE  \A y : Mail(y)' = Mail(y)
BY DEF slotVars, Mail

\* A tx_state belongs to one process only.
LEMMA MailOther ==
  ASSUME SlotInv, NEW x \in Xs, NEW y \in Xs \ {x}, slot'[y] = slot[y],
         slot[x] = 0 \/ \A k \in Slots \ {slot[x]} : peq'[k] = peq[k]
  PROVE  slot[x] # 0 => Mail(y)' = Mail(y)
BY DEF SlotInv, OwnerInv, Mail

LEMMA MailPop ==
  ASSUME SlotInv, NEW x \in Xs, HasEntry(x), Pop(x)
  PROVE  /\ Mail(x)' = Tail(Mail(x))
         /\ \A y \in Xs \ {x} : Mail(y)' = Mail(y)
<1>1. slot[x] # 0 /\ slot[x] \in Slots
  BY DEF HasEntry, SlotInv, OwnerInv
<1>2. /\ slot' = slot /\ peq' = [peq EXCEPT ![slot[x]] = Tail(@)]
      /\ peq \in [Slots -> Seq(Xs \X Phases)]
  BY DEF Pop, SlotInv, EntryInv
<1>3. \A k \in Slots \ {slot[x]} : peq'[k] = peq[k]
  BY <1>2
<1>4. \A y \in Xs \ {x} : Mail(y)' = Mail(y)
  BY <1>1, <1>2, <1>3, MailOther
<1>5. Mail(x)' = Tail(Mail(x))
  BY <1>1, <1>2 DEF Mail
<1> QED
  BY <1>4, <1>5

LEMMA MailPhase ==
  ASSUME SlotInv, NEW x \in Xs, NEW phase, NEW op, NEW n, BwPhase(x, phase, op, n)
  PROVE  /\ Mail(x)' = IF slot[x] = 0 THEN << >>
                        ELSE Append(Mail(x), <<x, phase>>)
         /\ \A y \in Xs \ {x} : Mail(y)' = Mail(y)
<1>1. slot' = slot
  BY DEF BwPhase
<1>2. CASE slot[x] = 0
  BY <1>1, <1>2 DEF BwPhase, Mail
<1>3. CASE slot[x] # 0
  <2>1. slot[x] \in Slots
    BY <1>3 DEF SlotInv, OwnerInv
  <2>2. /\ peq' = [peq EXCEPT ![slot[x]] = Append(@, <<x, phase>>)]
        /\ peq \in [Slots -> Seq(Xs \X Phases)]
    BY <1>3 DEF BwPhase, SlotInv, EntryInv
  <2>3. \A k \in Slots \ {slot[x]} : peq'[k] = peq[k]
    BY <2>2
  <2>4. \A y \in Xs \ {x} : Mail(y)' = Mail(y)
    BY <1>1, <1>3, <2>3, MailOther
  <2>5. Mail(x)' = Append(Mail(x), <<x, phase>>)
    BY <1>1, <1>3, <2>1, <2>2 DEF Mail
  <2> QED
    BY <1>3, <2>4, <2>5
<1> QED
  BY <1>2, <1>3

LEMMA MailReturn ==
  ASSUME SlotInv, NEW x \in Xs, slot[x] # 0, ReturnSlot(x)
  PROVE  /\ Mail(x)' = << >>
         /\ \A y \in Xs \ {x} : Mail(y)' = Mail(y)
<1>1. slot[x] \in Slots
  BY DEF SlotInv, OwnerInv
<1>2. /\ slot' = [slot EXCEPT ![x] = 0] /\ slot \in [Xs -> {0} \union Slots]
      /\ peq' = [peq EXCEPT ![slot[x]] = << >>]
      /\ peq \in [Slots -> Seq(Xs \X Phases)]
  BY DEF ReturnSlot, SlotInv, OwnerInv, EntryInv
<1>3. \A k \in Slots \ {slot[x]} : peq'[k] = peq[k]
  BY <1>2
<1>4. \A y \in Xs \ {x} : slot'[y] = slot[y]
  BY <1>2
<1>5. \A y \in Xs \ {x} : Mail(y)' = Mail(y)
  BY <1>3, <1>4, MailOther
<1>6. Mail(x)' = << >>
  BY <1>2 DEF Mail
<1> QED
  BY <1>5, <1>6

\* The tx_state that x takes has an empty queue.
LEMMA MailTake ==
  ASSUME SlotInv, SlotInv', NEW x \in Xs, TakeSlot(x), slot[x] = 0
  PROVE  \A y \in Xs : Mail(y)' = Mail(y)
<1>1. peq' = peq /\ slot \in [Xs -> {0} \union Slots]
  BY DEF TakeSlot, SlotInv, OwnerInv
<1>2. PICK k : slot' = [slot EXCEPT ![x] = k]
  BY DEF TakeSlot
<1>3. slot'[x] = k /\ \A y \in Xs \ {x} : slot'[y] = slot[y]
  BY <1>1, <1>2
<1>4. \A y \in Xs \ {x} : Mail(y)' = Mail(y)
  BY <1>1, <1>3 DEF Mail
<1>5. Mail(x)' = << >>
  <2>1. CASE k = 0
    BY <2>1, <1>3 DEF Mail
  <2>2. CASE k # 0
    <3>1. k \in Slots /\ peq[k] \in Seq(Xs \X Phases)
      BY <2>2, <1>3 DEF SlotInv, OwnerInv, EntryInv
    <3>2. ASSUME NEW i \in 1 .. Len(peq[k])
          PROVE  FALSE
      <4>1. peq[k][i] \in Xs \X Phases
        BY <3>1, <3>2
      <4>2. peq[k][i][1] \in Xs
        BY <4>1
      <4>3. slot[peq[k][i][1]] = k
        BY <3>1, <3>2 DEF SlotInv, EntryInv
      <4>4. peq[k][i][1] # x
        BY <4>3, <2>2
      <4>5. slot'[peq[k][i][1]] = slot'[x]
        BY <4>2, <4>3, <4>4, <1>3
      <4> QED
        BY <4>2, <4>4, <4>5, <1>3, <2>2 DEF SlotInv, OwnerInv
    <3>3. peq[k] = << >>
      BY <3>1, <3>2
    <3> QED
      BY <3>3, <1>1, <1>3 DEF Mail
  <2> QED
    BY <2>1, <2>2
<1>6. Mail(x) = << >>
  BY DEF Mail
<1> QED
  BY <1>4, <1>5, <1>6
-----------------------------------------------------------------------------
(* The gate of the ordered requests.                                       *)

Early == {"idle", "order", "strict", "id", "req"}
Ending == {"end", "done"}
PlanItems == BeatPhases \union
  {"CompDBIDResp", "DBIDResp", "Comp", "Persist", "CompCMO", "ReadReceipt",
   "RespSepData"}

\* An ordered request gets one response, and besides that only beats: a read,
\* an atomic that returns data, a write of zeros.
OneResponse ==
  \A s \in Scenarios : \A t \in Reqs \intersect DOMAIN s :
    IsRequestOrder(s[t].op, s[t].order) =>
      \A p \in HN!Plans(s[t]) : \A i \in 2 .. Len(p) : p[i] \in BeatPhases

Gated == {t \in Reqs \intersect DOMAIN req : Ordered(t)}

\* The responses that have come and are not looked at yet.
Told(x) == {i \in 1 .. Len(Mail(x)) : Mail(x)[i][2] = "BEGIN_RESP"}

\* t has passed the gate and has not posted req_order yet.
Holding(t) ==
  /\ pc[t] \notin {"idle", "order", "done"}
  /\ rsp[t] = NoResponse \/ (pc[t] # "end" /\ Told(t) # {})

\* One response is planned, under way or was taken.
Gate(t) ==
  /\ plan[t] \in Seq(PlanItems)
  /\ \A i \in 2 .. Len(plan[t]) : plan[t][i] \in BeatPhases
  /\ pc[t] \in Early => plan[t] = << >> /\ rsp[t] = NoResponse
  /\ pc[t] \notin Ending /\ rsp[t] # NoResponse =>
       \A i \in 1 .. Len(plan[t]) : plan[t][i] \in BeatPhases
  /\ pc[t] \notin Ending => \A i, j \in Told(t) : i = j
  /\ Told(t) # {} => rsp[t] # NoResponse

\* req_order is 1, or 0 and one request at most is to post it.
TokenInv ==
  /\ free \in {0, 1}
  /\ \A t \in Gated : Holding(t) => free = 0
  /\ \A t, u \in Gated : Holding(t) /\ Holding(u) => t = u

OrderInv ==
  /\ rsp = [x \in Xs |-> rsp[x]]
  /\ \A t \in Reqs : pc[t] = "order" => Ordered(t)
  /\ \A t \in Gated : Gate(t)
  /\ TokenInv

\* A step of x leaves y alone.
Same(y) == /\ pc'[y] = pc[y] /\ rsp'[y] = rsp[y] /\ plan'[y] = plan[y]
           /\ Mail(y)' = Mail(y)

\* What a step of x may do: keep the token or drop it, take it, or post it.
LEMMA OrderKeeps ==
  ASSUME OrderInv, NEW x \in Xs, UNCHANGED fixed,
         \A y \in Xs \ {x} : Same(y), rsp' = [y \in Xs |-> rsp'[y]],
         x \in Reqs /\ pc'[x] = "order" => Ordered(x),
         x \in Gated => Gate(x)',
         \/ free' = free /\ (x \in Gated /\ Holding(x)' => Holding(x))
         \/ x \in Gated /\ Holding(x) /\ ~Holding(x)' /\ free' = free + 1
         \/ x \in Gated /\ free > 0 /\ free' = free - 1
  PROVE  OrderInv'
<1>1. Gated' = Gated /\ \A t : Ordered(t)' <=> Ordered(t)
  BY DEF fixed, Gated, Ordered, Op
<1>2. ASSUME NEW y \in Xs \ {x}
      PROVE  (Gate(y)' <=> Gate(y)) /\ (Holding(y)' <=> Holding(y))
  <2>1. Mail(y)' = Mail(y) /\ Told(y)' = Told(y)
    BY <1>2 DEF Same, Told
  <2> QED
    BY <1>2, <2>1 DEF Same, Gate, Holding
<1>3. \A t \in Gated : t \in Xs
  BY DEF Gated, Xs
<1>4. \A t \in Gated : Gate(t)'
  BY <1>2, <1>3 DEF OrderInv
<1>5. \A t \in Reqs : pc'[t] = "order" => Ordered(t)'
  BY <1>1 DEF OrderInv, Same, Xs
<1>6. TokenInv'
  <2>1. CASE free' = free /\ (x \in Gated /\ Holding(x)' => Holding(x))
    BY <2>1, <1>1, <1>2, <1>3 DEF OrderInv, TokenInv
  <2>2. CASE x \in Gated /\ Holding(x) /\ ~Holding(x)' /\ free' = free + 1
    <3>1. free = 0 /\ \A t \in Gated : Holding(t) => t = x
      BY <2>2 DEF OrderInv, TokenInv
    <3>2. \A t \in Gated : ~Holding(t)'
      BY <2>2, <3>1, <1>2, <1>3
    <3> QED
      BY <2>2, <3>1, <3>2, <1>1 DEF TokenInv
  <2>3. CASE x \in Gated /\ free > 0 /\ free' = free - 1
    <3>1. free = 1 /\ \A t \in Gated : ~Holding(t)
      BY <2>3 DEF OrderInv, TokenInv
    <3>2. \A t \in Gated : Holding(t)' => t = x
      BY <3>1, <1>2, <1>3
    <3> QED
      BY <2>3, <3>1, <3>2, <1>1 DEF TokenInv
  <2> QED
    BY <2>1, <2>2, <2>3
<1> QED
  BY <1>1, <1>4, <1>5, <1>6 DEF OrderInv

\* The mail gets shorter: the response may be in it no longer.
LEMMA ToldTail ==
  ASSUME SlotInv, NEW x \in Xs, Mail(x) # << >>, Mail(x)' = Tail(Mail(x))
  PROVE  /\ \A i \in Told(x)' : i + 1 \in Told(x)
         /\ Head(Mail(x))[2] = "BEGIN_RESP" => 1 \in Told(x)
<1>1. PICK m \in Seq(Xs \X Phases) : m = Mail(x)
  BY MailType
<1>2. /\ \A i \in 1 .. Len(Tail(m)) :
           i + 1 \in 1 .. Len(m) /\ Tail(m)[i] = m[i + 1]
      /\ 1 \in 1 .. Len(m) /\ Head(m) = m[1]
  BY <1>1, TailElements
<1> QED
  BY <1>1, <1>2 DEF Told

\* A call in the middle of its work goes on.
Middle == Pcs \ (Early \union Ending)

LEMMA GateMoves ==
  ASSUME PcInv, SlotInv, NEW x \in Xs, Gate(x), NEW to, Goto(x, to),
         UNCHANGED <<fixed, rsp>>, plan'[x] = plan[x],
         pc[x] \in Middle, to \in Middle \union {"end"},
         \/ Mail(x)' = Mail(x)
         \/ Mail(x) # << >> /\ Mail(x)' = Tail(Mail(x))
  PROVE  Gate(x)' /\ (Holding(x)' => Holding(x))
<1>1. /\ pc'[x] = to /\ pc[x] \notin Early \union Ending
      /\ to \notin Early \union {"done"}
  BY DEF Goto, PcInv, Middle, Early, Ending
<1>2. \/ Told(x)' = Told(x)
      \/ \A i \in Told(x)' : i + 1 \in Told(x)
  <2>1. CASE Mail(x)' = Mail(x)
    BY <2>1 DEF Told
  <2>2. CASE Mail(x) # << >> /\ Mail(x)' = Tail(Mail(x))
    BY <2>2, ToldTail
  <2> QED
    BY <2>1, <2>2
<1>3. \A i \in Told(x)' : i \in Int
  <2>1. Told(x)' \subseteq 1 .. Len(Mail(x)')
    BY DEF Told
  <2> QED
    BY <2>1
<1>4. \A i, j \in Told(x)' : i = j
  BY <1>1, <1>2, <1>3 DEF Gate
<1>5. Told(x)' # {} => Told(x) # {}
  BY <1>2
<1>6. Gate(x)'
  BY <1>1, <1>4, <1>5 DEF Gate
<1>7. Holding(x)' => Holding(x)
  BY <1>1, <1>5 DEF Holding, Early, Ending
<1> QED
  BY <1>6, <1>7

LEMMA StepSame ==
  ASSUME PcInv, SlotInv, NEW x \in Xs, NEW to, Goto(x, to),
         \A y \in Xs \ {x} : rsp'[y] = rsp[y] /\ plan'[y] = plan[y],
         UNCHANGED slotVars \/ (HasEntry(x) /\ Pop(x))
  PROVE  /\ pc'[x] = to /\ \A y \in Xs \ {x} : Same(y)
         /\ \/ Mail(x)' = Mail(x)
            \/ Mail(x) # << >> /\ Mail(x)' = Tail(Mail(x))
<1>1. pc'[x] = to /\ \A y \in Xs \ {x} : pc'[y] = pc[y]
  BY DEF Goto, PcInv
<1>2. CASE UNCHANGED slotVars
  BY <1>1, <1>2, MailSame DEF Same
<1>3. CASE HasEntry(x) /\ Pop(x)
  <2>1. Mail(x) # << >>
    BY <1>3, MailType
  <2> QED
    BY <1>1, <1>3, <2>1, MailPop DEF Same
<1> QED
  BY <1>2, <1>3

LEMMA OrderMoves ==
  ASSUME PcInv, SlotInv, OrderInv, NEW x \in Xs, NEW to \in Middle \union {"end"},
         Goto(x, to), pc[x] \in Middle, UNCHANGED <<fixed, rsp, plan, free>>,
         UNCHANGED slotVars \/ (HasEntry(x) /\ Pop(x))
  PROVE  OrderInv'
<1>1. /\ pc'[x] = to /\ \A y \in Xs \ {x} : Same(y)
      /\ \/ Mail(x)' = Mail(x)
         \/ Mail(x) # << >> /\ Mail(x)' = Tail(Mail(x))
  BY StepSame
<1>2. x \in Gated => Gate(x)' /\ (Holding(x)' => Holding(x))
  BY <1>1, GateMoves DEF OrderInv
<1>3. pc'[x] # "order" /\ rsp' = [y \in Xs |-> rsp'[y]]
  BY <1>1 DEF Middle, Early, OrderInv
<1> QED
  BY <1>1, <1>2, <1>3, OrderKeeps

\* The response of an ordered request is taken: req_order is posted.
LEMMA OrderPosts ==
  ASSUME PcInv, SlotInv, OrderInv, NEW t \in Reqs,
         NEW to \in Middle \union {"end"}, Goto(t, to), pc[t] \in Middle,
         HasEntry(t), Entry(t)[2] = "BEGIN_RESP", Pop(t), PostOrder(t),
         UNCHANGED <<fixed, rsp, plan>>
  PROVE  OrderInv'
<1>1. t \in Xs
  BY DEF Xs
<1>2. /\ pc'[t] = to /\ \A y \in Xs \ {t} : Same(y)
      /\ \/ Mail(t)' = Mail(t)
         \/ Mail(t) # << >> /\ Mail(t)' = Tail(Mail(t))
  BY <1>1, StepSame
<1>3. t \in Gated => Gate(t)'
  BY <1>1, <1>2, GateMoves DEF OrderInv
<1>4. pc'[t] # "order" /\ rsp' = [y \in Xs |-> rsp'[y]]
  BY <1>2 DEF Middle, Early, OrderInv
<1>5. CASE t \notin Gated
  <2>1. free' = free
    <3>1. t \in DOMAIN req
      BY <1>1 DEF PcInv, Middle, Early
    <3> QED
      BY <1>5, <3>1 DEF PostOrder, Gated, OrderInv, TokenInv
  <2> QED
    BY <1>1, <1>2, <1>4, <1>5, <2>1, OrderKeeps
<1>6. CASE t \in Gated
  <2>1. free' = free + 1
    BY <1>6 DEF PostOrder, Gated
  <2>2. Mail(t) # << >> /\ Mail(t)' = Tail(Mail(t)) /\ Entry(t) = Head(Mail(t))
    BY <1>1, MailType, MailPop
  <2>3. 1 \in Told(t) /\ \A i \in Told(t)' : i + 1 \in Told(t)
    BY <1>1, <2>2, ToldTail
  <2>4. Gate(t) /\ pc[t] \notin Early \union Ending
    BY <1>6 DEF OrderInv, Middle
  <2>5. Holding(t)
    BY <2>3, <2>4 DEF Holding, Early, Ending
  <2>6. \A i \in Told(t)' : FALSE
    <3>1. \A i \in Told(t)' : i + 1 = 1 /\ i \in 1 .. Len(Mail(t)')
      <4>1. Told(t)' \subseteq 1 .. Len(Mail(t)')
        BY DEF Told
      <4> QED
        BY <2>3, <2>4, <4>1 DEF Gate
    <3> QED
      BY <3>1
  <2>7. ~Holding(t)'
    BY <2>3, <2>4, <2>6 DEF Gate, Holding
  <2> QED
    BY <1>1, <1>2, <1>3, <1>4, <1>6, <2>1, <2>5, <2>7, OrderKeeps
<1> QED
  BY <1>5, <1>6

LEMMA BeatsType ==
  ASSUME NEW n \in Nat \ {0}
  PROVE  /\ HN!Beats(n) \in Seq(BeatPhases) /\ Len(HN!Beats(n)) = n
         /\ \A i \in 1 .. n : HN!Beats(n)[i] \in BeatPhases
BY DEF HN!Beats, BeatPhases

LEMMA PlansOne ==
  ASSUME PcInv, OneResponse, NEW t \in Gated, NEW p \in HN!Plans(req[t])
  PROVE  /\ p \in Seq(PlanItems)
         /\ \A i \in 2 .. Len(p) : p[i] \in BeatPhases
<1> DEFINE r == req[t]
           b == HN!Beats(r.beats)
<1>1. req \in Scenarios /\ t \in Reqs \intersect DOMAIN req /\ t \in Xs
  BY DEF PcInv, Gated, Xs
<1>2. r.beats \in Nat \ {0}
  BY <1>1, ChiAssumption DEF ChiAssumption
<1>3. b \in Seq(PlanItems)
  <2>1. b \in Seq(BeatPhases)
    BY <1>2, BeatsType
  <2> HIDE DEF b
  <2> QED
    BY <2>1 DEF PlanItems
<1>4. \A i \in 2 .. Len(p) : p[i] \in BeatPhases
  BY <1>1 DEF OneResponse, Gated, Ordered, Op
<1>5. p \in Seq(PlanItems)
  <2> DEFINE a == HN!After(r.op)
  <2>1. a \in Seq(PlanItems)
    <3>1. /\ << >> \in Seq(PlanItems) /\ <<"CompCMO">> \in Seq(PlanItems)
          /\ <<"Persist">> \in Seq(PlanItems)
      BY DEF PlanItems
    <3> QED
      BY <3>1 DEF HN!After
  <2>2. /\ <<"CompDBIDResp">> \in Seq(PlanItems) /\ <<"Comp">> \in Seq(PlanItems)
        /\ <<"Comp", "Persist">> \in Seq(PlanItems)
        /\ <<"Persist", "Comp">> \in Seq(PlanItems)
        /\ <<"ReadReceipt">> \in Seq(PlanItems)
        /\ <<"RespSepData">> \in Seq(PlanItems)
        /\ << >> \in Seq(PlanItems)
        /\ <<"DBIDResp", "Comp">> \in Seq(PlanItems)
        /\ <<"Comp", "DBIDResp">> \in Seq(PlanItems)
    BY DEF PlanItems
  <2>3. \A q, s \in Seq(PlanItems) : q \o s \in Seq(PlanItems)
    OBVIOUS
  <2>4. \/ p = <<"CompDBIDResp">> \o b
        \/ p \in {<<"Comp", "Persist">>, <<"Persist", "Comp">>,
                  <<"CompDBIDResp">>, <<"Comp">>}
        \/ p = b
        \/ \E q \in {<<"ReadReceipt">>, <<"RespSepData">>, << >>} : p = q \o b
        \/ \E q \in {<<"CompDBIDResp">>, <<"DBIDResp", "Comp">>,
                     <<"Comp", "DBIDResp">>} : p = q \o a
    <3> HIDE DEF a, b
    <3>1. CASE r.op \in HN!ReturningAtomics
      BY <3>1 DEF HN!Plans, b
    <3>2. CASE r.op \notin HN!ReturningAtomics /\ r.op = "CleanSharedPersistSep"
      BY <3>2 DEF HN!Plans
    <3> DEFINE Q == {<<"ReadReceipt">>, <<"RespSepData">>} \union
                      IF HN!IsRequestOrder(r.op, r.order) THEN {} ELSE {<< >>}
               W == {<<"CompDBIDResp">>, <<"DBIDResp", "Comp">>,
                     <<"Comp", "DBIDResp">>}
    <3>3. CASE r.op \notin HN!ReturningAtomics /\ r.op # "CleanSharedPersistSep"
      <4>1. \/ p \in {<<"CompDBIDResp">>} \/ p \in {<<"Comp">>}
            \/ p \in {<<"Comp">>, b}
            \/ p \in {q \o b : q \in Q} \/ p \in {q \o a : q \in W}
        <5> HIDE DEF Q, W
        <5>1. HN!Plans(r) =
                IF r.op \in {"WriteNoSnpZero", "WriteUniqueZero"}
                  THEN {<<"CompDBIDResp">>}
                ELSE IF HN!IsDataless(r.op, HN!NoResponse) THEN {<<"Comp">>}
                ELSE IF r.op = "MakeReadUnique" THEN {<<"Comp">>, b}
                ELSE IF r.cmd = "rd" THEN {q \o b : q \in Q}
                ELSE {q \o a : q \in W}
          BY <3>3 DEF HN!Plans, a, b, Q, W
        <5> QED
          BY <5>1
      <4>2. CASE p \in {q \o b : q \in Q}
        BY <4>2
      <4>3. CASE p \in {q \o a : q \in W}
        BY <4>3
      <4> QED
        BY <4>1, <4>2, <4>3
    <3> QED
      BY <3>1, <3>2, <3>3
  <2> HIDE DEF a, b
  <2>5. CASE p = <<"CompDBIDResp">> \o b
    BY <2>5, <2>2, <2>3, <1>3
  <2>6. CASE p \in {<<"Comp", "Persist">>, <<"Persist", "Comp">>,
                    <<"CompDBIDResp">>, <<"Comp">>}
    BY <2>6, <2>2
  <2>7. CASE p = b
    BY <2>7, <1>3
  <2>8. CASE \E q \in {<<"ReadReceipt">>, <<"RespSepData">>, << >>} : p = q \o b
    <3>1. PICK q \in {<<"ReadReceipt">>, <<"RespSepData">>, << >>} : p = q \o b
      BY <2>8
    <3>2. q \in Seq(PlanItems)
      BY <2>2
    <3> QED
      BY <3>1, <3>2, <2>3, <1>3
  <2>9. CASE \E q \in {<<"CompDBIDResp">>, <<"DBIDResp", "Comp">>,
                       <<"Comp", "DBIDResp">>} : p = q \o a
    <3>1. PICK q \in {<<"CompDBIDResp">>, <<"DBIDResp", "Comp">>,
                      <<"Comp", "DBIDResp">>} : p = q \o a
      BY <2>9
    <3>2. q \in Seq(PlanItems)
      BY <2>2
    <3> QED
      BY <3>1, <3>2, <2>1, <2>3
  <2> QED
    BY <2>4, <2>5, <2>6, <2>7, <2>8, <2>9
<1> QED
  BY <1>4, <1>5
-----------------------------------------------------------------------------
(* The steps of transport.                                                 *)

\* On the way to the channel nothing is planned yet.
LEMMA GateEarly ==
  ASSUME NEW x \in Xs, Gate(x), pc[x] \in Early, pc'[x] \in Early,
         UNCHANGED rsp, plan'[x] = plan[x], Mail(x)' = Mail(x)
  PROVE  Gate(x)'
<1>1. Told(x)' = Told(x)
  BY DEF Told
<1>2. pc[x] \notin Ending /\ pc'[x] \notin Ending
  BY DEF Early, Ending
<1> QED
  BY <1>1, <1>2 DEF Gate

LEMMA CallOrder ==
  ASSUME IsFiniteSet(Xs), PcInv, SlotInv, OrderInv, NEW t \in Reqs,
         Transport(t), IdleHn
  PROVE  OrderInv'
<1>1. t \in Xs /\ t \in DOMAIN req
  BY DEF Xs, Transport
<1>2. SlotInv'
  BY TransportSlot DEF TransportStep
<1>3. PICK to \in {"order", "strict", "id"} :
         Goto(t, to) /\ (to = "order" <=> Ordered(t))
  BY DEF Transport, Onward
<1>4. slot[t] = 0 /\ TakeSlot(t) /\ pc[t] = "idle"
  BY <1>1 DEF Transport, SlotInv, OwnerInv, HasSlot
<1>5. /\ UNCHANGED <<fixed, rsp, plan, free>> /\ pc'[t] = to
      /\ \A y \in Xs \ {t} : pc'[y] = pc[y]
  BY <1>1, <1>3 DEF Transport, IdleHn, hnVars, beatVars, Goto, PcInv
<1>6. \A y \in Xs : Mail(y)' = Mail(y)
  BY <1>1, <1>2, <1>4, MailTake
<1>7. \A y \in Xs \ {t} : Same(y)
  BY <1>5, <1>6 DEF Same
<1>8. t \in Gated => Gate(t)' /\ ~Holding(t)'
  <2>1. t \in Gated => Gate(t)'
    BY <1>1, <1>4, <1>5, <1>6, GateEarly DEF OrderInv, Early
  <2>2. t \in Gated => pc'[t] = "order"
    BY <1>3, <1>5 DEF Gated
  <2> QED
    BY <2>1, <2>2 DEF Holding
<1> QED
  BY <1>1, <1>3, <1>5, <1>7, <1>8, OrderKeeps DEF OrderInv

LEMMA PassOrders ==
  ASSUME PcInv, SlotInv, OrderInv, NEW t \in Reqs,
         PassOrder(t) \/ PassStrict(t) \/ PassId(t), IdleHn
  PROVE  OrderInv'
<1>1. t \in Xs /\ t \in DOMAIN req
  <2>1. pc[t] # "idle"
    BY DEF PassOrder, PassStrict, PassId, HoldsId
  <2> QED
    BY <2>1 DEF Xs, PcInv
<1>2. PICK to \in {"strict", "id", "req"} : Goto(t, to)
  BY DEF PassOrder, PassStrict, PassId, Onward
<1>3. /\ pc[t] \in {"order", "strict", "id"} /\ UNCHANGED <<fixed, rsp, plan>>
      /\ UNCHANGED slotVars
  BY DEF PassOrder, PassStrict, PassId, HoldsId, IdleHn, hnVars, beatVars
<1>4. pc'[t] = to /\ \A y \in Xs \ {t} : Same(y)
  BY <1>1, <1>2, <1>3, StepSame
<1>5. t \in Gated => Gate(t)'
  BY <1>1, <1>2, <1>3, <1>4, GateEarly, MailSame DEF OrderInv, Early
<1>6. CASE PassOrder(t)
  <2>1. t \in Gated /\ free > 0 /\ free' = free - 1
    BY <1>1, <1>6 DEF PassOrder, OrderFree, OrderInv, Gated
  <2> QED
    BY <1>1, <1>2, <1>3, <1>4, <1>5, <2>1, OrderKeeps DEF OrderInv
<1>7. CASE PassStrict(t) \/ PassId(t)
  <2>1. free' = free /\ pc[t] \in {"strict", "id"}
    BY <1>7 DEF PassStrict, PassId, HoldsId, gateVars
  <2>2. Told(t)' = Told(t)
    BY <1>3, MailSame DEF Told
  <2>3. Holding(t)' => Holding(t)
    BY <1>2, <1>3, <1>4, <2>1, <2>2 DEF Holding
  <2> QED
    BY <1>1, <1>2, <1>3, <1>4, <1>5, <2>1, <2>3, OrderKeeps DEF OrderInv
<1> QED
  BY <1>6, <1>7

\* BEGIN_REQ: the home node decides on its responses.
LEMMA RequestOrder ==
  ASSUME OneResponse, PcInv, PlanInv, SlotInv, OrderInv, NEW t \in Reqs,
         NEW upd, NEW n, NEW k, SendReq(t, upd, n), HN!HnRequest(t, req[t], k)
  PROVE  OrderInv'
<1>1. t \in Xs /\ t \in DOMAIN req /\ pc[t] = "req"
  BY DEF Xs, PcInv, SendReq
<1>2. PICK to \in {"synced", "sent"} : Goto(t, to)
  BY DEF SendReq
<1>3. UNCHANGED <<fixed, rsp, free, slotVars>>
  BY DEF SendReq, beatVars, gateVars
<1>4. PICK p \in HN!Plans(req[t]) : plan' = [plan EXCEPT ![t] = p]
  BY DEF HN!HnRequest
<1>5. plan'[t] = p /\ \A y \in Xs \ {t} : plan'[y] = plan[y]
  BY <1>1, <1>4 DEF PlanInv
<1>6. pc'[t] = to /\ \A y \in Xs \ {t} : Same(y)
  BY <1>1, <1>2, <1>3, <1>5, StepSame
<1>7. Told(t)' = Told(t)
  BY <1>3, MailSame DEF Told
<1>8. t \in Gated => Gate(t)' /\ (Holding(t)' => Holding(t))
  <2>1. SUFFICES ASSUME t \in Gated
                 PROVE  Gate(t)' /\ (Holding(t)' => Holding(t))
    OBVIOUS
  <2>2. p \in Seq(PlanItems) /\ \A i \in 2 .. Len(p) : p[i] \in BeatPhases
    BY <1>4, <2>1, PlansOne
  <2>3. Gate(t) /\ rsp[t] = NoResponse
    BY <1>1, <2>1 DEF OrderInv, Gate, Early
  <2>4. to \notin Early \union Ending /\ pc[t] \notin Ending
    BY <1>1, <1>2 DEF Early, Ending
  <2>5. Gate(t)'
    BY <1>3, <1>5, <1>6, <1>7, <2>2, <2>3, <2>4 DEF Gate
  <2>6. Holding(t)
    BY <1>1, <2>3 DEF Holding
  <2> QED
    BY <2>5, <2>6
<1> QED
  BY <1>1, <1>2, <1>3, <1>6, <1>8, OrderKeeps DEF OrderInv

\* The responses and beats that are taken.
LEMMA ResponseOrder ==
  ASSUME PcInv, SlotInv, OrderInv, NEW t \in Reqs, Response(t), plan' = plan
  PROVE  OrderInv'
<1>1. t \in Xs
  BY DEF Xs
<1>2. /\ pc[t] \in Middle /\ HasEntry(t) /\ Pop(t)
      /\ UNCHANGED <<fixed, rsp, plan>>
  BY DEF Response, Middle, Pcs, Early, Ending
<1>3. \A to \in {"exec", "ack", "end", "wdat"} : to \in Middle \union {"end"}
  BY DEF Middle, Pcs, Early, Ending
<1>4. CASE Entry(t) = <<t, "BEGIN_RESP">>
  <2>1. TakeResponse(t)
    BY <1>4 DEF Response
  <2>2. PICK to \in {"exec", "ack", "end", "wdat"} : Goto(t, to)
    BY <2>1 DEF TakeResponse, Continue
  <2>3. Entry(t)[2] = "BEGIN_RESP" /\ PostOrder(t)
    BY <1>4, <2>1 DEF TakeResponse
  <2> QED
    BY <1>2, <1>3, <2>2, <2>3, OrderPosts
<1>5. CASE Entry(t) # <<t, "BEGIN_RESP">>
  <2>1. TakeData(t) \/ TakeIllegal(t)
    BY <1>5 DEF Response
  <2>2. PICK to \in {"exec", "ack", "end", "wdat"} : Goto(t, to)
    BY <2>1 DEF TakeData, TakeIllegal, Continue
  <2>3. free' = free
    BY <2>1 DEF TakeData, TakeIllegal
  <2> QED
    BY <1>1, <1>2, <1>3, <2>2, <2>3, OrderMoves
<1> QED
  BY <1>4, <1>5

LEMMA AtomicOrder ==
  ASSUME PcInv, SlotInv, OrderInv, NEW t \in Reqs, AtomicResponse(t), plan' = plan
  PROVE  OrderInv'
<1>1. t \in Xs
  BY DEF Xs
<1>2. /\ pc[t] \in Middle /\ HasEntry(t) /\ Pop(t) /\ Goto(t, "wdat")
      /\ UNCHANGED <<fixed, rsp, plan>> /\ "wdat" \in Middle
  BY DEF AtomicResponse, Middle, Pcs, Early, Ending, beatVars
<1>3. CASE Entry(t)[2] = "BEGIN_RESP"
  BY <1>2, <1>3, OrderPosts DEF AtomicResponse
<1>4. CASE Entry(t)[2] # "BEGIN_RESP"
  BY <1>1, <1>2, <1>4, OrderMoves DEF AtomicResponse
<1> QED
  BY <1>3, <1>4

\* The call returns: nothing is left in its queue.
LEMMA EndOrder ==
  ASSUME PcInv, SlotInv, OrderInv, NEW t \in Reqs, Finish(t), IdleHn
  PROVE  OrderInv'
<1>1. /\ t \in Xs /\ pc[t] = "end" /\ slot[t] # 0 /\ Goto(t, "done")
      /\ ReturnSlot(t) /\ UNCHANGED <<fixed, rsp, plan, free>>
  <2>1. t \in Xs /\ pc[t] = "end" /\ "end" \in HasSlot
    BY DEF Xs, Finish, HasSlot, Pcs
  <2> QED
    BY <2>1 DEF Finish, IdleHn, hnVars, beatVars, SlotInv, OwnerInv
<1>2. /\ pc'[t] = "done" /\ \A y \in Xs \ {t} : pc'[y] = pc[y]
  BY <1>1 DEF Goto, PcInv
<1>3. Mail(t)' = << >> /\ \A y \in Xs \ {t} : Mail(y)' = Mail(y)
  BY <1>1, MailReturn
<1>4. \A y \in Xs \ {t} : Same(y)
  BY <1>1, <1>2, <1>3 DEF Same
<1>5. Told(t)' = {}
  BY <1>3 DEF Told
<1>6. t \in Gated => Gate(t)' /\ ~Holding(t)'
  BY <1>1, <1>2, <1>5 DEF OrderInv, Gate, Holding, Early, Ending
<1> QED
  BY <1>1, <1>2, <1>4, <1>6, OrderKeeps DEF OrderInv

LEMMA TransportOrder ==
  ASSUME IsFiniteSet(Xs), OneResponse, PcInv, PlanInv, SlotInv, OrderInv,
         NEW t \in Reqs, TransportStep(t)
  PROVE  OrderInv'
<1>1. t \in Xs
  BY DEF Xs
<1>2. CASE ReqDone(t) /\ IdleHn
  <2>1. /\ pc[t] \in Middle /\ UNCHANGED <<fixed, rsp, plan, free>>
        /\ UNCHANGED slotVars \/ (HasEntry(t) /\ Pop(t))
    BY <1>2 DEF ReqDone, IdleHn, hnVars, beatVars, gateVars, Middle, Pcs,
                Early, Ending
  <2>2. PICK to \in {"aresp", "exec"} : Goto(t, to)
    BY <1>2 DEF ReqDone
  <2>3. to \in Middle
    BY <2>2 DEF Middle, Pcs, Early, Ending
  <2> QED
    BY <1>1, <2>1, <2>2, <2>3, OrderMoves
<1>3. ASSUME NEW n, AtomicIn(t), IdleHn \/ HN!HnEnd(t, n)
      PROVE  OrderInv'
  <2>1. /\ pc[t] \in Middle /\ UNCHANGED <<fixed, rsp, plan, free>>
        /\ UNCHANGED slotVars \/ (HasEntry(t) /\ Pop(t))
    <3>1. plan' = plan
      BY <1>3 DEF IdleHn, hnVars, HN!HnEnd
    <3>2. pc[t] \in Middle
      BY <1>3 DEF AtomicIn, Middle, Pcs, Early, Ending
    <3> QED
      BY <1>3, <3>1, <3>2 DEF AtomicIn, gateVars
  <2>2. PICK to \in {"end", "wdat", "ain"} : Goto(t, to)
    BY <1>3 DEF AtomicIn
  <2>3. to \in Middle \union {"end"}
    BY <2>2 DEF Middle, Pcs, Early, Ending
  <2> QED
    BY <1>1, <2>1, <2>2, <2>3, OrderMoves
<1>4. CASE Response(t) /\ HN!HnEnd(t, 0)
  BY <1>4, ResponseOrder DEF HN!HnEnd
<1>5. CASE AtomicResponse(t) /\ HN!HnEnd(t, 0)
  BY <1>5, AtomicOrder DEF HN!HnEnd
<1> QED
  BY <1>2, <1>3, <1>4, <1>5, CallOrder, PassOrders, EndOrder, RequestOrder
  DEF TransportStep
-----------------------------------------------------------------------------
(* The other steps.                                                        *)

LEMMA OrderFrame ==
  ASSUME OrderInv, UNCHANGED <<fixed, pc, rsp, plan, slotVars, free>>
  PROVE  OrderInv'
<1>1. Gated' = Gated /\ \A t : Ordered(t)' <=> Ordered(t)
  BY DEF fixed, Gated, Ordered, Op
<1>2. \A t : Told(t)' = Told(t)
  BY MailSame DEF Told
<1>3. \A t : (Gate(t)' <=> Gate(t)) /\ (Holding(t)' <=> Holding(t))
  BY <1>2 DEF Gate, Holding
<1> QED
  BY <1>1, <1>3 DEF OrderInv, TokenInv

\* A snoop has no part in the gate.
LEMMA SnoopAside ==
  ASSUME OrderInv, NEW s \in Snps, UNCHANGED <<fixed, free>>,
         \A y \in Xs \ {s} : Same(y), rsp' = [y \in Xs |-> rsp'[y]]
  PROVE  OrderInv'
<1>1. s \in Xs /\ s \notin Reqs /\ s \notin Gated
  BY ChiAssumption DEF ChiAssumption, Xs, Gated
<1> QED
  BY <1>1, OrderKeeps

LEMMA SnoopOrder ==
  ASSUME PcInv, PlanInv, SlotInv, OrderInv, NEW s \in Snps, SnoopStep(s)
  PROVE  OrderInv'
<1>1. s \in Xs
  BY DEF Xs
<1>2. UNCHANGED <<fixed, rsp, free>>
  BY DEF SnoopStep, SnoopResp, Join, FinishSnoop, SendSnoopResp, SnoopWait,
         beatVars, gateVars
<1>3. \A y \in Xs \ {s} : plan'[y] = plan[y]
  BY <1>1 DEF SnoopStep, IdleHn, hnVars, HN!HnSnoopResp, HN!HnEnd, PlanInv
<1>4. CASE FinishSnoop(s)
  <2>1. slot[s] # 0 /\ Goto(s, "done") /\ ReturnSlot(s)
    BY <1>1, <1>4 DEF FinishSnoop, SlotInv, OwnerInv, HasSlot, Pcs
  <2>2. \A y \in Xs \ {s} : Mail(y)' = Mail(y) /\ pc'[y] = pc[y]
    BY <1>1, <2>1, MailReturn DEF Goto, PcInv
  <2> QED
    BY <1>2, <1>3, <2>2, SnoopAside DEF Same, OrderInv
<1>5. CASE ~FinishSnoop(s)
  <2>1. /\ \E to : Goto(s, to)
        /\ UNCHANGED slotVars \/ (HasEntry(s) /\ Pop(s))
    BY <1>5 DEF SnoopStep, SnoopResp, Answer, Join, SendSnoopResp, SnoopWait,
                SnpContinue
  <2>2. \A y \in Xs \ {s} : Same(y)
    BY <1>1, <1>2, <1>3, <2>1, StepSame
  <2> QED
    BY <1>2, <2>2, SnoopAside DEF OrderInv
<1> QED
  BY <1>4, <1>5

\* The opcode of a CompAck replaces that of the response.
LEMMA AckOrder ==
  ASSUME PcInv, SlotInv, OrderInv, NEW x \in Xs, NEW n, SendAck(x, n),
         plan' = plan
  PROVE  OrderInv'
<1>1. /\ pc[x] = "ack" /\ Goto(x, "end") /\ rsp' = [rsp EXCEPT ![x] = "CompAck"]
      /\ UNCHANGED <<fixed, free, slotVars>>
  BY DEF SendAck, gateVars
<1>2. rsp'[x] = "CompAck" /\ \A y \in Xs \ {x} : rsp'[y] = rsp[y]
  BY <1>1 DEF OrderInv
<1>3. pc'[x] = "end" /\ \A y \in Xs \ {x} : Same(y)
  BY <1>1, <1>2, StepSame
<1>4. Told(x)' = Told(x)
  BY <1>1, MailSame DEF Told
<1>5. x \in Gated => Gate(x)' /\ ~Holding(x)'
  BY <1>1, <1>2, <1>3, <1>4 DEF OrderInv, Gate, Holding, Early, Ending, NoResponse
<1>6. rsp' = [y \in Xs |-> rsp'[y]]
  BY <1>1 DEF OrderInv
<1> QED
  BY <1>1, <1>3, <1>5, <1>6, OrderKeeps

LEMMA DataOrder ==
  ASSUME PcInv, SlotInv, OrderInv, NEW x \in Xs, DataStep(x)
  PROVE  OrderInv'
<1>1. CASE \E n : SendAck(x, n) /\ HN!HnAck(n)
  BY <1>1, AckOrder DEF HN!HnAck
<1>2. CASE DataDone(x) /\ IdleHn
  <2>1. /\ pc[x] \in Middle /\ UNCHANGED <<fixed, rsp, plan, free>>
        /\ UNCHANGED slotVars \/ (HasEntry(x) /\ Pop(x))
    BY <1>2 DEF DataDone, IdleHn, hnVars, beatVars, gateVars, Middle, Pcs,
                Early, Ending
  <2>2. PICK to \in {"ain", "wdat", "exec", "ack", "end"} : Goto(x, to)
    BY <1>2 DEF DataDone, Continue
  <2>3. to \in Middle \union {"end"}
    BY <2>2 DEF Middle, Pcs, Early, Ending
  <2> QED
    BY <2>1, <2>2, <2>3, OrderMoves
<1>3. ASSUME NEW upd, NEW n, NEW last, NEW k, SendData(x, upd, n),
             HN!HnData(x, last, k)
      PROVE  OrderInv'
  <2>1. /\ pc[x] \in Middle /\ UNCHANGED <<fixed, rsp, plan, free, slotVars>>
    BY <1>3 DEF SendData, HN!HnData, gateVars, Middle, Pcs, Early, Ending
  <2>2. PICK to \in {"wsync", "wwait"} : Goto(x, to)
    BY <1>3 DEF SendData
  <2>3. to \in Middle
    BY <2>2 DEF Middle, Pcs, Early, Ending
  <2> QED
    BY <2>1, <2>2, <2>3, OrderMoves
<1> QED
  BY <1>1, <1>2, <1>3 DEF DataStep

LEMMA HandlerOrder ==
  ASSUME IsFiniteSet(Xs), PlacesInv, SlotInv, OrderInv, HandlerStep
  PROVE  OrderInv'
<1>1. CASE (Dispatch \/ HandlerIdle) /\ IdleHn
  BY <1>1, OrderFrame
  DEF Dispatch, HandlerIdle, IdleHn, hnVars, beatVars, gateVars
<1>2. ASSUME NEW fresh, NEW k, NEW g, TakeSnoop(fresh, k), HN!HnCredits(g)
      PROVE  OrderInv'
  <2> DEFINE s == Head(dispq)
  <2>1. s \in Snps /\ pc[s] = "snp"
    BY <1>2, TailLine DEF TakeSnoop, PlacesInv, SnoopInv
  <2> HIDE DEF s
  <2>2. PICK to : Goto(s, to)
    BY <1>2 DEF TakeSnoop, Answer, s
  <2>3. TakeSlot(s) /\ UNCHANGED <<fixed, rsp, plan, free>>
    BY <1>2 DEF TakeSnoop, beatVars, gateVars, HN!HnCredits, s
  <2>4. s \in Xs /\ slot[s] = 0
    BY <2>1 DEF Xs, SlotInv, OwnerInv, HasSlot
  <2>5. SlotInv'
    BY HandlerSlot
  <2>6. \A y \in Xs \ {s} : Mail(y)' = Mail(y) /\ pc'[y] = pc[y]
    BY <2>2, <2>3, <2>4, <2>5, MailTake DEF Goto, PlacesInv, PcInv
  <2> QED
    BY <2>1, <2>3, <2>6, SnoopAside DEF Same, OrderInv
<1> QED
  BY <1>1, <1>2 DEF HandlerStep

\* A phase that comes and is no response.
LEMMA BeatOrder ==
  ASSUME SlotInv, OrderInv, NEW x \in Xs, NEW phase \in Phases \ {"BEGIN_RESP"},
         NEW op, NEW n, BwPhase(x, phase, op, n),
         \A y \in Xs \ {x} : plan'[y] = plan[y],
         x \in Gated => /\ plan'[x] \in Seq(PlanItems)
                        /\ \A i \in 1 .. Len(plan'[x]) :
                             /\ i \in 1 .. Len(plan[x])
                             /\ \/ plan'[x][i] = plan[x][i]
                                \/ plan'[x][i] \in BeatPhases
                        /\ plan[x] = << >> => plan'[x] = << >>
  PROVE  OrderInv'
<1>1. UNCHANGED <<fixed, pc, rsp, free>>
  BY DEF BwPhase, gateVars
<1>2. /\ Mail(x)' = IF slot[x] = 0 THEN << >> ELSE Append(Mail(x), <<x, phase>>)
      /\ \A y \in Xs \ {x} : Mail(y)' = Mail(y)
  BY MailPhase
<1>3. \A y \in Xs \ {x} : Same(y)
  BY <1>1, <1>2 DEF Same
<1>4. Told(x)' \subseteq Told(x)
  <2>1. CASE slot[x] = 0
    BY <2>1, <1>2 DEF Told
  <2>2. CASE slot[x] # 0
    <3>1. PICK m \in Seq(Xs \X Phases) : m = Mail(x)
      BY MailType
    <3>2. PICK e \in Xs \X Phases : e = <<x, phase>>
      OBVIOUS
    <3>3. \A i \in 1 .. Len(Append(m, e)) :
            \/ i \in 1 .. Len(m) /\ Append(m, e)[i] = m[i]
            \/ Append(m, e)[i] = e
      BY <3>1
    <3>4. e[2] # "BEGIN_RESP"
      BY <3>2
    <3> QED
      BY <2>2, <1>2, <3>1, <3>2, <3>3, <3>4 DEF Told
  <2> QED
    BY <2>1, <2>2
<1>5. x \in Gated => Gate(x)' /\ (Holding(x)' => Holding(x))
  <2>1. SUFFICES ASSUME x \in Gated
                 PROVE  Gate(x)' /\ (Holding(x)' => Holding(x))
    OBVIOUS
  <2>2. Gate(x)
    BY <2>1 DEF OrderInv
  <2>3. \A i \in 2 .. Len(plan'[x]) : plan'[x][i] \in BeatPhases
    BY <2>1, <2>2 DEF Gate
  <2>4. Gate(x)'
    BY <1>1, <1>4, <2>1, <2>2, <2>3 DEF Gate
  <2>5. Holding(x)' => Holding(x)
    BY <1>1, <1>4 DEF Holding
  <2> QED
    BY <2>4, <2>5
<1> QED
  BY <1>1, <1>3, <1>5, OrderKeeps DEF OrderInv

\* The response of x comes: it had none.
LEMMA AnswerOrder ==
  ASSUME PcInv, PlanInv, SlotInv, OrderInv, NEW x \in Xs, NEW n,
         plan[x] # << >>, plan' = [plan EXCEPT ![x] = Tail(@)],
         BwPhase(x, "BEGIN_RESP", Head(plan[x]), n),
         Head(plan[x]) \notin BeatPhases
  PROVE  OrderInv'
<1> DEFINE item == Head(plan[x])
<1>1. /\ UNCHANGED <<fixed, pc, free>>
      /\ rsp'[x] = item /\ rsp' = [y \in Xs |-> rsp'[y]]
      /\ \A y \in Xs \ {x} : rsp'[y] = rsp[y]
  BY DEF BwPhase, gateVars, OrderInv
<1>2. plan'[x] = Tail(plan[x]) /\ \A y \in Xs \ {x} : plan'[y] = plan[y]
  BY DEF PlanInv
<1>3. /\ Mail(x)' = IF slot[x] = 0 THEN << >>
                    ELSE Append(Mail(x), <<x, "BEGIN_RESP">>)
      /\ \A y \in Xs \ {x} : Mail(y)' = Mail(y)
  BY MailPhase
<1>4. \A y \in Xs \ {x} : Same(y)
  BY <1>1, <1>2, <1>3 DEF Same
<1>5. x \in Gated => Gate(x)' /\ (Holding(x)' => Holding(x))
  <2>1. SUFFICES ASSUME x \in Gated
                 PROVE  Gate(x)' /\ (Holding(x)' => Holding(x))
    OBVIOUS
  <2>2. Gate(x)
    BY <2>1 DEF OrderInv
  <2>3. PICK p \in Seq(PlanItems) : p = plan[x] /\ p # << >>
    BY <2>2 DEF Gate
  <2>4. /\ Tail(p) \in Seq(PlanItems) /\ 1 \in 1 .. Len(p) /\ Head(p) = p[1]
        /\ \A i \in 1 .. Len(Tail(p)) :
             i + 1 \in 2 .. Len(p) /\ Tail(p)[i] = p[i + 1]
    BY <2>3
  <2>5. \A i \in 1 .. Len(Tail(p)) : Tail(p)[i] \in BeatPhases
    BY <2>2, <2>3, <2>4 DEF Gate
  <2>6. \A i \in 2 .. Len(Tail(p)) : Tail(p)[i] \in BeatPhases
    BY <2>4, <2>5
  <2>7. item \in PlanItems \ BeatPhases /\ item # NoResponse
    BY <2>3, <2>4 DEF PlanItems, NoResponse
  <2>8. pc[x] \notin Early /\ (pc[x] \notin Ending => rsp[x] = NoResponse)
    BY <2>2, <2>3, <2>4, <2>7 DEF Gate
  <2>9. pc[x] \notin Ending => Told(x) = {}
    BY <2>2, <2>8 DEF Gate
  <2>10. pc[x] \notin Ending => \A i, j \in Told(x)' : i = j
    <3>1. CASE slot[x] = 0
      BY <3>1, <1>3 DEF Told
    <3>2. CASE slot[x] # 0 /\ pc[x] \notin Ending
      <4>1. PICK m \in Seq(Xs \X Phases) : m = Mail(x)
        BY MailType
      <4>2. PICK e \in Xs \X Phases : e = <<x, "BEGIN_RESP">>
        BY DEF Phases
      <4>3. \A i \in 1 .. Len(Append(m, e)) :
              \/ i \in 1 .. Len(m) /\ Append(m, e)[i] = m[i]
              \/ i = Len(m) + 1
        BY <4>1
      <4>4. \A i \in Told(x)' : i = Len(m) + 1
        BY <3>2, <1>3, <2>9, <4>1, <4>2, <4>3 DEF Told
      <4> QED
        BY <4>4
    <3> QED
      BY <3>1, <3>2
  <2>11. Gate(x)'
    BY <1>1, <1>2, <2>3, <2>4, <2>5, <2>6, <2>7, <2>8, <2>10 DEF Gate
  <2>12. Holding(x)' => Holding(x)
    BY <1>1, <2>7, <2>8 DEF Holding, Early, Ending
  <2> QED
    BY <2>11, <2>12
<1> QED
  BY <1>1, <1>4, <1>5, OrderKeeps DEF OrderInv

LEMMA HnOrder ==
  ASSUME PcInv, PlanInv, SlotInv, OrderInv, NEW x \in Xs, HnStep(x)
  PROVE  OrderInv'
<1>1. CASE HnRespond(x)
  <2> DEFINE item == Head(plan[x])
  <2>1. plan[x] # << >> /\ plan' = [plan EXCEPT ![x] = Tail(@)]
    BY <1>1 DEF HnRespond, HN!HnSend, HN!Ready
  <2>2. CASE item \in BeatPhases
    <3>1. BwPhase(x, item, item, 0)
      BY <1>1, <2>2 DEF HnRespond, HN!IsBeat, BeatPhases
    <3>2. plan'[x] = Tail(plan[x]) /\ \A y \in Xs \ {x} : plan'[y] = plan[y]
      BY <2>1 DEF PlanInv
    <3>3. item \in Phases \ {"BEGIN_RESP"}
      BY <2>2 DEF Phases, BeatPhases
    <3>4. ASSUME x \in Gated
          PROVE  /\ plan'[x] \in Seq(PlanItems)
                 /\ \A i \in 1 .. Len(plan'[x]) :
                      /\ i \in 1 .. Len(plan[x])
                      /\ \/ plan'[x][i] = plan[x][i]
                         \/ plan'[x][i] \in BeatPhases
                 /\ plan[x] = << >> => plan'[x] = << >>
      <4>1. PICK p \in Seq(PlanItems) : p = plan[x] /\ p # << >>
        BY <3>4, <2>1 DEF OrderInv, Gate
      <4>2. /\ Tail(p) \in Seq(PlanItems)
            /\ \A i \in 1 .. Len(Tail(p)) :
                 /\ i \in 1 .. Len(p)
                 /\ i + 1 \in 2 .. Len(p) /\ Tail(p)[i] = p[i + 1]
        BY <4>1
      <4>3. \A i \in 2 .. Len(p) : p[i] \in BeatPhases
        BY <3>4, <4>1 DEF OrderInv, Gate
      <4> QED
        BY <3>2, <4>1, <4>2, <4>3
    <3> QED
      BY <3>1, <3>2, <3>3, <3>4, BeatOrder
  <2>3. CASE item \notin BeatPhases
    <3>1. BwPhase(x, "BEGIN_RESP", item, 0)
      BY <1>1, <2>3 DEF HnRespond, HN!IsBeat, BeatPhases
    <3> QED
      BY <2>1, <2>3, <3>1, AnswerOrder
  <2> QED
    BY <2>2, <2>3
<1>2. CASE HnEndPhase(x)
  <2>1. Head(due[x]) \in Phases \ {"BEGIN_RESP"}
    BY <1>2 DEF HnEndPhase, PlanInv, Phases, EndPhases
  <2>2. (\E n : BwPhase(x, Head(due[x]), NoResponse, n)) /\ plan' = plan
    BY <1>2 DEF HnEndPhase, HN!HnAnswer
  <2> QED
    BY <2>1, <2>2, BeatOrder DEF OrderInv, Gate
<1> QED
  BY <1>1, <1>2 DEF HnStep

LEMMA NextOrder ==
  ASSUME IsFiniteSet(Xs), OneResponse, PlacesInv, PlanInv, SlotInv, OrderInv,
         [Next]_vars
  PROVE  OrderInv'
<1>1. ASSUME NEW s \in Snps, SendSnoop(s)
      PROVE  OrderInv'
  <2>1. /\ s \in Xs /\ Goto(s, "snp")
        /\ UNCHANGED <<fixed, rsp, plan, free, slotVars>>
    BY <1>1 DEF SendSnoop, BwSnoop, Xs, HN!HnSnoop, beatVars, gateVars
  <2>2. \A y \in Xs \ {s} : Same(y)
    BY <2>1, StepSame DEF PlacesInv
  <2> QED
    BY <2>1, <2>2, SnoopAside DEF OrderInv
<1>2. CASE ClkStep
  BY <1>2, OrderFrame DEF ClkStep, ClkCounter, HN!HnCredits, beatVars, gateVars
<1>3. ASSUME NEW c \in Channels, Grant(c)
      PROVE  OrderInv'
  BY <1>3, OrderFrame DEF Grant, BwCredit, HN!HnGrant, beatVars, gateVars
<1>4. CASE UNCHANGED vars
  BY <1>4, OrderFrame
  DEF vars, rnVars, hnVars, fixed, beatVars, slotVars, gateVars
<1> QED
  BY <1>1, <1>2, <1>3, <1>4, TransportOrder, SnoopOrder, DataOrder,
     HandlerOrder, HnOrder DEF Next, PlacesInv

LEMMA InitOrder ==
  ASSUME Init
  PROVE  OrderInv
<1>1. /\ pc = [x \in Xs |-> "idle"] /\ rsp = [x \in Xs |-> NoResponse]
      /\ slot = [x \in Xs |-> 0] /\ plan = [x \in Xs |-> << >>] /\ free = 1
  BY DEF Init, RnInit, HN!HnInit
<1>2. \A x \in Xs : Told(x) = {}
  BY <1>1 DEF Told, Mail
<1>3. \A t \in Gated : Gate(t) /\ ~Holding(t)
  <2>1. SUFFICES ASSUME NEW t \in Gated
                 PROVE  Gate(t) /\ ~Holding(t)
    OBVIOUS
  <2>2. t \in Xs
    BY DEF Gated, Xs
  <2>3. << >> \in Seq(PlanItems)
    OBVIOUS
  <2> QED
    BY <1>1, <1>2, <2>2, <2>3 DEF Gate, Holding
<1> QED
  BY <1>1, <1>3 DEF OrderInv, TokenInv, Xs

\* The gates of transport work for any number of calls: two requests with the
\* same transaction id are never on the link together, and of the ordered
\* requests, if each has one response, no second one passes before the response
\* of the first has come.  (A response that is there is not yet looked at: until
\* it is, req_order stays 0.)
THEOREM RequestsSerialHolds ==
  ASSUME IsFiniteSet(Xs), OneResponse
  PROVE  Spec => []RequestsSerial
<1> DEFINE Inv == CreditInv /\ SlotInv /\ OrderInv
<1>1. Init => Inv
  BY InitCredit, InitSlot, InitOrder
<1>2. Inv /\ [Next]_vars => Inv'
  BY NextCredit, NextSlot, NextOrder DEF CreditInv
<1>3. Inv => OrderedSerial
  <2>1. SUFFICES ASSUME OrderInv, NEW t \in Reqs \intersect DOMAIN req,
                        NEW u \in Reqs \intersect DOMAIN req,
                        Ordered(t), Ordered(u), rsp[t] = NoResponse,
                        rsp[u] = NoResponse,
                        pc[t] \notin {"idle", "order", "done"},
                        pc[u] \notin {"idle", "order", "done"}
                 PROVE  t = u
    BY DEF OrderedSerial
  <2> QED
    BY <2>1 DEF OrderInv, TokenInv, Gated, Holding
<1>4. Spec => []OrderedSerial
  BY <1>1, <1>2, <1>3, PTL DEF Spec
<1> QED
  BY <1>4, SameTxnSerialHolds, PTL DEF RequestsSerial

-----------------------------------------------------------------------------
(* The semaphores: who waits or holds one, and once only.                  *)

\* x waits for s or holds it.
Belongs(x, s) ==
  \/ s = "order" /\ pc[x] = "order"
  \/ s = "strict" /\ config.strict /\ pc[x] \in {"strict", "id"}
  \/ s = "REQ" /\ pc[x] \in {"req", "sent", "synced"}
  \/ s = "WDAT" /\ pc[x] \in DataPcs
  \/ s = "SRSP" /\ pc[x] \in {"srsp", "ack"}
  \/ s = "prioWDAT" /\ x \in Snps /\ pc[x] = "prio" /\ kind[x] = "data"
  \/ /\ s = "prioSRSP" /\ x \in Snps /\ pc[x] = "prio"
     /\ kind[x] \in {"resp", "pull"}

\* The queue of s holds such callers, each once.
Lined(q, s) ==
  /\ q \in Seq(Xs)
  /\ \A i \in 1 .. Len(q) : Belongs(q[i], s)
  /\ \A i, j \in 1 .. Len(q) : q[i] = q[j] => i = j

\* Who waits for its id holds the strict order, who waits for END_REQ the
\* channel.
Heads(x) ==
  /\ config.strict /\ pc[x] = "id" => Holds("strict", x)
  /\ pc[x] \in {"sent", "synced"} => Holds("REQ", x)

QueueInv ==
  /\ queue = [s \in Semaphores |-> queue[s]]
  /\ \A s \in Semaphores : Lined(queue[s], s)
  /\ \A x \in Xs : Heads(x)

\* The queues q without x.
Without(q, x) ==
  /\ q = [s \in Semaphores |-> q[s]]
  /\ \A s \in Semaphores : /\ Lined(q[s], s)
                           /\ \A i \in 1 .. Len(q[s]) : q[s][i] # x

LEMMA BelongsOnce ==
  ASSUME NEW x, NEW s, NEW u, Belongs(x, s), Belongs(x, u)
  PROVE  s = u
BY DEF Belongs, DataPcs

LEMMA NotThere ==
  ASSUME QueueInv, NEW x \in Xs, \A s \in Semaphores : ~Belongs(x, s)
  PROVE  Without(queue, x)
BY DEF QueueInv, Lined, Without

\* The holder goes.
LEMMA HolderGoes ==
  ASSUME QueueInv, NEW x \in Xs, NEW s \in Semaphores, Holds(s, x)
  PROVE  Without(Leave(queue, s), x) /\ Belongs(x, s)
<1>1. PICK q \in Seq(Xs) : q = queue[s]
  BY DEF QueueInv, Lined
<1>2. /\ q # << >> /\ Head(q) = x /\ q[1] = x /\ Len(q) \in Nat
      /\ 1 \in 1 .. Len(q)
  BY <1>1 DEF Holds
<1>3. /\ \A i \in 1 .. Len(q) : Belongs(q[i], s)
      /\ \A i, j \in 1 .. Len(q) : q[i] = q[j] => i = j
  BY <1>1 DEF QueueInv, Lined
<1>4. Belongs(x, s)
  BY <1>2, <1>3
<1>5. PICK r \in Seq(Xs) : r = Tail(q)
  <2>1. Tail(q) \in Seq(Xs)
    BY <1>2
  <2> QED
    BY <2>1
<1>6. \A i \in 1 .. Len(r) :
        i + 1 \in 1 .. Len(q) /\ r[i] = q[i + 1] /\ i + 1 # 1
  BY <1>2, <1>5
<1>7. Lined(r, s) /\ \A i \in 1 .. Len(r) : r[i] # x
  <2>1. \A i, j \in 1 .. Len(r) : i + 1 = j + 1 => i = j
    OBVIOUS
  <2> QED
    BY <1>2, <1>3, <1>6, <2>1 DEF Lined
<1>8. PICK w : w = Leave(queue, s)
  OBVIOUS
<1>9. /\ w = [u \in Semaphores |-> w[u]] /\ w[s] = r
      /\ \A u \in Semaphores \ {s} : w[u] = queue[u]
  BY <1>1, <1>5, <1>8 DEF QueueInv, Leave
<1>10. ASSUME NEW u \in Semaphores \ {s}, NEW i \in 1 .. Len(queue[u])
       PROVE  queue[u][i] # x
  BY <1>4, BelongsOnce DEF QueueInv, Lined
<1>11. Without(w, x)
  <2>1. ASSUME NEW u \in Semaphores
        PROVE  Lined(w[u], u) /\ \A i \in 1 .. Len(w[u]) : w[u][i] # x
    <3>1. CASE u = s
      BY <3>1, <1>7, <1>9
    <3>2. CASE u # s
      BY <3>2, <1>9, <1>10 DEF QueueInv
    <3> QED
      BY <3>1, <3>2
  <2> QED
    BY <1>9, <2>1 DEF Without
<1> QED
  BY <1>4, <1>8, <1>11

\* Only x moves.
Moves(x) ==
  /\ config' = config
  /\ \A y \in Xs \ {x} : pc'[y] = pc[y]
  /\ \A y \in Snps \ {x} : kind'[y] = kind[y]

LEMMA BelongsSame ==
  ASSUME NEW x, Moves(x), NEW y \in Xs \ {x}, NEW s, Belongs(y, s)
  PROVE  Belongs(y, s)'
BY DEF Moves, Belongs

\* x keeps its places.
LEMMA QueueStays ==
  ASSUME QueueInv, NEW x \in Xs, Moves(x), queue' = queue, Heads(x)',
         \A s \in Semaphores : Belongs(x, s) => Belongs(x, s)'
  PROVE  QueueInv'
<1>1. ASSUME NEW s \in Semaphores
      PROVE  Lined(queue[s], s)'
  <2>1. \A y \in Xs : Belongs(y, s) => Belongs(y, s)'
    BY BelongsSame
  <2>2. \A i \in 1 .. Len(queue[s]) : queue[s][i] \in Xs
    BY DEF QueueInv, Lined
  <2> QED
    BY <2>1, <2>2 DEF QueueInv, Lined
<1>2. ASSUME NEW y \in Xs
      PROVE  Heads(y)'
  <2>1. CASE y # x
    BY <2>1 DEF QueueInv, Heads, Moves, Holds
  <2> QED
    BY <2>1
<1> QED
  BY <1>1, <1>2 DEF QueueInv

\* x enters the queue q, last or behind the holder.
Entered(r, q, x) ==
  \/ r = Append(q, x)
  \/ r = IF q = << >> THEN <<x>> ELSE <<Head(q), x>> \o Tail(q)

Apart(q) == \A i, j \in 1 .. Len(q) : q[i] = q[j] => i = j

LEMMA EntersOnce ==
  ASSUME NEW x \in Xs, NEW q \in Seq(Xs), NEW r,
         \A i \in 1 .. Len(q) : q[i] # x,
         Apart(q), Entered(r, q, x)
  PROVE  /\ r \in Seq(Xs)
         /\ \A i \in 1 .. Len(r) :
              r[i] = x \/ \E j \in 1 .. Len(q) : r[i] = q[j]
         /\ Apart(r)
         /\ q # << >> => r # << >> /\ Head(r) = Head(q)
<1>0. \A i, j \in 1 .. Len(q) : q[i] = q[j] => i = j
  BY DEF Apart
<1>1. PICK n \in Nat : n = Len(q)
  OBVIOUS
<1>2. CASE r = Append(q, x)
  <2>1. /\ r \in Seq(Xs) /\ Len(r) = n + 1 /\ r[n + 1] = x
        /\ \A i \in 1 .. n : r[i] = q[i]
        /\ q # << >> => n # 0 /\ Head(q) = q[1]
        /\ r # << >> /\ Head(r) = r[1]
    BY <1>1, <1>2
  <2>2. \A i \in 1 .. n + 1 : i \in 1 .. n \/ i = n + 1
    OBVIOUS
  <2>3. \A i \in 1 .. Len(r) : r[i] = x \/ \E j \in 1 .. Len(q) : r[i] = q[j]
    BY <1>1, <2>1, <2>2
  <2>4. Apart(r)
    BY <1>0, <1>1, <2>1, <2>2 DEF Apart
  <2>5. q # << >> => r # << >> /\ Head(r) = Head(q)
    BY <2>1
  <2> QED
    BY <2>1, <2>3, <2>4, <2>5
<1>3. CASE q = << >> /\ r = <<x>>
  BY <1>3 DEF Apart
<1>4. CASE q # << >> /\ r = <<Head(q), x>> \o Tail(q)
  <2>1. PICK h \in Xs, t \in Seq(Xs) : h = Head(q) /\ t = Tail(q)
    <3>1. Head(q) \in Xs /\ Tail(q) \in Seq(Xs)
      BY <1>4
    <3> QED
      BY <3>1
  <2>2. /\ n # 0 /\ Len(t) = n - 1 /\ h = q[1]
        /\ \A i \in 1 .. n - 1 : t[i] = q[i + 1]
    BY <1>1, <1>4, <2>1
  <2>3. PICK a \in Seq(Xs) : a = <<h, x>>
    <3>1. <<h, x>> \in Seq(Xs)
      OBVIOUS
    <3> QED
      BY <3>1
  <2>4. /\ Len(a) = 2 /\ a[1] = h /\ a[2] = x
        /\ 1 \in 1 .. Len(a) /\ 2 \in 1 .. Len(a)
    BY <2>3
  <2>5. r = a \o t /\ r \in Seq(Xs) /\ Len(r) = n + 1
    <3>1. r = a \o t
      BY <1>4, <2>1, <2>3
    <3>2. a \o t \in Seq(Xs) /\ Len(a \o t) = Len(a) + Len(t)
      OBVIOUS
    <3> QED
      BY <1>1, <2>2, <2>4, <3>1, <3>2
  <2>6. /\ r[1] = q[1] /\ r[2] = x
        /\ \A i \in 3 .. n + 1 : r[i] = q[i - 1] /\ i - 1 \in 2 .. n
    <3>1. \A i \in 1 .. Len(a) : (a \o t)[i] = a[i]
      OBVIOUS
    <3>2. \A i \in 3 .. n + 1 : r[i] = t[i - 2]
      BY <2>2, <2>4, <2>5
    <3>3. \A i \in 3 .. n + 1 : i - 2 \in 1 .. n - 1 /\ (i - 2) + 1 = i - 1
                                  /\ i - 1 \in 2 .. n
      BY <1>1
    <3>4. r[1] = h /\ r[2] = x
      BY <2>4, <2>5, <3>1
    <3> QED
      BY <2>2, <3>2, <3>3, <3>4
  <2>7. /\ \A i \in 1 .. n + 1 : i = 1 \/ i = 2 \/ i \in 3 .. n + 1
        /\ 1 \in 1 .. n /\ 2 .. n \subseteq 1 .. n
    BY <1>1, <2>2
  <2> HIDE <1>4
  <2>8. \A i \in 1 .. Len(r) : r[i] = x \/ \E j \in 1 .. Len(q) : r[i] = q[j]
    BY <1>1, <2>5, <2>6, <2>7
  <2>9. ASSUME NEW i \in 1 .. n + 1, NEW j \in 1 .. n + 1, r[i] = r[j]
        PROVE  i = j
    <3>1. \A k \in 3 .. n + 1 : r[k] # x /\ r[k] # q[1]
      <4>1. \A k \in 3 .. n + 1 : k - 1 # 1 /\ k - 1 \in 1 .. n
        BY <1>1, <2>7, <2>6
      <4> QED
        BY <1>0, <1>1, <2>6, <2>7, <4>1
    <3>2. \A k, l \in 3 .. n + 1 : k - 1 = l - 1 => k = l
      OBVIOUS
    <3>3. r[1] # r[2]
      BY <1>1, <2>6, <2>7
    <3>4. CASE i \in 3 .. n + 1 /\ j \in 3 .. n + 1
      <4>1. q[i - 1] = q[j - 1] /\ i - 1 \in 1 .. n /\ j - 1 \in 1 .. n
        BY <2>6, <2>7, <2>9, <3>4
      <4> QED
        BY <1>0, <1>1, <3>2, <3>4, <4>1
    <3> QED
      BY <2>6, <2>7, <2>9, <3>1, <3>3, <3>4
  <2>10. r # << >> /\ Head(r) = Head(q)
    <3>1. r # << >> /\ Head(r) = r[1]
      BY <1>1, <2>5
    <3> QED
      BY <2>1, <2>2, <2>6, <3>1
  <2> QED
    BY <2>5, <2>8, <2>9, <2>10 DEF Apart
<1> QED
  BY <1>2, <1>3, <1>4 DEF Entered

\* x leaves its place, if it had one, and enters a queue, or none.
LEMMA QueueMoves ==
  ASSUME QueueInv, NEW x \in Xs, Moves(x), Heads(x)', NEW q, Without(q, x),
         q = queue \/ \E s \in Semaphores : Holds(s, x) /\ q = Leave(queue, s),
         \/ queue' = q
         \/ \E u \in Semaphores :
              /\ Belongs(x, u)'
              /\ \/ queue' = Enter(q, u, x)
                 \/ u \in {"WDAT", "SRSP"} /\ queue' = EnterFirst(q, u, x)
  PROVE  QueueInv'
<1>1. /\ queue' = [s \in Semaphores |-> queue'[s]]
      /\ \A s \in Semaphores :
           queue'[s] = q[s] \/ (Belongs(x, s)' /\ Entered(queue'[s], q[s], x))
  <2>1. CASE queue' = q
    BY <2>1 DEF Without
  <2>2. ASSUME NEW u \in Semaphores, Belongs(x, u)', queue' = Enter(q, u, x)
        PROVE  <1>1!:
    BY <2>2 DEF Without, Enter, Entered
  <2>3. ASSUME NEW u \in Semaphores, Belongs(x, u)', queue' = EnterFirst(q, u, x)
        PROVE  <1>1!:
    BY <2>3 DEF Without, EnterFirst, Entered
  <2> QED
    BY <2>1, <2>2, <2>3
<1>2. ASSUME NEW s \in Semaphores
      PROVE  /\ Lined(queue[s], s)'
             /\ q[s] # << >> => queue'[s] # << >> /\ Head(queue'[s]) = Head(q[s])
  <2>1. /\ q[s] \in Seq(Xs) /\ \A i \in 1 .. Len(q[s]) : q[s][i] # x
        /\ \A i, j \in 1 .. Len(q[s]) : q[s][i] = q[s][j] => i = j
        /\ \A i \in 1 .. Len(q[s]) : Belongs(q[s][i], s)
    BY DEF Without, Lined
  <2>2. \A i \in 1 .. Len(q[s]) : q[s][i] \in Xs \ {x}
    BY <2>1
  <2>3. \A y \in Xs \ {x} : Belongs(y, s) => Belongs(y, s)'
    BY BelongsSame
  <2>4. CASE queue'[s] = q[s]
    BY <2>1, <2>2, <2>3, <2>4 DEF Lined
  <2>5. CASE Belongs(x, s)' /\ Entered(queue'[s], q[s], x)
    <3>1. PICK r : r = queue'[s] /\ Entered(r, q[s], x)
      BY <2>5
    <3>2. /\ r \in Seq(Xs)
          /\ \A i \in 1 .. Len(r) :
               r[i] = x \/ \E j \in 1 .. Len(q[s]) : r[i] = q[s][j]
          /\ Apart(r)
          /\ q[s] # << >> => r # << >> /\ Head(r) = Head(q[s])
      <4>1. PICK c \in Seq(Xs) : c = q[s]
        BY <2>1
      <4>2. /\ \A i \in 1 .. Len(c) : c[i] # x
            /\ Apart(c) /\ Entered(r, c, x)
        BY <2>1, <3>1, <4>1 DEF Apart
      <4>3. /\ r \in Seq(Xs)
            /\ \A i \in 1 .. Len(r) :
                 r[i] = x \/ \E j \in 1 .. Len(c) : r[i] = c[j]
            /\ Apart(r)
            /\ c # << >> => r # << >> /\ Head(r) = Head(c)
        BY <4>2, EntersOnce
      <4> QED
        BY <4>1, <4>3
    <3>3. ASSUME NEW i \in 1 .. Len(r)
          PROVE  Belongs(r[i], s)'
      BY <2>1, <2>2, <2>3, <2>5, <3>2
    <3>4. Lined(r, s)'
      BY <3>2, <3>3 DEF Lined, Apart
    <3> QED
      BY <3>1, <3>2, <3>4
  <2> QED
    BY <1>1, <2>4, <2>5
<1>3. ASSUME NEW y \in Xs \ {x}, NEW s \in Semaphores, Holds(s, y)
      PROVE  Holds(s, y)'
  <2>1. q[s] # << >> /\ Head(q[s]) = y
    <3>1. CASE q = queue
      BY <1>3, <3>1 DEF Holds
    <3>2. ASSUME NEW u \in Semaphores, Holds(u, x), q = Leave(queue, u)
          PROVE  <2>1!:
      <4>1. u # s
        BY <1>3, <3>2 DEF Holds
      <4>2. q[s] = queue[s]
        BY <3>2, <4>1 DEF Leave, QueueInv
      <4> QED
        BY <1>3, <4>2 DEF Holds
    <3> QED
      BY <3>1, <3>2
  <2> QED
    BY <1>2, <2>1 DEF Holds
<1>4. ASSUME NEW y \in Xs
      PROVE  Heads(y)'
  <2>1. CASE y # x
    <3>1. "strict" \in Semaphores /\ "REQ" \in Semaphores
      BY DEF Semaphores
    <3>2. Heads(y) /\ pc'[y] = pc[y] /\ config' = config
      BY <2>1 DEF QueueInv, Moves
    <3> QED
      BY <1>3, <2>1, <3>1, <3>2 DEF Heads
  <2> QED
    BY <2>1
<1> QED
  BY <1>1, <1>2, <1>4 DEF QueueInv

\* x waited nowhere before the step.
LEMMA OutMoves ==
  ASSUME QueueInv, NEW x \in Xs, Moves(x), Heads(x)',
         \A s \in Semaphores : ~Belongs(x, s),
         \/ queue' = queue
         \/ \E u \in Semaphores : Belongs(x, u)' /\ queue' = Enter(queue, u, x)
  PROVE  QueueInv'
<1>1. Without(queue, x)
  BY NotThere
<1> QED
  BY <1>1, QueueMoves

\* x held s before the step.
LEMMA HolderMoves ==
  ASSUME QueueInv, NEW x \in Xs, Moves(x), Heads(x)',
         NEW s \in Semaphores, Holds(s, x), NEW q, q = Leave(queue, s),
         \/ queue' = q
         \/ \E u \in Semaphores :
              /\ Belongs(x, u)'
              /\ \/ queue' = Enter(q, u, x)
                 \/ u \in {"WDAT", "SRSP"} /\ queue' = EnterFirst(q, u, x)
  PROVE  QueueInv'
<1>1. Without(q, x)
  BY HolderGoes
<1>2. q = queue \/ \E u \in Semaphores : Holds(u, x) /\ q = Leave(queue, u)
  OBVIOUS
<1> QED
  BY <1>1, <1>2, QueueMoves

QueueCtx == PlacesInv /\ BurstInv /\ QueueInv

LEMMA GotoMoves ==
  ASSUME QueueCtx, NEW x \in Xs, NEW to, Goto(x, to), UNCHANGED <<fixed, kind>>
  PROVE  Moves(x) /\ pc'[x] = to
BY DEF QueueCtx, PlacesInv, PcInv, Goto, Moves, fixed

LEMMA OnwardMoves ==
  ASSUME QueueCtx, NEW t \in Reqs, NEW q, Onward(t, q), UNCHANGED <<fixed, kind>>
  PROVE  /\ Moves(t) /\ Heads(t)'
         /\ \/ queue' = q
            \/ \E u \in Semaphores : Belongs(t, u)' /\ queue' = Enter(q, u, t)
<1>1. t \in Xs /\ "strict" \in Semaphores /\ config' = config
  BY DEF Xs, Semaphores, fixed
<1>2. CASE config.strict /\ Goto(t, "strict") /\ queue' = Enter(q, "strict", t)
  <2>1. Moves(t) /\ pc'[t] = "strict"
    BY <1>1, <1>2, GotoMoves
  <2>2. Heads(t)' /\ Belongs(t, "strict")'
    BY <1>1, <1>2, <2>1 DEF Heads, Belongs
  <2> QED
    BY <1>1, <1>2, <2>1, <2>2
<1>3. CASE ~config.strict /\ Goto(t, "id") /\ queue' = q
  <2>1. Moves(t) /\ pc'[t] = "id"
    BY <1>1, <1>3, GotoMoves
  <2>2. Heads(t)'
    BY <1>1, <1>3, <2>1 DEF Heads
  <2> QED
    BY <1>3, <2>1, <2>2
<1> QED
  BY <1>2, <1>3 DEF Onward

\* The calls of transport up to END_REQ.
LEMMA GatesQueue ==
  ASSUME QueueCtx, NEW t \in Reqs,
         Transport(t) \/ PassOrder(t) \/ PassStrict(t)
  PROVE  QueueInv'
<1>1. /\ t \in Xs /\ QueueInv
      /\ "order" \in Semaphores /\ "strict" \in Semaphores
  BY DEF Xs, Semaphores, QueueCtx
<1>2. CASE Transport(t) /\ Ordered(t)
  <2>1. /\ pc[t] = "idle" /\ Goto(t, "order")
        /\ queue' = Enter(queue, "order", t) /\ UNCHANGED <<fixed, kind>>
    BY <1>2 DEF Transport, snpVars
  <2>2. Moves(t) /\ pc'[t] = "order"
    BY <1>1, <2>1, GotoMoves
  <2>3. /\ Heads(t)' /\ Belongs(t, "order")'
        /\ \A s \in Semaphores : ~Belongs(t, s)
    BY <2>1, <2>2 DEF Heads, Belongs, DataPcs
  <2> QED
    BY <1>1, <2>1, <2>2, <2>3, OutMoves
<1>3. CASE Transport(t) /\ ~Ordered(t)
  <2>1. pc[t] = "idle" /\ Onward(t, queue) /\ UNCHANGED <<fixed, kind>>
    BY <1>3 DEF Transport, snpVars
  <2>2. \A s \in Semaphores : ~Belongs(t, s)
    BY <2>1 DEF Belongs, DataPcs
  <2> QED
    BY <1>1, <2>1, <2>2, OnwardMoves, OutMoves
<1>4. CASE PassOrder(t)
  <2>1. /\ Holds("order", t) /\ Onward(t, Leave(queue, "order"))
        /\ UNCHANGED <<fixed, kind>>
    BY <1>4 DEF PassOrder, OrderFree, snpVars
  <2>2. PICK q : q = Leave(queue, "order")
    OBVIOUS
  <2>3. /\ Moves(t) /\ Heads(t)'
        /\ \/ queue' = q
           \/ \E u \in Semaphores : Belongs(t, u)' /\ queue' = Enter(q, u, t)
    BY <2>1, <2>2, OnwardMoves
  <2> QED
    BY <1>1, <2>1, <2>2, <2>3, HolderMoves
<1>5. CASE PassStrict(t)
  <2>1. /\ pc[t] = "strict" /\ Holds("strict", t) /\ Goto(t, "id")
        /\ queue' = queue /\ UNCHANGED <<fixed, kind>>
    BY <1>5 DEF PassStrict, snpVars
  <2>2. Moves(t) /\ pc'[t] = "id"
    BY <1>1, <2>1, GotoMoves
  <2>3. Heads(t)' /\ \A s \in Semaphores : Belongs(t, s) => Belongs(t, s)'
    BY <2>1, <2>2 DEF Heads, Holds, Belongs, Moves, DataPcs
  <2> QED
    BY <1>1, <2>1, <2>2, <2>3, QueueStays
<1> QED
  BY <1>2, <1>3, <1>4, <1>5

LEMMA PassIdQueue ==
  ASSUME QueueCtx, NEW t \in Reqs, PassId(t)
  PROVE  QueueInv'
<1>1. t \in Xs /\ QueueInv /\ "REQ" \in Semaphores /\ "strict" \in Semaphores
  BY DEF Xs, Semaphores, QueueCtx
<1>2. pc[t] = "id" /\ Goto(t, "req") /\ UNCHANGED <<fixed, kind>>
  BY DEF PassId, HoldsId, snpVars
<1>3. Moves(t) /\ pc'[t] = "req"
  BY <1>1, <1>2, GotoMoves
<1>4. Heads(t)' /\ Belongs(t, "REQ")'
  BY <1>3 DEF Heads, Belongs
<1>5. CASE config.strict
  <2>1. Holds("strict", t)
    BY <1>1, <1>2, <1>5 DEF QueueInv, Heads
  <2>2. queue' = Enter(Leave(queue, "strict"), "REQ", t)
    BY <1>5 DEF PassId
  <2> QED
    BY <1>1, <1>3, <1>4, <2>1, <2>2, HolderMoves
<1>6. CASE ~config.strict
  <2>1. \A s \in Semaphores : ~Belongs(t, s)
    BY <1>2, <1>6 DEF Belongs, DataPcs
  <2>2. queue' = Enter(queue, "REQ", t)
    BY <1>6 DEF PassId
  <2> QED
    BY <1>1, <1>3, <1>4, <2>1, <2>2, OutMoves
<1> QED
  BY <1>5, <1>6

LEMMA RequestQueue ==
  ASSUME QueueCtx, NEW t \in Reqs, NEW upd, NEW n,
         SendReq(t, upd, n) \/ ReqDone(t)
  PROVE  QueueInv'
<1>1. t \in Xs /\ QueueInv /\ "REQ" \in Semaphores
  BY DEF Xs, Semaphores, QueueCtx
<1>2. CASE SendReq(t, upd, n)
  <2>1. PICK to \in {"sent", "synced"} : Goto(t, to)
    BY <1>2 DEF SendReq
  <2>2. /\ pc[t] = "req" /\ Holds("REQ", t) /\ queue' = queue
        /\ UNCHANGED <<fixed, kind>>
    BY <1>2 DEF SendReq, snpVars
  <2>3. Moves(t) /\ pc'[t] = to
    BY <1>1, <2>1, <2>2, GotoMoves
  <2>4. Heads(t)' /\ \A s \in Semaphores : Belongs(t, s) => Belongs(t, s)'
    BY <2>1, <2>2, <2>3 DEF Heads, Holds, Belongs, DataPcs
  <2> QED
    BY <1>1, <2>2, <2>3, <2>4, QueueStays
<1>3. CASE ReqDone(t)
  <2>1. PICK to \in {"aresp", "exec"} : Goto(t, to)
    BY <1>3 DEF ReqDone
  <2>2. /\ pc[t] \in {"sent", "synced"} /\ queue' = Leave(queue, "REQ")
        /\ UNCHANGED <<fixed, kind>>
    BY <1>3 DEF ReqDone, snpVars
  <2>3. Moves(t) /\ pc'[t] = to
    BY <1>1, <2>1, <2>2, GotoMoves
  <2>4. Heads(t)' /\ Holds("REQ", t)
    BY <1>1, <2>1, <2>2, <2>3 DEF Heads, QueueInv
  <2> QED
    BY <1>1, <2>2, <2>3, <2>4, HolderMoves
<1> QED
  BY <1>2, <1>3

LEMMA ContinueMoves ==
  ASSUME QueueCtx, NEW t \in Xs, NEW left, NEW q, Continue(t, left, q),
         UNCHANGED <<fixed, kind>>
  PROVE  /\ Moves(t) /\ Heads(t)'
         /\ \/ queue' = q
            \/ \E u \in Semaphores : Belongs(t, u)' /\ queue' = Enter(q, u, t)
<1>1. CASE Goto(t, "ack") /\ queue' = Enter(q, "SRSP", t)
  <2>1. Moves(t) /\ pc'[t] = "ack"
    BY <1>1, GotoMoves
  <2>2. Heads(t)' /\ Belongs(t, "SRSP")' /\ "SRSP" \in Semaphores
    BY <2>1 DEF Heads, Belongs, Semaphores
  <2> QED
    BY <1>1, <2>1, <2>2
<1>2. ASSUME NEW to \in {"exec", "end"}, Goto(t, to), queue' = q
      PROVE  Moves(t) /\ Heads(t)'
  <2>1. Moves(t) /\ pc'[t] = to
    BY <1>2, GotoMoves
  <2> QED
    BY <2>1 DEF Heads
<1> QED
  BY <1>1, <1>2 DEF Continue

\* The same for the loop over the answers to a snoop.
LEMMA SnpContinueMoves ==
  ASSUME QueueCtx, NEW s \in Xs, NEW left, NEW q, SnpContinue(s, left, q),
         UNCHANGED <<fixed, kind>>
  PROVE  /\ Moves(s) /\ Heads(s)'
         /\ \/ queue' = q
            \/ \E u \in Semaphores : Belongs(s, u)' /\ queue' = Enter(q, u, s)
<1>1. CASE Goto(s, "ack") /\ queue' = Enter(q, "SRSP", s)
  <2>1. Moves(s) /\ pc'[s] = "ack"
    BY <1>1, GotoMoves
  <2>2. Heads(s)' /\ Belongs(s, "SRSP")' /\ "SRSP" \in Semaphores
    BY <2>1 DEF Heads, Belongs, Semaphores
  <2> QED
    BY <1>1, <2>1, <2>2
<1>2. ASSUME NEW to \in {"swait", "end"}, Goto(s, to), queue' = q
      PROVE  Moves(s) /\ Heads(s)'
  <2>1. Moves(s) /\ pc'[s] = to
    BY <1>2, GotoMoves
  <2> QED
    BY <2>1 DEF Heads
<1> QED
  BY <1>1, <1>2 DEF SnpContinue

LEMMA ToWdat ==
  ASSUME QueueCtx, NEW x \in Xs, Goto(x, "wdat"), UNCHANGED <<fixed, kind>>
  PROVE  /\ Moves(x) /\ Heads(x)' /\ Belongs(x, "WDAT")' /\ "WDAT" \in Semaphores
<1>1. Moves(x) /\ pc'[x] = "wdat"
  BY GotoMoves
<1> QED
  BY <1>1 DEF Heads, Belongs, Semaphores, DataPcs

LEMMA ResponseQueue ==
  ASSUME QueueCtx, NEW t \in Reqs, Response(t) \/ AtomicResponse(t)
  PROVE  QueueInv'
<1>1. t \in Xs /\ QueueInv
  BY DEF Xs, QueueCtx
<1>2. pc[t] \in {"exec", "aresp"} /\ UNCHANGED <<fixed, kind>>
  BY DEF Response, AtomicResponse, snpVars
<1>3. \A s \in Semaphores : ~Belongs(t, s)
  BY <1>2 DEF Belongs, DataPcs
<1>4. \/ Goto(t, "wdat") /\ queue' = Enter(queue, "WDAT", t)
      \/ \E left : Continue(t, left, queue)
  BY DEF Response, AtomicResponse, TakeResponse, TakeData, TakeIllegal
<1>5. CASE Goto(t, "wdat") /\ queue' = Enter(queue, "WDAT", t)
  <2>1. Moves(t) /\ Heads(t)' /\ Belongs(t, "WDAT")' /\ "WDAT" \in Semaphores
    BY <1>1, <1>2, <1>5, ToWdat
  <2> QED
    BY <1>1, <1>3, <1>5, <2>1, OutMoves
<1>6. ASSUME NEW left, Continue(t, left, queue)
      PROVE  QueueInv'
  <2>1. PICK q : q = queue
    OBVIOUS
  <2>2. /\ Moves(t) /\ Heads(t)'
        /\ \/ queue' = q
           \/ \E u \in Semaphores : Belongs(t, u)' /\ queue' = Enter(q, u, t)
    BY <1>1, <1>2, <1>6, <2>1, ContinueMoves
  <2> QED
    BY <1>1, <1>3, <2>1, <2>2, OutMoves
<1> QED
  BY <1>4, <1>5, <1>6

\* Who sends data or reads an atomic's old data holds the channel.
LEMMA ClaimHolds ==
  ASSUME QueueCtx, NEW x \in Xs, pc[x] \in {"wwait", "wsync", "ain"}
  PROVE  Holds("WDAT", x) /\ "WDAT" \in Semaphores /\ x \in DOMAIN req
<1>1. x \in DOMAIN req
  BY DEF QueueCtx, PlacesInv, PcInv
<1> QED
  BY <1>1 DEF QueueCtx, BurstInv, Burst, Claims, Holds, Semaphores

LEMMA WdatStays ==
  ASSUME QueueCtx, NEW x \in Xs, pc[x] \in DataPcs, NEW to \in DataPcs,
         Goto(x, to), queue' = queue, UNCHANGED <<fixed, kind>>
  PROVE  QueueInv'
<1>1. Moves(x) /\ pc'[x] = to
  BY GotoMoves
<1>2. Heads(x)' /\ \A s \in Semaphores : Belongs(x, s) => Belongs(x, s)'
  BY <1>1 DEF Heads, Belongs, DataPcs
<1> QED
  BY <1>1, <1>2, QueueStays DEF QueueCtx

LEMMA WdatLeaves ==
  ASSUME QueueCtx, NEW x \in Xs, pc[x] \in {"wwait", "wsync", "ain"},
         Goto(x, "end"), queue' = Leave(queue, "WDAT"), UNCHANGED <<fixed, kind>>
  PROVE  QueueInv'
<1>1. Moves(x) /\ pc'[x] = "end"
  BY GotoMoves
<1>2. Heads(x)'
  BY <1>1 DEF Heads
<1> QED
  BY <1>1, <1>2, ClaimHolds, HolderMoves DEF QueueCtx

LEMMA AtomicInQueue ==
  ASSUME QueueCtx, NEW t \in Reqs, AtomicIn(t)
  PROVE  QueueInv'
<1>1. t \in Xs /\ pc[t] = "ain" /\ UNCHANGED <<fixed, kind>>
  BY DEF AtomicIn, snpVars, Xs
<1>2. \/ Goto(t, "end") /\ queue' = Leave(queue, "WDAT")
      \/ \E to \in DataPcs : Goto(t, to) /\ queue' = queue
  BY DEF AtomicIn, DataPcs
<1> QED
  BY <1>1, <1>2, WdatStays, WdatLeaves DEF DataPcs

LEMMA DataQueue ==
  ASSUME QueueCtx, NEW x \in Xs, NEW upd, NEW n,
         SendData(x, upd, n) \/ DataDone(x)
  PROVE  QueueInv'
<1>1. QueueInv /\ UNCHANGED <<fixed, kind>>
  BY DEF QueueCtx, SendData, DataDone, snpVars
<1>2. CASE SendData(x, upd, n)
  <2>1. pc[x] \in DataPcs /\ queue' = queue /\ \E to \in DataPcs : Goto(x, to)
    BY <1>2 DEF SendData, DataPcs
  <2> QED
    BY <1>1, <2>1, WdatStays
<1>3. CASE DataDone(x)
  <2>1. pc[x] \in {"wwait", "wsync"}
    BY <1>3 DEF DataDone
  <2>2. Holds("WDAT", x) /\ "WDAT" \in Semaphores
    BY <2>1, ClaimHolds
  <2>3. PICK q : q = Leave(queue, "WDAT")
    OBVIOUS
  <2>4. \/ Goto(x, "ain") /\ queue' = queue
        \/ Goto(x, "wdat") /\ queue' = NextHolder(x)
        \/ \E left : Continue(x, left, q)
        \/ Goto(x, "end") /\ queue' = q
    BY <1>3, <2>3 DEF DataDone
  <2>5. CASE Goto(x, "ain") /\ queue' = queue
    BY <1>1, <2>1, <2>5, WdatStays DEF DataPcs
  <2>6. CASE Goto(x, "wdat") /\ queue' = queue
    BY <1>1, <2>1, <2>6, WdatStays DEF DataPcs
  <2>7. CASE Goto(x, "wdat") /\ queue' = Enter(q, "WDAT", x)
    <3>1. Moves(x) /\ Heads(x)' /\ Belongs(x, "WDAT")'
      BY <1>1, <2>7, ToWdat
    <3> QED
      BY <1>1, <2>2, <2>3, <2>7, <3>1, HolderMoves
  <2>8. ASSUME NEW left, Continue(x, left, q)
        PROVE  QueueInv'
    <3>1. /\ Moves(x) /\ Heads(x)'
          /\ \/ queue' = q
             \/ \E u \in Semaphores : Belongs(x, u)' /\ queue' = Enter(q, u, x)
      BY <1>1, <2>8, ContinueMoves
    <3> QED
      BY <1>1, <2>2, <2>3, <3>1, HolderMoves
  <2>9. CASE Goto(x, "end") /\ queue' = q
    BY <1>1, <2>1, <2>3, <2>9, WdatLeaves
  <2> QED
    BY <2>3, <2>4, <2>5, <2>6, <2>7, <2>8, <2>9 DEF NextHolder
<1> QED
  BY <1>2, <1>3

LEMMA SendAckQueue ==
  ASSUME QueueCtx, NEW x \in Xs, NEW n, SendAck(x, n)
  PROVE  QueueInv'
<1>1. /\ Holds("SRSP", x) /\ Goto(x, "end") /\ queue' = Leave(queue, "SRSP")
      /\ UNCHANGED <<fixed, kind>>
  BY DEF SendAck, snpVars
<1>2. Moves(x) /\ pc'[x] = "end"
  BY <1>1, GotoMoves
<1>3. Heads(x)' /\ "SRSP" \in Semaphores /\ QueueInv
  BY <1>2 DEF Heads, Semaphores, QueueCtx
<1> QED
  BY <1>1, <1>2, <1>3, HolderMoves
-----------------------------------------------------------------------------
(* The semaphores: snoops, and all steps.                                  *)

\* A snoop that waited nowhere is answered.
LEMMA AnswerQueue ==
  ASSUME QueueCtx, NEW s \in Snps, NEW k \in Kinds, NEW timed,
         Answer(s, k, timed), pc[s] \in Waiting, UNCHANGED fixed
  PROVE  QueueInv'
<1>1. s \in Xs /\ QueueInv /\ config' = config
  BY DEF Xs, QueueCtx, fixed
<1>2. pc \in [Xs -> Pcs] /\ kind \in [Snps -> Kinds \union {"none"}]
  BY DEF QueueCtx, PlacesInv, PcInv, SnoopInv
<1>3. kind' = [kind EXCEPT ![s] = k]
  BY DEF Answer
<1>4. ASSUME NEW to, Goto(s, to)
      PROVE  Moves(s) /\ pc'[s] = to /\ kind'[s] = k
  BY <1>1, <1>2, <1>3, <1>4 DEF Moves, Goto
<1>5. \A u \in Semaphores : ~Belongs(s, u)
  BY DEF Belongs, Waiting, DataPcs
<1>6. PICK ch \in {"WDAT", "SRSP"} :
        /\ ch = IF k = "data" THEN "WDAT" ELSE "SRSP"
        /\ \/ Goto(s, "prio") /\ queue' = Enter(queue, Prio(ch), s)
           \/ Goto(s, SendPc(ch)) /\ queue' = Enter(queue, ch, s)
  BY DEF Answer
<1>7. CASE Goto(s, "prio") /\ queue' = Enter(queue, Prio(ch), s)
  <2>1. Moves(s) /\ pc'[s] = "prio" /\ kind'[s] = k
    BY <1>4, <1>7
  <2>2. Heads(s)' /\ Belongs(s, Prio(ch))' /\ Prio(ch) \in Semaphores
    BY <1>6, <2>1 DEF Heads, Belongs, Prio, Semaphores, Kinds
  <2> QED
    BY <1>1, <1>5, <1>7, <2>1, <2>2, OutMoves
<1>8. CASE Goto(s, SendPc(ch)) /\ queue' = Enter(queue, ch, s)
  <2>1. Moves(s) /\ pc'[s] = SendPc(ch)
    BY <1>4, <1>8
  <2>2. Heads(s)' /\ Belongs(s, ch)' /\ ch \in Semaphores
    BY <1>6, <2>1 DEF Heads, Belongs, SendPc, Semaphores, DataPcs
  <2> QED
    BY <1>1, <1>5, <1>8, <2>1, <2>2, OutMoves
<1> QED
  BY <1>6, <1>7, <1>8

LEMMA JoinQueue ==
  ASSUME QueueCtx, NEW s \in Snps, Join(s)
  PROVE  QueueInv'
<1>1. s \in Xs /\ QueueInv /\ UNCHANGED <<fixed, kind>>
  BY DEF Xs, QueueCtx, Join, snpVars
<1>2. PICK ch \in {"WDAT", "SRSP"} :
        /\ Holds(Prio(ch), s) /\ Goto(s, SendPc(ch))
        /\ queue' = EnterFirst(Leave(queue, Prio(ch)), ch, s)
  BY DEF Join
<1>3. Moves(s) /\ pc'[s] = SendPc(ch)
  BY <1>1, <1>2, GotoMoves
<1>4. /\ Heads(s)' /\ Belongs(s, ch)' /\ ch \in Semaphores
      /\ Prio(ch) \in Semaphores
  BY <1>3 DEF Heads, Belongs, SendPc, Prio, Semaphores, DataPcs
<1>5. PICK q : q = Leave(queue, Prio(ch))
  OBVIOUS
<1>6. queue' = EnterFirst(q, ch, s)
  BY <1>2, <1>5
<1> QED
  BY <1>1, <1>2, <1>3, <1>4, <1>5, <1>6, HolderMoves

\* The channel of a snoop's response, and the answers to it.
LEMMA AnswersQueue ==
  ASSUME QueueCtx, NEW s \in Snps, NEW upd, NEW n,
         SendSnoopResp(s, upd, n) \/ SnoopWait(s)
  PROVE  QueueInv'
<1>1. s \in Xs /\ QueueInv /\ UNCHANGED <<fixed, kind>>
  BY DEF Xs, QueueCtx, SendSnoopResp, SnoopWait
<1>2. CASE SendSnoopResp(s, upd, n)
  <2>1. PICK q : q = Leave(queue, "SRSP")
    OBVIOUS
  <2>2. Holds("SRSP", s) /\ \E left : SnpContinue(s, left, q)
    BY <1>2, <2>1 DEF SendSnoopResp
  <2>3. /\ Moves(s) /\ Heads(s)'
        /\ \/ queue' = q
           \/ \E u \in Semaphores : Belongs(s, u)' /\ queue' = Enter(q, u, s)
    BY <1>1, <2>2, SnpContinueMoves
  <2>4. "SRSP" \in Semaphores
    BY DEF Semaphores
  <2> QED
    BY <1>1, <2>1, <2>2, <2>3, <2>4, HolderMoves
<1>3. CASE SnoopWait(s)
  <2>1. PICK q : q = queue
    OBVIOUS
  <2>2. pc[s] = "swait" /\ \E left : SnpContinue(s, left, q)
    BY <1>3, <2>1 DEF SnoopWait
  <2>3. /\ Moves(s) /\ Heads(s)'
        /\ \/ queue' = q
           \/ \E u \in Semaphores : Belongs(s, u)' /\ queue' = Enter(q, u, s)
    BY <1>1, <2>2, SnpContinueMoves
  <2>4. \A u \in Semaphores : ~Belongs(s, u)
    BY <2>2 DEF Belongs, DataPcs
  <2> QED
    BY <1>1, <2>1, <2>3, <2>4, OutMoves
<1> QED
  BY <1>2, <1>3

\* The process of x moves outside the queues.
LEMMA OutsideQueue ==
  ASSUME QueueCtx, NEW x \in Xs, NEW to \in Waiting \union {"done"}, Goto(x, to),
         pc[x] \in Waiting \union {"end"}, UNCHANGED <<fixed, queue, kind>>
  PROVE  QueueInv'
<1>1. Moves(x) /\ pc'[x] = to
  BY GotoMoves
<1>2. Heads(x)' /\ \A s \in Semaphores : ~Belongs(x, s)
  BY <1>1 DEF Heads, Belongs, Waiting, DataPcs
<1> QED
  BY <1>1, <1>2, OutMoves DEF QueueCtx

LEMMA QueueFrame ==
  ASSUME QueueInv, UNCHANGED <<fixed, pc, queue, kind>>
  PROVE  QueueInv'
BY DEF QueueInv, Lined, Belongs, Heads, Holds, fixed

LEMMA HandlerQueue ==
  ASSUME QueueCtx, HandlerStep
  PROVE  QueueInv'
<1>1. CASE Dispatch \/ HandlerIdle
  BY <1>1, QueueFrame DEF Dispatch, HandlerIdle, QueueCtx
<1>2. ASSUME NEW fresh \in BOOLEAN, NEW k \in Kinds \union {"later"},
             TakeSnoop(fresh, k)
      PROVE  QueueInv'
  <2>1. PICK s : s = Head(dispq)
    OBVIOUS
  <2>2. s \in Snps /\ pc[s] = "snp"
    BY <1>2, <2>1, TailLine DEF TakeSnoop, QueueCtx, PlacesInv, SnoopInv
  <2>3. s \in Xs /\ pc[s] \in Waiting /\ UNCHANGED fixed
    BY <1>2, <2>2 DEF Xs, Waiting, TakeSnoop
  <2>4. CASE k = "later"
    <3>1. Goto(s, "later") /\ UNCHANGED <<queue, kind>>
      BY <1>2, <2>1, <2>4 DEF TakeSnoop
    <3> QED
      BY <2>3, <3>1, OutsideQueue DEF Waiting
  <2>5. CASE k # "later"
    <3>1. k \in Kinds /\ Answer(s, k, TRUE)
      BY <1>2, <2>1, <2>5 DEF TakeSnoop
    <3> QED
      BY <2>2, <2>3, <3>1, AnswerQueue
  <2> QED
    BY <2>4, <2>5
<1> QED
  BY <1>1, <1>2 DEF HandlerStep

LEMMA NextQueue ==
  ASSUME QueueCtx, [Next]_vars
  PROVE  QueueInv'
<1>1. ASSUME NEW t \in Reqs, TransportStep(t)
      PROVE  QueueInv'
  <2>1. CASE Finish(t)
    BY <2>1, OutsideQueue DEF Finish, snpVars, Xs, Waiting
  <2>2. t \in Xs
    BY DEF Xs
  <2> QED
    BY <1>1, <2>1, <2>2, GatesQueue, PassIdQueue, RequestQueue, ResponseQueue,
       AtomicInQueue DEF TransportStep
<1>2. ASSUME NEW s \in Snps, SnoopStep(s)
      PROVE  QueueInv'
  <2>1. CASE \E k \in Kinds : SnoopResp(s, k)
    BY <2>1, AnswerQueue DEF SnoopResp, Waiting
  <2>2. CASE FinishSnoop(s)
    BY <2>2, OutsideQueue DEF FinishSnoop, Xs, Waiting
  <2> QED
    BY <1>2, <2>1, <2>2, JoinQueue, AnswersQueue DEF SnoopStep
<1>3. ASSUME NEW s \in Snps, SendSnoop(s)
      PROVE  QueueInv'
  BY <1>3, OutsideQueue DEF SendSnoop, BwSnoop, Xs, Waiting
<1>4. ASSUME NEW x \in Xs, DataStep(x)
      PROVE  QueueInv'
  BY <1>4, DataQueue, SendAckQueue DEF DataStep
<1>5. ASSUME NEW x \in Xs, HnStep(x)
      PROVE  QueueInv'
  BY <1>5, QueueFrame DEF HnStep, HnRespond, HnEndPhase, BwPhase, snpVars,
     QueueCtx
<1>6. CASE ClkStep
  BY <1>6, QueueFrame DEF ClkStep, ClkCounter, snpVars, QueueCtx
<1>7. ASSUME NEW c \in Channels, Grant(c)
      PROVE  QueueInv'
  BY <1>7, QueueFrame DEF Grant, BwCredit, snpVars, QueueCtx
<1>8. CASE UNCHANGED vars
  <2>1. UNCHANGED <<fixed, pc, queue, kind>>
    BY <1>8 DEF vars, rnVars, snpVars, fixed
  <2> QED
    BY <2>1, QueueFrame DEF QueueCtx
<1> QED
  BY <1>1, <1>2, <1>3, <1>4, <1>5, <1>6, <1>7, <1>8, HandlerQueue DEF Next

LEMMA InitQueue ==
  ASSUME Init
  PROVE  QueueInv
<1>1. /\ queue = [s \in Semaphores |-> << >>] /\ pc = [x \in Xs |-> "idle"]
  BY DEF Init, RnInit
<1> QED
  BY <1>1 DEF QueueInv, Lined, Heads
-----------------------------------------------------------------------------
(* What each payload is waiting for.  The home node sends nothing that is  *)
(* not expected, so that no assertion and no fatal error is reached.       *)

Coming == {"BEGIN_RESP"} \union BeatPhases
DbidItems == {"CompDBIDResp", "DBIDResp"}

\* The END phase that x waits for.
Await(x) ==
  IF pc[x] = "sent" THEN {"END_REQ"}
  ELSE IF pc[x] = "wwait" THEN EndData
  ELSE IF pc[x] = "swait" /\ "CTRL" \in todo[x] THEN {"END_RESP"}
  ELSE {}

\* In the queue of x: the END phase e, then the response or beat p.
Box(x, e, p) ==
  Mail(x) = IF e = "none" THEN IF p = "none" THEN << >> ELSE << <<x, p>> >>
            ELSE IF p = "none" THEN << <<x, e>> >>
            ELSE << <<x, e>>, <<x, p>> >>

PhaseOf(item) == IF item \in BeatPhases THEN item ELSE "BEGIN_RESP"

\* r are the responses and beats that x has not taken yet; the first of them
\* may have been sent.
Parts(x, e, p, r) ==
  /\ e \in EndPhases \union {"none"} /\ p \in Coming \union {"none"}
  /\ r \in Seq(PlanItems) /\ Box(x, e, p)
  /\ p = "none" => x \notin busy /\ plan[x] = r
  /\ p # "none" => /\ x \in busy /\ r # << >> /\ plan[x] = Tail(r)
                   /\ p = PhaseOf(Head(r))
                   /\ p = "BEGIN_RESP" => rsp[x] = Head(r)
  /\ due[x] = << >> => (IF e = "none" THEN Await(x) = {} ELSE e \in Await(x))
  /\ due[x] # << >> => /\ e = "none" /\ p = "none"
                       /\ \E d \in Await(x) : due[x] = <<d>>

\* What the item settles.
FlagOf(item) ==
  IF item \in {"DBIDResp"} \union BeatPhases THEN "DATA"
  ELSE IF item = "CompCMO" THEN "COMPCMO"
  ELSE IF item = "Persist" THEN "PERSIST" ELSE "CTRL"

\* Responses come first, no two of them settle the same, then n beats of b are
\* missing.
Tidy(r, n, b) ==
  /\ \A i, j \in 1 .. Len(r) :
       i < j /\ r[i] \in BeatPhases => r[j] \in BeatPhases
  /\ \A i \in 1 .. Len(r) : r[i] = "BEGIN_DATA" => i = Len(r)
  /\ \A i, j \in 1 .. Len(r) :
       i < j /\ FlagOf(r[i]) = FlagOf(r[j]) => r[i] \in BeatPhases
  /\ \A i \in 1 .. Len(r) :
       r[i] \in BeatPhases /\ (i = 1 \/ r[i - 1] \notin BeatPhases)
         => n + (Len(r) - i) + 1 = b

\* What a request may be answered with.
Fitting(q) ==
  IF IsDataless(q.op, NoResponse) THEN {"Comp", "Persist", "CompDBIDResp"}
  ELSE IF q.op = "MakeReadUnique" THEN {"Comp"} \union BeatPhases
  ELSE IF q.cmd = "rd" THEN {"ReadReceipt", "RespSepData"} \union BeatPhases
  ELSE {"CompDBIDResp", "DBIDResp", "Comp", "CompCMO", "Persist"}

\* One response asks for data, and a MakeReadUnique gets a response or beats.
OneKind(r, q) ==
  /\ \A i, j \in 1 .. Len(r) : r[i] \in DbidItems /\ r[j] \in DbidItems => i = j
  /\ q.op = "MakeReadUnique" /\ r # << >> /\ Head(r) \notin BeatPhases
       => Len(r) = 1

\* exec_read_write_protocol: not_finish has what is still to come.
Loop(t, r) ==
  /\ Tidy(r, rbeat[t], req[t].beats) /\ OneKind(r, req[t])
  /\ \A i \in 1 .. Len(r) :
       /\ FlagOf(r[i]) \in todo[t] /\ r[i] \in Fitting(req[t])
       /\ r[i] \in DbidItems => wbeat[t] = 0 /\ pc[t] = "exec"

ReqLoop(t, r) ==
  /\ pc[t] \in Early => r = << >> /\ rsp[t] = NoResponse
  /\ pc[t] \in Early \union {"sent", "synced", "aresp"}
       => wbeat[t] = 0 /\ rbeat[t] = 0
  /\ pc[t] \in Ending \union {"ack"} => r = << >>
  /\ pc[t] \in {"sent", "synced", "aresp"} =>
       r \in HN!Plans(req[t]) /\ (rsp[t] # NoResponse => Head(r) = rsp[t])
  /\ pc[t] \in DataPcs \union {"exec"} /\ ~Returning(t) => Loop(t, r)
  /\ pc[t] \in DataPcs /\ Returning(t) =>
       /\ Tidy(r, rbeat[t], req[t].beats)
       /\ \A i \in 1 .. Len(r) : r[i] \in BeatPhases
  /\ pc[t] \in DataPcs \union {"aresp"} /\ Returning(t) /\ r # << >> =>
       "IN" \in todo[t]
  /\ pc[t] \in DataPcs => t \in asked /\ (~Returning(t) => req[t].cmd = "wr")
  /\ t \in busy /\ Head(r) \in DbidItems => t \in asked

SnpLoop(s, r) ==
  /\ pc[s] \in Waiting \union {"prio"} => wbeat[s] = 0
  /\ pc[s] \in Waiting \union {"prio", "srsp"} => rbeat[s] = 0
  /\ pc[s] \in {"prio", "srsp"} => todo[s] = SnpTodo(kind[s])
  /\ pc[s] = "srsp" => kind[s] \in {"resp", "pull"}
  /\ pc[s] # "swait" => r = << >>
  /\ pc[s] = "swait" =>
       /\ Tidy(r, rbeat[s], req[s].beats)
       /\ \A i \in 1 .. Len(r) : r[i] \in BeatPhases
       /\ r # << >> => "DATA" \in todo[s] /\ kind[s] = "pull"

Work(x, r) ==
  /\ got[x] = wbeat[x] /\ todo[x] \subseteq Flags
  /\ wbeat[x] \in 0 .. req[x].beats /\ rbeat[x] \in 0 .. req[x].beats
  /\ pc[x] = "wdat" => wbeat[x] < req[x].beats
  /\ pc[x] = "wwait" => ~mode.sync
  /\ pc[x] \in DataPcs /\ ~mode.sync /\ x \in busy => got[x] = req[x].beats
  /\ x \in Reqs => ReqLoop(x, r)
  /\ x \in Snps => SnpLoop(x, r)

View(x) ==
  IF x \in DOMAIN req THEN \E e, p, r : Parts(x, e, p, r) /\ Work(x, r)
  ELSE plan[x] = << >> /\ due[x] = << >> /\ todo[x] \subseteq Flags

\* A home node that goes on while it still receives data answers at once.
EarlyIsSync == \A m \in Modes : m.early => m.sync

\* The command of a request is a read or a write.
CommandsFit ==
  \A s \in Scenarios : \A t \in Reqs \intersect DOMAIN s :
    /\ s[t].cmd \in {"rd", "wr"}
    /\ s[t].op = "MakeReadUnique" => s[t].cmd = "rd"

ViewInv ==
  /\ mode \in Modes /\ got = [x \in Xs |-> got[x]] /\ rsp = [x \in Xs |-> rsp[x]]
  /\ todo = [x \in Xs |-> todo[x]]
  /\ NoAlarm
  /\ \A x \in Xs : View(x)

Alike(y) ==
  /\ pc'[y] = pc[y] /\ todo'[y] = todo[y] /\ wbeat'[y] = wbeat[y]
  /\ rbeat'[y] = rbeat[y] /\ rsp'[y] = rsp[y] /\ plan'[y] = plan[y]
  /\ got'[y] = got[y] /\ due'[y] = due[y] /\ Mail(y)' = Mail(y)
  /\ y \in busy' <=> y \in busy
  /\ y \in asked' <=> y \in asked
  /\ y \in Snps => kind'[y] = kind[y]

LEMMA BoxEntry ==
  ASSUME SlotInv, NEW x \in Xs, NEW e, NEW p, Box(x, e, p), HasEntry(x)
  PROVE  /\ Entry(x) = <<x, IF e # "none" THEN e ELSE p>>
         /\ e = "none" => p # "none"
<1>1. Mail(x) # << >> /\ Entry(x) = Head(Mail(x))
  BY MailType
<1>2. e = "none" => p # "none"
  BY <1>1 DEF Box
<1>3. CASE e = "none"
  BY <1>1, <1>2, <1>3 DEF Box
<1>4. CASE e # "none" /\ p = "none"
  BY <1>1, <1>4 DEF Box
<1>5. CASE e # "none" /\ p # "none"
  BY <1>1, <1>5 DEF Box
<1> QED
  BY <1>2, <1>3, <1>4, <1>5

LEMMA BoxPop ==
  ASSUME SlotInv, NEW x \in Xs, NEW e, NEW p, Box(x, e, p), HasEntry(x), Pop(x)
  PROVE  /\ e # "none" => Box(x, "none", p)'
         /\ e = "none" => Box(x, "none", "none")'
<1>1. Mail(x) # << >> /\ Mail(x)' = Tail(Mail(x))
  BY MailType, MailPop
<1>2. CASE e = "none"
  <2>1. Mail(x) = << <<x, p>> >>
    BY <1>1, <1>2 DEF Box
  <2> QED
    BY <1>1, <1>2, <2>1 DEF Box
<1>3. CASE e # "none" /\ p = "none"
  BY <1>1, <1>3 DEF Box
<1>4. CASE e # "none" /\ p # "none"
  <2>1. Mail(x) = << <<x, e>>, <<x, p>> >>
    BY <1>4 DEF Box
  <2>2. Tail(Mail(x)) = << <<x, p>> >>
    BY <2>1
  <2> QED
    BY <1>1, <1>4, <2>2 DEF Box
<1> QED
  BY <1>2, <1>3, <1>4

LEMMA BoxPhase ==
  ASSUME SlotInv, NEW x \in Xs, slot[x] # 0, NEW e, Box(x, e, "none"),
         NEW phase, NEW op, NEW n, BwPhase(x, phase, op, n), phase # "none"
  PROVE  /\ Box(x, e, phase)'
         /\ e = "none" => Box(x, phase, "none")'
<1>1. Mail(x)' = Append(Mail(x), <<x, phase>>)
  BY MailPhase
<1>2. CASE e = "none"
  <2>1. Mail(x)' = << <<x, phase>> >>
    BY <1>1, <1>2 DEF Box
  <2> QED
    BY <1>2, <2>1 DEF Box
<1>3. CASE e # "none"
  <2>1. Mail(x) = << <<x, e>> >>
    BY <1>3 DEF Box
  <2>2. ASSUME NEW a, NEW b
        PROVE  Append(<<a>>, b) = <<a, b>>
    BY SeqTwo, a \in {a, b}, b \in {a, b}
  <2>3. Mail(x)' = << <<x, e>>, <<x, phase>> >>
    BY <1>1, <2>1, <2>2
  <2> QED
    BY <1>3, <2>3 DEF Box
<1> QED
  BY <1>2, <1>3

\* x does something without a phase.
LEMMA PartsQuiet ==
  ASSUME NEW x \in Xs, NEW e, NEW p, NEW r, Parts(x, e, p, r),
         Await(x) = {}, Await(x)' = {}, Mail(x)' = Mail(x),
         plan'[x] = plan[x], due'[x] = due[x], x \in busy' <=> x \in busy,
         rsp'[x] = rsp[x] \/ r = << >>
  PROVE  Parts(x, e, p, r)' /\ e = "none"
<1>1. due[x] = << >> /\ e = "none"
  BY DEF Parts
<1>2. Box(x, e, p)'
  BY DEF Parts, Box
<1>3. p # "none" => r # << >>
  BY DEF Parts
<1> QED
  BY <1>1, <1>2, <1>3 DEF Parts

\* The END phase that x waits for is taken.
LEMMA PartsEnd ==
  ASSUME SlotInv, NEW x \in Xs, NEW e, NEW p, NEW r, Parts(x, e, p, r),
         HasEntry(x), Pop(x), Await(x) # {}, Await(x)' = {},
         plan'[x] = plan[x], due'[x] = due[x], x \in busy' <=> x \in busy,
         rsp'[x] = rsp[x]
  PROVE  /\ Entry(x) = <<x, e>> /\ e \in Await(x)
         /\ Parts(x, "none", p, r)'
<1>1. Mail(x) # << >>
  BY MailType
<1>2. due[x] = << >>
  BY <1>1 DEF Parts, Box
<1>3. e \in Await(x) /\ e # "none"
  <2>1. "none" \notin Await(x)
    BY DEF Await, EndData
  <2> QED
    BY <1>2, <2>1 DEF Parts
<1>4. Entry(x) = <<x, e>>
  BY <1>3, BoxEntry DEF Parts
<1>5. Box(x, "none", p)'
  BY <1>3, BoxPop DEF Parts
<1> QED
  BY <1>2, <1>3, <1>4, <1>5 DEF Parts

\* The next response or beat is taken and answered.
LEMMA PartsItem ==
  ASSUME SlotInv, NEW x \in Xs, NEW e, NEW p, NEW r, Parts(x, e, p, r),
         HasEntry(x), Pop(x), Await(x) = {}, Await(x)' = {},
         plan'[x] = plan[x], due'[x] = due[x], x \notin busy'
  PROVE  /\ r # << >> /\ x \in busy /\ Entry(x) = <<x, PhaseOf(Head(r))>>
         /\ Head(r) \notin BeatPhases => rsp[x] = Head(r)
         /\ Parts(x, "none", "none", Tail(r))'
<1>1. Mail(x) # << >>
  BY MailType
<1>2. due[x] = << >> /\ e = "none"
  BY DEF Parts
<1>3. p # "none" /\ Entry(x) = <<x, p>>
  BY <1>2, BoxEntry DEF Parts
<1>4. /\ r # << >> /\ x \in busy /\ p = PhaseOf(Head(r)) /\ plan[x] = Tail(r)
      /\ p = "BEGIN_RESP" => rsp[x] = Head(r)
  BY <1>3 DEF Parts
<1>5. Box(x, "none", "none")'
  BY <1>2, BoxPop DEF Parts
<1>6. Tail(r) \in Seq(PlanItems)
  BY <1>4 DEF Parts
<1>7. Parts(x, "none", "none", Tail(r))'
  BY <1>2, <1>4, <1>5, <1>6 DEF Parts
<1>8. Head(r) \notin BeatPhases => rsp[x] = Head(r)
  BY <1>4 DEF PhaseOf
<1> QED
  BY <1>3, <1>4, <1>7, <1>8

\* A BEGIN phase is answered at once, or later.
LEMMA PartsSend ==
  ASSUME PlanInv, NEW x \in Xs, NEW e, NEW p, NEW r, Parts(x, e, p, r),
         NEW phase, HN!AnswerLater(x, phase), Await(x) = {},
         IF mode.sync THEN Await(x)' = {} ELSE phase \in Await(x)',
         Mail(x)' = Mail(x), x \in busy' <=> x \in busy, rsp'[x] = rsp[x],
         NEW s \in Seq(PlanItems),
         \/ p = "none" /\ plan'[x] = s
         \/ mode.sync /\ plan'[x] = plan[x] /\ s = r
  PROVE  Parts(x, "none", p, s)'
<1>1. due[x] = << >> /\ e = "none"
  BY DEF Parts
<1>2. Box(x, "none", p)'
  BY <1>1 DEF Parts, Box
<1>3. CASE mode.sync
  BY <1>1, <1>2, <1>3 DEF Parts, HN!AnswerLater
<1>4. CASE ~mode.sync
  <2>1. due'[x] = <<phase>>
    BY <1>1, <1>4 DEF PlanInv, HN!AnswerLater
  <2>2. p = "none" /\ plan'[x] = s
    BY <1>4
  <2>3. due'[x] # << >>
    BY <2>1
  <2> QED
    BY <1>2, <1>4, <2>1, <2>2, <2>3 DEF Parts
<1> QED
  BY <1>3, <1>4

\* The END phase comes.
LEMMA PartsAnswer ==
  ASSUME SlotInv, PlanInv, NEW x \in Xs, NEW e, NEW p, NEW r, Parts(x, e, p, r),
         due[x] # << >>, NEW op, NEW n, BwPhase(x, Head(due[x]), op, n),
         slot[x] # 0, due' = [due EXCEPT ![x] = Tail(@)],
         UNCHANGED <<plan, busy>>, Await(x)' = Await(x)
  PROVE  \E d \in EndPhases : Parts(x, d, "none", r)' /\ p = "none"
<1>1. PICK d \in Await(x) : due[x] = <<d>>
  BY DEF Parts
<1>2. e = "none" /\ p = "none"
  BY DEF Parts
<1>3. d \in EndPhases /\ d # "none" /\ d # "BEGIN_RESP"
  BY <1>1 DEF Await, EndData, EndPhases
<1>4. Head(due[x]) = d /\ due'[x] = << >>
  BY <1>1 DEF PlanInv
<1>5. Box(x, d, "none")'
  BY <1>2, <1>3, <1>4, BoxPhase DEF Parts
<1>6. Parts(x, d, "none", r)'
  BY <1>1, <1>2, <1>3, <1>4, <1>5 DEF Parts
<1> QED
  BY <1>2, <1>3, <1>6

\* The next response or beat comes.
LEMMA PartsCome ==
  ASSUME SlotInv, PlanInv, NEW x \in Xs, NEW e, NEW p, NEW r, Parts(x, e, p, r),
         rsp = [y \in Xs |-> rsp[y]], plan[x] # << >>, x \notin busy,
         due[x] = << >>, slot[x] # 0, NEW n,
         BwPhase(x, PhaseOf(Head(plan[x])), Head(plan[x]), n),
         plan' = [plan EXCEPT ![x] = Tail(@)], x \in busy',
         due' = due, Await(x)' = Await(x)
  PROVE  /\ r = plan[x] /\ p = "none"
         /\ \E q : Parts(x, e, q, r)'
<1>1. p = "none" /\ r = plan[x]
  BY DEF Parts
<1>2. plan'[x] = Tail(r)
  BY <1>1 DEF PlanInv
<1>3. PICK q : q = PhaseOf(Head(r))
  OBVIOUS
<1>4. q \in Coming /\ q # "none"
  BY <1>3 DEF Coming, PhaseOf, BeatPhases
<1>5. Box(x, e, q)'
  BY <1>1, <1>3, <1>4, BoxPhase DEF Parts
<1>6. q = "BEGIN_RESP" => rsp'[x] = Head(r)
  BY <1>1, <1>3 DEF BwPhase
<1>7. Parts(x, e, q, r)'
  BY <1>1, <1>2, <1>3, <1>4, <1>5, <1>6 DEF Parts
<1> QED
  BY <1>1, <1>7

-----------------------------------------------------------------------------
(* What the home node plans.                                               *)

LEMMA TidyTail ==
  ASSUME NEW r \in Seq(PlanItems), r # << >>, NEW n \in Nat, NEW b \in Nat,
         Tidy(r, n, b)
  PROVE  /\ Tail(r) \in Seq(PlanItems)
         /\ Head(r) \notin BeatPhases => Tidy(Tail(r), n, b)
         /\ Head(r) \in BeatPhases =>
              /\ Tidy(Tail(r), n + 1, b) /\ n < b
              /\ \A i \in 1 .. Len(Tail(r)) : Tail(r)[i] \in BeatPhases
         /\ Head(r) = "BEGIN_DATA" => n + 1 = b /\ Tail(r) = << >>
         /\ \A i \in 1 .. Len(Tail(r)) :
              /\ i + 1 \in 1 .. Len(r) /\ Tail(r)[i] = r[i + 1]
              /\ Head(r) \notin BeatPhases => FlagOf(Tail(r)[i]) # FlagOf(Head(r))
<1>1. PICK s \in Seq(PlanItems) : s = Tail(r)
  <2>1. Tail(r) \in Seq(PlanItems)
    OBVIOUS
  <2> QED
    BY <2>1
<1>2. /\ Len(s) = Len(r) - 1 /\ Len(r) \in Nat \ {0} /\ Head(r) = r[1]
      /\ Len(s) \in Nat
      /\ \A i \in 1 .. Len(s) : /\ i + 1 \in 1 .. Len(r) /\ s[i] = r[i + 1]
                                /\ i \in 1 .. Len(r)
  BY <1>1
<1> DEFINE Known ==
      /\ \A i, j \in 1 .. Len(r) :
           i < j /\ r[i] \in BeatPhases => r[j] \in BeatPhases
      /\ \A i \in 1 .. Len(r) : r[i] = "BEGIN_DATA" => i = Len(r)
      /\ \A i, j \in 1 .. Len(r) :
           i < j /\ FlagOf(r[i]) = FlagOf(r[j]) => r[i] \in BeatPhases
      /\ \A i \in 1 .. Len(r) :
           r[i] \in BeatPhases /\ (i = 1 \/ r[i - 1] \notin BeatPhases)
             => n + (Len(r) - i) + 1 = b
<1>3. Known
  BY DEF Tidy
<1> HIDE DEF Known
<1>4. ASSUME NEW i \in 1 .. Len(s), NEW j \in 1 .. Len(s), i < j
      PROVE  /\ s[i] \in BeatPhases => s[j] \in BeatPhases
             /\ FlagOf(s[i]) = FlagOf(s[j]) => s[i] \in BeatPhases
  <2>1. /\ i + 1 \in 1 .. Len(r) /\ j + 1 \in 1 .. Len(r) /\ i + 1 < j + 1
        /\ s[i] = r[i + 1] /\ s[j] = r[j + 1]
    BY <1>2, <1>4
  <2> QED
    BY <2>1, <1>3 DEF Known
<1>5. \A i \in 1 .. Len(s) : s[i] = "BEGIN_DATA" => i = Len(s)
  <2>1. \A i \in 1 .. Len(s) : i + 1 = Len(r) => i = Len(s)
    BY <1>2
  <2> QED
    BY <2>1, <1>2, <1>3 DEF Known
<1>6. ASSUME r[1] \notin BeatPhases, NEW i \in 1 .. Len(s), s[i] \in BeatPhases,
             i = 1 \/ s[i - 1] \notin BeatPhases
      PROVE  n + (Len(s) - i) + 1 = b
  <2>1. r[i] \notin BeatPhases
    <3>1. CASE i = 1
      BY <3>1, <1>6
    <3>2. CASE i # 1
      <4>1. i - 1 \in 1 .. Len(s) /\ (i - 1) + 1 = i
        BY <3>2, <1>2
      <4> QED
        BY <3>2, <4>1, <1>2, <1>6
    <3> QED
      BY <3>1, <3>2
  <2>2. n + (Len(r) - (i + 1)) + 1 = b
    <3>1. i + 1 \in 1 .. Len(r) /\ (i + 1) - 1 = i /\ r[i + 1] \in BeatPhases
      BY <1>2, <1>6
    <3> QED
      BY <3>1, <2>1, <1>3 DEF Known
  <2> QED
    BY <2>2, <1>2
<1>7. ASSUME r[1] \in BeatPhases
      PROVE  /\ \A i \in 1 .. Len(s) : s[i] \in BeatPhases
             /\ n + Len(r) = b
  <2>1. n + (Len(r) - 1) + 1 = b
    <3>1. 1 \in 1 .. Len(r)
      BY <1>2
    <3> QED
      BY <3>1, <1>3, <1>7 DEF Known
  <2>2. \A i \in 1 .. Len(s) : 1 < i + 1 /\ 1 \in 1 .. Len(r)
    BY <1>2
  <2> QED
    <3>1. n + Len(r) = b
      BY <2>1, <1>2
    <3>2. ASSUME NEW i \in 1 .. Len(s)
          PROVE  s[i] \in BeatPhases
      BY <2>2, <1>2, <1>3, <1>7 DEF Known
    <3> QED
      BY <3>1, <3>2
<1>8. ASSUME r[1] \in BeatPhases, NEW i \in 1 .. Len(s), s[i] \in BeatPhases,
             i = 1 \/ s[i - 1] \notin BeatPhases
      PROVE  (n + 1) + (Len(s) - i) + 1 = b
  <2>1. i = 1
    <3>1. i # 1 => i - 1 \in 1 .. Len(s)
      BY <1>2
    <3> QED
      BY <3>1, <1>7, <1>8
  <2> QED
    <3>1. n + Len(r) = b /\ Len(s) = Len(r) - 1
      BY <1>2, <1>7, <1>8
    <3>2. Len(r) \in Int
      BY <1>2
    <3> QED
      BY <2>1, <3>1, <3>2
<1>9. Head(r) \notin BeatPhases => Tidy(s, n, b)
  BY <1>2, <1>4, <1>5, <1>6 DEF Tidy
<1>10. Head(r) \in BeatPhases => Tidy(s, n + 1, b) /\ n < b
  BY <1>2, <1>4, <1>5, <1>7, <1>8 DEF Tidy
<1>11. Head(r) = "BEGIN_DATA" => n + 1 = b /\ s = << >>
  <2>1. Head(r) = "BEGIN_DATA" => Len(r) = 1 /\ r[1] \in BeatPhases
    BY <1>2, <1>3 DEF BeatPhases, Known
  <2>2. Len(s) = 0 => s = << >>
    OBVIOUS
  <2> QED
    BY <2>1, <2>2, <1>2, <1>7
<1>12. \A i \in 1 .. Len(s) :
         Head(r) \notin BeatPhases => FlagOf(s[i]) # FlagOf(Head(r))
  <2>1. \A i \in 1 .. Len(s) : 1 < i + 1 /\ 1 \in 1 .. Len(r)
    BY <1>2
  <2> QED
    BY <2>1, <1>2, <1>3 DEF Known
<1> QED
  BY <1>1, <1>2, <1>7, <1>9, <1>10, <1>11, <1>12

LEMMA OneKindTail ==
  ASSUME NEW r \in Seq(PlanItems), r # << >>, NEW q, OneKind(r, q), NEW n \in Nat,
         NEW b \in Nat, Tidy(r, n, b)
  PROVE  /\ OneKind(Tail(r), q)
         /\ Head(r) \in DbidItems =>
              \A i \in 1 .. Len(Tail(r)) : Tail(r)[i] \notin DbidItems
<1>1. PICK s \in Seq(PlanItems) : s = Tail(r)
  <2>1. Tail(r) \in Seq(PlanItems)
    OBVIOUS
  <2> QED
    BY <2>1
<1>2. /\ Len(s) = Len(r) - 1 /\ Len(r) \in Nat \ {0} /\ Head(r) = r[1]
      /\ s # << >> => Len(s) > 0 /\ Head(s) = s[1] /\ 1 \in 1 .. Len(s)
      /\ \A i \in 1 .. Len(s) : /\ i + 1 \in 1 .. Len(r) /\ s[i] = r[i + 1]
                                /\ i + 1 # 1 /\ 1 \in 1 .. Len(r)
  BY <1>1
<1>3. \A i, j \in 1 .. Len(s) : s[i] \in DbidItems /\ s[j] \in DbidItems => i = j
  <2>1. \A i, j \in 1 .. Len(s) : i + 1 = j + 1 => i = j
    OBVIOUS
  <2> QED
    BY <1>2, <2>1 DEF OneKind
<1>4. q.op = "MakeReadUnique" /\ s # << >> => Head(s) \in BeatPhases
  <2>1. Head(r) \in BeatPhases /\ s # << >> => s[1] \in BeatPhases
    BY <1>1, <1>2, TidyTail
  <2>2. q.op = "MakeReadUnique" /\ Head(r) \notin BeatPhases => s = << >>
    BY <1>2 DEF OneKind
  <2> QED
    BY <1>2, <2>1, <2>2
<1>5. Head(r) \in DbidItems => \A i \in 1 .. Len(s) : s[i] \notin DbidItems
  BY <1>2 DEF OneKind
<1> QED
  BY <1>1, <1>3, <1>4, <1>5 DEF OneKind

LEMMA BeatsPlanned ==
  ASSUME NEW n \in Nat \ {0}
  PROVE  HN!Beats(n) \in Seq(PlanItems)
<1> DEFINE b == HN!Beats(n)
<1>1. b \in Seq(BeatPhases)
  BY BeatsType
<1> HIDE DEF b
<1>2. b \in Seq(PlanItems)
  BY <1>1 DEF PlanItems
<1> QED
  BY <1>2 DEF b

LEMMA BeatsTidy ==
  ASSUME NEW n \in Nat \ {0}
  PROVE  /\ Tidy(HN!Beats(n), 0, n) /\ HN!Beats(n) # << >>
         /\ HN!Beats(n) \in Seq(PlanItems)
         /\ Head(HN!Beats(n)) \in BeatPhases
<1>1. PICK b \in Seq(PlanItems) : b = HN!Beats(n)
  BY BeatsPlanned
<1>2. /\ Len(b) = n
      /\ \A i \in 1 .. n : b[i] = IF i = n THEN "BEGIN_DATA"
                                  ELSE "BEGIN_PARTIAL_DATA"
  BY <1>1 DEF HN!Beats
<1>3. \A i \in 1 .. n : b[i] \in BeatPhases
  BY <1>2 DEF BeatPhases
<1>4. \A i \in 1 .. n : b[i] = "BEGIN_DATA" => i = n
  BY <1>2
<1>5. Tidy(b, 0, n)
  <2>1. \A i \in 1 .. n : i # 1 => i - 1 \in 1 .. n
    OBVIOUS
  <2> QED
    BY <1>2, <1>3, <1>4, <2>1 DEF Tidy
<1> QED
  BY <1>1, <1>2, <1>3, <1>5

\* A response ahead of beats.
LEMMA ThenBeats ==
  ASSUME NEW n \in Nat \ {0}, NEW a \in PlanItems, a \notin BeatPhases,
         FlagOf(a) # "DATA"
  PROVE  /\ Tidy(<<a>> \o HN!Beats(n), 0, n)
         /\ <<a>> \o HN!Beats(n) \in Seq(PlanItems)
         /\ Head(<<a>> \o HN!Beats(n)) = a
         /\ Tail(<<a>> \o HN!Beats(n)) = HN!Beats(n)
<1>1. PICK b \in Seq(PlanItems) : b = HN!Beats(n)
  BY BeatsPlanned
<1>2. /\ Len(b) = n
      /\ \A i \in 1 .. n : b[i] = IF i = n THEN "BEGIN_DATA"
                                  ELSE "BEGIN_PARTIAL_DATA"
  BY <1>1 DEF HN!Beats
<1>3. PICK r \in Seq(PlanItems) : r = <<a>> \o b
  <2>1. <<a>> \in Seq(PlanItems)
    OBVIOUS
  <2>2. \A s, u \in Seq(PlanItems) : s \o u \in Seq(PlanItems)
    OBVIOUS
  <2> QED
    BY <2>1, <2>2
<1>4. /\ Len(r) = n + 1 /\ r[1] = a /\ Head(r) = a /\ Tail(r) = b
      /\ \A i \in 2 .. n + 1 : r[i] = b[i - 1] /\ i - 1 \in 1 .. n
  BY <1>2, <1>3
<1>5. \A i \in 2 .. n + 1 : /\ r[i] \in BeatPhases /\ FlagOf(r[i]) = "DATA"
                            /\ r[i] = "BEGIN_DATA" => i = n + 1
  BY <1>2, <1>4 DEF BeatPhases, FlagOf
<1>6. \A i \in 1 .. n + 1 : i = 1 \/ i \in 2 .. n + 1
  OBVIOUS
<1>7. \A i \in 1 .. n + 1 : r[i] \in BeatPhases => i # 1 /\ FlagOf(r[i]) = "DATA"
  BY <1>4, <1>5, <1>6
<1>8. Tidy(r, 0, n)
  <2>1. /\ \A i, j \in 1 .. n + 1 :
             i < j /\ r[i] \in BeatPhases => r[j] \in BeatPhases
        /\ \A i \in 1 .. n + 1 : r[i] = "BEGIN_DATA" => i = n + 1
    BY <1>4, <1>5, <1>6 DEF BeatPhases
  <2>2. \A i, j \in 1 .. n + 1 :
          i < j /\ FlagOf(r[i]) = FlagOf(r[j]) => r[i] \in BeatPhases
    BY <1>4, <1>5, <1>6
  <2>3. ASSUME NEW i \in 1 .. n + 1, r[i] \in BeatPhases,
               i = 1 \/ r[i - 1] \notin BeatPhases
        PROVE  0 + ((n + 1) - i) + 1 = n
    <3>1. i # 1 /\ r[i - 1] \notin BeatPhases
      BY <1>7, <2>3
    <3>2. i - 1 \in 1 .. n + 1
      BY <3>1
    <3>3. i - 1 = 1
      BY <3>1, <3>2, <1>5, <1>6
    <3> QED
      BY <3>3
  <2> QED
    BY <1>4, <2>1, <2>2, <2>3 DEF Tidy
<1> QED
  BY <1>1, <1>3, <1>4, <1>8

\* The home node has a copy of the messages' operators.
LEMMA SameMessages ==
  /\ HN!ReturningAtomics = ReturningAtomics
  /\ \A op, a : HN!IsDataless(op, a) <=> IsDataless(op, a)
  /\ \A op : HN!ExpectCompCMO(op) <=> ExpectCompCMO(op)
  /\ \A op : HN!ExpectPersist(op) <=> ExpectPersist(op)
  /\ HN!NoResponse = NoResponse
<1>1. HN!ReturningAtomics = ReturningAtomics
  BY DEF HN!ReturningAtomics, ReturningAtomics, HN!AtomicLoads, AtomicLoads
<1>2. \A op, a : HN!IsDataless(op, a) <=> IsDataless(op, a)
  BY DEF HN!IsDataless, IsDataless, HN!Stashes, Stashes
<1>3. \A op : HN!ExpectPersist(op) <=> ExpectPersist(op)
  BY DEF HN!ExpectPersist, ExpectPersist, HN!WithPersist, WithPersist
<1>4. \A op : HN!ExpectCompCMO(op) <=> ExpectCompCMO(op)
  BY DEF HN!ExpectCompCMO, ExpectCompCMO, HN!WithPersist, WithPersist,
     HN!WithCleanSh, WithCleanSh, HN!WithCleanInv, WithCleanInv
<1> QED
  BY <1>1, <1>2, <1>3, <1>4 DEF HN!NoResponse, NoResponse

\* The kinds of plans.
LEMMA PlanCases ==
  ASSUME NEW r, NEW p \in HN!Plans(r)
  PROVE  \/ /\ r.op \in ReturningAtomics
            /\ p = <<"CompDBIDResp">> \o HN!Beats(r.beats)
         \/ /\ r.op = "CleanSharedPersistSep"
            /\ p \in {<<"Comp", "Persist">>, <<"Persist", "Comp">>}
         \/ /\ IsDataless(r.op, NoResponse) /\ r.op \notin ReturningAtomics
            /\ p \in {<<"Comp">>, <<"CompDBIDResp">>}
         \/ /\ r.op = "MakeReadUnique"
            /\ p \in {<<"Comp">>, HN!Beats(r.beats)}
         \/ /\ ~IsDataless(r.op, NoResponse) /\ r.op # "MakeReadUnique"
            /\ r.op \notin ReturningAtomics /\ r.cmd = "rd"
            /\ \/ p = HN!Beats(r.beats)
               \/ p = <<"ReadReceipt">> \o HN!Beats(r.beats)
               \/ p = <<"RespSepData">> \o HN!Beats(r.beats)
         \/ /\ ~IsDataless(r.op, NoResponse) /\ r.op # "MakeReadUnique"
            /\ r.op \notin ReturningAtomics /\ r.cmd # "rd"
            /\ \E q \in {<<"CompDBIDResp">>, <<"DBIDResp", "Comp">>,
                         <<"Comp", "DBIDResp">>} : p = q \o HN!After(r.op)
<1> DEFINE b == HN!Beats(r.beats)
           a == HN!After(r.op)
           Q == {<<"ReadReceipt">>, <<"RespSepData">>} \union
                  IF HN!IsRequestOrder(r.op, r.order) THEN {} ELSE {<< >>}
           W == {<<"CompDBIDResp">>, <<"DBIDResp", "Comp">>,
                 <<"Comp", "DBIDResp">>}
<1>1. HN!Plans(r) =
        IF r.op \in ReturningAtomics THEN {<<"CompDBIDResp">> \o b}
        ELSE IF r.op = "CleanSharedPersistSep"
          THEN {<<"Comp", "Persist">>, <<"Persist", "Comp">>}
        ELSE IF r.op \in {"WriteNoSnpZero", "WriteUniqueZero"}
          THEN {<<"CompDBIDResp">>}
        ELSE IF IsDataless(r.op, NoResponse) THEN {<<"Comp">>}
        ELSE IF r.op = "MakeReadUnique" THEN {<<"Comp">>, b}
        ELSE IF r.cmd = "rd" THEN {q \o b : q \in Q}
        ELSE {q \o a : q \in W}
  BY SameMessages, Zenon DEF HN!Plans
<1>2. /\ r.op \in {"WriteNoSnpZero", "WriteUniqueZero"}
           => IsDataless(r.op, NoResponse)
      /\ r.op = "MakeReadUnique" => ~IsDataless(r.op, NoResponse)
  BY DEF IsDataless, NoResponse, Stashes
<1>3. \A q \in Q : q = << >> \/ q = <<"ReadReceipt">> \/ q = <<"RespSepData">>
  OBVIOUS
<1>4. << >> \o b = b
  BY DEF HN!Beats
<1> HIDE DEF b, a, Q, W
<1>5. CASE r.op \in ReturningAtomics
  BY <1>1, <1>5 DEF b
<1>6. CASE /\ r.op \notin ReturningAtomics
           /\ ~IsDataless(r.op, NoResponse) /\ r.op # "CleanSharedPersistSep"
           /\ r.op # "MakeReadUnique"
  <2>1. CASE r.cmd = "rd"
    <3>1. HN!Plans(r) = {q \o b : q \in Q}
      BY <1>1, <1>2, <1>6, <2>1
    <3>2. PICK q \in Q : p = q \o b
      BY <3>1
    <3> QED
      BY <3>2, <1>3, <1>4, <1>6, <2>1 DEF b
  <2>2. CASE r.cmd # "rd"
    <3>1. HN!Plans(r) = {q \o a : q \in W}
      BY <1>1, <1>2, <1>6, <2>2
    <3>2. \E q \in W : p = q \o a
      BY <3>1
    <3> QED
      BY <3>2, <1>6, <2>2 DEF a, W
  <2> QED
    BY <2>1, <2>2
<1>7. CASE /\ r.op \notin ReturningAtomics
           /\ \/ IsDataless(r.op, NoResponse) \/ r.op = "CleanSharedPersistSep"
              \/ r.op = "MakeReadUnique"
  BY <1>1, <1>2, <1>7 DEF b
<1> QED
  BY <1>5, <1>6, <1>7

\* Responses without beats, each of which settles something else.
LEMMA TidyPlain ==
  ASSUME NEW r \in Seq(PlanItems), NEW n, NEW b,
         \A i \in 1 .. Len(r) : r[i] \notin BeatPhases,
         \A i, j \in 1 .. Len(r) : FlagOf(r[i]) = FlagOf(r[j]) => i = j
  PROVE  Tidy(r, n, b)
<1>1. \A i \in 1 .. Len(r) : r[i] # "BEGIN_DATA"
  BY DEF BeatPhases
<1>2. \A i, j \in 1 .. Len(r) : i < j => i # j
  OBVIOUS
<1> QED
  BY <1>1, <1>2 DEF Tidy

\* Responses q, then those of the maintenance operations.
LEMMA PlanJoin ==
  ASSUME NEW op, NEW q \in Seq(PlanItems), NEW a \in Seq(PlanItems),
         \A i \in 1 .. Len(q) : q[i] \in {"CompDBIDResp", "DBIDResp", "Comp"},
         \A i, j \in 1 .. Len(q) :
           \/ i = j
           \/ /\ FlagOf(q[i]) # FlagOf(q[j])
              /\ q[i] \notin DbidItems \/ q[j] \notin DbidItems,
         \A i \in 1 .. Len(a) :
           \/ a[i] = "CompCMO" /\ ExpectCompCMO(op)
           \/ a[i] = "Persist" /\ ExpectPersist(op),
         \A i, j \in 1 .. Len(a) : i = j \/ a[i] # a[j]
  PROVE  /\ q \o a \in Seq(PlanItems)
         /\ \A i \in 1 .. Len(q \o a) :
              /\ (q \o a)[i] \in {"CompDBIDResp", "DBIDResp", "Comp", "CompCMO",
                                  "Persist"}
              /\ (q \o a)[i] = "CompCMO" => ExpectCompCMO(op)
              /\ (q \o a)[i] = "Persist" => ExpectPersist(op)
         /\ \A i, j \in 1 .. Len(q \o a) :
              \/ i = j
              \/ /\ FlagOf((q \o a)[i]) # FlagOf((q \o a)[j])
                 /\ \/ (q \o a)[i] \notin DbidItems
                    \/ (q \o a)[j] \notin DbidItems
<1>1. PICK m \in Nat, k \in Nat, r \in Seq(PlanItems) :
         m = Len(q) /\ k = Len(a) /\ r = q \o a
  <2>1. q \o a \in Seq(PlanItems) /\ Len(q) \in Nat /\ Len(a) \in Nat
    OBVIOUS
  <2> QED
    BY <2>1
<1>2. /\ Len(r) = m + k
      /\ \A i \in 1 .. m : r[i] = q[i]
      /\ \A i \in m + 1 .. m + k : r[i] = a[i - m]
  BY <1>1
<1>3. /\ \A i \in 1 .. m + k : i \in 1 .. m \/ i \in m + 1 .. m + k
      /\ \A i \in m + 1 .. m + k : i - m \in 1 .. k
      /\ \A i, j \in m + 1 .. m + k : i # j => i - m # j - m
  OBVIOUS
<1>4. ASSUME NEW i \in 1 .. m
      PROVE  /\ FlagOf(r[i]) \notin {"COMPCMO", "PERSIST"}
             /\ r[i] \in {"CompDBIDResp", "DBIDResp", "Comp"}
  <2>1. r[i] \in {"CompDBIDResp", "DBIDResp", "Comp"}
    BY <1>1, <1>2
  <2> QED
    BY <2>1 DEF FlagOf, BeatPhases
<1>5. ASSUME NEW i \in m + 1 .. m + k
      PROVE  /\ FlagOf(r[i]) = IF r[i] = "CompCMO" THEN "COMPCMO" ELSE "PERSIST"
             /\ r[i] \notin DbidItems
             /\ \/ r[i] = "CompCMO" /\ ExpectCompCMO(op)
                \/ r[i] = "Persist" /\ ExpectPersist(op)
  <2>1. \/ r[i] = "CompCMO" /\ ExpectCompCMO(op)
        \/ r[i] = "Persist" /\ ExpectPersist(op)
    BY <1>1, <1>2, <1>3
  <2> QED
    BY <2>1 DEF FlagOf, BeatPhases, DbidItems
<1>6. \A i \in 1 .. m + k :
        /\ r[i] \in {"CompDBIDResp", "DBIDResp", "Comp", "CompCMO", "Persist"}
        /\ r[i] = "CompCMO" => ExpectCompCMO(op)
        /\ r[i] = "Persist" => ExpectPersist(op)
  BY <1>3, <1>4, <1>5
<1>7. ASSUME NEW i \in 1 .. m + k, NEW j \in 1 .. m + k, i # j
      PROVE  /\ FlagOf(r[i]) # FlagOf(r[j])
             /\ r[i] \notin DbidItems \/ r[j] \notin DbidItems
  <2>1. CASE i \in 1 .. m /\ j \in 1 .. m
    BY <2>1, <1>1, <1>2, <1>7
  <2>2. CASE i \in m + 1 .. m + k /\ j \in m + 1 .. m + k
    <3>1. r[i] # r[j]
      BY <2>2, <1>1, <1>2, <1>3, <1>7
    <3> QED
      BY <2>2, <3>1, <1>5
  <2>3. CASE \/ i \in 1 .. m /\ j \in m + 1 .. m + k
             \/ j \in 1 .. m /\ i \in m + 1 .. m + k
    <3>1. CASE i \in 1 .. m /\ j \in m + 1 .. m + k
      BY <3>1, <1>4, <1>5
    <3>2. CASE j \in 1 .. m /\ i \in m + 1 .. m + k
      BY <3>2, <1>4, <1>5
    <3> QED
      BY <2>3, <3>1, <3>2
  <2> QED
    BY <2>1, <2>2, <2>3, <1>3
<1> QED
  BY <1>1, <1>2, <1>6, <1>7

LEMMA WritePlan ==
  ASSUME NEW op, NEW r,
         \E q \in {<<"CompDBIDResp">>, <<"DBIDResp", "Comp">>,
                   <<"Comp", "DBIDResp">>} : r = q \o HN!After(op)
  PROVE  /\ r \in Seq(PlanItems)
         /\ \A i \in 1 .. Len(r) :
              /\ r[i] \in {"CompDBIDResp", "DBIDResp", "Comp", "CompCMO",
                           "Persist"}
              /\ r[i] = "CompCMO" => ExpectCompCMO(op)
              /\ r[i] = "Persist" => ExpectPersist(op)
         /\ \A i, j \in 1 .. Len(r) :
              \/ i = j
              \/ /\ FlagOf(r[i]) # FlagOf(r[j])
                 /\ r[i] \notin DbidItems \/ r[j] \notin DbidItems
<1> DEFINE a == HN!After(op)
<1>1. PICK q \in {<<"CompDBIDResp">>, <<"DBIDResp", "Comp">>,
                  <<"Comp", "DBIDResp">>} : r = q \o a
  OBVIOUS
<1>2. /\ q \in Seq(PlanItems)
      /\ \A i \in 1 .. Len(q) : q[i] \in {"CompDBIDResp", "DBIDResp", "Comp"}
      /\ \A i, j \in 1 .. Len(q) :
           \/ i = j
           \/ /\ FlagOf(q[i]) # FlagOf(q[j])
              /\ q[i] \notin DbidItems \/ q[j] \notin DbidItems
  <2>1. CASE q = <<"CompDBIDResp">>
    BY <2>1 DEF PlanItems
  <2>2. CASE q = <<"DBIDResp", "Comp">>
    BY <2>2 DEF PlanItems, FlagOf, BeatPhases, DbidItems
  <2>3. CASE q = <<"Comp", "DBIDResp">>
    BY <2>3 DEF PlanItems, FlagOf, BeatPhases, DbidItems
  <2> QED
    BY <2>1, <2>2, <2>3
<1>3. /\ a \in Seq(PlanItems)
      /\ \A i \in 1 .. Len(a) :
           \/ a[i] = "CompCMO" /\ ExpectCompCMO(op)
           \/ a[i] = "Persist" /\ ExpectPersist(op)
      /\ \A i, j \in 1 .. Len(a) : i = j \/ a[i] # a[j]
  <2> DEFINE u == IF ExpectCompCMO(op) THEN <<"CompCMO">> ELSE << >>
             v == IF ExpectPersist(op) THEN <<"Persist">> ELSE << >>
  <2>1. a = u \o v
    BY SameMessages DEF HN!After
  <2>2. /\ u \in Seq(PlanItems) /\ Len(u) \in 0 .. 1
        /\ Len(u) = 1 => u[1] = "CompCMO" /\ ExpectCompCMO(op)
    <3>1. CASE ExpectCompCMO(op)
      <4>1. u = <<"CompCMO">> /\ "CompCMO" \in PlanItems
        BY <3>1 DEF PlanItems
      <4> HIDE DEF u
      <4> QED
        BY <3>1, <4>1
    <3>2. CASE ~ExpectCompCMO(op)
      <4>1. u = << >>
        BY <3>2
      <4> HIDE DEF u
      <4> QED
        BY <4>1
    <3> QED
      BY <3>1, <3>2
  <2>3. /\ v \in Seq(PlanItems) /\ Len(v) \in 0 .. 1
        /\ Len(v) = 1 => v[1] = "Persist" /\ ExpectPersist(op)
    <3>1. CASE ExpectPersist(op)
      <4>1. v = <<"Persist">> /\ "Persist" \in PlanItems
        BY <3>1 DEF PlanItems
      <4> HIDE DEF v
      <4> QED
        BY <3>1, <4>1
    <3>2. CASE ~ExpectPersist(op)
      <4>1. v = << >>
        BY <3>2
      <4> HIDE DEF v
      <4> QED
        BY <4>1
    <3> QED
      BY <3>1, <3>2
  <2> HIDE DEF u, v, a
  <2>4. /\ a \in Seq(PlanItems) /\ Len(a) = Len(u) + Len(v)
        /\ \A i \in 1 .. Len(u) : a[i] = u[i]
        /\ \A i \in Len(u) + 1 .. Len(u) + Len(v) : a[i] = v[i - Len(u)]
    BY <2>1, <2>2, <2>3
  <2>5. \A i \in 1 .. Len(a) :
          \/ i = 1 /\ Len(u) = 1
          \/ i = Len(u) + 1 /\ Len(v) = 1
    <3>1. \A m, n \in 0 .. 1 : \A i \in 1 .. m + n :
            \/ i = 1 /\ m = 1
            \/ i = m + 1 /\ n = 1
      OBVIOUS
    <3> QED
      BY <3>1, <2>2, <2>3, <2>4
  <2>6. \A i \in 1 .. Len(a) :
          \/ i = 1 /\ Len(u) = 1 /\ a[i] = "CompCMO" /\ ExpectCompCMO(op)
          \/ i = Len(u) + 1 /\ a[i] = "Persist" /\ ExpectPersist(op)
    BY <2>2, <2>3, <2>4, <2>5
  <2> QED
    BY <2>4, <2>6
<1> HIDE DEF a
<1>4. /\ q \o a \in Seq(PlanItems)
      /\ \A i \in 1 .. Len(q \o a) :
           /\ (q \o a)[i] \in {"CompDBIDResp", "DBIDResp", "Comp", "CompCMO",
                               "Persist"}
           /\ (q \o a)[i] = "CompCMO" => ExpectCompCMO(op)
           /\ (q \o a)[i] = "Persist" => ExpectPersist(op)
      /\ \A i, j \in 1 .. Len(q \o a) :
           \/ i = j
           \/ /\ FlagOf((q \o a)[i]) # FlagOf((q \o a)[j])
              /\ \/ (q \o a)[i] \notin DbidItems
                 \/ (q \o a)[j] \notin DbidItems
  <2>1. /\ q \in Seq(PlanItems) /\ a \in Seq(PlanItems)
        /\ \A i \in 1 .. Len(q) : q[i] \in {"CompDBIDResp", "DBIDResp", "Comp"}
        /\ \A i, j \in 1 .. Len(q) :
             \/ i = j
             \/ /\ FlagOf(q[i]) # FlagOf(q[j])
                /\ q[i] \notin DbidItems \/ q[j] \notin DbidItems
        /\ \A i \in 1 .. Len(a) :
             \/ a[i] = "CompCMO" /\ ExpectCompCMO(op)
             \/ a[i] = "Persist" /\ ExpectPersist(op)
        /\ \A i, j \in 1 .. Len(a) : i = j \/ a[i] # a[j]
    BY <1>2, <1>3
  <2> HIDE <1>1, <1>2, <1>3
  <2> QED
    BY <2>1, PlanJoin, Zenon
<1>5. r = q \o a
  BY <1>1
<1> QED
  BY <1>4, <1>5, Zenon

LEMMA PlanFits ==
  ASSUME PcInv, NEW t \in Reqs \intersect DOMAIN req, ~Returning(t),
         NEW r \in HN!Plans(req[t]), rsp[t] = NoResponse \/ Head(r) = rsp[t]
  PROVE  /\ r \in Seq(PlanItems) /\ Tidy(r, 0, req[t].beats)
         /\ OneKind(r, req[t])
         /\ \A i \in 1 .. Len(r) :
              FlagOf(r[i]) \in FirstTodo(t) /\ r[i] \in Fitting(req[t])
<1> DEFINE b == HN!Beats(req[t].beats)
<1>1. /\ req[t].beats \in Nat \ {0} /\ req[t].op \notin ReturningAtomics
      /\ Op(t) = req[t].op
  BY ChiAssumption DEF PcInv, ChiAssumption, Returning, Op
<1>2. FirstTodo(t) = {"CTRL"} \union (IF Dataless(t) THEN {} ELSE {"DATA"})
         \union (IF ExpectCompCMO(Op(t)) THEN {"COMPCMO"} ELSE {})
         \union (IF ExpectPersist(Op(t)) THEN {"PERSIST"} ELSE {})
  BY DEF FirstTodo
<1>3. CASE /\ req[t].op = "CleanSharedPersistSep"
           /\ r \in {<<"Comp", "Persist">>, <<"Persist", "Comp">>}
  <2>1. /\ r \in Seq(PlanItems) /\ Len(r) = 2
        /\ \/ r[1] = "Comp" /\ r[2] = "Persist"
           \/ r[1] = "Persist" /\ r[2] = "Comp"
    <3>1. CASE r = <<"Comp", "Persist">>
      BY <3>1 DEF PlanItems
    <3>2. CASE r = <<"Persist", "Comp">>
      BY <3>2 DEF PlanItems
    <3> QED
      BY <3>1, <3>2, <1>3
  <2>2. IsDataless(req[t].op, NoResponse) /\ ExpectPersist(Op(t))
    BY <1>1, <1>3 DEF IsDataless, ExpectPersist
  <2>3. \A i \in 1 .. 2 : i = 1 \/ i = 2
    OBVIOUS
  <2>4. FlagOf("Comp") = "CTRL" /\ FlagOf("Persist") = "PERSIST"
    BY DEF FlagOf, BeatPhases
  <2>5. Tidy(r, 0, req[t].beats)
    BY <2>1, <2>3, <2>4, TidyPlain DEF BeatPhases
  <2>6. OneKind(r, req[t])
    BY <2>1, <2>3, <1>3 DEF OneKind, DbidItems
  <2> QED
    BY <2>1, <2>2, <2>3, <2>4, <2>5, <2>6, <1>2 DEF Fitting
<1>4. CASE /\ IsDataless(req[t].op, NoResponse) \/ req[t].op = "MakeReadUnique"
           /\ r \in {<<"Comp">>, <<"CompDBIDResp">>}
           /\ req[t].op = "MakeReadUnique" => r = <<"Comp">>
  <2>1. /\ r \in Seq(PlanItems) /\ Len(r) = 1
        /\ \/ r[1] = "Comp"
           \/ r[1] = "CompDBIDResp" /\ req[t].op # "MakeReadUnique"
    <3>1. CASE r = <<"Comp">>
      BY <3>1 DEF PlanItems
    <3>2. CASE r = <<"CompDBIDResp">> /\ req[t].op # "MakeReadUnique"
      BY <3>2 DEF PlanItems
    <3>3. <<"Comp">>[1] = "Comp" /\ <<"CompDBIDResp">>[1] = "CompDBIDResp"
      OBVIOUS
    <3> QED
      BY <3>1, <3>2, <3>3, <1>4
  <2>2. \A i \in 1 .. 1 : i = 1
    OBVIOUS
  <2>3. FlagOf("Comp") = "CTRL" /\ FlagOf("CompDBIDResp") = "CTRL"
    BY DEF FlagOf, BeatPhases
  <2>4. Tidy(r, 0, req[t].beats)
    BY <2>1, <2>2, <2>3, TidyPlain DEF BeatPhases
  <2>5. OneKind(r, req[t])
    BY <2>1, <2>2 DEF OneKind
  <2> QED
    BY <2>1, <2>2, <2>3, <2>4, <2>5, <1>2, <1>4 DEF Fitting
<1>5. CASE /\ ~IsDataless(req[t].op, NoResponse)
           /\ req[t].op = "MakeReadUnique" \/ req[t].cmd = "rd"
           /\ r = b
  <2>1. /\ Tidy(r, 0, req[t].beats) /\ r \in Seq(PlanItems)
        /\ Head(r) \in BeatPhases
        /\ \A i \in 1 .. Len(r) : r[i] \in BeatPhases
    BY <1>1, <1>5, BeatsTidy, BeatsType
  <2>2. \A i \in 1 .. Len(r) : FlagOf(r[i]) = "DATA" /\ r[i] \notin DbidItems
    BY <2>1 DEF FlagOf, DbidItems, BeatPhases
  <2>3. ~Dataless(t)
    <3>1. rsp[t] \in BeatPhases \union {NoResponse}
      BY <2>1
    <3> QED
      BY <3>1, <1>1, <1>5 DEF Dataless, IsDataless, BeatPhases, NoResponse
  <2>4. OneKind(r, req[t])
    BY <2>1, <2>2 DEF OneKind
  <2> QED
    BY <2>1, <2>2, <2>3, <2>4, <1>2, <1>5 DEF Fitting
<1>6. CASE /\ ~IsDataless(req[t].op, NoResponse) /\ req[t].op # "MakeReadUnique"
           /\ req[t].cmd = "rd"
           /\ r = <<"ReadReceipt">> \o b \/ r = <<"RespSepData">> \o b
  <2>1. PICK a \in {"ReadReceipt", "RespSepData"} : r = <<a>> \o b
    BY <1>6
  <2>2. a \in PlanItems /\ a \notin BeatPhases /\ FlagOf(a) = "CTRL"
    BY <2>1 DEF PlanItems, BeatPhases, FlagOf
  <2>3. Tidy(r, 0, req[t].beats) /\ r \in Seq(PlanItems)
    BY <1>1, <2>1, <2>2, ThenBeats
  <2>4. \A i \in 1 .. Len(r) : r[i] = a \/ r[i] \in BeatPhases
    <3>1. /\ b \in Seq(BeatPhases) /\ Len(b) = req[t].beats
          /\ \A i \in 1 .. req[t].beats : b[i] \in BeatPhases
      BY <1>1, BeatsType
    <3> HIDE DEF b
    <3>2. /\ Len(r) = 1 + Len(b) /\ r[1] = a
          /\ \A i \in 2 .. Len(r) : r[i] = b[i - 1] /\ i - 1 \in 1 .. Len(b)
      BY <3>1, <2>1
    <3>3. \A i \in 1 .. Len(r) : i = 1 \/ i \in 2 .. Len(r)
      BY <3>2, <3>1, <1>1
    <3> QED
      BY <3>1, <3>2, <3>3
  <2>5. \A i \in 1 .. Len(r) :
          FlagOf(r[i]) \in {"CTRL", "DATA"} /\ r[i] \notin DbidItems
    BY <2>1, <2>2, <2>4 DEF FlagOf, DbidItems, BeatPhases
  <2>6. ~Dataless(t)
    BY <1>1, <1>6 DEF Dataless, IsDataless
  <2>7. OneKind(r, req[t])
    BY <2>5, <1>6 DEF OneKind
  <2> QED
    BY <2>1, <2>3, <2>4, <2>5, <2>6, <2>7, <1>2, <1>6 DEF Fitting
<1>7. CASE /\ ~IsDataless(req[t].op, NoResponse) /\ req[t].op # "MakeReadUnique"
           /\ req[t].cmd # "rd"
           /\ \E q \in {<<"CompDBIDResp">>, <<"DBIDResp", "Comp">>,
                         <<"Comp", "DBIDResp">>} : r = q \o HN!After(req[t].op)
  <2> DEFINE All == {"CompDBIDResp", "DBIDResp", "Comp", "CompCMO", "Persist"}
  <2>1. /\ r \in Seq(PlanItems)
        /\ \A i \in 1 .. Len(r) : /\ r[i] \in All
                                  /\ r[i] = "CompCMO" => ExpectCompCMO(Op(t))
                                  /\ r[i] = "Persist" => ExpectPersist(Op(t))
        /\ \A i, j \in 1 .. Len(r) :
             \/ i = j
             \/ /\ FlagOf(r[i]) # FlagOf(r[j])
                /\ r[i] \notin DbidItems \/ r[j] \notin DbidItems
    BY <1>1, <1>7, WritePlan
  <2>2. \A i \in 1 .. Len(r) : r[i] \notin BeatPhases
    BY <2>1 DEF BeatPhases
  <2>3. Tidy(r, 0, req[t].beats)
    BY <2>1, <2>2, TidyPlain
  <2>4. OneKind(r, req[t])
    BY <2>1, <1>7 DEF OneKind
  <2>5. ~Dataless(t)
    BY <1>1, <1>7 DEF Dataless, IsDataless
  <2>6. \A i \in 1 .. Len(r) : FlagOf(r[i]) \in FirstTodo(t)
    BY <2>1, <2>5, <1>2 DEF FlagOf, BeatPhases
  <2> QED
    BY <2>1, <2>3, <2>4, <2>6, <1>7 DEF Fitting
<1> HIDE DEF b
<1>8. ~IsDataless("MakeReadUnique", NoResponse)
  BY DEF IsDataless, NoResponse, Stashes
<1> QED
  BY <1>1, <1>3, <1>4, <1>5, <1>6, <1>7, <1>8, PlanCases DEF b

LEMMA AtomicPlan ==
  ASSUME PcInv, NEW t \in Reqs \intersect DOMAIN req, Returning(t),
         NEW r \in HN!Plans(req[t])
  PROVE  /\ r \in Seq(PlanItems) /\ r # << >> /\ Head(r) = "CompDBIDResp"
         /\ Tidy(Tail(r), 0, req[t].beats)
         /\ \A i \in 1 .. Len(Tail(r)) : Tail(r)[i] \in BeatPhases
<1>1. /\ req[t].beats \in Nat \ {0} /\ req[t].op \in ReturningAtomics
  BY ChiAssumption DEF PcInv, ChiAssumption, Returning, Op
<1>2. r = <<"CompDBIDResp">> \o HN!Beats(req[t].beats)
  BY <1>1, SameMessages DEF HN!Plans
<1>3. /\ "CompDBIDResp" \in PlanItems /\ "CompDBIDResp" \notin BeatPhases
      /\ FlagOf("CompDBIDResp") # "DATA"
  BY DEF PlanItems, BeatPhases, FlagOf
<1>4. /\ r \in Seq(PlanItems) /\ Head(r) = "CompDBIDResp"
      /\ Tail(r) = HN!Beats(req[t].beats)
  BY <1>1, <1>2, <1>3, ThenBeats
<1>5. /\ Len(HN!Beats(req[t].beats)) = req[t].beats
      /\ Tidy(HN!Beats(req[t].beats), 0, req[t].beats)
      /\ \A i \in 1 .. req[t].beats : HN!Beats(req[t].beats)[i] \in BeatPhases
      /\ HN!Beats(req[t].beats) # << >>
  BY <1>1, BeatsType, BeatsTidy
<1>6. r # << >>
  <2>1. PICK b \in Seq(PlanItems) : b = HN!Beats(req[t].beats)
    BY <1>1, BeatsPlanned
  <2>2. Len(<<"CompDBIDResp">> \o b) = 1 + Len(b)
    BY <2>1
  <2> QED
    BY <1>2, <2>1, <2>2
<1> QED
  BY <1>4, <1>5, <1>6
-----------------------------------------------------------------------------
(* A step of x leaves the view of the others alone.                        *)

ViewCtx == PlacesInv /\ PlanInv /\ BurstInv /\ SlotInv /\ ViewInv

LEMMA Shapes ==
  ASSUME ViewCtx
  PROVE  /\ pc \in [Xs -> Pcs] /\ todo = [x \in Xs |-> todo[x]]
         /\ wbeat \in [Xs -> Nat] /\ rbeat \in [Xs -> Int]
         /\ rsp = [x \in Xs |-> rsp[x]] /\ plan = [x \in Xs |-> plan[x]]
         /\ got = [x \in Xs |-> got[x]] /\ due \in [Xs -> Seq(EndPhases)]
         /\ kind \in [Snps -> Kinds \union {"none"}]
BY DEF ViewCtx, PlacesInv, PcInv, SnoopInv, PlanInv, BurstInv, BurstType,
   ViewInv

LEMMA ViewOther ==
  ASSUME NEW y \in Xs, View(y), Alike(y), UNCHANGED <<req, mode>>
  PROVE  View(y)'
<1>1. CASE y \notin DOMAIN req
  BY <1>1 DEF View, Alike
<1>2. CASE y \in DOMAIN req
  <2>1. PICK e, p, r : Parts(y, e, p, r) /\ Work(y, r)
    BY <1>2 DEF View
  <2>2. Await(y)' = Await(y)
    BY DEF Alike, Await
  <2>3. Parts(y, e, p, r)'
    <3>1. Box(y, e, p)'
      BY <2>1 DEF Parts, Box, Alike
    <3> QED
      BY <2>1, <2>2, <3>1 DEF Parts, Alike
  <2>4. Returning(y)' <=> Returning(y)
    BY DEF Returning, Op
  <2>5. y \in Reqs => ReqLoop(y, r)'
    BY <2>1, <2>4 DEF Work, ReqLoop, Loop, Alike
  <2>6. y \in Snps => SnpLoop(y, r)'
    BY <2>1 DEF Work, SnpLoop, Alike
  <2>7. Work(y, r)'
    BY <2>1, <2>5, <2>6 DEF Work, Alike
  <2> QED
    BY <1>2, <2>3, <2>7 DEF View
<1> QED
  BY <1>1, <1>2

LEMMA ViewKeeps ==
  ASSUME ViewInv, NEW x \in Xs, \A y \in Xs \ {x} : Alike(y), View(x)',
         UNCHANGED <<req, mode, alarms>>,
         got' = [y \in Xs |-> got'[y]], rsp' = [y \in Xs |-> rsp'[y]],
         todo' = [y \in Xs |-> todo'[y]]
  PROVE  ViewInv'
<1>1. \A y \in Xs \ {x} : View(y)'
  BY ViewOther DEF ViewInv
<1>2. NoAlarm'
  BY DEF ViewInv, NoAlarm
<1> QED
  BY <1>1, <1>2 DEF ViewInv

\* The view of a payload that is used.
LEMMA ViewPick ==
  ASSUME ViewCtx, NEW x \in Xs, pc[x] # "idle" \/ x \in DOMAIN req
  PROVE  /\ x \in DOMAIN req /\ req[x].beats \in Nat \ {0}
         /\ req[x].txn \in TxnIds
         /\ \E e, p, r : Parts(x, e, p, r) /\ Work(x, r)
<1>1. x \in DOMAIN req /\ req \in Scenarios
  BY DEF ViewCtx, PlacesInv, PcInv
<1>2. req[x].beats \in Nat \ {0} /\ req[x].txn \in TxnIds
  BY <1>1, ChiAssumption DEF ChiAssumption
<1> QED
  BY <1>1, <1>2 DEF ViewCtx, ViewInv, View

LEMMA MailKept ==
  ASSUME SlotInv, NEW x \in Xs, UNCHANGED slotVars \/ (HasEntry(x) /\ Pop(x))
  PROVE  \A y \in Xs \ {x} : Mail(y)' = Mail(y)
BY MailSame, MailPop

-----------------------------------------------------------------------------
(* The steps of transport.                                                 *)

\* On the way to the channel.
LEMMA EarlyView ==
  ASSUME ViewCtx, NEW t \in Reqs, NEW to \in Early, Goto(t, to), pc[t] \in Early,
         t \in DOMAIN req, \A y \in Xs : Mail(y)' = Mail(y),
         UNCHANGED <<fixed, todo, beatVars, kind, alarms, hnVars>>
  PROVE  ViewInv'
<1>1. t \in Xs
  BY DEF Xs
<1>2. PICK e, p, r : Parts(t, e, p, r) /\ Work(t, r)
  BY <1>1, ViewPick
<1>3. pc'[t] = to /\ \A y \in Xs \ {t} : pc'[y] = pc[y]
  BY <1>1, Shapes DEF Goto
<1>4. Await(t) = {} /\ Await(t)' = {}
  BY <1>3 DEF Await, Early
<1>5. Parts(t, e, p, r)'
  BY <1>1, <1>2, <1>4, PartsQuiet DEF hnVars, beatVars
<1>6. ReqLoop(t, r)'
  BY <1>1, <1>2, <1>3 DEF Work, ReqLoop, Early, DataPcs, Ending, hnVars,
    beatVars
<1>7. Work(t, r)'
  BY <1>1, <1>2, <1>3, <1>6, ChiAssumption DEF Work, ChiAssumption, fixed,
    hnVars, beatVars, Early, DataPcs
<1>8. View(t)'
  BY <1>5, <1>7 DEF View, fixed
<1>9. \A y \in Xs \ {t} : Alike(y)
  BY <1>3 DEF Alike, hnVars, beatVars
<1> QED
  BY <1>1, <1>8, <1>9, Shapes, ViewKeeps DEF ViewCtx, hnVars, beatVars, fixed

LEMMA GatesView ==
  ASSUME IsFiniteSet(Xs), ViewCtx, NEW t \in Reqs,
         Transport(t) \/ PassOrder(t) \/ PassStrict(t) \/ PassId(t), IdleHn
  PROVE  ViewInv'
<1>1. t \in Xs
  BY DEF Xs
<1>2. ASSUME Transport(t)
      PROVE  ViewInv'
  <2>1. PICK to \in {"order", "strict", "id"} : Goto(t, to)
    BY <1>2 DEF Transport, Onward
  <2>2. SlotInv'
    <3>1. TransportStep(t)
      BY <1>2 DEF TransportStep
    <3> QED
      BY <3>1, TransportSlot DEF ViewCtx, PlacesInv
  <2>3. slot[t] = 0 /\ t \in DOMAIN req
    BY <1>1, <1>2 DEF Transport, ViewCtx, SlotInv, OwnerInv, HasSlot
  <2>4. \A y \in Xs : Mail(y)' = Mail(y)
    BY <1>1, <1>2, <2>2, <2>3, MailTake DEF Transport, ViewCtx
  <2>5. pc[t] \in Early /\ to \in Early
    BY <1>2, <2>1 DEF Transport, Early
  <2> QED
    BY <1>2, <2>1, <2>3, <2>4, <2>5, EarlyView DEF Transport, snpVars, IdleHn
<1>3. ASSUME PassOrder(t) \/ PassStrict(t) \/ PassId(t)
      PROVE  ViewInv'
  <2>1. PICK to \in {"strict", "id", "req"} : Goto(t, to)
    BY <1>3 DEF PassOrder, PassStrict, PassId, Onward
  <2>2. pc[t] \in Early /\ to \in Early /\ pc[t] # "idle"
    BY <1>3, <2>1 DEF PassOrder, PassStrict, PassId, HoldsId, Early
  <2>3. \A y \in Xs : Mail(y)' = Mail(y)
    BY <1>3, MailSame DEF PassOrder, PassStrict, PassId
  <2>4. t \in DOMAIN req
    BY <1>1, <2>2, ViewPick
  <2> QED
    BY <1>3, <2>1, <2>2, <2>3, <2>4, EarlyView DEF PassOrder, PassStrict,
       PassId, snpVars, IdleHn
<1> QED
  BY <1>2, <1>3

\* BEGIN_REQ: the home node decides on its responses.
LEMMA SendReqView ==
  ASSUME ViewCtx, NEW t \in Reqs, NEW n, NEW k, SendReq(t, mode.sync, n),
         HN!HnRequest(t, req[t], k)
  PROVE  ViewInv'
<1>1. t \in Xs /\ pc[t] = "req"
  BY DEF Xs, SendReq
<1>2. PICK e, p, r : Parts(t, e, p, r) /\ Work(t, r)
  BY <1>1, ViewPick
<1>3. /\ pc'[t] = IF mode.sync THEN "synced" ELSE "sent"
      /\ \A y \in Xs \ {t} : pc'[y] = pc[y]
  BY <1>1, Shapes DEF SendReq, Goto
<1>4. r = << >> /\ rsp[t] = NoResponse /\ wbeat[t] = 0 /\ rbeat[t] = 0
  BY <1>1, <1>2 DEF Work, ReqLoop, Early
<1>5. PICK s \in HN!Plans(req[t]) : plan' = [plan EXCEPT ![t] = s]
  BY DEF HN!HnRequest
<1>6. t \in Reqs \intersect DOMAIN req
  BY <1>1, ViewPick
<1>7. s \in Seq(PlanItems)
  BY <1>4, <1>6, PlanFits, AtomicPlan DEF ViewCtx, PlacesInv
<1>8. p = "none"
  BY <1>2, <1>4 DEF Parts
<1>9. \A y \in Xs : Mail(y)' = Mail(y)
  BY MailSame DEF SendReq
<1>10. plan'[t] = s /\ \A y \in Xs \ {t} : plan'[y] = plan[y]
  BY <1>1, <1>5, Shapes
<1>11. /\ Await(t) = {}
       /\ IF mode.sync THEN Await(t)' = {} ELSE "END_REQ" \in Await(t)'
  BY <1>1, <1>3 DEF Await
<1>12. Parts(t, "none", p, s)'
  BY <1>1, <1>2, <1>7, <1>8, <1>9, <1>10, <1>11, PartsSend DEF ViewCtx,
    HN!HnRequest, SendReq, beatVars
<1>13. ReqLoop(t, s)'
  <2>1. t \notin busy
    BY <1>2, <1>8 DEF Parts
  <2> QED
    BY <1>3, <1>4, <1>5, <2>1 DEF ReqLoop, Early, DataPcs, Ending, SendReq,
      beatVars, fixed, HN!HnRequest
<1>14. Work(t, s)'
  BY <1>1, <1>2, <1>3, <1>13, ChiAssumption DEF Work, ChiAssumption, fixed,
     SendReq, HN!HnRequest, beatVars, DataPcs
<1>15. View(t)'
  BY <1>6, <1>12, <1>14 DEF View, fixed, SendReq
<1>16. \A y \in Xs \ {t} : due'[y] = due[y]
  BY <1>1, Shapes DEF HN!HnRequest, HN!AnswerLater
<1>17. \A y \in Xs \ {t} : Alike(y)
  BY <1>3, <1>9, <1>10, <1>16 DEF Alike, SendReq, HN!HnRequest, beatVars,
     snpVars
<1> QED
  BY <1>1, <1>15, <1>17, Shapes, ViewKeeps DEF ViewCtx, HN!HnRequest, SendReq,
    beatVars, fixed

\* END_REQ: the answers are awaited.
LEMMA ReqDoneView ==
  ASSUME ViewCtx, NEW t \in Reqs, ReqDone(t), IdleHn
  PROVE  ViewInv'
<1>1. t \in Xs /\ pc[t] \in {"synced", "sent"}
  BY DEF Xs, ReqDone
<1>2. PICK e, p, r : Parts(t, e, p, r) /\ Work(t, r)
  BY <1>1, ViewPick
<1>3. /\ pc'[t] = IF Returning(t) THEN "aresp" ELSE "exec"
      /\ \A y \in Xs \ {t} : pc'[y] = pc[y] /\ todo'[y] = todo[y]
      /\ todo'[t] = FirstTodo(t)
  BY <1>1, Shapes DEF ReqDone, Goto
<1>4. Await(t)' = {}
  BY <1>3 DEF Await
<1>5. Parts(t, "none", p, r)' /\ alarms' = alarms
  <2>1. CASE pc[t] = "synced"
    <3>1. Await(t) = {}
      BY <2>1 DEF Await
    <3> QED
      BY <1>1, <1>2, <1>4, <2>1, <3>1, PartsQuiet, MailSame DEF ReqDone, IdleHn,
        hnVars, beatVars
  <2>2. CASE pc[t] = "sent"
    <3>1. Await(t) = {"END_REQ"}
      BY <2>2 DEF Await
    <3>2. HasEntry(t) /\ Pop(t) /\ Alarm(Entry(t) # <<t, "END_REQ">>, "assert")
      BY <2>2 DEF ReqDone
    <3>3. Entry(t) = <<t, e>> /\ e \in Await(t) /\ Parts(t, "none", p, r)'
      BY <1>1, <1>2, <1>4, <3>1, <3>2, PartsEnd DEF ReqDone, IdleHn, hnVars,
        beatVars, ViewCtx
    <3> QED
      BY <3>1, <3>2, <3>3 DEF Alarm
  <2> QED
    BY <1>1, <2>1, <2>2
<1>6. /\ r \in HN!Plans(req[t]) /\ (rsp[t] # NoResponse => Head(r) = rsp[t])
      /\ wbeat[t] = 0 /\ rbeat[t] = 0
  BY <1>1, <1>2 DEF Work, ReqLoop
<1>7. t \in Reqs \intersect DOMAIN req /\ req[t].beats \in Nat \ {0}
  BY <1>1, ViewPick
<1>8. FirstTodo(t) \subseteq Flags
  BY DEF FirstTodo, Flags
<1>9. Returning(t)' <=> Returning(t)
  BY DEF Returning, Op, ReqDone, fixed
<1>10. ReqLoop(t, r)'
  <2>1. CASE Returning(t)
    <3>1. "IN" \in todo'[t]
      BY <1>3, <2>1 DEF FirstTodo
    <3> QED
      BY <1>2, <1>3, <1>6, <1>9, <2>1, <3>1 DEF Work, ReqLoop, Early, DataPcs,
        Ending, ReqDone, beatVars, fixed, IdleHn, hnVars
  <2>2. CASE ~Returning(t)
    <3>1. /\ Tidy(r, 0, req[t].beats) /\ OneKind(r, req[t])
          /\ \A i \in 1 .. Len(r) :
               FlagOf(r[i]) \in FirstTodo(t) /\ r[i] \in Fitting(req[t])
      BY <1>6, <1>7, <2>2, PlanFits DEF ViewCtx, PlacesInv
    <3>2. Loop(t, r)'
      BY <1>3, <1>6, <2>2, <3>1 DEF Loop, ReqDone, beatVars, fixed
    <3> QED
      BY <1>2, <1>3, <1>9, <2>2, <3>2 DEF Work, ReqLoop, Early, DataPcs,
        Ending, ReqDone, beatVars, fixed, IdleHn, hnVars
  <2> QED
    BY <2>1, <2>2
<1>11. Work(t, r)'
  BY <1>1, <1>2, <1>3, <1>8, <1>10, ChiAssumption DEF Work, ChiAssumption,
     fixed, ReqDone, IdleHn, hnVars, beatVars, DataPcs
<1>12. View(t)'
  BY <1>7, <1>5, <1>11 DEF View, fixed, ReqDone
<1>13. \A y \in Xs \ {t} : Mail(y)' = Mail(y)
  BY <1>1, MailKept DEF ReqDone, ViewCtx
<1>14. \A y \in Xs \ {t} : Alike(y)
  BY <1>3, <1>13 DEF Alike, ReqDone, IdleHn, hnVars, beatVars, snpVars
<1> QED
  BY <1>1, <1>5, <1>12, <1>14, Shapes, ViewKeeps DEF ViewCtx, IdleHn, hnVars,
    ReqDone, beatVars, fixed

\* The first response or beat that has come.
LEMMA PartsFirst ==
  ASSUME SlotInv, NEW x \in Xs, NEW e, NEW p, NEW r, Parts(x, e, p, r),
         HasEntry(x), Await(x) = {}
  PROVE  /\ r # << >> /\ x \in busy /\ Entry(x) = <<x, PhaseOf(Head(r))>>
         /\ Head(r) \notin BeatPhases => rsp[x] = Head(r)
         /\ r \in Seq(PlanItems) /\ Head(r) \in PlanItems /\ Head(r) = r[1]
         /\ Len(r) \in Nat /\ 1 \in 1 .. Len(r)
<1>1. Mail(x) # << >>
  BY MailType
<1>2. due[x] = << >> /\ e = "none"
  BY DEF Parts
<1>3. p # "none" /\ Entry(x) = <<x, p>>
  BY <1>2, BoxEntry DEF Parts
<1>4. /\ r # << >> /\ x \in busy /\ p = PhaseOf(Head(r)) /\ r \in Seq(PlanItems)
      /\ p = "BEGIN_RESP" => rsp[x] = Head(r)
  BY <1>3 DEF Parts
<1>5. Head(r) \notin BeatPhases => rsp[x] = Head(r)
  BY <1>4 DEF PhaseOf
<1> QED
  BY <1>3, <1>4, <1>5

\* What the responses of a request settle, and that none of them is illegal.
LEMMA SettlesOwn ==
  ASSUME ViewCtx, CommandsFit, NEW t \in Reqs \intersect DOMAIN req,
         rsp[t] \in Fitting(req[t]) \ BeatPhases
  PROVE  /\ ~IllegalWriteResponse(t)
         /\ Settles(t) \subseteq {FlagOf(rsp[t]), "DATA"}
         /\ "DATA" \in Settles(t) => Dataless(t)
         /\ Dataless(t) => \/ IsDataless(req[t].op, NoResponse)
                           \/ req[t].op = "MakeReadUnique"
         /\ rsp[t] \in DbidItems /\ ~Dataless(t) => req[t].cmd = "wr"
         /\ rsp[t] \in DBID => rsp[t] \in DbidItems
<1>1. /\ req[t].cmd \in {"rd", "wr"} /\ Op(t) = req[t].op
      /\ req[t].op = "MakeReadUnique" => req[t].cmd = "rd"
  BY DEF CommandsFit, Op, ViewCtx, PlacesInv, PcInv
<1>2. Dataless(t) <=> \/ IsDataless(req[t].op, NoResponse)
                      \/ req[t].op = "MakeReadUnique" /\ rsp[t] \in {"Comp",
                           "CompPersist", "CompCMO", "CompStashDone"}
  BY <1>1 DEF Dataless, IsDataless, NoResponse
<1>3. CASE IsDataless(req[t].op, NoResponse)
  <2>1. Dataless(t) /\ rsp[t] \in {"Comp", "Persist", "CompDBIDResp"}
    BY <1>2, <1>3 DEF Fitting
  <2>2. Settles(t) \subseteq {FlagOf(rsp[t]), "DATA"}
    <3>1. CASE rsp[t] = "Persist"
      BY <2>1, <3>1 DEF Settles, FlagOf, BeatPhases
    <3>2. CASE rsp[t] \in {"Comp", "CompDBIDResp"}
      BY <2>1, <3>2 DEF Settles, FlagOf, BeatPhases
    <3> QED
      BY <2>1, <3>1, <3>2
  <2> QED
    BY <1>3, <2>1, <2>2 DEF IllegalWriteResponse, DBID, DbidItems
<1>4. CASE ~IsDataless(req[t].op, NoResponse) /\ req[t].op = "MakeReadUnique"
  <2>1. rsp[t] = "Comp" /\ Dataless(t)
    BY <1>2, <1>4 DEF Fitting, BeatPhases
  <2>2. Settles(t) \subseteq {FlagOf(rsp[t]), "DATA"}
    BY <2>1 DEF Settles, FlagOf, BeatPhases
  <2> QED
    BY <1>4, <2>1, <2>2 DEF IllegalWriteResponse, DBID, DbidItems
<1>5. CASE /\ ~IsDataless(req[t].op, NoResponse) /\ req[t].op # "MakeReadUnique"
           /\ req[t].cmd = "rd"
  <2>1. rsp[t] \in {"ReadReceipt", "RespSepData"} /\ ~Dataless(t)
    BY <1>2, <1>5 DEF Fitting, BeatPhases
  <2>2. Settles(t) = {"CTRL"} /\ FlagOf(rsp[t]) = "CTRL"
    BY <1>5, <2>1 DEF Settles, FlagOf, BeatPhases
  <2> QED
    BY <1>5, <2>1, <2>2 DEF IllegalWriteResponse, DBID, DbidItems
<1>6. CASE /\ ~IsDataless(req[t].op, NoResponse) /\ req[t].op # "MakeReadUnique"
           /\ req[t].cmd = "wr"
  <2>1. /\ rsp[t] \in {"CompDBIDResp", "DBIDResp", "Comp", "CompCMO", "Persist"}
        /\ ~Dataless(t) /\ req[t].cmd # "rd"
    BY <1>2, <1>6 DEF Fitting
  <2>2. Settles(t) \subseteq {FlagOf(rsp[t])}
    <3>1. CASE rsp[t] \in {"CompDBIDResp", "Comp"}
      BY <2>1, <3>1 DEF Settles, FlagOf, BeatPhases
    <3>2. CASE rsp[t] = "DBIDResp"
      BY <2>1, <3>2 DEF Settles, FlagOf, BeatPhases
    <3>3. CASE rsp[t] = "CompCMO"
      BY <2>1, <3>3 DEF Settles, FlagOf, BeatPhases
    <3>4. CASE rsp[t] = "Persist"
      BY <2>1, <3>4 DEF Settles, FlagOf, BeatPhases
    <3> QED
      BY <2>1, <3>1, <3>2, <3>3, <3>4
  <2>3. "DATA" \notin Settles(t)
    BY <2>1 DEF Settles
  <2> QED
    BY <1>6, <2>1, <2>2, <2>3 DEF IllegalWriteResponse, DBID, DbidItems
<1> QED
  BY <1>1, <1>3, <1>4, <1>5, <1>6

\* A response is taken in the loop: what is still to come is in not_finish.
LEMMA LoopResponse ==
  ASSUME ViewCtx, CommandsFit, NEW t \in Reqs \intersect DOMAIN req,
         NEW r \in Seq(PlanItems), r # << >>, Loop(t, r), rbeat[t] \in Nat,
         req[t].beats \in Nat,
         Head(r) \notin BeatPhases, rsp[t] = Head(r), pc[t] = "exec"
  PROVE  /\ ~IllegalWriteResponse(t)
         /\ Tidy(Tail(r), rbeat[t], req[t].beats) /\ OneKind(Tail(r), req[t])
         /\ \A i \in 1 .. Len(Tail(r)) :
              /\ FlagOf(Tail(r)[i]) \in todo[t] \ Settles(t)
              /\ Tail(r)[i] \in Fitting(req[t])
              /\ Tail(r)[i] \in DbidItems => wbeat[t] = 0
              /\ Head(r) \in DbidItems => Tail(r)[i] \notin DbidItems
         /\ Head(r) \in DBID => /\ wbeat[t] = 0 /\ Head(r) \in DbidItems
                                /\ ~Dataless(t) => req[t].cmd = "wr"
<1>1. PICK s \in Seq(PlanItems) : s = Tail(r)
  BY TidyTail DEF Loop
<1>2. 1 \in 1 .. Len(r) /\ Head(r) = r[1]
  OBVIOUS
<1>3. rsp[t] \in Fitting(req[t]) \ BeatPhases
  BY <1>2 DEF Loop
<1>4. /\ ~IllegalWriteResponse(t)
      /\ Settles(t) \subseteq {FlagOf(rsp[t]), "DATA"}
      /\ "DATA" \in Settles(t) => Dataless(t)
      /\ Dataless(t) => \/ IsDataless(req[t].op, NoResponse)
                        \/ req[t].op = "MakeReadUnique"
      /\ rsp[t] \in DbidItems /\ ~Dataless(t) => req[t].cmd = "wr"
      /\ rsp[t] \in DBID => rsp[t] \in DbidItems
  BY <1>3, SettlesOwn
<1>5. /\ Tidy(s, rbeat[t], req[t].beats) /\ OneKind(s, req[t])
      /\ \A i \in 1 .. Len(s) :
           /\ i + 1 \in 1 .. Len(r) /\ s[i] = r[i + 1]
           /\ FlagOf(s[i]) # FlagOf(Head(r))
           /\ Head(r) \in DbidItems => s[i] \notin DbidItems
  <2>1. Tidy(r, rbeat[t], req[t].beats) /\ OneKind(r, req[t])
    BY DEF Loop
  <2> QED
    BY <1>1, <2>1, TidyTail, OneKindTail
<1>6. \A i \in 1 .. Len(s) : /\ FlagOf(s[i]) \in todo[t]
                             /\ s[i] \in Fitting(req[t])
                             /\ s[i] \in DbidItems => wbeat[t] = 0
  BY <1>5 DEF Loop
<1>7. "DATA" \in Settles(t) => \A i \in 1 .. Len(s) : FlagOf(s[i]) # "DATA"
  <2>1. CASE IsDataless(req[t].op, NoResponse)
    <3>1. \A i \in 1 .. Len(s) : s[i] \in {"Comp", "Persist", "CompDBIDResp"}
      BY <1>6, <2>1 DEF Fitting
    <3> QED
      BY <3>1 DEF FlagOf, BeatPhases
  <2>2. CASE req[t].op = "MakeReadUnique"
    <3>1. Len(r) = 1
      BY <2>2 DEF Loop, OneKind
    <3>2. Len(s) = 0
      BY <1>1, <3>1
    <3> QED
      BY <3>2
  <2> QED
    BY <1>4, <2>1, <2>2
<1>8. \A i \in 1 .. Len(s) : FlagOf(s[i]) \in todo[t] \ Settles(t)
  BY <1>4, <1>5, <1>6, <1>7
<1>9. Head(r) \in DBID => wbeat[t] = 0
  BY <1>2, <1>4 DEF Loop
<1> QED
  BY <1>1, <1>4, <1>5, <1>6, <1>8, <1>9

\* The loop goes on, or ends when nothing is to come.
LEMMA LoopGoes ==
  ASSUME ViewCtx, NEW t \in Reqs \intersect DOMAIN req, NEW left, NEW q,
         Continue(t, left, q), left \subseteq Flags, req' = req,
         NEW s \in Seq(PlanItems), Tidy(s, rbeat'[t], req[t].beats),
         OneKind(s, req[t]),
         \A i \in 1 .. Len(s) :
           /\ FlagOf(s[i]) \in left /\ s[i] \in Fitting(req[t])
           /\ s[i] \in DbidItems => wbeat'[t] = 0
  PROVE  /\ pc'[t] \in {"exec", "ack", "end"} /\ todo'[t] = left
         /\ pc'[t] = "exec" => Loop(t, s)'
         /\ pc'[t] # "exec" => s = << >>
         /\ \A y \in Xs \ {t} : pc'[y] = pc[y] /\ todo'[y] = todo[y]
<1>1. t \in Xs
  BY DEF Xs
<1>2. /\ pc'[t] \in {"exec", "ack", "end"} /\ todo'[t] = left
      /\ pc'[t] # "exec" => left = {}
      /\ \A y \in Xs \ {t} : pc'[y] = pc[y] /\ todo'[y] = todo[y]
  BY <1>1, Shapes DEF Continue, Goto
<1>3. left = {} => s = << >>
  <2>1. s # << >> => 1 \in 1 .. Len(s)
    OBVIOUS
  <2> QED
    BY <2>1
<1>4. pc'[t] = "exec" => Loop(t, s)'
  BY <1>2 DEF Loop
<1> QED
  BY <1>2, <1>3, <1>4

LEMMA ResponseView ==
  ASSUME ViewCtx, CommandsFit, NEW t \in Reqs, Response(t), HN!HnEnd(t, 0)
  PROVE  ViewInv'
<1>1. t \in Xs /\ pc[t] = "exec" /\ HasEntry(t) /\ Pop(t)
  BY DEF Xs, Response
<1>2. PICK e, p, r : Parts(t, e, p, r) /\ Work(t, r)
  BY <1>1, ViewPick
<1>3. t \in Reqs \intersect DOMAIN req /\ req[t].beats \in Nat \ {0}
  BY <1>1, ViewPick
<1>4. /\ r # << >> /\ t \in busy /\ Entry(t) = <<t, PhaseOf(Head(r))>>
      /\ Head(r) \notin BeatPhases => rsp[t] = Head(r)
      /\ r \in Seq(PlanItems) /\ Head(r) \in PlanItems /\ Head(r) = r[1]
      /\ Len(r) \in Nat /\ 1 \in 1 .. Len(r)
  <2>1. Await(t) = {}
    BY <1>1 DEF Await
  <2> QED
    BY <1>1, <1>2, <2>1, PartsFirst DEF ViewCtx
<1>5. ~Returning(t) /\ Loop(t, r) /\ todo[t] \subseteq Flags
  <2>1. ~Returning(t)
    BY <1>1, <1>3 DEF ViewCtx, BurstInv, Burst
  <2> QED
    BY <1>1, <1>2, <2>1 DEF Work, ReqLoop
<1>6. PICK s \in Seq(PlanItems) : s = Tail(r)
  <2>1. Tail(r) \in Seq(PlanItems)
    BY <1>4
  <2> QED
    BY <2>1
<1>7. /\ rbeat[t] \in 0 .. req[t].beats /\ wbeat[t] \in 0 .. req[t].beats
      /\ got[t] = wbeat[t] /\ rbeat[t] \in Nat
  BY <1>2, <1>3 DEF Work
<1>8. Returning(t)' <=> Returning(t)
  BY DEF Returning, Op, Response, fixed
<1> DEFINE Good ==
      /\ alarms' = alarms /\ todo'[t] \subseteq Flags
      /\ pc'[t] \in {"exec", "ack", "end", "wdat"}
      /\ pc'[t] = "exec" => Loop(t, s)'
      /\ pc'[t] \in {"ack", "end"} => s = << >>
      /\ pc'[t] = "wdat" => /\ Loop(t, s)' /\ wbeat[t] = 0 /\ req[t].cmd = "wr"
                            /\ t \in asked
      /\ rbeat'[t] \in 0 .. req[t].beats
      /\ \A y \in Xs \ {t} : /\ pc'[y] = pc[y] /\ todo'[y] = todo[y]
                             /\ rbeat'[y] = rbeat[y]
      /\ todo' = [y \in Xs |-> todo'[y]]
<1>9. ASSUME Head(r) \notin BeatPhases
      PROVE  Good
  <2>1. TakeResponse(t)
    <3>1. Entry(t) = <<t, "BEGIN_RESP">>
      BY <1>4, <1>9 DEF PhaseOf
    <3> QED
      BY <3>1 DEF Response
  <2>2. /\ ~IllegalWriteResponse(t)
        /\ Tidy(s, rbeat[t], req[t].beats) /\ OneKind(s, req[t])
        /\ \A i \in 1 .. Len(s) :
             /\ FlagOf(s[i]) \in todo[t] \ Settles(t)
             /\ s[i] \in Fitting(req[t])
             /\ s[i] \in DbidItems => wbeat[t] = 0
             /\ Head(r) \in DbidItems => s[i] \notin DbidItems
        /\ Head(r) \in DBID => /\ wbeat[t] = 0 /\ Head(r) \in DbidItems
                               /\ ~Dataless(t) => req[t].cmd = "wr"
    BY <1>1, <1>3, <1>4, <1>5, <1>6, <1>7, <1>9, LoopResponse
  <2>3. alarms' = alarms /\ rbeat' = rbeat /\ wbeat' = wbeat /\ req' = req
    BY <2>1, <2>2 DEF TakeResponse, Alarm, Response, fixed
  <2>4. todo[t] \ Settles(t) \subseteq Flags
    BY <1>5
  <2>5. CASE rsp[t] \in DBID /\ ~Dataless(t) /\ req[t].cmd = "wr"
    <3>1. /\ pc'[t] = "wdat" /\ todo'[t] = todo[t] \ Settles(t)
          /\ \A y \in Xs \ {t} : pc'[y] = pc[y] /\ todo'[y] = todo[y]
          /\ todo' = [y \in Xs |-> todo'[y]]
      BY <1>1, <2>1, <2>5, Shapes DEF TakeResponse, Goto
    <3>2. Head(r) \in DbidItems /\ wbeat[t] = 0
      BY <1>4, <1>9, <2>2, <2>5
    <3>3. t \in asked
      BY <1>2, <1>3, <1>4, <3>2 DEF Work, ReqLoop
    <3>4. Loop(t, s)'
      BY <2>2, <2>3, <3>1, <3>2 DEF Loop
    <3> QED
      BY <1>7, <2>3, <2>4, <2>5, <3>1, <3>2, <3>3, <3>4
  <2>6. CASE ~(rsp[t] \in DBID /\ ~Dataless(t) /\ req[t].cmd = "wr")
    <3>1. Continue(t, todo[t] \ Settles(t), queue)
      BY <2>1, <2>6 DEF TakeResponse
    <3>2. /\ pc'[t] \in {"exec", "ack", "end"} /\ todo'[t] = todo[t] \ Settles(t)
          /\ pc'[t] = "exec" => Loop(t, s)'
          /\ pc'[t] # "exec" => s = << >>
          /\ \A y \in Xs \ {t} : pc'[y] = pc[y] /\ todo'[y] = todo[y]
      BY <1>3, <2>2, <2>3, <2>4, <3>1, LoopGoes
    <3>3. todo' = [y \in Xs |-> todo'[y]]
      BY <3>1, Shapes DEF Continue
    <3> QED
      BY <1>7, <2>3, <2>4, <3>2, <3>3
  <2> QED
    BY <2>5, <2>6
<1>10. ASSUME Head(r) \in BeatPhases
       PROVE  Good
  <2>1. Head(r) \in Fitting(req[t]) /\ FlagOf(Head(r)) \in todo[t]
    BY <1>4, <1>5 DEF Loop
  <2>2. req[t].cmd = "rd"
    BY <1>3, <1>10, <2>1 DEF Fitting, BeatPhases, CommandsFit, ViewCtx,
       PlacesInv, PcInv
  <2>3. Entry(t) = <<t, Head(r)>> /\ Entry(t) # <<t, "BEGIN_RESP">>
    BY <1>4, <1>10 DEF PhaseOf, BeatPhases
  <2>4. TakeData(t)
    <3>1. Entry(t) \in {t} \X PartialPhases
      BY <1>10, <2>3 DEF BeatPhases, PartialPhases
    <3> QED
      BY <2>2, <2>3, <3>1 DEF Response
  <2>5. /\ Tidy(s, rbeat[t] + 1, req[t].beats) /\ rbeat[t] < req[t].beats
        /\ Head(r) = "BEGIN_DATA" => rbeat[t] + 1 = req[t].beats /\ s = << >>
        /\ \A i \in 1 .. Len(s) : i + 1 \in 1 .. Len(r) /\ s[i] = r[i + 1]
        /\ OneKind(s, req[t])
    <3>1. Tidy(r, rbeat[t], req[t].beats) /\ OneKind(r, req[t])
      BY <1>5 DEF Loop
    <3>2. req[t].beats \in Nat
      BY <1>3
    <3> QED
      BY <1>4, <1>6, <1>7, <1>10, <3>1, <3>2, TidyTail, OneKindTail
  <2>6. /\ rbeat'[t] = rbeat[t] + 1 /\ \A y \in Xs \ {t} : rbeat'[y] = rbeat[y]
        /\ wbeat' = wbeat /\ req' = req
    BY <1>1, <2>4, Shapes DEF TakeData, Response, fixed
  <2>7. (Entry(t) = <<t, "BEGIN_DATA">>) <=> (Head(r) = "BEGIN_DATA")
    BY <2>3
  <2>8. alarms' = alarms
    BY <2>4, <2>5, <2>6, <2>7 DEF TakeData, Alarm
  <2>9. PICK left : /\ Continue(t, left, queue)
                    /\ left = IF Head(r) = "BEGIN_DATA"
                                THEN todo[t] \ {"CTRL", "DATA"} ELSE todo[t]
    BY <2>4, <2>7 DEF TakeData
  <2>10. /\ left \subseteq Flags
         /\ \A i \in 1 .. Len(s) : /\ FlagOf(s[i]) \in left
                                   /\ s[i] \in Fitting(req[t])
                                   /\ s[i] \in DbidItems => wbeat'[t] = 0
    <3>1. left \subseteq Flags
      BY <1>5, <2>9
    <3>2. CASE Head(r) = "BEGIN_DATA"
      BY <2>5, <3>1, <3>2
    <3>3. CASE Head(r) # "BEGIN_DATA"
      BY <1>5, <2>5, <2>6, <2>9, <3>1, <3>3 DEF Loop
    <3> QED
      BY <3>2, <3>3
  <2>11. /\ pc'[t] \in {"exec", "ack", "end"} /\ todo'[t] = left
         /\ pc'[t] = "exec" => Loop(t, s)'
         /\ pc'[t] # "exec" => s = << >>
         /\ \A y \in Xs \ {t} : pc'[y] = pc[y] /\ todo'[y] = todo[y]
    BY <1>3, <2>5, <2>6, <2>9, <2>10, LoopGoes
  <2>12. rbeat'[t] \in 0 .. req[t].beats
    BY <1>3, <1>7, <2>5, <2>6
  <2>13. todo' = [y \in Xs |-> todo'[y]]
    BY <2>9, Shapes DEF Continue
  <2> QED
    BY <2>6, <2>8, <2>10, <2>11, <2>12, <2>13
<1>11. Good
  BY <1>9, <1>10
<1> HIDE DEF Good
<1>12. Parts(t, "none", "none", s)'
  <2>1. Await(t) = {} /\ Await(t)' = {}
    BY <1>1, <1>11 DEF Await, Good
  <2> QED
    BY <1>1, <1>2, <1>6, <2>1, PartsItem DEF ViewCtx, HN!HnEnd
<1>13. ReqLoop(t, s)'
  BY <1>5, <1>8, <1>11 DEF Good, ReqLoop, Early, DataPcs, Ending, HN!HnEnd,
    Response, fixed
<1>14. Work(t, s)'
  BY <1>1, <1>3, <1>7, <1>11, <1>13, ChiAssumption DEF Good, Work,
     ChiAssumption, fixed, HN!HnEnd, Response, DataPcs
<1>15. View(t)'
  BY <1>3, <1>12, <1>14 DEF View, fixed, Response
<1>16. \A y \in Xs \ {t} : Mail(y)' = Mail(y)
  BY <1>1, MailKept DEF ViewCtx
<1>17. \A y \in Xs \ {t} : Alike(y)
  BY <1>11, <1>16 DEF Good, Alike, Response, HN!HnEnd, snpVars
<1> QED
  BY <1>1, <1>11, <1>15, <1>17, Shapes, ViewKeeps DEF Good, ViewCtx, HN!HnEnd,
    Response, fixed

\* The first answer to an atomic that returns data.
LEMMA AtomicResponseView ==
  ASSUME ViewCtx, NEW t \in Reqs, AtomicResponse(t), HN!HnEnd(t, 0)
  PROVE  ViewInv'
<1>1. t \in Xs /\ pc[t] = "aresp" /\ HasEntry(t) /\ Pop(t)
  BY DEF Xs, AtomicResponse
<1>2. PICK e, p, r : Parts(t, e, p, r) /\ Work(t, r)
  BY <1>1, ViewPick
<1>3. t \in Reqs \intersect DOMAIN req /\ req[t].beats \in Nat \ {0}
  BY <1>1, ViewPick
<1>4. /\ r # << >> /\ t \in busy /\ Entry(t) = <<t, PhaseOf(Head(r))>>
      /\ Head(r) \notin BeatPhases => rsp[t] = Head(r)
  <2>1. Await(t) = {}
    BY <1>1 DEF Await
  <2> QED
    BY <1>1, <1>2, <2>1, PartsFirst DEF ViewCtx
<1>5. /\ Returning(t) /\ r \in HN!Plans(req[t]) /\ wbeat[t] = 0 /\ rbeat[t] = 0
      /\ todo[t] \subseteq Flags /\ "IN" \in todo[t] /\ got[t] = wbeat[t]
  <2>1. Returning(t)
    BY <1>1, <1>3 DEF ViewCtx, BurstInv, Burst
  <2> QED
    BY <1>1, <1>2, <1>4, <2>1 DEF Work, ReqLoop
<1>6. /\ r \in Seq(PlanItems) /\ Head(r) = "CompDBIDResp"
      /\ Tidy(Tail(r), 0, req[t].beats)
      /\ \A i \in 1 .. Len(Tail(r)) : Tail(r)[i] \in BeatPhases
  BY <1>3, <1>5, AtomicPlan DEF ViewCtx, PlacesInv
<1>7. rsp[t] = "CompDBIDResp" /\ Entry(t) = <<t, "BEGIN_RESP">>
  BY <1>4, <1>6 DEF BeatPhases, PhaseOf
<1>8. alarms' = alarms
  BY <1>7 DEF AtomicResponse
<1>9. /\ pc'[t] = "wdat" /\ \A y \in Xs \ {t} : pc'[y] = pc[y]
      /\ UNCHANGED <<fixed, todo, wbeat, rbeat, rsp, kind, mode, plan, asked, got,
                     due>>
      /\ busy' = busy \ {t}
  BY <1>1, Shapes DEF AtomicResponse, Goto, beatVars, snpVars, HN!HnEnd
<1>10. PICK s \in Seq(PlanItems) : s = Tail(r)
  <2>1. Tail(r) \in Seq(PlanItems)
    BY <1>4, <1>6
  <2> QED
    BY <2>1
<1>11. Parts(t, "none", "none", s)'
  <2>1. Await(t) = {} /\ Await(t)' = {}
    BY <1>1, <1>9 DEF Await
  <2> QED
    BY <1>1, <1>2, <1>9, <1>10, <2>1, PartsItem DEF ViewCtx
<1>12. t \in asked
  BY <1>2, <1>3, <1>4, <1>6 DEF Work, ReqLoop, DbidItems
<1>13. Returning(t)'
  BY <1>5, <1>9 DEF Returning, Op, fixed
<1>14. ReqLoop(t, s)'
  BY <1>5, <1>6, <1>9, <1>10, <1>12, <1>13 DEF ReqLoop, Early, DataPcs, Ending,
    fixed
<1>15. Work(t, s)'
  BY <1>1, <1>3, <1>5, <1>9, <1>14, ChiAssumption DEF Work, ChiAssumption, fixed
<1>16. View(t)'
  BY <1>3, <1>9, <1>11, <1>15 DEF View, fixed
<1>17. \A y \in Xs \ {t} : Mail(y)' = Mail(y)
  BY <1>1, MailKept DEF ViewCtx
<1>18. \A y \in Xs \ {t} : Alike(y)
  BY <1>9, <1>17 DEF Alike
<1> QED
  BY <1>1, <1>8, <1>9, <1>16, <1>18, Shapes, ViewKeeps DEF ViewCtx, fixed

\* A beat of the old data is taken, or the next one is sent.
LEMMA AtomicInView ==
  ASSUME ViewCtx, NEW t \in Reqs, AtomicIn(t),
         IF rbeat'[t] = rbeat[t] THEN IdleHn ELSE HN!HnEnd(t, AtomicTopUp)
  PROVE  ViewInv'
<1>1. t \in Xs /\ pc[t] = "ain"
  BY DEF Xs, AtomicIn
<1>2. PICK e, p, r : Parts(t, e, p, r) /\ Work(t, r)
  BY <1>1, ViewPick
<1>3. t \in Reqs \intersect DOMAIN req /\ req[t].beats \in Nat \ {0}
  BY <1>1, ViewPick
<1>4. /\ Returning(t) /\ Tidy(r, rbeat[t], req[t].beats) /\ t \in asked
      /\ \A i \in 1 .. Len(r) : r[i] \in BeatPhases
      /\ r # << >> => "IN" \in todo[t]
      /\ todo[t] \subseteq Flags /\ got[t] = wbeat[t]
      /\ wbeat[t] \in 0 .. req[t].beats /\ rbeat[t] \in 0 .. req[t].beats
      /\ ~mode.sync /\ t \in busy => got[t] = req[t].beats
      /\ rbeat[t] \in Nat /\ r \in Seq(PlanItems)
  <2>1. Returning(t)
    BY <1>1, <1>3 DEF ViewCtx, BurstInv, Burst
  <2>2. t \notin Snps
    BY ChiAssumption DEF ChiAssumption
  <2> QED
    BY <1>1, <1>2, <1>3, <2>1 DEF Work, ReqLoop, DataPcs, Parts
<1>5. /\ UNCHANGED <<fixed, wbeat, rsp, kind, mode, plan, asked, got, due>>
      /\ \A y \in Xs \ {t} : y \in busy' <=> y \in busy
  BY DEF AtomicIn, snpVars, IdleHn, hnVars, HN!HnEnd
<1>6. Returning(t)'
  BY <1>4, <1>5 DEF Returning, Op, fixed
<1>7. Await(t) = {}
  BY <1>1 DEF Await
<1> DEFINE Good(s) ==
      /\ alarms' = alarms
      /\ \/ Parts(t, "none", p, s)'
         \/ Parts(t, "none", "none", s)'
      /\ pc'[t] \in {"wdat", "ain", "end"} /\ todo'[t] \subseteq Flags
      /\ pc'[t] = "wdat" => wbeat[t] < req[t].beats
      /\ pc'[t] = "end" => s = << >>
      /\ Tidy(s, rbeat'[t], req[t].beats)
      /\ \A i \in 1 .. Len(s) : s[i] \in BeatPhases
      /\ pc'[t] # "end" /\ s # << >> => "IN" \in todo'[t]
      /\ t \in busy' => t \in busy
      /\ rbeat'[t] \in 0 .. req[t].beats
      /\ \A y \in Xs \ {t} : /\ pc'[y] = pc[y] /\ todo'[y] = todo[y]
                             /\ rbeat'[y] = rbeat[y] /\ Mail(y)' = Mail(y)
      /\ todo' = [y \in Xs |-> todo'[y]]
<1>8. ASSUME rbeat[t] < req[t].beats, HasEntry(t)
      PROVE  \E s : Good(s)
  <2>1. /\ r # << >> /\ t \in busy /\ Entry(t) = <<t, PhaseOf(Head(r))>>
        /\ Head(r) = r[1] /\ 1 \in 1 .. Len(r)
    BY <1>1, <1>2, <1>7, <1>8, PartsFirst DEF ViewCtx
  <2>2. Head(r) \in BeatPhases /\ Entry(t)[1] = t /\ Entry(t)[2] = Head(r)
    BY <1>4, <2>1 DEF PhaseOf
  <2>3. Entry(t)[2] \in PartialPhases
    BY <2>2 DEF BeatPhases, PartialPhases
  <2>4. PICK s \in Seq(PlanItems) : s = Tail(r)
    <3>1. Tail(r) \in Seq(PlanItems)
      BY <1>4, <2>1
    <3> QED
      BY <3>1
  <2>5. /\ Tidy(s, rbeat[t] + 1, req[t].beats)
        /\ \A i \in 1 .. Len(s) : s[i] \in BeatPhases
        /\ Head(r) = "BEGIN_DATA" => rbeat[t] + 1 = req[t].beats /\ s = << >>
    <3>1. req[t].beats \in Nat
      BY <1>3
    <3> QED
      BY <1>4, <2>1, <2>2, <2>4, <3>1, TidyTail
  <2>6. /\ Pop(t) /\ rbeat' = [rbeat EXCEPT ![t] = @ + 1]
        /\ alarms' = alarms \union
             (IF Entry(t)[1] # t THEN {"assert"} ELSE {}) \union
             (IF Head(r) = "BEGIN_DATA" /\ rbeat'[t] # req[t].beats
                THEN {"error"} ELSE {})
        /\ \E left : /\ left = todo[t] \ (IF Head(r) = "BEGIN_DATA" THEN {"IN"}
                                          ELSE {})
                     /\ todo' = [todo EXCEPT ![t] = left]
                     /\ IF left = {} THEN Goto(t, "end")
                        ELSE Goto(t, IF wbeat[t] < req[t].beats THEN "wdat"
                                     ELSE "ain")
    BY <1>8, <2>2, <2>3 DEF AtomicIn
  <2>7. rbeat'[t] = rbeat[t] + 1 /\ \A y \in Xs \ {t} : rbeat'[y] = rbeat[y]
    BY <1>1, <2>6, Shapes
  <2>8. alarms' = alarms
    BY <2>2, <2>5, <2>6, <2>7
  <2>9. HN!HnEnd(t, AtomicTopUp)
    BY <1>4, <2>7
  <2>10. PICK left : /\ left = todo[t] \ (IF Head(r) = "BEGIN_DATA" THEN {"IN"}
                                          ELSE {})
                     /\ todo' = [todo EXCEPT ![t] = left]
                     /\ IF left = {} THEN Goto(t, "end")
                        ELSE Goto(t, IF wbeat[t] < req[t].beats THEN "wdat"
                                     ELSE "ain")
    BY <2>6
  <2>11. /\ pc'[t] = (IF left = {} THEN "end"
                      ELSE IF wbeat[t] < req[t].beats THEN "wdat" ELSE "ain")
         /\ todo'[t] = left
         /\ \A y \in Xs \ {t} : pc'[y] = pc[y] /\ todo'[y] = todo[y]
         /\ todo' = [y \in Xs |-> todo'[y]]
    BY <1>1, <2>10, Shapes DEF Goto
  <2>12. s # << >> => "IN" \in left
    BY <1>4, <2>1, <2>5, <2>10
  <2>13. Parts(t, "none", "none", s)'
    <3>1. Await(t)' = {}
      BY <2>11 DEF Await
    <3> QED
      BY <1>1, <1>2, <1>5, <1>7, <1>8, <2>4, <2>6, <2>9, <3>1, PartsItem
         DEF ViewCtx, HN!HnEnd
  <2>14. \A y \in Xs \ {t} : Mail(y)' = Mail(y)
    BY <1>1, <1>8, <2>6, MailKept DEF ViewCtx
  <2>15. rbeat'[t] \in 0 .. req[t].beats
    BY <1>3, <1>4, <1>8, <2>7
  <2>16. Good(s)
    <3>1. left \subseteq Flags /\ (t \in busy' => t \in busy)
      BY <1>4, <2>1, <2>10
    <3>2. /\ pc'[t] \in {"wdat", "ain", "end"}
          /\ pc'[t] = "wdat" => wbeat[t] < req[t].beats
          /\ pc'[t] = "end" => s = << >>
      BY <2>11, <2>12
    <3>3. Tidy(s, rbeat'[t], req[t].beats)
      BY <2>5, <2>7
    <3> QED
      BY <2>5, <2>7, <2>8, <2>11, <2>12, <2>13, <2>14, <2>15, <3>1, <3>2, <3>3
  <2> QED
    BY <2>16
<1>9. ASSUME ~(rbeat[t] < req[t].beats /\ HasEntry(t))
      PROVE  \E s : Good(s)
  <2>1. /\ wbeat[t] < req[t].beats /\ Goto(t, "wdat")
        /\ UNCHANGED <<slotVars, rbeat, alarms, todo>>
    BY <1>9 DEF AtomicIn
  <2>2. IdleHn
    BY <2>1
  <2>3. pc'[t] = "wdat" /\ \A y \in Xs \ {t} : pc'[y] = pc[y]
    BY <1>1, <2>1, Shapes DEF Goto
  <2>4. \A y \in Xs : Mail(y)' = Mail(y)
    BY <2>1, MailSame
  <2>5. Parts(t, "none", p, r)'
    <3>1. Await(t)' = {}
      BY <2>3 DEF Await
    <3> QED
      BY <1>1, <1>2, <1>5, <1>7, <2>1, <2>2, <2>4, <3>1, PartsQuiet
         DEF IdleHn, hnVars
  <2>6. Good(r)
    <3>1. todo' = [y \in Xs |-> todo'[y]] /\ rbeat'[t] \in 0 .. req[t].beats
      BY <1>4, <2>1, Shapes
    <3> QED
      BY <1>4, <2>1, <2>2, <2>3, <2>4, <2>5, <3>1 DEF IdleHn, hnVars
  <2> QED
    BY <2>6
<1>10. PICK s : Good(s)
  BY <1>8, <1>9
<1> HIDE DEF Good
<1>11. ReqLoop(t, s)'
  BY <1>4, <1>5, <1>6, <1>10 DEF Good, ReqLoop, Early, DataPcs, Ending,
     BeatPhases, DbidItems, fixed
<1>12. Work(t, s)'
  BY <1>1, <1>3, <1>4, <1>5, <1>10, <1>11, ChiAssumption DEF Good, Work,
    ChiAssumption, fixed
<1>13. View(t)'
  BY <1>3, <1>5, <1>10, <1>12 DEF Good, View, fixed
<1>14. \A y \in Xs \ {t} : Alike(y)
  BY <1>5, <1>10 DEF Good, Alike
<1> QED
  BY <1>1, <1>5, <1>10, <1>13, <1>14, Shapes, ViewKeeps DEF Good, ViewCtx, fixed

\* The call or the snoop ends: nothing was left.
LEMMA EndView ==
  ASSUME ViewCtx, NEW x \in Xs, Finish(x) \/ FinishSnoop(x), IdleHn
  PROVE  ViewInv'
<1>1. /\ pc[x] = "end" /\ Goto(x, "done") /\ ReturnSlot(x)
      /\ UNCHANGED <<fixed, todo, beatVars, kind, alarms, hnVars>>
  BY DEF Finish, FinishSnoop, IdleHn, snpVars
<1>2. PICK e, p, r : Parts(x, e, p, r) /\ Work(x, r)
  BY <1>1, ViewPick
<1>3. x \in DOMAIN req /\ req[x].beats \in Nat \ {0}
  BY <1>1, ViewPick
<1>4. pc'[x] = "done" /\ \A y \in Xs \ {x} : pc'[y] = pc[y]
  BY <1>1, Shapes DEF Goto
<1>5. r = << >>
  BY <1>1, <1>2 DEF Work, ReqLoop, SnpLoop, Xs, Ending
<1>6. slot[x] # 0
  BY <1>1 DEF ViewCtx, SlotInv, OwnerInv, HasSlot, Pcs
<1>7. Mail(x)' = << >> /\ \A y \in Xs \ {x} : Mail(y)' = Mail(y)
  BY <1>1, <1>6, MailReturn DEF ViewCtx
<1>8. Parts(x, "none", "none", r)'
  <2>1. Await(x) = {} /\ Await(x)' = {}
    BY <1>1, <1>4 DEF Await
  <2>2. due[x] = << >> /\ p = "none"
    BY <1>2, <1>5, <2>1 DEF Parts
  <2>3. Box(x, "none", "none")'
    BY <1>7 DEF Box
  <2> QED
    BY <1>1, <1>2, <2>1, <2>2, <2>3 DEF Parts, hnVars
<1>9. ReqLoop(x, r)' /\ SnpLoop(x, r)'
  <2>1. x \notin busy
    BY <1>2, <1>5 DEF Parts
  <2> QED
    BY <1>1, <1>4, <1>5, <2>1 DEF ReqLoop, SnpLoop, Early, DataPcs, Ending,
       Waiting, hnVars
<1>10. Work(x, r)'
  BY <1>1, <1>2, <1>3, <1>4, <1>9 DEF Work, fixed, hnVars, beatVars, DataPcs
<1>11. View(x)'
  BY <1>1, <1>3, <1>8, <1>10 DEF View, fixed
<1>12. \A y \in Xs \ {x} : Alike(y)
  BY <1>1, <1>4, <1>7 DEF Alike, hnVars, beatVars
<1> QED
  BY <1>1, <1>11, <1>12, Shapes, ViewKeeps DEF ViewCtx, fixed, hnVars, beatVars

-----------------------------------------------------------------------------
(* Data and acknowledgements.                                              *)

\* A beat of x is sent: the home node answers it, now or later.
LEMMA SendDataView ==
  ASSUME ViewCtx, NEW x \in Xs, NEW n, NEW k, SendData(x, mode.sync, n),
         HN!HnData(x, wbeat'[x] = req[x].beats, k)
  PROVE  ViewInv'
<1>1. pc[x] = "wdat"
  BY DEF SendData
<1>2. PICK e, p, r : Parts(x, e, p, r) /\ Work(x, r)
  BY <1>1, ViewPick
<1>3. x \in DOMAIN req /\ req[x].beats \in Nat \ {0}
  BY <1>1, ViewPick
<1>4. /\ pc'[x] = IF mode.sync THEN "wsync" ELSE "wwait"
      /\ \A y \in Xs \ {x} : /\ pc'[y] = pc[y] /\ wbeat'[y] = wbeat[y]
                             /\ got'[y] = got[y]
      /\ wbeat'[x] = wbeat[x] + 1 /\ got'[x] = got[x] + 1
      /\ got' = [y \in Xs |-> got'[y]]
  BY <1>1, Shapes DEF SendData, HN!HnData, Goto
<1>5. /\ UNCHANGED <<fixed, todo, rbeat, rsp, slotVars, kind, alarms, mode, plan,
                     busy, asked>>
  BY DEF SendData, HN!HnData, snpVars
<1>6. /\ got[x] = wbeat[x] /\ wbeat[x] < req[x].beats /\ wbeat[x] \in Nat
      /\ ~mode.sync /\ x \in busy => got[x] = req[x].beats
  BY <1>1, <1>2, <1>3 DEF Work, DataPcs
<1>7. PICK phase \in EndData : HN!AnswerLater(x, phase)
  BY DEF HN!HnData, EndData
<1>8. ~mode.sync => p = "none" /\ x \notin busy
  BY <1>2, <1>3, <1>6 DEF Parts
<1>9. Await(x) = {} /\ IF mode.sync THEN Await(x)' = {} ELSE phase \in Await(x)'
  BY <1>1, <1>4, <1>7 DEF Await
<1>10. \A y \in Xs : Mail(y)' = Mail(y)
  BY <1>5, MailSame
<1>11. Parts(x, "none", p, r)'
  <2>1. r \in Seq(PlanItems) /\ (p = "none" => plan[x] = r)
    BY <1>2 DEF Parts
  <2> QED
    BY <1>2, <1>5, <1>7, <1>8, <1>9, <1>10, <2>1, PartsSend DEF ViewCtx
<1>12. x \in Reqs => ReqLoop(x, r)'
  <2>1. Returning(x)' <=> Returning(x)
    BY <1>5 DEF Returning, Op, fixed
  <2>2. ASSUME x \in Reqs, ~Returning(x)
        PROVE  Loop(x, r)'
    <3>1. Loop(x, r) /\ \A i \in 1 .. Len(r) : r[i] \notin DbidItems
      BY <1>1, <1>2, <2>2 DEF Work, ReqLoop, DataPcs, Loop
    <3> QED
      BY <1>5, <3>1 DEF Loop, fixed
  <2> QED
    BY <1>1, <1>2, <1>4, <1>5, <2>1, <2>2 DEF Work, ReqLoop, Early, DataPcs,
       Ending, fixed
<1>13. x \in Snps => SnpLoop(x, r)'
  BY <1>1, <1>2, <1>4, <1>5 DEF Work, SnpLoop, Waiting
<1>14. Work(x, r)'
  <2>1. wbeat'[x] \in 0 .. req[x].beats
    BY <1>3, <1>4, <1>6
  <2> QED
    BY <1>2, <1>4, <1>5, <1>6, <1>8, <1>12, <1>13, <2>1 DEF Work, fixed
<1>15. View(x)'
  BY <1>3, <1>5, <1>11, <1>14 DEF View, fixed
<1>16. \A y \in Xs \ {x} : due'[y] = due[y]
  BY Shapes DEF HN!HnData, HN!AnswerLater
<1>17. \A y \in Xs \ {x} : Alike(y)
  BY <1>4, <1>5, <1>10, <1>16 DEF Alike
<1> QED
  BY <1>4, <1>5, <1>15, <1>17, Shapes, ViewKeeps DEF ViewCtx, fixed

\* The beat was accepted.
LEMMA DataDoneView ==
  ASSUME ViewCtx, CommandsFit, NEW x \in Xs, DataDone(x), IdleHn
  PROVE  ViewInv'
<1>1. pc[x] \in {"wsync", "wwait"}
  BY DEF DataDone
<1>2. PICK e, p, r : Parts(x, e, p, r) /\ Work(x, r)
  BY <1>1, ViewPick
<1>3. x \in DOMAIN req /\ req[x].beats \in Nat \ {0}
  BY <1>1, ViewPick
<1>4. /\ UNCHANGED <<fixed, beatVars, kind, hnVars>>
      /\ UNCHANGED slotVars \/ (HasEntry(x) /\ Pop(x))
  BY DEF DataDone, IdleHn
<1>5. Returning(x)' <=> Returning(x)
  BY <1>4 DEF Returning, Op, fixed
<1>6. /\ todo[x] \subseteq Flags /\ wbeat[x] \in 0 .. req[x].beats
      /\ rbeat[x] \in 0 .. req[x].beats /\ wbeat[x] \in Nat /\ rbeat[x] \in Nat
      /\ r \in Seq(PlanItems)
      /\ x \in Snps => r = << >>
      /\ x \in Reqs => /\ x \in asked
                       /\ ~Returning(x) => Loop(x, r) /\ req[x].cmd = "wr"
                       /\ Returning(x) =>
                            /\ Tidy(r, rbeat[x], req[x].beats)
                            /\ \A i \in 1 .. Len(r) : r[i] \in BeatPhases
                            /\ r # << >> => "IN" \in todo[x]
  BY <1>1, <1>2, <1>3 DEF Work, ReqLoop, SnpLoop, DataPcs, Parts
<1> DEFINE last == wbeat[x] = req[x].beats
           Good ==
             /\ pc'[x] \in {"ain", "wdat", "exec", "ack", "end"}
             /\ todo'[x] \subseteq Flags
             /\ pc'[x] = "wdat" => wbeat[x] < req[x].beats
             /\ pc'[x] \in {"ack", "end"} => r = << >>
             /\ pc'[x] # "end" /\ x \in Snps => pc'[x] \in {"wdat", "ain"}
             /\ Returning(x) => /\ pc'[x] \in {"ain"}
                                /\ r # << >> => "IN" \in todo'[x]
             /\ x \in Reqs /\ ~Returning(x) /\ pc'[x] \in DataPcs \union {"exec"}
                  => Loop(x, r)'
             /\ \A y \in Xs \ {x} : pc'[y] = pc[y] /\ todo'[y] = todo[y]
             /\ todo' = [y \in Xs |-> todo'[y]]
<1>7. ASSUME Returning(x), Goto(x, "ain"),
             todo' = [todo EXCEPT ![x] = IF last THEN @ \ {"OUT"} ELSE @]
      PROVE  Good
  <2>1. /\ pc'[x] = "ain"
        /\ \A y \in Xs \ {x} : pc'[y] = pc[y] /\ todo'[y] = todo[y]
        /\ todo'[x] = IF last THEN todo[x] \ {"OUT"} ELSE todo[x]
        /\ todo' = [y \in Xs |-> todo'[y]]
    BY <1>7, Shapes DEF Goto
  <2>2. x \in Reqs
    BY <1>7 DEF Returning
  <2> QED
    BY <1>6, <1>7, <2>1, <2>2
<1>8. ASSUME ~Returning(x), ~last, Goto(x, "wdat"), todo' = todo
      PROVE  Good
  <2>1. /\ pc'[x] = "wdat" /\ \A y \in Xs \ {x} : pc'[y] = pc[y]
        /\ todo' = [y \in Xs |-> todo'[y]]
    BY <1>8, Shapes DEF Goto
  <2>2. wbeat[x] < req[x].beats
    BY <1>3, <1>6, <1>8
  <2>3. x \in Reqs => Loop(x, r)'
    <3>1. x \in Reqs => /\ Loop(x, r)
                        /\ \A i \in 1 .. Len(r) : r[i] \notin DbidItems
      BY <1>1, <1>6, <1>8 DEF Loop
    <3> QED
      BY <1>4, <1>8, <3>1 DEF Loop, fixed, beatVars
  <2> QED
    BY <1>6, <1>8, <2>1, <2>2, <2>3
<1>9. ASSUME ~Returning(x), last, x \in Reqs, NEW q,
             Continue(x, todo[x] \ {"DATA"}, q)
      PROVE  Good
  <2>1. /\ Tidy(r, rbeat[x], req[x].beats) /\ OneKind(r, req[x])
        /\ req[x].cmd = "wr"
        /\ \A i \in 1 .. Len(r) :
             /\ FlagOf(r[i]) \in todo[x] /\ r[i] \in Fitting(req[x])
             /\ r[i] \notin DbidItems
    BY <1>1, <1>6, <1>9 DEF Loop
  <2>2. \A i \in 1 .. Len(r) : FlagOf(r[i]) # "DATA"
    <3>1. \A i \in 1 .. Len(r) : r[i] \in {"Comp", "Persist", "CompCMO"}
                                   \/ r[i] \in BeatPhases
      BY <2>1 DEF Fitting, DbidItems
    <3>2. \A i \in 1 .. Len(r) : r[i] \notin BeatPhases
      <4>1. CASE IsDataless(req[x].op, NoResponse)
        BY <2>1, <4>1 DEF Fitting, BeatPhases
      <4>2. CASE /\ ~IsDataless(req[x].op, NoResponse)
                 /\ req[x].op # "MakeReadUnique"
        BY <2>1, <4>2 DEF Fitting, BeatPhases
      <4>3. CASE req[x].op = "MakeReadUnique"
        BY <1>3, <1>9, <2>1, <4>3 DEF CommandsFit, ViewCtx, PlacesInv, PcInv
      <4> QED
        BY <4>1, <4>2, <4>3
    <3> QED
      BY <3>1, <3>2 DEF FlagOf
  <2>3. /\ pc'[x] \in {"exec", "ack", "end"} /\ todo'[x] = todo[x] \ {"DATA"}
        /\ pc'[x] = "exec" => Loop(x, r)'
        /\ pc'[x] # "exec" => r = << >>
        /\ \A y \in Xs \ {x} : pc'[y] = pc[y] /\ todo'[y] = todo[y]
    <3>1. x \in Reqs \intersect DOMAIN req /\ todo[x] \ {"DATA"} \subseteq Flags
      BY <1>3, <1>6, <1>9
    <3>2. rbeat' = rbeat /\ wbeat' = wbeat /\ req' = req
      BY <1>4 DEF beatVars, fixed
    <3>3. \A i \in 1 .. Len(r) :
            /\ FlagOf(r[i]) \in todo[x] \ {"DATA"} /\ r[i] \in Fitting(req[x])
            /\ r[i] \in DbidItems => wbeat'[x] = 0
      BY <2>1, <2>2
    <3> QED
      BY <1>6, <1>9, <2>1, <3>1, <3>2, <3>3, LoopGoes
  <2>4. todo' = [y \in Xs |-> todo'[y]]
    BY <1>9, Shapes DEF Continue
  <2>5. x \notin Snps
    BY <1>9, ChiAssumption DEF ChiAssumption
  <2> QED
    BY <1>6, <1>9, <2>3, <2>4, <2>5 DEF DataPcs
<1>10. ASSUME x \in Snps, Goto(x, "end"), todo' = todo
       PROVE  Good
  <2>1. /\ pc'[x] = "end" /\ \A y \in Xs \ {x} : pc'[y] = pc[y]
        /\ todo' = [y \in Xs |-> todo'[y]]
    BY <1>10, Shapes DEF Goto
  <2>2. ~Returning(x)
    BY <1>10, ChiAssumption DEF ChiAssumption, Returning
  <2> QED
    BY <1>6, <1>10, <2>1, <2>2 DEF DataPcs
<1>11. Good
  BY <1>7, <1>8, <1>9, <1>10 DEF DataDone
<1> HIDE DEF Good
<1>12. Parts(x, "none", p, r)' /\ alarms' = alarms
  <2>1. Await(x)' = {}
    BY <1>11 DEF Await, Good
  <2>2. CASE pc[x] = "wsync"
    <3>1. Await(x) = {} /\ UNCHANGED slotVars /\ alarms' = alarms
      BY <2>2 DEF Await, DataDone
    <3> QED
      BY <1>2, <1>4, <2>1, <3>1, PartsQuiet, MailSame DEF hnVars, beatVars
  <2>3. CASE pc[x] = "wwait"
    <3>1. /\ Await(x) = EndData /\ EndData # {} /\ HasEntry(x) /\ Pop(x)
          /\ Alarm(Entry(x) \notin {x} \X EndData, "assert")
      BY <2>3 DEF Await, DataDone, EndData
    <3>2. /\ Entry(x) = <<x, e>> /\ e \in EndData /\ Parts(x, "none", p, r)'
      BY <1>2, <1>4, <2>1, <3>1, PartsEnd DEF ViewCtx, hnVars, beatVars
    <3>3. Entry(x) \in {x} \X EndData
      BY <3>2
    <3> QED
      BY <3>1, <3>2, <3>3 DEF Alarm
  <2> QED
    BY <1>1, <2>2, <2>3
<1>13. x \in Reqs => ReqLoop(x, r)'
  BY <1>4, <1>5, <1>6, <1>11 DEF Good, ReqLoop, Early, DataPcs, Ending,
     beatVars, hnVars, fixed
<1>14. x \in Snps => SnpLoop(x, r)'
  BY <1>6, <1>11 DEF Good, SnpLoop, Waiting
<1>15. Work(x, r)'
  BY <1>1, <1>2, <1>4, <1>6, <1>11, <1>13, <1>14 DEF Good, Work, fixed,
     beatVars, hnVars, DataPcs
<1>16. View(x)'
  BY <1>3, <1>4, <1>12, <1>15 DEF View, fixed
<1>17. \A y \in Xs \ {x} : Mail(y)' = Mail(y)
  BY <1>4, MailKept DEF ViewCtx
<1>18. \A y \in Xs \ {x} : Alike(y)
  BY <1>4, <1>11, <1>17 DEF Good, Alike, beatVars, hnVars
<1> QED
  BY <1>4, <1>11, <1>12, <1>16, <1>18, Shapes, ViewKeeps DEF Good, ViewCtx,
     fixed, beatVars, hnVars

\* The CompAck, the last that is sent.
LEMMA SendAckView ==
  ASSUME ViewCtx, NEW x \in Xs, NEW n, SendAck(x, n), HN!HnAck(n)
  PROVE  ViewInv'
<1>1. pc[x] = "ack"
  BY DEF SendAck
<1>2. PICK e, p, r : Parts(x, e, p, r) /\ Work(x, r)
  BY <1>1, ViewPick
<1>3. x \in DOMAIN req /\ req[x].beats \in Nat \ {0}
  BY <1>1, ViewPick
<1>4. /\ pc'[x] = "end"
      /\ \A y \in Xs \ {x} : pc'[y] = pc[y] /\ rsp'[y] = rsp[y]
      /\ rsp' = [y \in Xs |-> rsp'[y]]
      /\ UNCHANGED <<fixed, todo, wbeat, rbeat, slotVars, kind, alarms, mode,
                     plan, busy, asked, got, due>>
  BY <1>1, Shapes DEF SendAck, HN!HnAck, Goto, snpVars
<1>5. r = << >>
  BY <1>1, <1>2 DEF Work, ReqLoop, SnpLoop, Xs
<1>6. \A y \in Xs : Mail(y)' = Mail(y)
  BY <1>4, MailSame
<1>7. Parts(x, e, p, r)'
  <2>1. Await(x) = {} /\ Await(x)' = {}
    BY <1>1, <1>4 DEF Await
  <2> QED
    BY <1>2, <1>4, <1>5, <1>6, <2>1, PartsQuiet
<1>8. ReqLoop(x, r)' /\ SnpLoop(x, r)'
  <2>1. x \notin busy
    BY <1>2, <1>5 DEF Parts
  <2> QED
    BY <1>4, <1>5, <2>1 DEF ReqLoop, SnpLoop, Early, DataPcs, Ending, Waiting
<1>9. Work(x, r)'
  BY <1>1, <1>2, <1>3, <1>4, <1>8 DEF Work, fixed, DataPcs
<1>10. View(x)'
  BY <1>3, <1>4, <1>7, <1>9 DEF View, fixed
<1>11. \A y \in Xs \ {x} : Alike(y)
  BY <1>4, <1>6 DEF Alike
<1> QED
  BY <1>4, <1>10, <1>11, Shapes, ViewKeeps DEF ViewCtx, fixed

LEMMA DataView ==
  ASSUME ViewCtx, CommandsFit, NEW x \in Xs, DataStep(x)
  PROVE  ViewInv'
BY SendAckView, SendDataView, DataDoneView DEF DataStep

LEMMA TransportView ==
  ASSUME IsFiniteSet(Xs), ViewCtx, CommandsFit, NEW t \in Reqs, TransportStep(t)
  PROVE  ViewInv'
<1>1. t \in Xs
  BY DEF Xs
<1>2. CASE IdleHn /\ \/ Transport(t) \/ PassOrder(t) \/ PassStrict(t) \/ PassId(t)
  BY <1>2, GatesView
<1>3. CASE IdleHn /\ ReqDone(t)
  BY <1>3, ReqDoneView
<1>4. CASE IdleHn /\ Finish(t)
  BY <1>1, <1>4, EndView
<1>5. CASE LET n == HN!ReturnedNow("REQ") IN
           SendReq(t, mode.sync, n) /\ HN!HnRequest(t, req[t], n)
  BY <1>5, SendReqView
<1>6. CASE Response(t) /\ HN!HnEnd(t, 0)
  BY <1>6, ResponseView
<1>7. CASE AtomicResponse(t) /\ HN!HnEnd(t, 0)
  BY <1>7, AtomicResponseView
<1>8. CASE /\ AtomicIn(t)
           /\ IF rbeat'[t] = rbeat[t] THEN IdleHn ELSE HN!HnEnd(t, AtomicTopUp)
  BY <1>8, AtomicInView
<1> QED
  BY <1>2, <1>3, <1>4, <1>5, <1>6, <1>7, <1>8 DEF TransportStep

-----------------------------------------------------------------------------
(* Snoops.                                                                 *)

\* Nothing is to come for x before and after.
LEMMA PartsIdle ==
  ASSUME NEW x \in Xs, NEW e, NEW p, Parts(x, e, p, << >>), Await(x) = {},
         Await(x)' = {}, Mail(x)' = Mail(x), plan'[x] = plan[x],
         due'[x] = due[x], x \in busy' <=> x \in busy
  PROVE  Parts(x, e, p, << >>)' /\ e = "none" /\ p = "none"
<1>1. PICK r : r = << >>
  OBVIOUS
<1>2. Parts(x, e, p, r)' /\ e = "none"
  BY <1>1, PartsQuiet
<1>3. p = "none"
  BY DEF Parts
<1> QED
  BY <1>1, <1>2, <1>3

\* A snoop goes on without the home node; it is sent, or answered.
LEMMA SnoopGoesView ==
  ASSUME ViewCtx, NEW s \in Snps, NEW to, Goto(s, to),
         s \in DOMAIN req, pc[s] \in Waiting \union {"prio"},
         \/ to \in {"snp", "later"} /\ UNCHANGED <<todo, kind>>
         \/ /\ pc[s] = "prio" /\ to \in {"srsp", "wdat"}
            /\ UNCHANGED <<todo, kind>>
            /\ to = "srsp" => kind[s] \in {"resp", "pull"}
         \/ /\ to \in {"prio", "srsp", "wdat"}
            /\ \E k \in Kinds : /\ kind' = [kind EXCEPT ![s] = k]
                                /\ todo' = [todo EXCEPT ![s] = SnpTodo(k)]
                                /\ to = "srsp" => k # "data",
         \A y \in Xs : Mail(y)' = Mail(y),
         UNCHANGED <<fixed, beatVars, alarms, mode, plan, busy, asked, got, due>>
  PROVE  ViewInv'
<1>1. s \in Xs
  BY DEF Xs
<1>2. PICK e, p, r : Parts(s, e, p, r) /\ Work(s, r)
  BY <1>1, ViewPick
<1>3. req[s].beats \in Nat \ {0}
  BY <1>1, ViewPick
<1>4. pc'[s] = to /\ \A y \in Xs \ {s} : pc'[y] = pc[y]
  BY <1>1, Shapes DEF Goto
<1>5. /\ r = << >> /\ wbeat[s] = 0 /\ rbeat[s] = 0
      /\ pc[s] = "prio" => todo[s] = SnpTodo(kind[s])
  BY <1>2 DEF Work, SnpLoop, Waiting
<1>6. Parts(s, e, p, << >>)' /\ s \notin busy
  <2>1. Await(s) = {} /\ Await(s)' = {}
    BY <1>4 DEF Await, Waiting
  <2>2. Parts(s, e, p, << >>)
    BY <1>2, <1>5
  <2> QED
    BY <1>1, <2>1, <2>2, PartsIdle DEF Parts
<1>7. /\ todo'[s] \subseteq Flags
      /\ to \in {"prio", "srsp"} => todo'[s] = SnpTodo(kind'[s])
      /\ to = "srsp" => kind'[s] \in {"resp", "pull"}
      /\ \A y \in Xs \ {s} : todo'[y] = todo[y]
      /\ \A u \in Snps \ {s} : kind'[u] = kind[u]
      /\ todo' = [y \in Xs |-> todo'[y]]
  <2>1. CASE /\ UNCHANGED <<todo, kind>>
             /\ to \in {"snp", "later"} \/ pc[s] = "prio"
             /\ to = "srsp" => kind[s] \in {"resp", "pull"}
    BY <1>2, <1>5, <2>1, Shapes DEF Work
  <2>2. CASE \E k \in Kinds : /\ kind' = [kind EXCEPT ![s] = k]
                              /\ todo' = [todo EXCEPT ![s] = SnpTodo(k)]
                              /\ to = "srsp" => k # "data"
    <3>1. PICK k \in Kinds : /\ kind' = [kind EXCEPT ![s] = k]
                             /\ todo' = [todo EXCEPT ![s] = SnpTodo(k)]
                             /\ to = "srsp" => k # "data"
      BY <2>2
    <3>2. SnpTodo(k) \subseteq Flags /\ (to = "srsp" => k \in {"resp", "pull"})
      BY <3>1 DEF SnpTodo, Flags, Kinds
    <3>3. kind'[s] = k /\ todo'[s] = SnpTodo(k)
      BY <1>1, <3>1, Shapes
    <3> QED
      BY <1>1, <3>1, <3>2, <3>3, Shapes
  <2> QED
    BY <2>1, <2>2
<1>8. SnpLoop(s, << >>)'
  BY <1>4, <1>5, <1>7 DEF SnpLoop, Waiting, beatVars
<1>9. s \notin Reqs
  BY ChiAssumption DEF ChiAssumption
<1>10. Work(s, << >>)'
  <2>1. 0 \in 0 .. req[s].beats /\ 0 < req[s].beats
    BY <1>3
  <2> QED
    BY <1>2, <1>4, <1>5, <1>6, <1>7, <1>8, <1>9, <2>1 DEF Work, fixed, beatVars,
      Waiting
<1>11. View(s)'
  BY <1>6, <1>10 DEF View, fixed
<1>12. \A y \in Xs \ {s} : Alike(y)
  BY <1>4, <1>7 DEF Alike, beatVars
<1> QED
  BY <1>1, <1>7, <1>11, <1>12, Shapes, ViewKeeps DEF ViewCtx, fixed, beatVars

\* The snoop is sent, or a handler takes it and answers it or leaves that to
\* snoop_resp.
LEMMA TakeSnoopView ==
  ASSUME IsFiniteSet(Xs), ViewCtx, NEW fresh \in BOOLEAN,
         NEW k \in Kinds \union {"later"}, TakeSnoop(fresh, k),
         HN!HnCredits([SNP |-> SnoopCredit, CRSP |-> 0, RDAT |-> 0])
  PROVE  ViewInv'
<1>1. PICK s : s = Head(dispq)
  OBVIOUS
<1>2. s \in Snps /\ pc[s] = "snp" /\ s \in Xs
  BY <1>1, TailLine DEF TakeSnoop, ViewCtx, PlacesInv, SnoopInv, Xs
<1>3. s \in DOMAIN req
  BY <1>2, ViewPick
<1>4. /\ TakeSlot(s)
      /\ IF k = "later" THEN Goto(s, "later") /\ UNCHANGED <<todo, kind>>
         ELSE Answer(s, k, TRUE)
      /\ UNCHANGED <<fixed, beatVars, alarms>>
  BY <1>1 DEF TakeSnoop
<1>5. UNCHANGED <<mode, plan, busy, asked, got, due>>
  BY DEF HN!HnCredits
<1>6. \A y \in Xs : Mail(y)' = Mail(y)
  <2>1. SlotInv'
    <3>1. HandlerStep
      BY DEF HandlerStep
    <3> QED
      BY <3>1, HandlerSlot DEF ViewCtx
  <2>2. slot[s] = 0
    BY <1>2 DEF ViewCtx, SlotInv, OwnerInv, HasSlot
  <2> QED
    BY <1>2, <1>4, <2>1, <2>2, MailTake DEF ViewCtx
<1>7. CASE k = "later"
  BY <1>2, <1>3, <1>4, <1>5, <1>6, <1>7, SnoopGoesView DEF Waiting
<1>8. CASE k # "later"
  <2>1. k \in Kinds /\ Answer(s, k, TRUE)
    BY <1>4, <1>8
  <2>2. PICK to \in {"prio", "srsp", "wdat"} :
          Goto(s, to) /\ (to = "srsp" => k # "data")
    BY <2>1 DEF Answer, SendPc
  <2>3. kind' = [kind EXCEPT ![s] = k] /\ todo' = [todo EXCEPT ![s] = SnpTodo(k)]
    BY <2>1 DEF Answer
  <2>4. \E j \in Kinds : /\ kind' = [kind EXCEPT ![s] = j]
                         /\ todo' = [todo EXCEPT ![s] = SnpTodo(j)]
                         /\ to = "srsp" => j # "data"
    BY <2>1, <2>2, <2>3
  <2> QED
    BY <1>2, <1>3, <1>4, <1>5, <1>6, <2>2, <2>4, SnoopGoesView DEF Waiting
<1> QED
  BY <1>7, <1>8

LEMMA SnoopRespView ==
  ASSUME ViewCtx, NEW s \in Snps, NEW k \in Kinds, SnoopResp(s, k), IdleHn
  PROVE  ViewInv'
<1>1. pc[s] = "later" /\ Answer(s, k, FALSE) /\ s \in Xs
  BY DEF SnoopResp, Xs
<1>2. PICK to \in {"prio", "srsp", "wdat"} :
        Goto(s, to) /\ (to = "srsp" => k # "data")
  BY <1>1 DEF Answer, SendPc
<1>3. \E j \in Kinds : /\ kind' = [kind EXCEPT ![s] = j]
                       /\ todo' = [todo EXCEPT ![s] = SnpTodo(j)]
                       /\ to = "srsp" => j # "data"
  BY <1>1, <1>2 DEF Answer
<1>4. s \in DOMAIN req
  BY <1>1, ViewPick
<1>5. \A y \in Xs : Mail(y)' = Mail(y)
  BY MailSame DEF SnoopResp
<1>6. UNCHANGED <<fixed, beatVars, alarms, mode, plan, busy, asked, got, due>>
  BY DEF SnoopResp, IdleHn, hnVars
<1> QED
  BY <1>1, <1>2, <1>3, <1>4, <1>5, <1>6, SnoopGoesView DEF Waiting

\* Who waits in prio_srsp for its turn has a response to send.
LEMMA PrioKind ==
  ASSUME QueueInv, NEW s \in Snps, Holds("prioSRSP", s)
  PROVE  kind[s] \in {"resp", "pull"}
<1>1. s \in Xs /\ "prioSRSP" \in Semaphores
  BY DEF Xs, Semaphores
<1>2. Belongs(s, "prioSRSP")
  BY <1>1, HolderGoes
<1> QED
  BY <1>2 DEF Belongs

LEMMA JoinView ==
  ASSUME ViewCtx, QueueInv, NEW s \in Snps, Join(s), IdleHn
  PROVE  ViewInv'
<1>1. pc[s] = "prio" /\ s \in Xs
  BY DEF Join, Xs
<1>2. PICK ch \in {"WDAT", "SRSP"} : Holds(Prio(ch), s) /\ Goto(s, SendPc(ch))
  BY DEF Join
<1>3. ch = "SRSP" => kind[s] \in {"resp", "pull"}
  BY <1>2, PrioKind DEF Prio
<1>4. s \in DOMAIN req
  BY <1>1, ViewPick
<1>5. \A y \in Xs : Mail(y)' = Mail(y)
  BY MailSame DEF Join
<1>6. UNCHANGED <<fixed, beatVars, alarms, mode, plan, busy, asked, got, due,
                  todo, kind>>
  BY DEF Join, snpVars, IdleHn, hnVars
<1>7. SendPc(ch) \in {"srsp", "wdat"} /\ (SendPc(ch) = "srsp" => ch = "SRSP")
  BY <1>2 DEF SendPc
<1> QED
  BY <1>1, <1>2, <1>3, <1>4, <1>5, <1>6, <1>7, SnoopGoesView

LEMMA SendSnoopView ==
  ASSUME ViewCtx, NEW s \in Snps, SendSnoop(s)
  PROVE  ViewInv'
<1>1. /\ pc[s] = "idle" /\ s \in DOMAIN req /\ Goto(s, "snp")
      /\ UNCHANGED <<fixed, beatVars, alarms, mode, plan, busy, asked, got, due,
                     todo, kind>>
  BY DEF SendSnoop, BwSnoop, HN!HnSnoop
<1>2. \A y \in Xs : Mail(y)' = Mail(y)
  BY MailSame DEF SendSnoop, BwSnoop
<1> QED
  BY <1>1, <1>2, SnoopGoesView DEF Waiting

\* The loop of handle_snoop_response.
LEMMA SnpGoes ==
  ASSUME ViewCtx, NEW s \in Snps, NEW left, NEW q, SnpContinue(s, left, q),
         left \subseteq Flags, UNCHANGED <<req, kind>>, rbeat'[s] \in Nat,
         NEW r \in Seq(PlanItems), Tidy(r, rbeat'[s], req[s].beats),
         \A i \in 1 .. Len(r) : r[i] \in BeatPhases,
         r # << >> => "DATA" \in left /\ kind[s] = "pull"
  PROVE  /\ pc'[s] \in {"swait", "ack", "end"} /\ todo'[s] = left
         /\ pc'[s] = "swait" <=> left # {}
         /\ SnpLoop(s, r)'
         /\ \A y \in Xs \ {s} : pc'[y] = pc[y] /\ todo'[y] = todo[y]
         /\ todo' = [y \in Xs |-> todo'[y]]
<1>1. s \in Xs
  BY DEF Xs
<1>2. /\ pc'[s] \in {"swait", "ack", "end"} /\ todo'[s] = left
      /\ pc'[s] = "swait" <=> left # {}
      /\ \A y \in Xs \ {s} : pc'[y] = pc[y] /\ todo'[y] = todo[y]
      /\ todo' = [y \in Xs |-> todo'[y]]
  BY <1>1, Shapes DEF SnpContinue, Goto
<1>3. SnpLoop(s, r)'
  BY <1>2 DEF SnpLoop, Waiting
<1> QED
  BY <1>2, <1>3

\* BEGIN_RESP: the home node plans the beats that the snoop pulls.
LEMMA SendSnoopRespView ==
  ASSUME ViewCtx, NEW s \in Snps, NEW n, NEW k, SendSnoopResp(s, mode.sync, n),
         HN!HnSnoopResp(s, IF kind[s] = "pull" THEN req[s].beats ELSE 0, k)
  PROVE  ViewInv'
<1>1. s \in Xs /\ pc[s] = "srsp" /\ s \notin Reqs
  BY ChiAssumption DEF ChiAssumption, Xs, SendSnoopResp
<1>2. PICK e, p, r : Parts(s, e, p, r) /\ Work(s, r)
  BY <1>1, ViewPick
<1>3. s \in DOMAIN req /\ req[s].beats \in Nat \ {0}
  BY <1>1, ViewPick
<1>4. /\ r = << >> /\ rbeat[s] = 0 /\ kind[s] \in {"resp", "pull"}
      /\ todo[s] = SnpTodo(kind[s]) /\ got[s] = wbeat[s]
      /\ wbeat[s] \in 0 .. req[s].beats
  BY <1>1, <1>2 DEF Work, SnpLoop
<1>5. p = "none" /\ s \notin busy
  BY <1>2, <1>4 DEF Parts
<1>6. PICK b \in Seq(PlanItems) :
        /\ b = HN!Beats(IF kind[s] = "pull" THEN req[s].beats ELSE 0)
        /\ Tidy(b, 0, req[s].beats) /\ \A i \in 1 .. Len(b) : b[i] \in BeatPhases
        /\ b # << >> => kind[s] = "pull"
  <2>1. CASE kind[s] = "pull"
    <3>1. PICK c : c = HN!Beats(req[s].beats)
      OBVIOUS
    <3>2. /\ c \in Seq(PlanItems) /\ Tidy(c, 0, req[s].beats)
          /\ c \in Seq(BeatPhases)
      BY <1>3, <3>1, BeatsTidy, BeatsType
    <3>3. \A i \in 1 .. Len(c) : c[i] \in BeatPhases
      BY <3>2
    <3> QED
      BY <2>1, <3>1, <3>2, <3>3
  <2>2. CASE kind[s] # "pull"
    <3>1. PICK c : c = << >>
      OBVIOUS
    <3>2. HN!Beats(0) = c
      <4>1. 1 .. 0 = {}
        OBVIOUS
      <4> QED
        BY <3>1, <4>1 DEF HN!Beats
    <3>3. 1 .. Len(c) = {}
      BY <3>1
    <3>4. Tidy(c, 0, req[s].beats) /\ c \in Seq(PlanItems)
      BY <3>1, <3>3 DEF Tidy
    <3> QED
      BY <2>2, <3>1, <3>2, <3>3, <3>4
  <2> QED
    BY <2>1, <2>2
<1>7. PICK left, q : /\ SnpContinue(s, left, q)
                     /\ left = IF mode.sync THEN todo[s] \ {"CTRL"} ELSE todo[s]
  BY DEF SendSnoopResp
<1>8. /\ UNCHANGED <<fixed, beatVars, slotVars, kind, alarms, mode, busy, asked,
                     got>>
      /\ plan'[s] = b /\ \A y \in Xs \ {s} : plan'[y] = plan[y]
  BY <1>1, <1>6, Shapes DEF SendSnoopResp, HN!HnSnoopResp
<1>9. /\ left \subseteq Flags
      /\ b # << >> => "DATA" \in left /\ kind[s] = "pull"
      /\ mode.sync => "CTRL" \notin left
      /\ ~mode.sync => "CTRL" \in left
  BY <1>4, <1>6, <1>7 DEF SnpTodo, Flags
<1>10. /\ pc'[s] \in {"swait", "ack", "end"} /\ todo'[s] = left
       /\ pc'[s] = "swait" <=> left # {}
       /\ SnpLoop(s, b)'
       /\ \A y \in Xs \ {s} : pc'[y] = pc[y] /\ todo'[y] = todo[y]
       /\ todo' = [y \in Xs |-> todo'[y]]
  <2>1. UNCHANGED <<req, kind>> /\ rbeat'[s] = 0
    BY <1>4, <1>8 DEF fixed, beatVars
  <2> QED
    BY <1>6, <1>7, <1>9, <2>1, SnpGoes
<1>11. \A y \in Xs : Mail(y)' = Mail(y)
  BY <1>8, MailSame
<1>12. Parts(s, "none", p, b)'
  <2>1. HN!AnswerLater(s, "END_RESP")
    BY DEF HN!HnSnoopResp
  <2>2. /\ Await(s) = {}
        /\ IF mode.sync THEN Await(s)' = {} ELSE "END_RESP" \in Await(s)'
    BY <1>1, <1>9, <1>10 DEF Await
  <2> QED
    BY <1>1, <1>2, <1>5, <1>6, <1>8, <1>11, <2>1, <2>2, PartsSend DEF ViewCtx,
       beatVars
<1>13. Work(s, b)'
  <2>1. rbeat[s] \in 0 .. req[s].beats
    BY <1>3, <1>4
  <2> QED
    BY <1>1, <1>4, <1>8, <1>9, <1>10, <2>1 DEF Work, fixed, beatVars, DataPcs
<1>14. View(s)'
  BY <1>3, <1>8, <1>12, <1>13 DEF View, fixed
<1>15. \A y \in Xs \ {s} : due'[y] = due[y]
  BY <1>1, Shapes DEF HN!HnSnoopResp, HN!AnswerLater
<1>16. \A y \in Xs \ {s} : Alike(y)
  BY <1>8, <1>10, <1>11, <1>15 DEF Alike, beatVars
<1> QED
  BY <1>1, <1>8, <1>10, <1>14, <1>16, Shapes, ViewKeeps DEF ViewCtx, fixed,
     beatVars

\* END_RESP, or a beat of the pulled data.
LEMMA SnoopWaitView ==
  ASSUME ViewCtx, NEW s \in Snps, SnoopWait(s),
         IF rbeat'[s] = rbeat[s] THEN IdleHn ELSE HN!HnEnd(s, 0)
  PROVE  ViewInv'
<1>1. s \in Xs /\ pc[s] = "swait" /\ HasEntry(s) /\ Pop(s) /\ s \notin Reqs
  BY ChiAssumption DEF ChiAssumption, Xs, SnoopWait
<1>2. PICK e, p, r : Parts(s, e, p, r) /\ Work(s, r)
  BY <1>1, ViewPick
<1>3. s \in DOMAIN req /\ req[s].beats \in Nat \ {0}
  BY <1>1, ViewPick
<1>4. /\ Tidy(r, rbeat[s], req[s].beats)
      /\ \A i \in 1 .. Len(r) : r[i] \in BeatPhases
      /\ r # << >> => "DATA" \in todo[s] /\ kind[s] = "pull"
      /\ todo[s] \subseteq Flags /\ got[s] = wbeat[s] /\ r \in Seq(PlanItems)
      /\ wbeat[s] \in 0 .. req[s].beats /\ rbeat[s] \in 0 .. req[s].beats
      /\ rbeat[s] \in Nat
  BY <1>1, <1>2, <1>3 DEF Work, SnpLoop, Parts
<1>5. /\ UNCHANGED <<fixed, wbeat, rsp, kind, mode, plan, asked, got, due>>
      /\ \A y \in Xs \ {s} : y \in busy' <=> y \in busy
  BY DEF SnoopWait, IdleHn, hnVars, HN!HnEnd
<1> DEFINE data == kind[s] = "pull" /\ Entry(s)[2] \in PartialPhases
           last == data /\ Entry(s)[2] = "BEGIN_DATA"
           left == todo[s] \ ({"CTRL"} \union IF last THEN {"DATA"} ELSE {})
<1>6. /\ rbeat' = [rbeat EXCEPT ![s] = @ + IF data THEN 1 ELSE 0]
      /\ SnpContinue(s, left, queue)
      /\ alarms' = alarms \union
           (IF Entry(s)[1] # s THEN {"assert"} ELSE {}) \union
           (IF ~data /\ Entry(s)[2] # "END_RESP" THEN {"fatal"} ELSE {}) \union
           (IF last /\ rbeat'[s] # req[s].beats THEN {"error"} ELSE {})
  BY DEF SnoopWait
<1>7. left \subseteq Flags /\ "CTRL" \notin left
  BY <1>4
<1> DEFINE Good(q, z) ==
      /\ alarms' = alarms /\ q \in Seq(PlanItems) /\ Parts(s, "none", z, q)'
      /\ rbeat'[s] \in 0 .. req[s].beats
      /\ pc'[s] \in {"swait", "ack", "end"} /\ todo'[s] = left
      /\ SnpLoop(s, q)'
      /\ \A y \in Xs \ {s} : pc'[y] = pc[y] /\ todo'[y] = todo[y]
      /\ todo' = [y \in Xs |-> todo'[y]]
<1>8. ASSUME "CTRL" \in todo[s]
      PROVE  \E q, z : Good(q, z)
  <2>1. Await(s) = {"END_RESP"}
    BY <1>1, <1>8 DEF Await
  <2>2. Mail(s) # << >>
    BY <1>1, MailType DEF ViewCtx
  <2>3. Entry(s) = <<s, "END_RESP">>
    <3>1. e = "END_RESP"
      BY <1>2, <2>1, <2>2 DEF Parts, Box
    <3> QED
      BY <1>1, <1>2, <3>1, BoxEntry DEF ViewCtx, Parts
  <2>4. ~data /\ ~last
    BY <2>3 DEF PartialPhases
  <2>5. rbeat'[s] = rbeat[s] /\ alarms' = alarms
    BY <1>1, <1>6, <2>3, <2>4, Shapes
  <2>6. IdleHn
    BY <2>5
  <2>7. r # << >> => "DATA" \in left /\ kind[s] = "pull"
    BY <1>4, <2>4
  <2> HIDE DEF data, last, left
  <2>8. /\ pc'[s] \in {"swait", "ack", "end"} /\ todo'[s] = left
        /\ SnpLoop(s, r)'
        /\ \A y \in Xs \ {s} : pc'[y] = pc[y] /\ todo'[y] = todo[y]
        /\ todo' = [y \in Xs |-> todo'[y]]
    <3>1. UNCHANGED <<req, kind>>
      BY <1>5 DEF fixed
    <3> QED
      BY <1>4, <1>6, <1>7, <2>5, <2>7, <3>1, SnpGoes
  <2>9. Parts(s, "none", p, r)'
    <3>1. Await(s)' = {} /\ Await(s) # {}
      BY <1>7, <2>1, <2>8 DEF Await
    <3> QED
      BY <1>1, <1>2, <1>5, <2>6, <3>1, PartsEnd DEF ViewCtx, IdleHn, hnVars
  <2> QED
    BY <1>4, <2>5, <2>8, <2>9
<1>9. ASSUME "CTRL" \notin todo[s]
      PROVE  \E q, z : Good(q, z)
  <2>1. Await(s) = {}
    BY <1>1, <1>9 DEF Await
  <2>2. /\ r # << >> /\ s \in busy /\ Entry(s) = <<s, PhaseOf(Head(r))>>
        /\ Head(r) = r[1] /\ 1 \in 1 .. Len(r)
    BY <1>1, <1>2, <2>1, PartsFirst DEF ViewCtx
  <2>3. Head(r) \in BeatPhases /\ Entry(s)[1] = s /\ Entry(s)[2] = Head(r)
    BY <1>4, <2>2 DEF PhaseOf
  <2>4. data /\ (last <=> Head(r) = "BEGIN_DATA")
    BY <1>4, <2>2, <2>3 DEF BeatPhases, PartialPhases
  <2>5. PICK q \in Seq(PlanItems) : q = Tail(r)
    <3>1. Tail(r) \in Seq(PlanItems)
      BY <1>4, <2>2
    <3> QED
      BY <3>1
  <2>6. /\ Tidy(q, rbeat[s] + 1, req[s].beats) /\ rbeat[s] < req[s].beats
        /\ \A i \in 1 .. Len(q) : q[i] \in BeatPhases
        /\ Head(r) = "BEGIN_DATA" => rbeat[s] + 1 = req[s].beats /\ q = << >>
    <3>1. req[s].beats \in Nat
      BY <1>3
    <3> QED
      BY <1>4, <2>2, <2>3, <2>5, <3>1, TidyTail
  <2>7. rbeat'[s] = rbeat[s] + 1
    BY <1>1, <1>6, <2>4, Shapes
  <2>8. alarms' = alarms
    BY <1>6, <2>3, <2>4, <2>6, <2>7
  <2>9. HN!HnEnd(s, 0)
    BY <1>4, <2>7
  <2>10. q # << >> => "DATA" \in left /\ kind[s] = "pull"
    BY <1>4, <2>2, <2>4, <2>6
  <2> HIDE DEF data, last, left
  <2>11. /\ pc'[s] \in {"swait", "ack", "end"} /\ todo'[s] = left
         /\ SnpLoop(s, q)'
         /\ \A y \in Xs \ {s} : pc'[y] = pc[y] /\ todo'[y] = todo[y]
         /\ todo' = [y \in Xs |-> todo'[y]]
    <3>1. UNCHANGED <<req, kind>>
      BY <1>5 DEF fixed
    <3>2. Tidy(q, rbeat'[s], req[s].beats) /\ rbeat'[s] \in Nat
      BY <1>4, <2>6, <2>7
    <3> QED
      BY <1>6, <1>7, <2>6, <2>10, <3>1, <3>2, SnpGoes
  <2>12. Parts(s, "none", "none", q)'
    <3>1. Await(s)' = {}
      BY <1>7, <2>11 DEF Await
    <3> QED
      BY <1>1, <1>2, <1>5, <2>1, <2>5, <2>9, <3>1, PartsItem DEF ViewCtx,
         HN!HnEnd
  <2>13. rbeat'[s] \in 0 .. req[s].beats
    BY <1>3, <1>4, <2>6, <2>7
  <2> QED
    BY <2>8, <2>11, <2>12, <2>13
<1>10. PICK q, z : Good(q, z)
  BY <1>8, <1>9
<1> HIDE DEF left
<1>11. Work(s, q)'
  BY <1>1, <1>4, <1>5, <1>7, <1>10 DEF Work, fixed, DataPcs
<1>12. View(s)'
  BY <1>3, <1>5, <1>10, <1>11 DEF View, fixed
<1>13. \A y \in Xs \ {s} : Mail(y)' = Mail(y) /\ rbeat'[y] = rbeat[y]
  BY <1>1, <1>6, MailKept, Shapes DEF ViewCtx
<1>14. \A y \in Xs \ {s} : Alike(y)
  BY <1>5, <1>10, <1>13 DEF Alike
<1> QED
  BY <1>1, <1>5, <1>10, <1>12, <1>14, Shapes, ViewKeeps DEF ViewCtx, fixed

LEMMA SnoopView ==
  ASSUME ViewCtx, QueueInv, NEW s \in Snps, SnoopStep(s)
  PROVE  ViewInv'
<1>1. s \in Xs
  BY DEF Xs
<1>2. ASSUME NEW k \in Kinds, SnoopResp(s, k), IdleHn
      PROVE  ViewInv'
  BY <1>2, SnoopRespView
<1>3. CASE IdleHn /\ Join(s)
  BY <1>3, JoinView
<1>4. CASE IdleHn /\ FinishSnoop(s)
  BY <1>1, <1>4, EndView
<1>5. ASSUME NEW n, SendSnoopResp(s, mode.sync, n),
             HN!HnSnoopResp(s, IF kind[s] = "pull" THEN req[s].beats ELSE 0, n)
      PROVE  ViewInv'
  BY <1>5, SendSnoopRespView
<1>6. CASE /\ SnoopWait(s)
           /\ IF rbeat'[s] = rbeat[s] THEN IdleHn ELSE HN!HnEnd(s, 0)
  BY <1>6, SnoopWaitView
<1> QED
  BY <1>2, <1>3, <1>4, <1>5, <1>6 DEF SnoopStep

-----------------------------------------------------------------------------
(* The home node.                                                          *)

\* The next response or beat: it is awaited, and no END phase is due.
LEMMA HnRespondView ==
  ASSUME ViewCtx, EarlyIsSync, NEW x \in Xs, HnRespond(x)
  PROVE  ViewInv'
<1>1. x \in DOMAIN req /\ req[x].beats \in Nat \ {0}
  BY ViewPick DEF HnRespond
<1>2. PICK e, p, r : Parts(x, e, p, r) /\ Work(x, r)
  BY <1>1, ViewPick
<1>3. HN!Ready(x, req[x].beats) /\ HN!HnSend(x, req[x].beats)
  BY DEF HnRespond, HN!HnSend
<1>4. /\ plan[x] # << >> /\ x \notin busy /\ r = plan[x] /\ p = "none"
      /\ r \in Seq(PlanItems)
  BY <1>2, <1>3 DEF HN!Ready, Parts
<1>5. pc[x] \notin Early \union Ending \union {"ack", "snp", "later"}
  BY <1>2, <1>4 DEF Work, ReqLoop, SnpLoop, Xs, ViewCtx, PlacesInv, PcInv,
     Early, Ending
<1>6. slot[x] # 0
  BY <1>5 DEF ViewCtx, PlacesInv, PcInv, SlotInv, OwnerInv, HasSlot, Early,
     Ending
<1>7. pc[x] \in DataPcs /\ ~mode.sync => got[x] = req[x].beats /\ due[x] = << >>
  <2>1. ASSUME pc[x] \in DataPcs, ~mode.sync
        PROVE  got[x] = req[x].beats /\ due[x] = << >>
    <3>1. x \in Reqs
      BY <1>2, <1>4, <2>1 DEF Work, SnpLoop, Xs, DataPcs
    <3>2. x \in asked
      BY <1>2, <2>1, <3>1 DEF Work, ReqLoop
    <3>3. ~mode.early
      BY <2>1 DEF EarlyIsSync, ViewCtx, ViewInv
    <3> QED
      BY <1>3, <3>2, <3>3 DEF HN!Ready
  <2> QED
    BY <2>1
<1>8. due[x] = << >>
  <2>1. SUFFICES ASSUME due[x] # << >>
                 PROVE  FALSE
    OBVIOUS
  <2>2. PICK d \in Await(x) : due[x] = <<d>>
    BY <1>2, <2>1 DEF Parts
  <2>3. d \notin {"END_REQ", "END_RESP"}
    <3>1. 1 \in 1 .. Len(due[x]) /\ due[x][1] = d
      BY <2>2
    <3> QED
      BY <1>3, <3>1 DEF HN!Ready
  <2>4. pc[x] = "wwait"
    BY <2>2, <2>3 DEF Await
  <2>5. ~mode.sync
    BY <1>2, <2>4 DEF Work
  <2> QED
    BY <1>7, <2>1, <2>4, <2>5 DEF DataPcs
<1>9. PICK item : item = Head(plan[x])
  OBVIOUS
<1>10. /\ BwPhase(x, PhaseOf(item), item, 0)
       /\ PhaseOf(item) = "BEGIN_RESP" <=> item \notin BeatPhases
  BY <1>9 DEF HnRespond, HN!IsBeat, PhaseOf, BeatPhases
<1>11. /\ plan' = [plan EXCEPT ![x] = Tail(@)] /\ busy' = busy \union {x}
       /\ asked' = IF item \in DbidItems THEN asked \union {x} ELSE asked
       /\ UNCHANGED <<mode, got, due>>
  BY <1>3, <1>9 DEF HN!HnSend, DbidItems
<1>12. /\ UNCHANGED <<fixed, pc, todo, wbeat, rbeat, kind>> /\ alarms' = alarms
       /\ rsp' = IF item \notin BeatPhases THEN [rsp EXCEPT ![x] = item] ELSE rsp
  BY <1>6, <1>10 DEF BwPhase, Alarm, snpVars
<1>13. /\ rsp'[x] = IF item \notin BeatPhases THEN item ELSE rsp[x]
       /\ \A y \in Xs \ {x} : rsp'[y] = rsp[y] /\ plan'[y] = plan[y]
       /\ rsp' = [y \in Xs |-> rsp'[y]]
  BY <1>11, <1>12, Shapes
<1>14. Await(x)' = Await(x)
  BY <1>12 DEF Await
<1>15. PICK q : Parts(x, e, q, r)'
  BY <1>2, <1>4, <1>6, <1>8, <1>9, <1>10, <1>11, <1>14, Shapes, PartsCome
     DEF ViewCtx
<1>16. x \in Reqs => ReqLoop(x, r)'
  <2>1. Returning(x)' <=> Returning(x)
    BY <1>12 DEF Returning, Op, fixed
  <2>2. Loop(x, r) => Loop(x, r)'
    BY <1>12 DEF Loop, fixed
  <2>3. x \in asked => x \in asked'
    BY <1>11
  <2>4. Head(r) \in DbidItems => x \in asked'
    BY <1>4, <1>9, <1>11
  <2>5. ASSUME x \in Reqs, pc[x] \in {"sent", "synced", "aresp"}
        PROVE  /\ r \in HN!Plans(req[x])
               /\ rsp'[x] # NoResponse => Head(r) = rsp'[x]
    BY <1>2, <1>4, <1>9, <1>13, <2>5 DEF Work, ReqLoop
  <2> QED
    BY <1>2, <1>5, <1>12, <2>1, <2>2, <2>3, <2>4, <2>5 DEF Work, ReqLoop, fixed
<1>17. x \in Snps => SnpLoop(x, r)'
  BY <1>2, <1>12 DEF Work, SnpLoop, fixed
<1>18. Work(x, r)'
  BY <1>2, <1>7, <1>11, <1>12, <1>16, <1>17 DEF Work, fixed
<1>19. View(x)'
  BY <1>1, <1>12, <1>15, <1>18 DEF View, fixed
<1>20. \A y \in Xs \ {x} : Mail(y)' = Mail(y)
  BY <1>10, MailPhase DEF ViewCtx
<1>21. \A y \in Xs \ {x} : Alike(y)
  BY <1>11, <1>12, <1>13, <1>20 DEF Alike
<1> QED
  BY <1>11, <1>12, <1>13, <1>19, <1>21, Shapes, ViewKeeps DEF ViewCtx, fixed

\* An END phase comes later: it is awaited.
LEMMA HnEndPhaseView ==
  ASSUME ViewCtx, NEW x \in Xs, HnEndPhase(x)
  PROVE  ViewInv'
<1>1. due[x] # << >>
  BY DEF HnEndPhase
<1>2. x \in DOMAIN req
  BY <1>1 DEF ViewCtx, ViewInv, View
<1>3. PICK e, p, r : Parts(x, e, p, r) /\ Work(x, r)
  BY <1>2, ViewPick
<1>4. PICK d \in Await(x) : due[x] = <<d>>
  BY <1>1, <1>3 DEF Parts
<1>5. PICK phase, n : BwPhase(x, phase, NoResponse, n) /\ phase = Head(due[x])
  BY DEF HnEndPhase
<1>6. phase = d /\ phase # "BEGIN_RESP"
  BY <1>4, <1>5 DEF Await, EndData
<1>7. slot[x] # 0
  BY <1>4 DEF Await, ViewCtx, SlotInv, OwnerInv, HasSlot, Pcs
<1>8. /\ due' = [due EXCEPT ![x] = Tail(@)]
      /\ UNCHANGED <<mode, plan, busy, asked, got>>
  BY DEF HnEndPhase, HN!HnAnswer
<1>9. UNCHANGED <<fixed, pc, todo, beatVars, kind, alarms>>
  BY <1>5, <1>6, <1>7 DEF BwPhase, Alarm, snpVars, beatVars
<1>10. Await(x)' = Await(x)
  BY <1>9 DEF Await
<1>11. PICK c : Parts(x, c, "none", r)'
  BY <1>1, <1>3, <1>5, <1>7, <1>8, <1>10, PartsAnswer DEF ViewCtx
<1>12. x \in Reqs => ReqLoop(x, r)'
  <2>1. Returning(x)' <=> Returning(x)
    BY <1>9 DEF Returning, Op, fixed
  <2>2. Loop(x, r) => Loop(x, r)'
    BY <1>9 DEF Loop, fixed, beatVars
  <2> QED
    BY <1>3, <1>8, <1>9, <2>1, <2>2 DEF Work, ReqLoop, fixed, beatVars
<1>13. x \in Snps => SnpLoop(x, r)'
  BY <1>3, <1>9 DEF Work, SnpLoop, fixed, beatVars
<1>14. Work(x, r)'
  BY <1>3, <1>8, <1>9, <1>12, <1>13 DEF Work, fixed, beatVars
<1>15. View(x)'
  BY <1>2, <1>9, <1>11, <1>14 DEF View, fixed
<1>16. \A y \in Xs \ {x} : Mail(y)' = Mail(y) /\ due'[y] = due[y]
  BY <1>5, <1>8, MailPhase, Shapes DEF ViewCtx
<1>17. \A y \in Xs \ {x} : Alike(y)
  BY <1>8, <1>9, <1>16 DEF Alike, beatVars
<1> QED
  BY <1>8, <1>9, <1>15, <1>17, Shapes, ViewKeeps DEF ViewCtx, fixed, beatVars

-----------------------------------------------------------------------------
(* All steps.                                                              *)

LEMMA ViewFrame ==
  ASSUME ViewInv, UNCHANGED <<fixed, pc, todo, beatVars, slotVars, kind, alarms,
                              mode, plan, busy, asked, got, due>>
  PROVE  ViewInv'
<1>1. \A y \in Xs : Alike(y)
  BY MailSame DEF Alike, beatVars
<1>2. \A y \in Xs : View(y)'
  BY <1>1, ViewOther DEF ViewInv, fixed
<1> QED
  BY <1>2 DEF ViewInv, NoAlarm, beatVars

LEMMA HandlerView ==
  ASSUME IsFiniteSet(Xs), ViewCtx, HandlerStep
  PROVE  ViewInv'
<1>1. CASE (Dispatch \/ HandlerIdle) /\ IdleHn
  BY <1>1, ViewFrame DEF ViewCtx, Dispatch, HandlerIdle, IdleHn, hnVars
<1>2. ASSUME NEW fresh \in BOOLEAN, NEW k \in Kinds \union {"later"},
             TakeSnoop(fresh, k),
             HN!HnCredits([SNP |-> SnoopCredit, CRSP |-> 0, RDAT |-> 0])
      PROVE  ViewInv'
  BY <1>2, TakeSnoopView
<1> QED
  BY <1>1, <1>2 DEF HandlerStep

LEMMA NextView ==
  ASSUME IsFiniteSet(Xs), EarlyIsSync, CommandsFit, ViewCtx, QueueInv,
         [Next]_vars
  PROVE  ViewInv'
<1>1. ASSUME NEW t \in Reqs, TransportStep(t)
      PROVE  ViewInv'
  BY <1>1, TransportView
<1>2. ASSUME NEW s \in Snps, SnoopStep(s) \/ SendSnoop(s)
      PROVE  ViewInv'
  BY <1>2, SnoopView, SendSnoopView
<1>3. ASSUME NEW x \in Xs, DataStep(x) \/ HnStep(x)
      PROVE  ViewInv'
  BY <1>3, DataView, HnRespondView, HnEndPhaseView DEF HnStep
<1>4. CASE HandlerStep
  BY <1>4, HandlerView
<1>5. CASE ClkStep
  BY <1>5, ViewFrame DEF ViewCtx, ClkStep, ClkCounter, snpVars, HN!HnCredits
<1>6. ASSUME NEW c \in Channels, Grant(c)
      PROVE  ViewInv'
  BY <1>6, ViewFrame DEF ViewCtx, Grant, BwCredit, snpVars, HN!HnGrant
<1>7. CASE UNCHANGED vars
  BY <1>7, ViewFrame DEF ViewCtx, vars, rnVars, hnVars, fixed, snpVars
<1> QED
  BY <1>1, <1>2, <1>3, <1>4, <1>5, <1>6, <1>7 DEF Next

LEMMA InitView ==
  ASSUME Init
  PROVE  ViewInv
<1>1. /\ req \in Scenarios /\ pc = [x \in Xs |-> "idle"]
      /\ todo = [x \in Xs |-> {}] /\ wbeat = [x \in Xs |-> 0]
      /\ rbeat = [x \in Xs |-> 0] /\ rsp = [x \in Xs |-> NoResponse]
      /\ slot = [x \in Xs |-> 0] /\ alarms = {} /\ mode \in Modes
      /\ plan = [x \in Xs |-> << >>] /\ busy = {} /\ asked = {}
      /\ got = [x \in Xs |-> 0] /\ due = [x \in Xs |-> << >>]
  BY DEF Init, RnInit, HN!HnInit
<1>2. ASSUME NEW x \in Xs
      PROVE  View(x)
  <2>1. CASE x \notin DOMAIN req
    BY <1>1, <2>1 DEF View
  <2>2. CASE x \in DOMAIN req
    <3>1. PICK r : r = << >>
      OBVIOUS
    <3>2. Parts(x, "none", "none", r)
      BY <1>1, <3>1 DEF Parts, Box, Mail, Await
    <3>3. req[x].beats \in Nat \ {0}
      BY <1>1, <2>2, ChiAssumption DEF ChiAssumption
    <3>4. ReqLoop(x, r) /\ SnpLoop(x, r)
      BY <1>1, <3>1 DEF ReqLoop, SnpLoop, Early, DataPcs, Ending, Waiting
    <3>5. Work(x, r)
      <4>1. 0 \in 0 .. req[x].beats
        BY <3>3
      <4> QED
        BY <1>1, <3>4, <4>1 DEF Work, DataPcs
    <3> QED
      BY <2>2, <3>2, <3>5 DEF View
  <2> QED
    BY <2>1, <2>2
<1> QED
  BY <1>1, <1>2 DEF ViewInv, NoAlarm

WorkInv == CreditInv /\ SlotInv /\ BurstInv /\ QueueInv /\ ViewInv

\* What has come for a payload, what its process waits for and what the home
\* node still has to send fit together, for any requests, snoops and burst
\* lengths, if the home node, when it is early, answers in the call.
THEOREM WorkInvariant ==
  ASSUME IsFiniteSet(Xs), EarlyIsSync, CommandsFit
  PROVE  Spec => []WorkInv
<1>1. Init => WorkInv
  BY InitCredit, InitSlot, InitBurst, InitQueue, InitView DEF WorkInv
<1>2. WorkInv /\ [Next]_vars => WorkInv'
  <2>1. SUFFICES ASSUME WorkInv, [Next]_vars
                 PROVE  WorkInv'
    OBVIOUS
  <2>2. /\ CreditInv /\ SlotInv /\ BurstInv /\ QueueInv /\ ViewInv
        /\ PlacesInv /\ PlanInv
    BY <2>1 DEF WorkInv, CreditInv
  <2>3. CreditInv' /\ SlotInv'
    BY <2>1, <2>2, NextCredit, NextSlot
  <2>4. BurstInv'
    BY <2>1, <2>2, NextBurst
  <2>5. QueueInv'
    BY <2>1, <2>2, NextQueue DEF QueueCtx
  <2>6. ViewInv'
    BY <2>1, <2>2, NextView DEF ViewCtx
  <2> QED
    BY <2>3, <2>4, <2>5, <2>6 DEF WorkInv
<1> QED
  BY <1>1, <1>2, PTL DEF Spec

\* No assertion and no error of the protocol functions is ever reached.
THEOREM NoAlarmHolds ==
  ASSUME IsFiniteSet(Xs), EarlyIsSync, CommandsFit
  PROVE  Spec => []NoAlarm
<1>1. WorkInv => NoAlarm
  BY DEF WorkInv, ViewInv
<1> QED
  BY <1>1, WorkInvariant, PTL

-----------------------------------------------------------------------------
(* The counters.                                                           *)

\* No credit is used that is not there; snoops come after the first credits.
NatInv ==
  /\ \A c \in Channels : crd[c] >= 0 /\ owed[c] >= 0
  /\ \A c \in ProvKinds : hnCrd[c] >= 0
  /\ clk \in 0 .. 3
  /\ clk < 3 => hnCrd.SNP = 0 /\ snpq = << >> /\ dispq = << >>

LEMMA NatFrame ==
  ASSUME NatInv, UNCHANGED <<crd, owed, hnCrd, clk, snpq, dispq>>
  PROVE  NatInv'
BY DEF NatInv

\* A phase uses a credit, n come back.
LEMMA SpendNat ==
  ASSUME ReceivedInv, NatInv, NEW c \in Channels, NEW n,
         n \in {HN!Returned(c), HN!ReturnedNow(c)}, crd[c] > 0,
         crd' = Spend(c, n), HN!Return(c, n),
         UNCHANGED <<hnCrd, clk, snpq, dispq>>
  PROVE  NatInv'
<1>1. crd[c] \in Int /\ owed[c] \in Int /\ owed[c] >= 0
  BY DEF ReceivedInv, NatInv
<1>2. n = 0 \/ n = owed[c] + 1
  BY DEF HN!Returned, HN!ReturnedNow
<1>3. crd[c] - 1 + n >= 0 /\ owed[c] + 1 - n >= 0
  BY <1>1, <1>2
<1>4. /\ crd' = [crd EXCEPT ![c] = @ - 1 + n]
      /\ owed' = [owed EXCEPT ![c] = @ + 1 - n]
  BY DEF Spend, HN!Return
<1>5. /\ crd'[c] >= 0 /\ owed'[c] >= 0
      /\ \A d \in Channels \ {c} : crd'[d] = crd[d] /\ owed'[d] = owed[d]
  BY <1>3, <1>4 DEF ReceivedInv
<1> QED
  BY <1>5 DEF NatInv

\* n of the credits owed come back.
LEMMA ReturnNat ==
  ASSUME ReceivedInv, NatInv, NEW c \in Channels, NEW n, n \in {0, owed[c]},
         crd' = [crd EXCEPT ![c] = @ + n], owed' = [owed EXCEPT ![c] = @ - n],
         UNCHANGED <<hnCrd, clk, snpq, dispq>>
  PROVE  NatInv'
<1>1. crd[c] \in Int /\ owed[c] \in Int /\ owed[c] >= 0 /\ crd[c] >= 0
  BY DEF ReceivedInv, NatInv
<1>2. crd[c] + n >= 0 /\ owed[c] - n >= 0
  BY <1>1
<1>3. /\ crd'[c] >= 0 /\ owed'[c] >= 0
      /\ \A d \in Channels \ {c} : crd'[d] = crd[d] /\ owed'[d] = owed[d]
  BY <1>2 DEF ReceivedInv
<1> QED
  BY <1>3 DEF NatInv

\* n credits for read data, and none of a snoop.
LEMMA TopUpNat ==
  ASSUME ProvidedInv, NatInv, NEW x, NEW n \in Nat, HN!HnEnd(x, n),
         UNCHANGED <<crd, clk, snpq, dispq>>
  PROVE  NatInv'
<1>1. hnCrd' = [hnCrd EXCEPT !["RDAT"] = @ + n] /\ owed' = owed
  BY DEF HN!HnEnd
<1>2. hnCrd \in [ProvKinds -> Int] /\ "RDAT" \in ProvKinds /\ "SNP" # "RDAT"
  BY DEF ProvidedInv, ProvKinds
<1>3. /\ hnCrd'["RDAT"] = hnCrd["RDAT"] + n
      /\ \A c \in ProvKinds \ {"RDAT"} : hnCrd'[c] = hnCrd[c]
      /\ hnCrd'.SNP = hnCrd.SNP
  BY <1>1, <1>2 DEF ProvKinds
<1>4. \A c \in ProvKinds : hnCrd'[c] >= 0
  BY <1>2, <1>3 DEF NatInv
<1> QED
  BY <1>1, <1>3, <1>4 DEF NatInv

\* Credits g for the home node.
LEMMA GrantsNat ==
  ASSUME ProvidedInv, NatInv, NEW g, \A c \in ProvKinds : g[c] \in Nat,
         HN!HnCredits(g), UNCHANGED crd, clk' \in 0 .. 3,
         clk' < 3 => /\ hnCrd.SNP = 0 /\ g.SNP = 0
                     /\ snpq' = << >> /\ dispq' = << >>
  PROVE  NatInv'
<1>1. hnCrd' = [c \in ProvKinds |-> hnCrd[c] + g[c]] /\ owed' = owed
  BY DEF HN!HnCredits, ProvidedInv
<1>2. hnCrd \in [ProvKinds -> Int] /\ "SNP" \in ProvKinds
  BY DEF ProvidedInv, ProvKinds
<1>3. \A c \in ProvKinds : hnCrd'[c] >= 0
  BY <1>1, <1>2 DEF NatInv
<1>4. clk' < 3 => hnCrd'.SNP = 0
  BY <1>1, <1>2
<1> QED
  BY <1>1, <1>3, <1>4 DEF NatInv

\* The home node uses a credit.
LEMMA UseNat ==
  ASSUME ProvidedInv, NatInv, NEW c \in ProvKinds, hnCrd[c] > 0,
         hnCrd' = [hnCrd EXCEPT ![c] = @ - 1],
         UNCHANGED <<crd, owed, clk, dispq>>,
         c = "SNP" \/ snpq' = snpq
  PROVE  NatInv'
<1>1. hnCrd \in [ProvKinds -> Int] /\ "SNP" \in ProvKinds
  BY DEF ProvidedInv, ProvKinds
<1>2. /\ hnCrd'[c] = hnCrd[c] - 1
      /\ \A d \in ProvKinds \ {c} : hnCrd'[d] = hnCrd[d]
  BY <1>1
<1>3. \A d \in ProvKinds : hnCrd'[d] >= 0
  BY <1>1, <1>2 DEF NatInv
<1>4. clk < 3 => c # "SNP" /\ hnCrd'.SNP = 0
  BY <1>1, <1>2 DEF NatInv
<1> QED
  BY <1>3, <1>4 DEF NatInv

LEMMA TransportNat ==
  ASSUME CreditInv, NatInv, NEW t \in Reqs, TransportStep(t)
  PROVE  NatInv'
<1>1. CASE /\ Transport(t) \/ PassOrder(t) \/ PassStrict(t) \/ PassId(t)
              \/ ReqDone(t) \/ Finish(t)
           /\ IdleHn
  BY <1>1, NatFrame DEF Transport, PassOrder, PassStrict, PassId, ReqDone,
     Finish, IdleHn, hnVars, crdVars, snpVars
<1>2. ASSUME NEW n, n = HN!ReturnedNow("REQ"), SendReq(t, mode.sync, n),
             HN!HnRequest(t, req[t], n)
      PROVE  NatInv'
  <2>1. "REQ" \in Channels
    BY DEF Channels
  <2>2. /\ crd["REQ"] > 0 /\ crd' = Spend("REQ", n) /\ HN!Return("REQ", n)
        /\ UNCHANGED <<hnCrd, clk, snpq, dispq>>
    BY <1>2 DEF SendReq, HN!HnRequest, snpVars
  <2> QED
    BY <1>2, <2>1, <2>2, SpendNat DEF CreditInv
<1>3. CASE (Response(t) \/ AtomicResponse(t)) /\ HN!HnEnd(t, 0)
  <2>1. UNCHANGED <<crd, clk, snpq, dispq>>
    BY <1>3 DEF Response, AtomicResponse, crdVars, snpVars
  <2> QED
    BY <1>3, <2>1, TopUpNat DEF CreditInv
<1>4. CASE AtomicIn(t) /\ IF rbeat'[t] = rbeat[t] THEN IdleHn
                          ELSE HN!HnEnd(t, AtomicTopUp)
  <2>1. UNCHANGED <<crd, clk, snpq, dispq>>
    BY <1>4 DEF AtomicIn, snpVars
  <2>2. CASE IdleHn
    BY <2>1, <2>2, NatFrame DEF IdleHn, hnVars
  <2>3. CASE HN!HnEnd(t, AtomicTopUp)
    <3>1. prov.RDAT \in Int /\ RdatLimit \in Int
      BY ChiAssumption DEF CreditInv, ProvidedInv, ProvKinds, ChiAssumption
    <3>2. AtomicTopUp \in Nat
      BY <3>1 DEF AtomicTopUp
    <3> QED
      BY <2>1, <2>3, <3>2, TopUpNat DEF CreditInv
  <2> QED
    BY <1>4, <2>2, <2>3
<1> QED
  BY <1>1, <1>2, <1>3, <1>4 DEF TransportStep

LEMMA SnoopNat ==
  ASSUME CreditInv, NatInv, NEW s \in Snps, SnoopStep(s)
  PROVE  NatInv'
<1>1. CASE /\ (\E k \in Kinds : SnoopResp(s, k)) \/ Join(s) \/ FinishSnoop(s)
           /\ IdleHn
  BY <1>1, NatFrame DEF SnoopResp, Join, FinishSnoop, IdleHn, hnVars, crdVars,
     snpVars
<1>2. ASSUME NEW n, n = HN!ReturnedNow("SRSP"), SendSnoopResp(s, mode.sync, n),
             HN!HnSnoopResp(s, IF kind[s] = "pull" THEN req[s].beats ELSE 0, n)
      PROVE  NatInv'
  <2>1. "SRSP" \in Channels
    BY DEF Channels
  <2>2. /\ crd["SRSP"] > 0 /\ crd' = Spend("SRSP", n) /\ HN!Return("SRSP", n)
        /\ UNCHANGED <<hnCrd, clk, snpq, dispq>>
    BY <1>2 DEF SendSnoopResp, HN!HnSnoopResp
  <2> QED
    BY <1>2, <2>1, <2>2, SpendNat DEF CreditInv
<1>3. CASE /\ SnoopWait(s)
           /\ IF rbeat'[s] = rbeat[s] THEN IdleHn ELSE HN!HnEnd(s, 0)
  <2>1. UNCHANGED <<crd, clk, snpq, dispq>>
    BY <1>3 DEF SnoopWait, crdVars
  <2>2. CASE IdleHn
    BY <2>1, <2>2, NatFrame DEF IdleHn, hnVars
  <2>3. CASE HN!HnEnd(s, 0)
    BY <2>1, <2>3, TopUpNat DEF CreditInv
  <2> QED
    BY <1>3, <2>2, <2>3
<1> QED
  BY <1>1, <1>2, <1>3 DEF SnoopStep

LEMMA DataNat ==
  ASSUME CreditInv, NatInv, NEW x \in Xs, DataStep(x)
  PROVE  NatInv'
<1>1. ASSUME NEW n, n = HN!ReturnedNow("WDAT"), SendData(x, mode.sync, n),
             HN!HnData(x, wbeat'[x] = req[x].beats, n)
      PROVE  NatInv'
  <2>1. "WDAT" \in Channels
    BY DEF Channels
  <2>2. /\ crd["WDAT"] > 0 /\ crd' = Spend("WDAT", n) /\ HN!Return("WDAT", n)
        /\ UNCHANGED <<hnCrd, clk, snpq, dispq>>
    BY <1>1 DEF SendData, HN!HnData, snpVars
  <2> QED
    BY <1>1, <2>1, <2>2, SpendNat DEF CreditInv
<1>2. CASE DataDone(x) /\ IdleHn
  BY <1>2, NatFrame DEF DataDone, IdleHn, hnVars, crdVars
<1>3. ASSUME NEW n, n = HN!Returned("SRSP"), SendAck(x, n), HN!HnAck(n)
      PROVE  NatInv'
  <2>1. "SRSP" \in Channels
    BY DEF Channels
  <2>2. /\ crd["SRSP"] > 0 /\ crd' = Spend("SRSP", n) /\ HN!Return("SRSP", n)
        /\ UNCHANGED <<hnCrd, clk, snpq, dispq>>
    BY <1>3 DEF SendAck, HN!HnAck, snpVars
  <2> QED
    BY <1>3, <2>1, <2>2, SpendNat DEF CreditInv
<1> QED
  BY <1>1, <1>2, <1>3 DEF DataStep

\* The clock grants no less than nothing, and snoop credits in its last step.
LEMMA ClkNat ==
  ASSUME CreditInv, NatInv, ClkStep
  PROVE  NatInv'
<1>1. /\ prov \in [ProvKinds -> Int] /\ snpCnt \in Int /\ clk \in 0 .. 3
      /\ {SnpReqLimit, SnpLimit, CrespLimit, RdatLimit} \subseteq Int
      /\ prov.SNP = hnCrd.SNP /\ prov.SNP <= SnpLimit
  BY ChiAssumption DEF CreditInv, ProvidedInv, ProvidedCreditsExact, NatInv,
     ChiAssumption
<1>2. clk < 3 => prov.SNP = 0
  BY <1>1 DEF NatInv
<1>3. Granted.SNP \in Nat /\ (clk # 2 => Granted.SNP = 0)
  BY <1>1, <1>2 DEF Granted, ProvKinds
<1>4. Granted.CRSP \in Nat /\ Granted.RDAT \in Nat
  BY <1>1 DEF Granted, ProvKinds
<1>5. \A c \in ProvKinds : Granted[c] \in Nat
  BY <1>3, <1>4 DEF ProvKinds
<1>6. /\ clk' = IF clk < 3 THEN clk + 1 ELSE 3
      /\ UNCHANGED <<crd, snpq, dispq>> /\ HN!HnCredits(Granted)
  BY DEF ClkStep, ClkCounter, snpVars
<1>7. clk' \in 0 .. 3 /\ (clk' < 3 => clk < 3 /\ clk # 2)
  BY <1>1, <1>6
<1>8. clk' < 3 => /\ hnCrd.SNP = 0 /\ Granted.SNP = 0
                  /\ snpq' = << >> /\ dispq' = << >>
  BY <1>3, <1>6, <1>7 DEF NatInv
<1>9. PICK g : g = Granted
  OBVIOUS
<1> QED
  BY <1>5, <1>6, <1>7, <1>8, <1>9, GrantsNat DEF CreditInv

LEMMA HandlerNat ==
  ASSUME CreditInv, NatInv, HandlerStep
  PROVE  NatInv'
<1>1. CASE Dispatch /\ IdleHn
  <2>1. ~(clk < 3) /\ UNCHANGED <<crd, owed, hnCrd, clk>>
    BY <1>1 DEF Dispatch, IdleHn, hnVars, crdVars, NatInv
  <2> QED
    BY <2>1 DEF NatInv
<1>2. CASE HandlerIdle /\ IdleHn
  BY <1>2, NatFrame DEF HandlerIdle, IdleHn, hnVars, crdVars
<1>3. ASSUME NEW fresh \in BOOLEAN, NEW k \in Kinds \union {"later"},
             TakeSnoop(fresh, k),
             HN!HnCredits([SNP |-> SnoopCredit, CRSP |-> 0, RDAT |-> 0])
      PROVE  NatInv'
  <2>1. PICK g : g = [SNP |-> SnoopCredit, CRSP |-> 0, RDAT |-> 0]
    OBVIOUS
  <2>2. \A c \in ProvKinds : g[c] \in Nat
    BY <2>1 DEF ProvKinds, SnoopCredit
  <2>3. dispq # << >> /\ UNCHANGED <<crd, clk>>
    BY <1>3 DEF TakeSnoop
  <2>4. clk' \in 0 .. 3 /\ ~(clk' < 3)
    BY <2>3 DEF NatInv
  <2> QED
    BY <1>3, <2>1, <2>2, <2>3, <2>4, GrantsNat DEF CreditInv
<1> QED
  BY <1>1, <1>2, <1>3 DEF HandlerStep

LEMMA HnNat ==
  ASSUME CreditInv, NatInv, NEW x \in Xs, HnStep(x)
  PROVE  NatInv'
<1>1. CASE HnRespond(x)
  <2>1. PICK c \in ProvKinds :
          hnCrd[c] > 0 /\ hnCrd' = [hnCrd EXCEPT ![c] = @ - 1]
    BY <1>1 DEF HnRespond, HN!HnSend, ProvKinds
  <2>2. UNCHANGED <<crd, owed, clk, snpq, dispq>>
    BY <1>1 DEF HnRespond, HN!HnSend, BwPhase, snpVars
  <2> QED
    BY <2>1, <2>2, UseNat DEF CreditInv
<1>2. CASE HnEndPhase(x)
  <2>1. PICK c, n : /\ c = CreditOf(Head(due[x]))
                    /\ n = IF mode.attach /\ x \notin Snps THEN owed[c] ELSE 0
                    /\ HN!HnAnswer(x, c, n)
                    /\ BwPhase(x, Head(due[x]), NoResponse, n)
    BY <1>2 DEF HnEndPhase
  <2>2. c \in Channels
    BY <2>1 DEF CreditOf, Channels
  <2>3. n \in {0, owed[c]} /\ owed' = [owed EXCEPT ![c] = @ - n]
    BY <2>1 DEF HN!HnAnswer
  <2>4. crd' = [crd EXCEPT ![c] = @ + n]
    <3>1. CASE n = 0
      <4>1. crd' = crd
        BY <2>1, <3>1 DEF BwPhase
      <4>2. crd[c] + 0 = crd[c] /\ crd \in [Channels -> Int]
        BY <2>2 DEF CreditInv, ReceivedInv
      <4> QED
        BY <3>1, <4>1, <4>2
    <3>2. CASE n # 0
      BY <2>1, <3>2 DEF BwPhase
    <3> QED
      BY <3>1, <3>2
  <2>5. UNCHANGED <<hnCrd, clk, snpq, dispq>>
    BY <2>1 DEF HN!HnAnswer, BwPhase, snpVars
  <2> QED
    BY <2>2, <2>3, <2>4, <2>5, ReturnNat DEF CreditInv
<1> QED
  BY <1>1, <1>2 DEF HnStep

LEMMA NextNat ==
  ASSUME CreditInv, NatInv, [Next]_vars
  PROVE  NatInv'
<1>1. ASSUME NEW s \in Snps, SendSnoop(s)
      PROVE  NatInv'
  <2>1. /\ hnCrd["SNP"] > 0 /\ hnCrd' = [hnCrd EXCEPT !["SNP"] = @ - 1]
        /\ UNCHANGED <<crd, owed, clk, dispq>> /\ "SNP" \in ProvKinds
    BY <1>1 DEF SendSnoop, HN!HnSnoop, BwSnoop, ProvKinds
  <2> QED
    BY <2>1, UseNat DEF CreditInv
<1>2. ASSUME NEW c \in Channels, Grant(c)
      PROVE  NatInv'
  <2>1. /\ crd' = [crd EXCEPT ![c] = @ + owed[c]]
        /\ owed' = [owed EXCEPT ![c] = @ - owed[c]]
        /\ UNCHANGED <<hnCrd, clk, snpq, dispq>>
    BY <1>2 DEF Grant, HN!HnGrant, BwCredit, snpVars
  <2> QED
    BY <2>1, ReturnNat DEF CreditInv
<1>3. CASE UNCHANGED vars
  <2>1. UNCHANGED <<crd, owed, hnCrd, clk, snpq, dispq>>
    BY <1>3 DEF vars, rnVars, hnVars, crdVars, snpVars
  <2> QED
    BY <2>1, NatFrame
<1> QED
  BY <1>1, <1>2, <1>3, TransportNat, SnoopNat, DataNat, HnNat, HandlerNat,
     ClkNat DEF Next

LEMMA InitNat ==
  ASSUME Init
  PROVE  NatInv
<1>1. /\ crd = [c \in Channels |-> 0] /\ owed = CrdTotal /\ clk = 0
      /\ hnCrd = [SNP |-> 0, CRSP |-> 0, RDAT |-> 0]
      /\ snpq = << >> /\ dispq = << >>
  BY DEF Init, RnInit, HN!HnInit
<1>2. CrdTotal \in [Channels -> Nat]
  BY ChiAssumption DEF ChiAssumption
<1> QED
  BY <1>1, <1>2 DEF NatInv, ProvKinds

Gates == {"order", "strict", "id"}
Sent == Pcs \ (Early \union {"snp", "later", "done"})

\* The calls of transport at the places ps.
Callers(ps) == {t \in Reqs : pc[t] \in ps}

\* waiting_counter and the requests on the link are counted.
CntInv ==
  /\ cnt \in [waiting : Int, waiting4crd : Int, outstanding : Int]
  /\ cnt.waiting = Cardinality(Callers(Gates))
  /\ cnt.outstanding = Cardinality(Callers(Sent))

LEMMA CallersMove ==
  ASSUME IsFiniteSet(Xs), PcInv, NEW t \in Reqs, NEW to, Goto(t, to), NEW ps
  PROVE  /\ Cardinality(Callers(ps)) \in Nat
         /\ Cardinality(Callers(ps)') =
              Cardinality(Callers(ps))
                + (IF to \in ps THEN 1 ELSE 0) - (IF pc[t] \in ps THEN 1 ELSE 0)
<1>1. pc'[t] = to /\ \A u \in Reqs \ {t} : pc'[u] = pc[u]
  BY DEF Goto, PcInv, Xs
<1> DEFINE S == Callers(ps) \ {t}
<1>2. /\ IsFiniteSet(Callers(ps)) /\ Cardinality(Callers(ps)) \in Nat
      /\ IsFiniteSet(S) /\ Cardinality(S) \in Nat
  <2>1. Callers(ps) \in SUBSET Xs /\ S \in SUBSET Xs
    BY DEF Callers, Xs
  <2> QED
    BY <2>1, FS_Subset, FS_CardinalityType
<1>3. Cardinality(S) = IF t \in Callers(ps) THEN Cardinality(Callers(ps)) - 1
                       ELSE Cardinality(Callers(ps))
  BY <1>2, FS_RemoveElement
<1>4. t \in Callers(ps) <=> pc[t] \in ps
  BY DEF Callers
<1>5. CASE to \in ps
  <2>1. Callers(ps)' = S \union {t}
    BY <1>1, <1>5 DEF Callers
  <2>2. Cardinality(S \union {t}) = Cardinality(S) + 1
    BY <1>2, FS_AddElement
  <2> QED
    BY <2>1, <2>2, <1>2, <1>3, <1>4, <1>5
<1>6. CASE to \notin ps
  <2>1. Callers(ps)' = S
    BY <1>1, <1>6 DEF Callers
  <2> QED
    BY <2>1, <1>2, <1>3, <1>4, <1>6
<1> QED
  BY <1>2, <1>5, <1>6

\* A request moves, and the counters with it.
LEMMA CntMoves ==
  ASSUME IsFiniteSet(Xs), PcInv, CntInv, NEW t \in Reqs, NEW to, Goto(t, to),
         NEW w \in Int, NEW o \in Int,
         cnt' \in [waiting : Int, waiting4crd : Int, outstanding : Int],
         cnt'.waiting = cnt.waiting + w, cnt'.outstanding = cnt.outstanding + o,
         w = (IF to \in Gates THEN 1 ELSE 0) - (IF pc[t] \in Gates THEN 1 ELSE 0),
         o = (IF to \in Sent THEN 1 ELSE 0) - (IF pc[t] \in Sent THEN 1 ELSE 0)
  PROVE  CntInv'
<1>1. /\ Cardinality(Callers(Gates)) \in Nat
      /\ Cardinality(Callers(Gates)') = Cardinality(Callers(Gates)) + w
  BY CallersMove
<1>2. /\ Cardinality(Callers(Sent)) \in Nat
      /\ Cardinality(Callers(Sent)') = Cardinality(Callers(Sent)) + o
  BY CallersMove
<1> QED
  BY <1>1, <1>2 DEF CntInv

LEMMA CntStays ==
  ASSUME IsFiniteSet(Xs), PcInv, CntInv, NEW t \in Reqs, NEW to, Goto(t, to),
         cnt' = cnt, to \in Gates <=> pc[t] \in Gates,
         to \in Sent <=> pc[t] \in Sent
  PROVE  CntInv'
<1>1. /\ cnt' \in [waiting : Int, waiting4crd : Int, outstanding : Int]
      /\ cnt'.waiting = cnt.waiting + 0 /\ cnt'.outstanding = cnt.outstanding + 0
  BY DEF CntInv
<1> QED
  BY <1>1, CntMoves

\* The requests stay where they are.
LEMMA CntFrame ==
  ASSUME CntInv, cnt' = cnt, \A t \in Reqs : pc'[t] = pc[t]
  PROVE  CntInv'
<1>1. \A ps : Callers(ps)' = Callers(ps)
  BY DEF Callers
<1> QED
  BY <1>1 DEF CntInv

\* The step of a snoop.
LEMMA CntSnoop ==
  ASSUME PcInv, CntInv, NEW s \in Snps, NEW to, Goto(s, to), cnt' = cnt
  PROVE  CntInv'
<1>1. \A t \in Reqs : pc'[t] = pc[t]
  BY ChiAssumption DEF ChiAssumption, Goto, PcInv, Xs
<1> QED
  BY <1>1, CntFrame

LEMMA TransportCnt ==
  ASSUME IsFiniteSet(Xs), PcInv, CntInv, NEW t \in Reqs, TransportStep(t)
  PROVE  CntInv'
<1>1. /\ cnt \in [waiting : Int, waiting4crd : Int, outstanding : Int]
      /\ cnt.waiting \in Int /\ cnt.outstanding \in Int
      /\ cnt.waiting4crd \in Int
  BY DEF CntInv
<1>2. CASE Transport(t)
  <2>1. /\ pc[t] = "idle" /\ \E to \in Gates : Goto(t, to)
        /\ cnt' = [cnt EXCEPT !.waiting = @ + 1]
    BY <1>2 DEF Transport, Onward, Gates
  <2>2. /\ cnt' \in [waiting : Int, waiting4crd : Int, outstanding : Int]
        /\ cnt'.waiting = cnt.waiting + 1
        /\ cnt'.outstanding = cnt.outstanding + 0
    BY <1>1, <2>1
  <2> QED
    BY <1>1, <2>1, <2>2, CntMoves DEF Gates, Sent, Early
<1>3. CASE PassOrder(t) \/ PassStrict(t)
  <2>1. pc[t] \in Gates /\ cnt' = cnt /\ \E to \in Gates : Goto(t, to)
    BY <1>3 DEF PassOrder, PassStrict, Onward, Gates
  <2> QED
    BY <2>1, CntStays DEF Gates, Sent, Early
<1>4. CASE PassId(t)
  <2>1. /\ pc[t] = "id" /\ Goto(t, "req")
        /\ cnt' = [cnt EXCEPT !.waiting = @ - 1, !.waiting4crd = @ + 1]
    BY <1>4 DEF PassId, HoldsId
  <2>2. /\ cnt' \in [waiting : Int, waiting4crd : Int, outstanding : Int]
        /\ cnt'.waiting = cnt.waiting + (0 - 1)
        /\ cnt'.outstanding = cnt.outstanding + 0
    <3>1. PICK a \in Int, b \in Int, c \in Int :
            cnt = [waiting |-> a, waiting4crd |-> b, outstanding |-> c]
      BY <1>1
    <3>2. cnt' = [waiting |-> a - 1, waiting4crd |-> b + 1, outstanding |-> c]
      BY <2>1, <3>1
    <3>3. /\ cnt' \in [waiting : Int, waiting4crd : Int, outstanding : Int]
          /\ cnt'.waiting = a - 1 /\ cnt'.outstanding = c
      BY <3>2
    <3> QED
      BY <3>1, <3>3
  <2> QED
    BY <1>1, <2>1, <2>2, CntMoves DEF Gates, Sent, Early
<1>5. ASSUME NEW n, SendReq(t, mode.sync, n)
      PROVE  CntInv'
  <2>1. /\ pc[t] = "req" /\ \E to \in {"sent", "synced"} : Goto(t, to)
        /\ cnt' = [cnt EXCEPT !.waiting4crd = @ - 1, !.outstanding = @ + 1]
    BY <1>5 DEF SendReq
  <2>2. /\ cnt' \in [waiting : Int, waiting4crd : Int, outstanding : Int]
        /\ cnt'.waiting = cnt.waiting + 0
        /\ cnt'.outstanding = cnt.outstanding + 1
    <3>1. PICK a \in Int, b \in Int, c \in Int :
            cnt = [waiting |-> a, waiting4crd |-> b, outstanding |-> c]
      BY <1>1
    <3>2. cnt' = [waiting |-> a, waiting4crd |-> b - 1, outstanding |-> c + 1]
      BY <2>1, <3>1
    <3>3. /\ cnt' \in [waiting : Int, waiting4crd : Int, outstanding : Int]
          /\ cnt'.waiting = a /\ cnt'.outstanding = c + 1
      BY <3>2
    <3> QED
      BY <3>1, <3>3
  <2> QED
    BY <1>1, <2>1, <2>2, CntMoves DEF Gates, Sent, Early, Pcs
<1>6. CASE Finish(t)
  <2>1. /\ pc[t] = "end" /\ Goto(t, "done")
        /\ cnt' = [cnt EXCEPT !.outstanding = @ - 1]
    BY <1>6 DEF Finish
  <2>2. /\ cnt' \in [waiting : Int, waiting4crd : Int, outstanding : Int]
        /\ cnt'.waiting = cnt.waiting + 0
        /\ cnt'.outstanding = cnt.outstanding + (0 - 1)
    BY <1>1, <2>1
  <2> QED
    BY <1>1, <2>1, <2>2, CntMoves DEF Gates, Sent, Early, Pcs
<1>7. CASE ReqDone(t) \/ Response(t) \/ AtomicResponse(t) \/ AtomicIn(t)
  <2>1. /\ pc[t] \in Sent /\ cnt' = cnt /\ \E to \in Sent : Goto(t, to)
    BY <1>7 DEF ReqDone, Response, TakeResponse, TakeData, TakeIllegal,
       Continue, AtomicResponse, AtomicIn, Sent, Early, Pcs
  <2>2. \A p \in Sent : p \notin Gates
    BY DEF Sent, Gates, Early
  <2> QED
    BY <2>1, <2>2, CntStays
<1> QED
  BY <1>2, <1>3, <1>4, <1>5, <1>6, <1>7 DEF TransportStep

LEMMA DataCnt ==
  ASSUME IsFiniteSet(Xs), PcInv, CntInv, NEW x \in Xs, DataStep(x)
  PROVE  CntInv'
<1>1. /\ pc[x] \in Sent /\ cnt' = cnt /\ \E to \in Sent : Goto(x, to)
  BY DEF DataStep, SendData, DataDone, SendAck, Continue, Sent, Early, Pcs
<1>2. \A p \in Sent : p \notin Gates
  BY DEF Sent, Gates, Early
<1>3. x \in Reqs \/ x \in Snps
  BY DEF Xs
<1> QED
  BY <1>1, <1>2, <1>3, CntStays, CntSnoop

LEMMA SnoopCnt ==
  ASSUME PcInv, CntInv, NEW s \in Snps, SnoopStep(s) \/ SendSnoop(s)
  PROVE  CntInv'
<1>1. cnt' = cnt /\ \E to : Goto(s, to)
  BY DEF SnoopStep, SendSnoop, SnoopResp, Join, FinishSnoop, SendSnoopResp,
     SnoopWait, SnpContinue, Answer, BwSnoop
<1> QED
  BY <1>1, CntSnoop

LEMMA HandlerCnt ==
  ASSUME PlacesInv, CntInv, HandlerStep
  PROVE  CntInv'
<1>1. CASE Dispatch \/ HandlerIdle
  BY <1>1, CntFrame DEF Dispatch, HandlerIdle
<1>2. ASSUME NEW fresh \in BOOLEAN, NEW k \in Kinds \union {"later"},
             TakeSnoop(fresh, k)
      PROVE  CntInv'
  <2>1. PICK s : s = Head(dispq)
    OBVIOUS
  <2>2. s \in Snps
    BY <1>2, <2>1, TailLine DEF TakeSnoop, PlacesInv, SnoopInv
  <2>3. cnt' = cnt /\ \E to : Goto(s, to)
    BY <1>2, <2>1 DEF TakeSnoop, Answer
  <2> QED
    BY <2>2, <2>3, CntSnoop DEF PlacesInv
<1> QED
  BY <1>1, <1>2 DEF HandlerStep

LEMMA NextCnt ==
  ASSUME IsFiniteSet(Xs), PlacesInv, CntInv, [Next]_vars
  PROVE  CntInv'
<1>1. ASSUME NEW x \in Xs, HnStep(x)
      PROVE  CntInv'
  BY <1>1, CntFrame DEF HnStep, HnRespond, HnEndPhase, BwPhase
<1>2. CASE ClkStep
  BY <1>2, CntFrame DEF ClkStep, ClkCounter
<1>3. ASSUME NEW c \in Channels, Grant(c)
      PROVE  CntInv'
  BY <1>3, CntFrame DEF Grant, BwCredit
<1>4. CASE UNCHANGED vars
  <2>1. UNCHANGED <<pc, cnt>>
    BY <1>4 DEF vars, rnVars
  <2> QED
    BY <2>1, CntFrame
<1> QED
  BY <1>1, <1>2, <1>3, <1>4, TransportCnt, DataCnt, SnoopCnt, HandlerCnt
     DEF Next, PlacesInv

LEMMA InitCnt ==
  ASSUME Init
  PROVE  CntInv
<1>1. /\ pc = [x \in Xs |-> "idle"]
      /\ cnt = [waiting |-> 0, waiting4crd |-> 0, outstanding |-> 0]
  BY DEF Init, RnInit
<1>2. Callers(Gates) = {} /\ Callers(Sent) = {}
  BY <1>1 DEF Callers, Gates, Sent, Early, Xs
<1> QED
  BY <1>1, <1>2, FS_EmptySet DEF CntInv

\* A queue is as long as there are callers at most.
LEMMA LinedLength ==
  ASSUME IsFiniteSet(Xs), NEW q, NEW s, Lined(q, s)
  PROVE  Len(q) <= Cardinality(Xs)
<1>1. q \in Seq(Xs) /\ \A i, j \in 1 .. Len(q) : q[i] = q[j] => i = j
  BY DEF Lined
<1>2. PICK n \in Nat : n = Len(q)
  BY <1>1
<1>3. q \in [1 .. n -> Xs]
  BY <1>1, <1>2
<1>4. q \in Injection(1 .. n, Xs)
  BY <1>1, <1>2, <1>3 DEF Injection, IsInjective
<1>5. IsFiniteSet(1 .. n) /\ Cardinality(1 .. n) = n
  <2>0. 1 \in Int /\ n \in Int
    OBVIOUS
  <2>1. /\ IsFiniteSet(1 .. n)
        /\ Cardinality(1 .. n) = IF 1 > n THEN 0 ELSE n - 1 + 1
    BY <2>0, FS_Interval, Zenon
  <2>2. (IF 1 > n THEN 0 ELSE n - 1 + 1) = n
    BY <1>2
  <2> QED
    BY <2>1, <2>2
<1>6. Cardinality(1 .. n) <= Cardinality(Xs)
  BY <1>4, FS_Injection
<1> QED
  BY <1>2, <1>5, <1>6

LEMMA ViewType ==
  ASSUME ViewCtx
  PROVE  /\ todo \in [Xs -> SUBSET Flags]
         /\ \A x \in DOMAIN req :
              wbeat[x] <= req[x].beats /\ rbeat[x] <= req[x].beats
<1>1. ASSUME NEW x \in Xs
      PROVE  todo[x] \subseteq Flags
  BY DEF ViewCtx, ViewInv, View, Work
<1>2. ASSUME NEW x \in DOMAIN req
      PROVE  wbeat[x] <= req[x].beats /\ rbeat[x] <= req[x].beats
  <2>1. x \in Xs /\ req[x].beats \in Nat
    BY ChiAssumption DEF ChiAssumption, ViewCtx, PlacesInv, PcInv
  <2> QED
    BY <2>1 DEF ViewCtx, ViewInv, View, Work
<1>3. todo = [x \in Xs |-> todo[x]]
  BY DEF ViewCtx, ViewInv
<1> QED
  BY <1>1, <1>2, <1>3

\* All counters are natural numbers.
LEMMA CountsType ==
  ASSUME IsFiniteSet(Xs), CreditInv, HandlerInv, CntInv, NatInv
  PROVE  /\ clk \in 0 .. 3 /\ snpCnt \in Nat
         /\ \A c \in Channels : crd[c] \in 0 .. CrdTotal[c] /\ owed[c] \in Nat
         /\ \A c \in DOMAIN prov : prov[c] \in Nat /\ hnCrd[c] \in Nat
         /\ threads.avail \in Nat
         /\ cnt.waiting \in Nat /\ cnt.outstanding \in Nat
<1>1. snpCnt \in Nat /\ threads.avail \in Nat
  <2>1. Replies \in SUBSET Snps /\ snpCnt = Cardinality(Replies)
    BY DEF HandlerInv, HandlersCounted, Replies, Counted
  <2> QED
    BY <2>1, SnpsFinite DEF HandlerInv
<1>2. cnt.waiting \in Nat /\ cnt.outstanding \in Nat
  <2>1. \A ps : Callers(ps) \in SUBSET Xs
    BY DEF Callers, Xs
  <2>2. \A ps : Cardinality(Callers(ps)) \in Nat
    BY <2>1, FS_Subset, FS_CardinalityType
  <2> QED
    BY <2>2 DEF CntInv
<1>3. ASSUME NEW c \in Channels
      PROVE  crd[c] \in 0 .. CrdTotal[c] /\ owed[c] \in Nat
  <2>1. crd[c] \in Int /\ owed[c] \in Int /\ crd[c] + owed[c] = CrdTotal[c]
    BY DEF CreditInv, ReceivedInv, ReceivedCreditsConserved
  <2>2. crd[c] >= 0 /\ owed[c] >= 0
    BY DEF NatInv
  <2> QED
    BY <2>1, <2>2
<1>4. /\ DOMAIN prov = ProvKinds
      /\ \A c \in ProvKinds : prov[c] \in Int /\ hnCrd[c] \in Int
  BY DEF CreditInv, ProvidedInv
<1>5. /\ hnCrd["SNP"] = prov["SNP"] /\ hnCrd["CRSP"] = prov["CRSP"]
      /\ hnCrd["RDAT"] <= prov["RDAT"]
  BY DEF CreditInv, ProvidedInv, ProvidedCreditsExact
<1>6. \A c \in ProvKinds : hnCrd[c] >= 0 /\ prov[c] >= hnCrd[c]
  BY <1>4, <1>5 DEF NatInv, ProvKinds
<1>7. \A c \in DOMAIN prov : prov[c] \in Nat /\ hnCrd[c] \in Nat
  BY <1>4, <1>6
<1> QED
  BY <1>1, <1>2, <1>3, <1>7 DEF NatInv

\* The shared state of the request node is consistent, for any calls of
\* transport, snoops, burst lengths and limits: every counter, queue and place
\* is what it should be, the state of a transaction has one owner, the handlers
\* are counted, and no assertion or error is reached.
THEOREM NodeConsistentHolds ==
  ASSUME IsFiniteSet(Xs), OneResponse, EarlyIsSync, CommandsFit
  PROVE  Spec => []NodeConsistent
<1> DEFINE Count == HandlerInv /\ OrderInv /\ NatInv /\ CntInv
           Inv == WorkInv /\ Count
<1>1. Init => Count
  BY InitHandler, InitOrder, InitNat, InitCnt
<1>2. WorkInv /\ Count /\ [Next]_vars => Count'
  <2>1. SUFFICES ASSUME WorkInv, Count, [Next]_vars
                 PROVE  Count'
    OBVIOUS
  <2>2. CreditInv /\ SlotInv /\ PlacesInv /\ PlanInv
    BY <2>1 DEF WorkInv, CreditInv
  <2>3. HandlerInv' /\ OrderInv'
    BY <2>1, <2>2, NextHandler, NextOrder
  <2>4. NatInv' /\ CntInv'
    BY <2>1, <2>2, NextNat, NextCnt
  <2> QED
    BY <2>3, <2>4
<1>3. Inv => TypeOK
  <2>1. SUFFICES ASSUME Inv
                 PROVE  TypeOK
    OBVIOUS
  <2>2. CreditInv /\ PlacesInv /\ ViewCtx
    BY <2>1 DEF WorkInv, CreditInv, ViewCtx
  <2>3. \A s \in Semaphores : Len(queue[s]) <= Cardinality(Xs)
    BY <2>1, LinedLength DEF WorkInv, QueueInv
  <2>4. pc \in [Xs -> Pcs] /\ free \in 0 .. 1
    BY <2>1, <2>2 DEF PlacesInv, PcInv, OrderInv, TokenInv
  <2> QED
    BY <2>1, <2>2, <2>3, <2>4, ViewType, CountsType DEF TypeOK
<1>4. Spec => []TypeOK
  BY <1>1, <1>2, <1>3, WorkInvariant, PTL DEF Spec
<1> QED
  BY <1>4, NoAlarmHolds, StateOwnedHolds, HandlersCountedHolds, PTL
     DEF NodeConsistent
=============================================================================
