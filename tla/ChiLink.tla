------------------------------ MODULE ChiLink ------------------------------
(***************************************************************************)
(* A request node and a home node.  Calls of nb_transport_fw and           *)
(* nb_transport_bw are steps of both.                                      *)
(***************************************************************************)
EXTENDS ChiRnInitiator

CONSTANTS Modes, CrdTotal

ASSUME ChiAssumption ==
  /\ Reqs \intersect Snps = {}
  /\ CrdTotal \in [Channels -> Nat]
  /\ {SnpReqLimit, SnpLimit, CrespLimit, RdatLimit} \subseteq Nat
  /\ \A s \in Scenarios :
       /\ DOMAIN s \subseteq Xs
       /\ \A x \in DOMAIN s : s[x].txn \in TxnIds /\ s[x].beats \in Nat \ {0}

VARIABLES mode, plan, busy, asked, got, due, owed, hnCrd

HN == INSTANCE ChiHomeNode WITH Payloads <- Xs

hnVars == <<mode, plan, busy, asked, got, due, owed, hnCrd>>
vars == <<rnVars, hnVars>>

Init == RnInit /\ HN!HnInit

IdleHn == UNCHANGED hnVars

\* The process of a payload.
TransportStep(t) ==
  \/ /\ Transport(t) \/ PassOrder(t) \/ PassStrict(t) \/ PassId(t)
        \/ ReqDone(t) \/ Finish(t)
     /\ IdleHn
  \/ LET n == HN!ReturnedNow("REQ") IN
     SendReq(t, mode.sync, n) /\ HN!HnRequest(t, req[t], n)
  \/ Response(t) /\ HN!HnEnd(t, 0)
  \/ AtomicResponse(t) /\ HN!HnEnd(t, 0)
  \/ /\ AtomicIn(t)
     /\ IF rbeat'[t] = rbeat[t] THEN IdleHn ELSE HN!HnEnd(t, AtomicTopUp)

SnoopStep(s) ==
  \/ /\ \/ \E k \in Kinds : SnoopResp(s, k)
        \/ Join(s) \/ FinishSnoop(s)
     /\ IdleHn
  \/ LET n == HN!ReturnedNow("SRSP") IN
       /\ SendSnoopResp(s, mode.sync, n)
       /\ HN!HnSnoopResp(s, IF kind[s] = "pull" THEN req[s].beats ELSE 0, n)
  \/ /\ SnoopWait(s)
     /\ IF rbeat'[s] = rbeat[s] THEN IdleHn ELSE HN!HnEnd(s, 0)

DataStep(x) ==
  \/ LET n == HN!ReturnedNow("WDAT") IN
       /\ SendData(x, mode.sync, n)
       /\ HN!HnData(x, wbeat'[x] = req[x].beats, n)
  \/ DataDone(x) /\ IdleHn
  \/ LET n == HN!Returned("SRSP") IN SendAck(x, n) /\ HN!HnAck(n)

\* The dispatcher, the handlers that are not busy and the clock.
HandlerStep ==
  \/ (Dispatch \/ HandlerIdle) /\ IdleHn
  \/ \E fresh \in BOOLEAN, k \in Kinds \union {"later"} :
       /\ TakeSnoop(fresh, k)
       /\ HN!HnCredits([SNP |-> SnoopCredit, CRSP |-> 0, RDAT |-> 0])

ClkStep == ClkCounter /\ HN!HnCredits(Granted)

\* The home node.
HnRespond(x) ==
  /\ x \in DOMAIN req
  /\ HN!HnSend(x, req[x].beats)
  /\ LET item == Head(plan[x]) IN
     BwPhase(x, IF HN!IsBeat(item) THEN item ELSE "BEGIN_RESP", item, 0)

HnEndPhase(x) ==
  /\ due[x] # << >>
  /\ LET phase == Head(due[x])
         c == CreditOf(phase)
         n == IF mode.attach /\ x \notin Snps THEN owed[c] ELSE 0
     IN HN!HnAnswer(x, c, n) /\ BwPhase(x, phase, NoResponse, n)

HnStep(x) == HnRespond(x) \/ HnEndPhase(x)

SendSnoop(s) == HN!HnSnoop /\ BwSnoop(s)

Grant(c) == HN!HnGrant(c, owed[c]) /\ BwCredit(c, owed[c])

\* A failed assertion or a fatal error ends the simulation.
Running == alarms \intersect {"assert", "fatal"} = {}

AllDone == \A x \in Xs : pc[x] = "done"

Next ==
  /\ Running
  /\ \/ \E t \in Reqs : TransportStep(t)
     \/ \E s \in Snps : SnoopStep(s) \/ SendSnoop(s)
     \/ \E x \in Xs : DataStep(x) \/ HnStep(x)
     \/ HandlerStep
     \/ ClkStep
     \/ \E c \in Channels : Grant(c)

Spec == Init /\ [][Next]_vars

\* The processes run when they can, the clock ticks, and the home node answers
\* and returns credits.  It need not send a snoop.
Fairness ==
  /\ \A t \in Reqs : WF_vars(Running /\ TransportStep(t))
  /\ \A s \in Snps : WF_vars(Running /\ SnoopStep(s))
  /\ \A x \in Xs : WF_vars(Running /\ DataStep(x))
  /\ \A x \in Xs : WF_vars(Running /\ HnStep(x))
  /\ WF_vars(Running /\ HandlerStep) /\ WF_vars(Running /\ ClkStep)
  /\ \A c \in Channels : WF_vars(Running /\ Grant(c))

FairSpec == Spec /\ Fairness
-----------------------------------------------------------------------------
(* Properties.                                                             *)

TypeOK ==
  /\ pc \in [Xs -> Pcs] /\ todo \in [Xs -> SUBSET Flags]
  /\ \A x \in DOMAIN req : /\ wbeat[x] <= req[x].beats
                            /\ rbeat[x] <= req[x].beats
  /\ \A s \in Semaphores : Len(queue[s]) <= Cardinality(Xs)
  /\ free \in 0 .. 1 /\ clk \in 0 .. 3 /\ snpCnt \in Nat
  /\ \A c \in Channels : crd[c] \in 0 .. CrdTotal[c] /\ owed[c] \in Nat
  /\ \A c \in DOMAIN prov : prov[c] \in Nat /\ hnCrd[c] \in Nat
  /\ threads.avail \in Nat /\ cnt.waiting \in Nat /\ cnt.outstanding \in Nat

\* No assertion and no error of the protocol functions is ever reached with a
\* home node that is careful or answers in the call.  As an assertion,
\* send_packet's is what makes the peq of a tx_state a queue for two uses at
\* once: responses, and the answers to data beats.
NoAlarm == alarms = {}

\* A tx_state is used by one payload at a time, is not in the pool meanwhile,
\* and the pool holds nothing twice: an entry for one transaction never lands
\* in the queue of another.
StateOwned ==
  /\ \A x, y \in Xs : x # y /\ slot[x] # 0 => slot[x] # slot[y]
  /\ \A i \in 1 .. Len(pool) :
       /\ peq[pool[i]] = << >>
       /\ \A x \in Xs : slot[x] # pool[i]
       /\ \A j \in 1 .. Len(pool) : i # j => pool[i] # pool[j]

\* Credits the home node hands out are spent or returned, never lost and never
\* counted twice, in whichever of the three ways they come back.
ReceivedCreditsConserved ==
  \A c \in Channels : crd[c] + owed[c] = CrdTotal[c]

\* The request node knows how many credits the home node has and never grants
\* more than the limits.  (The beats a snoop pulls are the exception: their
\* credits stay on the books.)
ProvidedCreditsExact ==
  /\ hnCrd.SNP = prov.SNP /\ prov.SNP <= SnpLimit
  /\ hnCrd.CRSP = prov.CRSP /\ prov.CRSP <= CrespLimit
  /\ hnCrd.RDAT <= prov.RDAT /\ prov.RDAT <= RdatLimit
  /\ (\A s \in Snps : kind[s] # "pull") => hnCrd.RDAT = prov.RDAT

\* The credits of both directions are on one side or the other.
CreditsExact == ReceivedCreditsConserved /\ ProvidedCreditsExact

\* Two transactions with the same id are not on the link together.
SameTxnSerial ==
  LET Active(t) == pc[t] \notin {"idle", "order", "strict", "id", "done"} IN
  \A t, u \in Reqs \intersect DOMAIN req :
    t # u /\ req[t].txn = req[u].txn => ~(Active(t) /\ Active(u))

\* An ordered request is not sent before the home node has answered the ordered
\* one before it.  (One response each: a write that gets DBIDResp and Comp apart
\* posts req_order twice.)
OrderedSerial ==
  LET Unanswered(t) == /\ Ordered(t) /\ rsp[t] = NoResponse
                       /\ pc[t] \notin {"idle", "order", "done"}
  IN  \A t, u \in Reqs \intersect DOMAIN req :
        t # u => ~(Unanswered(t) /\ Unanswered(u))

\* The gates of transport let one request of an id, and one unanswered ordered
\* request, pass at a time.
RequestsSerial == SameTxnSerial /\ OrderedSerial

\* Every handler is counted: it is free or busy with a snoop of its own.
HandlersCounted ==
  /\ threads.avail + Cardinality(own) = threads.active
  /\ snpCnt = Cardinality({s \in Snps : pc[s] \in
                {"prio", "later", "srsp", "swait", "wdat", "wwait", "wsync"}})

\* What many threads of the node share stays consistent: the state of a
\* transaction has one owner, the handlers are counted, and no assertion is
\* reached.
NodeConsistent == TypeOK /\ NoAlarm /\ StateOwned /\ HandlersCounted

\* Between two beats of a burst no other payload sends data, unless both may
\* be interleaved.
BurstsWhole ==
  [][\A x \in DOMAIN req :
       /\ wbeat[x] \in 1 .. req[x].beats - 1
       /\ ~config.interleaving \/ Returning(x)
       => \A y \in Xs \ {x} : wbeat'[y] = wbeat[y]]_vars

\* Every call of transport returns and every snoop is answered.
Completes == \A t \in Reqs : <>(t \in DOMAIN req => pc[t] = "done")
SnoopsAnswered == \A s \in Snps : pc[s] = "snp" ~> pc[s] = "done"
=============================================================================
