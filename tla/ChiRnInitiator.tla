--------------------------- MODULE ChiRnInitiator ---------------------------
(***************************************************************************)
(* chi_rn_initiator_b: every call of transport(trans, false) is a process, *)
(* and so is every snoop handler.  An action is the stretch of code from   *)
(* one wait to the next; waits for clock edges and delays only let the     *)
(* other processes run, which the interleaving covers.                     *)
(*                                                                         *)
(* What the home node says in the same call (upd: it answers with          *)
(* TLM_UPDATED; n: the number of credits it hands back) is a parameter of  *)
(* the action; ChiLink joins both sides.                                   *)
(***************************************************************************)
EXTENDS ChiMessages, FiniteSets

CONSTANTS
  Reqs,            (* The request payloads.                                *)
  Snps,            (* The snoop payloads of the home node.                 *)
  TxnIds,
  Scenarios,       (* Functions from the payloads that are used to records *)
                   (* [op, cmd, order, txn, beats]; of a snoop only the    *)
                   (* number of beats matters.                             *)
  Configs,         (* Records [interleaving, strict] of the parameters.    *)
  SnpReqLimit,     (* snp_req_limit.                                       *)
  SnpLimit,        (* min(15, snp_req_credit_limit), and so on.            *)
  CrespLimit,
  RdatLimit,
  ThreadLimit      (* 32: no more handlers are spawned.                    *)

Xs == Reqs \union Snps
Channels == {"REQ", "WDAT", "SRSP"}
Flags == {"CTRL", "DATA", "COMPCMO", "PERSIST", "OUT", "IN"}
PartialPhases == {"BEGIN_PARTIAL_DATA", "BEGIN_DATA"}
EndData == {"END_PARTIAL_DATA", "END_DATA"}

VARIABLES
  req,      (* req[x]: what the payload asks for; never changes.           *)
  config,   (* data_interleaving and strict_income_order; never changes.   *)
  pc,       (* Where the process of x is, see Pcs.                         *)
  todo,     (* not_finish: what the process waits for.                     *)
  wbeat,    (* Number of data beats sent.                                  *)
  rbeat,    (* Number of data beats received.                              *)
  rsp,      (* The opcode of the response in the payload.                  *)
  slot,     (* tx_state_by_trans: the tx_state of x, 0 if none.            *)
  pool,     (* tx_state_pool, the back first.                              *)
  peq,      (* The entries <<payload, phase>> in the queue of a tx_state.  *)
  queue,    (* The semaphores: the callers that wait, the holder first.    *)
  idq,      (* active_tx_by_id, in the same way.                           *)
  free,     (* The value of req_order.                                     *)
  crd,      (* Received...CreditCounter.                                   *)
  prov,     (* Provided...CreditCounter.                                   *)
  clk,      (* m_clock_counter, up to 3.                                   *)
  snpq,     (* snp_peq.                                                    *)
  dispq,    (* snp_dispatch_que.                                           *)
  threads,  (* thread_avail, thread_active, and threads not started yet.   *)
  own,      (* The snoops that a handler thread answers itself.            *)
  kind,     (* The answer to a snoop: a response, data, or a response that *)
            (* pulls data from the home node.                              *)
  snpCnt,   (* snp_counter.                                                *)
  cnt,      (* tx_waiting, tx_waiting4crd, tx_outstanding.                 *)
  alarms    (* History: failed assertions, fatal errors, errors.           *)

slotVars == <<slot, pool, peq>>
beatVars == <<wbeat, rbeat, rsp>>
gateVars == <<idq, free>>
crdVars  == <<crd, prov, clk>>
snpVars  == <<snpq, dispq, threads, own, kind, snpCnt>>
rnVars == <<req, config, pc, todo, beatVars, slotVars, queue, gateVars,
            crdVars, snpVars, cnt, alarms>>
fixed == <<req, config>>

(***************************************************************************)
(* idle    not called        order, strict, id, req   waits for a          *)
(* semaphore and, in req, a credit     sent, synced   END_REQ is due, came *)
(* exec    the loop over responses     aresp, ain     an atomic's response *)
(* and loop        wdat, wwait, wsync  data: the channel and a credit, the *)
(* answer, the clock       ack         the same for a CompAck              *)
(* snp     in snpq or dispq            prio, later    before the response  *)
(* srsp, swait     snoop response      end, done      cleaning up          *)
(***************************************************************************)
Pcs == {"idle", "order", "strict", "id", "req", "sent", "synced", "exec",
        "aresp", "ain", "wdat", "wwait", "wsync", "ack", "snp", "prio",
        "later", "srsp", "swait", "end", "done"}
Semaphores == {"order", "strict", "REQ", "WDAT", "SRSP", "prioWDAT",
               "prioSRSP"}

RnInit ==
  /\ req \in Scenarios /\ config \in Configs
  /\ pc = [x \in Xs |-> "idle"] /\ todo = [x \in Xs |-> {}]
  /\ wbeat = [x \in Xs |-> 0] /\ rbeat = [x \in Xs |-> 0]
  /\ rsp = [x \in Xs |-> NoResponse]
  /\ slot = [x \in Xs |-> 0] /\ pool = << >>
  /\ peq = [i \in 1 .. Cardinality(Xs) |-> << >>]
  /\ queue = [s \in Semaphores |-> << >>]
  /\ idq = [i \in TxnIds |-> << >>] /\ free = 1
  /\ crd = [c \in Channels |-> 0]
  /\ prov = [SNP |-> 0, CRSP |-> 0, RDAT |-> 0]
  /\ clk = 0
  /\ snpq = << >> /\ dispq = << >> /\ own = {} /\ snpCnt = 0
  /\ kind = [s \in Snps |-> "none"]
  /\ threads = [avail |-> 0, active |-> 0, spawned |-> 0]
  /\ cnt = [waiting |-> 0, waiting4crd |-> 0, outstanding |-> 0]
  /\ alarms = {}

-----------------------------------------------------------------------------
(* Helpers.                                                                *)

Goto(x, to) == pc' = [pc EXCEPT ![x] = to]
Enter(q, s, x) == [q EXCEPT ![s] = Append(@, x)]
Leave(q, s) == [q EXCEPT ![s] = Tail(@)]
Holds(s, x) == queue[s] # << >> /\ Head(queue[s]) = x

\* wait(1): a snoop response passes the callers that wait with priority 0.
EnterFirst(q, s, x) ==
  [q EXCEPT ![s] = IF @ = << >> THEN <<x>>
                   ELSE <<Head(@), x>> \o Tail(@)]

\* tx_state slots in use or in the pool.
Created == {slot[x] : x \in {y \in Xs : slot[y] # 0}}
             \union {pool[i] : i \in 1 .. Len(pool)}

\* Mutant: the slot stays in the pool.
TakeSlotMutant(x) ==
  /\ slot' = [slot EXCEPT ![x] = IF pool # << >> THEN Head(pool)
                                 ELSE Cardinality(Created) + 1]
  /\ UNCHANGED <<pool, peq>>

\* A new slot is made when the pool is empty.
TakeSlot(x) ==
  /\ slot' = [slot EXCEPT ![x] = IF pool # << >> THEN Head(pool)
                                 ELSE Cardinality(Created) + 1]
  /\ pool' = IF pool # << >> THEN Tail(pool) ELSE pool
  /\ UNCHANGED peq

ReturnSlot(x) ==
  /\ pool' = <<slot[x]>> \o pool
  /\ peq' = [peq EXCEPT ![slot[x]] = << >>]
  /\ slot' = [slot EXCEPT ![x] = 0]

\* The oldest entry of x's queue, and the queue without it.
HasEntry(x) == slot[x] # 0 /\ peq[slot[x]] # << >>
Entry(x) == Head(peq[slot[x]])
Pop(x) == /\ peq' = [peq EXCEPT ![slot[x]] = Tail(@)]
          /\ UNCHANGED <<slot, pool>>
Alarm(bad, what) == alarms' = IF bad THEN alarms \union {what} ELSE alarms

Op(t) == req[t].op
Dataless(t) == IsDataless(Op(t), rsp[t])
Ordered(t) == t \in Reqs /\ IsRequestOrder(Op(t), req[t].order)
Returning(x) == x \in Reqs /\ Op(x) \in ReturningAtomics
WillAck(t) == SetExpCompAck(Op(t), req[t].order) /\ CompAckAllowed(Op(t))

\* A credit is used, n come back.
Spend(c, n) == [crd EXCEPT ![c] = @ - 1 + n]

\* transport goes on to the strict-order semaphore or the lock of its id.
Onward(t, q) ==
  IF config.strict
    THEN /\ Goto(t, "strict") /\ queue' = Enter(q, "strict", t)
         /\ UNCHANGED idq
    ELSE /\ Goto(t, "id") /\ queue' = q
         /\ idq' = Enter(idq, req[t].txn, t)

\* The protocol loop ends when nothing is left to wait for.
Continue(t, left, q) ==
  /\ todo' = [todo EXCEPT ![t] = left]
  /\ IF left # {} THEN Goto(t, "exec") /\ queue' = q
     ELSE IF WillAck(t) THEN Goto(t, "ack") /\ queue' = Enter(q, "SRSP", t)
     ELSE Goto(t, "end") /\ queue' = q

-----------------------------------------------------------------------------
(* transport: the way to the REQ channel.                                  *)

Transport(t) ==
  /\ t \in DOMAIN req /\ pc[t] = "idle"
  /\ TakeSlot(t)
  /\ cnt' = [cnt EXCEPT !.waiting = @ + 1]
  /\ IF Ordered(t)
       THEN /\ Goto(t, "order") /\ queue' = Enter(queue, "order", t)
            /\ UNCHANGED idq
       ELSE Onward(t, queue)
  /\ UNCHANGED <<fixed, todo, beatVars, free, crdVars, snpVars, alarms>>

\* Mutant: the value of req_order is not looked at.
OrderFreeMutant(t) == Holds("order", t)

OrderFree(t) == Holds("order", t) /\ free > 0

PassOrder(t) ==
  /\ pc[t] = "order" /\ OrderFree(t)
  /\ free' = free - 1
  /\ Onward(t, Leave(queue, "order"))
  /\ UNCHANGED <<fixed, todo, beatVars, slotVars, crdVars, snpVars, cnt,
                 alarms>>

PassStrict(t) ==
  /\ pc[t] = "strict" /\ Holds("strict", t)
  /\ Goto(t, "id")
  /\ idq' = Enter(idq, req[t].txn, t)
  /\ UNCHANGED <<fixed, todo, beatVars, slotVars, queue, free, crdVars,
                 snpVars, cnt, alarms>>

HoldsId(t) == pc[t] = "id" /\ Head(idq[req[t].txn]) = t

PassId(t) ==
  /\ HoldsId(t)
  /\ Goto(t, "req")
  /\ cnt' = [cnt EXCEPT !.waiting = @ - 1, !.waiting4crd = @ + 1]
  /\ queue' = Enter(IF config.strict THEN Leave(queue, "strict") ELSE queue,
                    "REQ", t)
  /\ UNCHANGED <<fixed, todo, beatVars, slotVars, gateVars, crdVars, snpVars,
                 alarms>>

\* BEGIN_REQ.
SendReq(t, upd, n) ==
  /\ pc[t] = "req" /\ Holds("REQ", t) /\ crd["REQ"] > 0
  /\ crd' = Spend("REQ", n)
  /\ cnt' = [cnt EXCEPT !.waiting4crd = @ - 1, !.outstanding = @ + 1]
  /\ Goto(t, IF upd THEN "synced" ELSE "sent")
  /\ UNCHANGED <<fixed, todo, beatVars, slotVars, queue, gateVars, prov, clk,
                 snpVars, alarms>>

\* not_finish when the protocol loop is entered.
FirstTodo(t) ==
  IF Returning(t) THEN {"OUT", "IN"}
  ELSE {"CTRL"} \union (IF Dataless(t) THEN {} ELSE {"DATA"})
         \union (IF ExpectCompCMO(Op(t)) THEN {"COMPCMO"} ELSE {})
         \union (IF ExpectPersist(Op(t)) THEN {"PERSIST"} ELSE {})

\* END_REQ has come; one clock edge later the channel is free.
ReqDone(t) ==
  /\ \/ /\ pc[t] = "synced"
        /\ UNCHANGED <<slotVars, alarms>>
     \/ /\ pc[t] = "sent" /\ HasEntry(t)
        /\ Alarm(Entry(t) # <<t, "END_REQ">>, "assert")
        /\ Pop(t)
  /\ Goto(t, IF Returning(t) THEN "aresp" ELSE "exec")
  /\ todo' = [todo EXCEPT ![t] = FirstTodo(t)]
  /\ queue' = Leave(queue, "REQ")
  /\ UNCHANGED <<fixed, beatVars, gateVars, crdVars, snpVars, cnt>>

-----------------------------------------------------------------------------
(* exec_read_write_protocol and exec_atomic_protocol.                      *)

\* What the response of a write or of a dataless request settles.
Settles(t) ==
  IF Dataless(t)
    THEN {"DATA"} \union
      CASE rsp[t] \in {"Comp", "CompDBIDResp", "CompPersist", "CompCMO",
             "CompStashDone"} -> {"CTRL"}
        [] rsp[t] = "Persist" -> {"PERSIST"}
        [] OTHER -> {}
  ELSE IF req[t].cmd = "rd" THEN {"CTRL"}
  ELSE CASE rsp[t] = "CompCMO" -> {"COMPCMO"}
         [] rsp[t] = "Persist" -> {"PERSIST"}
         [] rsp[t] \in {"CompDBIDResp", "Comp"} -> {"CTRL"}
         [] OTHER -> {}

DBID == {"CompDBIDResp", "DBIDResp", "DBIDRespOrd"}
IllegalWriteResponse(t) ==
  /\ ~Dataless(t) /\ req[t].cmd = "wr"
  /\ rsp[t] \notin DBID \union {"CompCMO", "Persist", "Comp"}

\* Mutant: req_order is never posted.
PostOrderNever(t) == free' = free

\* finish_cresp_response: the next ordered request may go.
PostOrder(t) == free' = free + IF Ordered(t) THEN 1 ELSE 0

\* BEGIN_RESP: END_RESP goes back, and a DBID response makes the write data
\* start.
TakeResponse(t) ==
  /\ PostOrder(t)
  /\ IF rsp[t] \in DBID /\ ~Dataless(t) /\ req[t].cmd = "wr"
       THEN /\ Goto(t, "wdat") /\ queue' = Enter(queue, "WDAT", t)
            /\ todo' = [todo EXCEPT ![t] = @ \ Settles(t)]
       ELSE Continue(t, todo[t] \ Settles(t), queue)
  /\ Alarm(IllegalWriteResponse(t), "fatal")
  /\ UNCHANGED rbeat

\* A beat of read data: END_(PARTIAL_)DATA goes back.
TakeData(t) ==
  /\ rbeat' = [rbeat EXCEPT ![t] = @ + 1]
  /\ LET last == Entry(t) = <<t, "BEGIN_DATA">> IN
     /\ Continue(t, IF last THEN todo[t] \ {"CTRL", "DATA"} ELSE todo[t],
                 queue)
     /\ Alarm(last /\ rbeat'[t] # req[t].beats, "error")
  /\ UNCHANGED free

\* Anything else is fatal, unless it belongs to another payload.
TakeIllegal(t) ==
  /\ alarms' = alarms \union
       {IF Entry(t)[1] # t THEN "assert" ELSE "fatal"}
  /\ Continue(t, todo[t], queue)
  /\ UNCHANGED <<rbeat, free>>

Response(t) ==
  /\ pc[t] = "exec" /\ HasEntry(t)
  /\ IF Entry(t) = <<t, "BEGIN_RESP">> THEN TakeResponse(t)
     ELSE IF Entry(t) \in {t} \X PartialPhases /\ req[t].cmd = "rd"
       THEN TakeData(t) ELSE TakeIllegal(t)
  /\ Pop(t)
  /\ UNCHANGED <<fixed, wbeat, rsp, idq, crdVars, snpVars, cnt>>

\* The first answer to an atomic that returns data.
AtomicResponse(t) ==
  /\ pc[t] = "aresp" /\ HasEntry(t)
  /\ IF Entry(t)[2] = "BEGIN_RESP" THEN PostOrder(t) ELSE UNCHANGED free
  /\ alarms' = alarms \union
       (IF Entry(t)[1] # t THEN {"assert"} ELSE {}) \union
       (IF Entry(t)[2] # "BEGIN_RESP" \/ rsp[t] = "DBIDResp"
          THEN {"error"} ELSE {})
  /\ Goto(t, "wdat") /\ queue' = Enter(queue, "WDAT", t)
  /\ Pop(t)
  /\ UNCHANGED <<fixed, todo, beatVars, idq, crdVars, snpVars, cnt>>

-----------------------------------------------------------------------------
(* send_wdata and send_packet, for requests and snoop responses.           *)

SendData(x, upd, n) ==
  /\ pc[x] = "wdat" /\ Holds("WDAT", x) /\ crd["WDAT"] > 0
  /\ crd' = Spend("WDAT", n)
  /\ wbeat' = [wbeat EXCEPT ![x] = @ + 1]
  /\ Goto(x, IF upd THEN "wsync" ELSE "wwait")
  /\ UNCHANGED <<fixed, todo, rbeat, rsp, slotVars, queue, gateVars, prov,
                 clk, snpVars, cnt, alarms>>

\* Mutant: the channel is passed on after every beat.
NextHolderMutant(x) == Enter(Leave(queue, "WDAT"), "WDAT", x)

\* The WDAT channel between two beats of x: with interleaving x goes to the
\* end of the queue.
NextHolder(x) ==
  IF config.interleaving /\ ~Returning(x)
  THEN Enter(Leave(queue, "WDAT"), "WDAT", x) ELSE queue

\* The beat was accepted: the next one, or the end of the data.
DataDone(x) ==
  /\ \/ /\ pc[x] = "wsync"
        /\ UNCHANGED <<slotVars, alarms>>
     \/ /\ pc[x] = "wwait" /\ HasEntry(x)
        /\ Alarm(Entry(x) \notin {x} \X EndData, "assert")
        /\ Pop(x)
  /\ LET last == wbeat[x] = req[x].beats IN
     \/ /\ Returning(x)
        /\ Goto(x, "ain")
        /\ todo' = [todo EXCEPT ![x] = IF last THEN @ \ {"OUT"} ELSE @]
        /\ UNCHANGED <<queue, snpCnt>>
     \/ /\ ~Returning(x) /\ ~last
        /\ Goto(x, "wdat") /\ queue' = NextHolder(x)
        /\ UNCHANGED <<todo, snpCnt>>
     \/ /\ ~Returning(x) /\ last /\ x \in Reqs
        /\ Continue(x, todo[x] \ {"DATA"}, Leave(queue, "WDAT"))
        /\ UNCHANGED snpCnt
     \/ /\ x \in Snps /\ last
        /\ Goto(x, "end") /\ queue' = Leave(queue, "WDAT")
        /\ snpCnt' = snpCnt - 1
        /\ UNCHANGED todo
  /\ UNCHANGED <<fixed, beatVars, gateVars, crdVars, snpq, dispq, threads,
                 own, kind, cnt>>

\* Mutant: the credits the home node still has are not subtracted.
AtomicTopUpMutant == RdatLimit

\* The RDAT credits handed out with END_DATA of an atomic.
AtomicTopUp == IF prov.RDAT < RdatLimit THEN RdatLimit - prov.RDAT ELSE 0

\* After a beat was sent: a beat of the old data is taken if there is one,
\* otherwise the next beat is sent; the WDAT channel is kept throughout.
AtomicIn(t) ==
  /\ pc[t] = "ain"
  /\ LET last == HasEntry(t) /\ Entry(t)[2] = "BEGIN_DATA"
         data == HasEntry(t) /\ Entry(t)[2] \in PartialPhases
         left == todo[t] \ IF last THEN {"IN"} ELSE {}
     IN
     \/ /\ rbeat[t] < req[t].beats /\ HasEntry(t)
        /\ Pop(t)
        /\ rbeat' = [rbeat EXCEPT ![t] = @ + IF data THEN 1 ELSE 0]
        /\ prov' = [prov EXCEPT !.RDAT = @ + IF data THEN AtomicTopUp ELSE 0]
        /\ alarms' = alarms \union
             (IF Entry(t)[1] # t THEN {"assert"} ELSE {}) \union
             (IF ~data \/ (last /\ rbeat'[t] # req[t].beats)
                THEN {"error"} ELSE {})
        /\ todo' = [todo EXCEPT ![t] = left]
        /\ IF left = {}
             THEN Goto(t, "end") /\ queue' = Leave(queue, "WDAT")
             ELSE /\ Goto(t, IF wbeat[t] < req[t].beats THEN "wdat" ELSE "ain")
                  /\ UNCHANGED queue
     \/ /\ ~(rbeat[t] < req[t].beats /\ HasEntry(t))
        /\ wbeat[t] < req[t].beats
        /\ Goto(t, "wdat")
        /\ UNCHANGED <<slotVars, rbeat, prov, alarms, todo, queue>>
  /\ UNCHANGED <<fixed, wbeat, rsp, gateVars, crd, clk, snpVars, cnt>>

-----------------------------------------------------------------------------
(* send_comp_ack and the end of transport.                                 *)

\* The home node leaves the phase at ACK.
SendAck(x, n) ==
  /\ pc[x] = "ack" /\ Holds("SRSP", x) /\ crd["SRSP"] > 0
  /\ crd' = Spend("SRSP", n)
  /\ rsp' = [rsp EXCEPT ![x] = "CompAck"]
  /\ Goto(x, "end") /\ queue' = Leave(queue, "SRSP")
  /\ UNCHANGED <<fixed, todo, wbeat, rbeat, slotVars, gateVars, prov, clk,
                 snpVars, cnt, alarms>>

Finish(t) ==
  /\ t \in Reqs /\ pc[t] = "end"
  /\ Goto(t, "done")
  /\ ReturnSlot(t)
  /\ cnt' = [cnt EXCEPT !.outstanding = @ - 1]
  /\ idq' = Leave(idq, req[t].txn)
  /\ UNCHANGED <<fixed, todo, beatVars, queue, free, crdVars, snpVars, alarms>>

-----------------------------------------------------------------------------
(* Snoops.                                                                 *)

\* Mutant: spawns if one is free.
SpawnsMutant ==
  IF threads.avail > 0 /\ threads.active < ThreadLimit THEN 1 ELSE 0

\* A handler is spawned if none is free.
Spawns == IF threads.avail = 0 /\ threads.active < ThreadLimit THEN 1 ELSE 0

\* snoop_dispatch.
Dispatch ==
  /\ snpq # << >>
  /\ snpq' = Tail(snpq)
  /\ dispq' = Append(dispq, Head(snpq))
  /\ threads' = [threads EXCEPT !.spawned = @ + Spawns]
  /\ UNCHANGED <<fixed, pc, todo, beatVars, slotVars, queue, gateVars,
                 crdVars, own, kind, snpCnt, cnt, alarms>>

\* A spawned handler runs for the first time and finds nothing to do.
HandlerIdle ==
  /\ threads.spawned > 0 /\ dispq = << >>
  /\ threads' = [avail |-> threads.avail + 1, active |-> threads.active + 1,
                 spawned |-> threads.spawned - 1]
  /\ UNCHANGED <<fixed, pc, todo, beatVars, slotVars, queue, gateVars,
                 crdVars, snpq, dispq, own, kind, snpCnt, cnt, alarms>>

\* The credit that goes back with END_REQ of a snoop.
SnoopCredit ==
  IF snpCnt + 1 < SnpReqLimit /\ prov.SNP < SnpLimit THEN 1 ELSE 0

Kinds == {"resp", "data", "pull"}

SnpTodo(k) ==
  IF k = "pull" THEN {"CTRL", "DATA"} ELSE IF k = "resp" THEN {"CTRL"} ELSE {}

Prio(ch) == IF ch = "WDAT" THEN "prioWDAT" ELSE "prioSRSP"
SendPc(ch) == IF ch = "WDAT" THEN "wdat" ELSE "srsp"

\* handle_snoop_response up to the channel it needs.  A timed answer waits for
\* its turn and its time first, interleaved data has no priority.
Answer(s, k, timed) ==
  LET ch == IF k = "data" THEN "WDAT" ELSE "SRSP" IN
  /\ kind' = [kind EXCEPT ![s] = k]
  /\ todo' = [todo EXCEPT ![s] = SnpTodo(k)]
  /\ IF timed /\ ~(k = "data" /\ config.interleaving)
       THEN Goto(s, "prio") /\ queue' = Enter(queue, Prio(ch), s)
       ELSE Goto(s, SendPc(ch)) /\ queue' = Enter(queue, ch, s)

\* snoop_handler: END_REQ, then the component behind bw_o either answers now
\* or calls snoop_resp later.
TakeSnoop(fresh, k) ==
  /\ dispq # << >> /\ dispq' = Tail(dispq)
  /\ IF fresh THEN threads.spawned > 0 ELSE threads.avail > 0
  /\ LET s == Head(dispq) IN
     /\ TakeSlot(s)
     /\ prov' = [prov EXCEPT !.SNP = @ + SnoopCredit]
     /\ IF k = "later"
          THEN Goto(s, "later") /\ UNCHANGED <<todo, queue, kind, own>>
          ELSE Answer(s, k, TRUE) /\ own' = own \union {s}
  /\ threads' =
       [avail   |-> threads.avail + (IF fresh THEN 0 ELSE 0 - 1)
                      + (IF k = "later" THEN 1 ELSE 0),
        active  |-> threads.active + IF fresh THEN 1 ELSE 0,
        spawned |-> threads.spawned - IF fresh THEN 1 ELSE 0]
  /\ snpCnt' = snpCnt + 1
  /\ UNCHANGED <<fixed, beatVars, gateVars, crd, clk, snpq, cnt, alarms>>

\* snoop_resp.
SnoopResp(s, k) ==
  /\ pc[s] = "later"
  /\ Answer(s, k, FALSE)
  /\ UNCHANGED <<fixed, beatVars, slotVars, gateVars, crdVars, snpq, dispq,
                 threads, own, snpCnt, cnt, alarms>>

\* The time of a timed answer has come: prio_... is left for the channel.
Join(s) ==
  /\ pc[s] = "prio"
  /\ \E ch \in {"WDAT", "SRSP"} :
       /\ Holds(Prio(ch), s)
       /\ Goto(s, SendPc(ch))
       /\ queue' = EnterFirst(Leave(queue, Prio(ch)), ch, s)
  /\ UNCHANGED <<fixed, todo, beatVars, slotVars, gateVars, crdVars, snpVars,
                 cnt, alarms>>

\* The loop of handle_snoop_response ends: a CompAck if data was pulled.
SnpContinue(s, left, q) ==
  /\ todo' = [todo EXCEPT ![s] = left]
  /\ snpCnt' = IF left = {} THEN snpCnt - 1 ELSE snpCnt
  /\ IF left # {} THEN Goto(s, "swait") /\ queue' = q
     ELSE IF kind[s] = "pull"
       THEN Goto(s, "ack") /\ queue' = Enter(q, "SRSP", s)
     ELSE Goto(s, "end") /\ queue' = q

\* BEGIN_RESP.
SendSnoopResp(s, upd, n) ==
  /\ pc[s] = "srsp" /\ Holds("SRSP", s) /\ crd["SRSP"] > 0
  /\ crd' = Spend("SRSP", n)
  /\ SnpContinue(s, IF upd THEN todo[s] \ {"CTRL"} ELSE todo[s],
                 Leave(queue, "SRSP"))
  /\ UNCHANGED <<fixed, beatVars, slotVars, gateVars, prov, clk, snpq, dispq,
                 threads, own, kind, cnt, alarms>>

\* END_RESP or a beat of the pulled data, whose credit is not counted.
SnoopWait(s) ==
  /\ pc[s] = "swait" /\ HasEntry(s)
  /\ LET data == kind[s] = "pull" /\ Entry(s)[2] \in PartialPhases
         last == data /\ Entry(s)[2] = "BEGIN_DATA"
     IN
     /\ rbeat' = [rbeat EXCEPT ![s] = @ + IF data THEN 1 ELSE 0]
     /\ SnpContinue(s, todo[s] \ ({"CTRL"} \union
                         IF last THEN {"DATA"} ELSE {}), queue)
     /\ alarms' = alarms \union
          (IF Entry(s)[1] # s THEN {"assert"} ELSE {}) \union
          (IF ~data /\ Entry(s)[2] # "END_RESP" THEN {"fatal"} ELSE {}) \union
          (IF last /\ rbeat'[s] # req[s].beats THEN {"error"} ELSE {})
  /\ Pop(s)
  /\ UNCHANGED <<fixed, wbeat, rsp, gateVars, crdVars, snpq, dispq, threads,
                 own, kind, cnt>>

\* The end of snoop_handler or snoop_resp.
FinishSnoop(s) ==
  /\ s \in Snps /\ pc[s] = "end"
  /\ Goto(s, "done")
  /\ ReturnSlot(s)
  /\ threads' = [threads EXCEPT !.avail = @ + IF s \in own THEN 1 ELSE 0]
  /\ own' = own \ {s}
  /\ UNCHANGED <<fixed, todo, beatVars, queue, gateVars, crdVars, snpq, dispq,
                 kind, snpCnt, cnt, alarms>>

-----------------------------------------------------------------------------
(* The clock, and what the home node calls.                                *)

\* clk_counter: snoop credits once, the others whenever some are used up.
Granted ==
  [SNP  |-> IF clk = 2 /\ prov.SNP < 15 /\ snpCnt < SnpReqLimit
              THEN LET possible == SnpReqLimit - snpCnt - prov.SNP
                   IN  IF SnpLimit - prov.SNP < possible
                         THEN SnpLimit - prov.SNP ELSE possible
              ELSE 0,
   CRSP |-> IF clk >= 2 /\ prov.CRSP < CrespLimit
              THEN CrespLimit - prov.CRSP ELSE 0,
   RDAT |-> IF clk >= 2 /\ prov.RDAT < RdatLimit
              THEN RdatLimit - prov.RDAT ELSE 0]

ClkCounter ==
  /\ clk' = IF clk < 3 THEN clk + 1 ELSE 3
  /\ prov' = [c \in DOMAIN prov |-> prov[c] + Granted[c]]
  /\ <<clk, prov>>' # <<clk, prov>>
  /\ UNCHANGED <<fixed, pc, todo, beatVars, slotVars, queue, gateVars, crd,
                 snpVars, cnt, alarms>>

\* nb_transport_bw with BEGIN_REQ of a snoop.
BwSnoop(s) ==
  /\ s \in DOMAIN req /\ pc[s] = "idle"
  /\ Goto(s, "snp")
  /\ prov' = [prov EXCEPT !.SNP = @ - 1]
  /\ snpq' = Append(snpq, s)
  /\ UNCHANGED <<fixed, todo, beatVars, slotVars, queue, gateVars, crd, clk,
                 dispq, threads, own, kind, snpCnt, cnt, alarms>>

\* The channel whose credits an answer of the home node can carry.
CreditOf(phase) ==
  IF phase = "END_REQ" THEN "REQ"
  ELSE IF phase = "END_RESP" THEN "SRSP" ELSE "WDAT"

\* nb_transport_bw with a later phase; op is the opcode of a response, n the
\* credits that come with an END phase.  A snoop's credits are not looked at.
BwPhase(x, phase, op, n) ==
  /\ Alarm(slot[x] = 0, "assert")
  /\ IF slot[x] = 0 THEN UNCHANGED peq
     ELSE peq' = [peq EXCEPT ![slot[x]] = Append(@, <<x, phase>>)]
  /\ rsp' = IF phase = "BEGIN_RESP" THEN [rsp EXCEPT ![x] = op] ELSE rsp
  /\ crd' = IF x \in Snps \/ n = 0 THEN crd
            ELSE [crd EXCEPT ![CreditOf(phase)] = @ + n]
  /\ prov' = IF x \in Snps THEN prov
             ELSE IF phase = "BEGIN_RESP" THEN [prov EXCEPT !.CRSP = @ - 1]
             ELSE IF phase \in PartialPhases
               THEN [prov EXCEPT !.RDAT = @ - 1]
             ELSE prov
  /\ UNCHANGED <<fixed, pc, todo, wbeat, rbeat, slot, pool, queue, gateVars,
                 clk, snpVars, cnt>>

\* nb_transport_bw with BEGIN_REQ and only a credit extension.
BwCredit(c, n) ==
  /\ crd' = [crd EXCEPT ![c] = @ + n]
  /\ UNCHANGED <<fixed, pc, todo, beatVars, slotVars, queue, gateVars, prov,
                 clk, snpVars, cnt, alarms>>
=============================================================================
