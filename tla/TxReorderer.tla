---------------------------- MODULE TxReorderer ----------------------------
(***************************************************************************)
(* tx_reorderer of reordering_target: at every clock edge it chooses, per  *)
(* command, which of the oldest responses of the ids to hand to the target *)
(* PE.                                                                     *)
(***************************************************************************)
EXTENDS Integers, Sequences, FiniteSets, SequencesExt, BufferPayloads

CONSTANTS
  MinLatency, MaxLatency, WindowSize,
  Priorities   (* The records [qos, latency] of prioritize_by_...          *)

ASSUME ReorderAssumption ==
  /\ MinLatency \in Nat /\ MaxLatency \in Nat
  /\ Priorities \subseteq [qos : BOOLEAN, latency : BOOLEAN]

VARIABLES
  prio,   (* The parameters; never changes.                                *)
  buf,    (* reorder_buffer[c][i]: records [t, age], and held: the clock   *)
          (* edges since the entry became the first, but for those at      *)
          (* which the target PE refused it (history; up to Cap).          *)
  came,   (* The payloads in the order of their transport calls.           *)
  gone    (* gone[c][i]: the entries the target PE has accepted, in order  *)
          (* (history).                                                    *)

reorderVars == <<prio, buf, came, gone>>

ReorderInit ==
  /\ prio \in Priorities
  /\ buf = [c \in Cmds |-> [i \in Ids |-> << >>]]
  /\ gone = buf /\ came = << >>

\* transport.
ReorderTransport(t) ==
  /\ ~Contains(came, t)
  /\ buf' = [buf EXCEPT ![Cmd[t]][Id[t]] =
               Append(@, [t |-> t, age |-> 0, held |-> 0])]
  /\ came' = Append(came, t)
  /\ UNCHANGED <<prio, gone>>

-----------------------------------------------------------------------------
(* clock_cb.  A command that is skipped is not older afterwards.           *)

Cap == MaxLatency + 2

MapFirst(b, Op(_)) ==
  [i \in Ids |-> [k \in DOMAIN b[i] |-> IF k = 1 THEN Op(b[i][1]) ELSE b[i][k]]]

Capped(n) == IF n > Cap THEN Cap ELSE n
Held(b) == MapFirst(b, LAMBDA e : [e EXCEPT !.held = Capped(@ + 1)])
Older(b) == MapFirst(b, LAMBDA e : [e EXCEPT !.age = Capped(@ + 1)])

NonEmpty(b) == {i \in Ids : b[i] # << >>}

\* Mutants: off by one; an entry is never overdue.
OverdueMutant(b) == {i \in NonEmpty(b) : b[i][1].age > MaxLatency + 1}
OverdueNever(b) == {}

\* r1 and r2.
Overdue(b) == {i \in NonEmpty(b) : b[i][1].age > MaxLatency}
Ready(b) == {i \in NonEmpty(b) \ Overdue(b) : b[i][1].age > MinLatency}

\* The ids of r2 with the highest QoS.
Best(b) ==
  {i \in Ready(b) : \A j \in Ready(b) : Qos[b[i][1].t] >= Qos[b[j][1].t]}

\* What is handed over for a command: the ids, and whether the method returns
\* without looking at the next command.
Picks(b) ==
  LET choices == IF prio.qos THEN Best(b) ELSE Ready(b)
      returns == prio.latency \/ (prio.qos /\ Cardinality(choices) = 1)
  IN
  IF Overdue(b) # {} THEN {[ids |-> Overdue(b), return |-> FALSE]}
  ELSE IF Cardinality(Ready(b)) <= WindowSize
    THEN {[ids |-> {}, return |-> FALSE]}
  ELSE
    {[ids |-> {i}, return |-> returns] : i \in choices}
    \union
    \* The random number also counts the ages that the QoS has left out.
    (IF prio.latency /\ Cardinality(choices) > 1 /\ choices # Ready(b)
     THEN {[ids |-> {}, return |-> FALSE]} ELSE {})

\* Mutant: the last entry is taken.
LeaveMutant(b, ids) ==
  [i \in Ids |-> IF i \in ids THEN SubSeq(b[i], 1, Len(b[i]) - 1) ELSE b[i]]

Leave(b, ids) == [i \in Ids |-> IF i \in ids THEN Tail(b[i]) ELSE b[i]]

\* The responses of p.ids are handed over, in an order drawn at random; the
\* target PE accepts those of ok.
Handed(b, p, ok) ==
  MapFirst(Leave(b, ok), LAMBDA e :
    IF Id[e.t] \in p.ids \ ok THEN [e EXCEPT !.held = @ - 1] ELSE e)

Out(g, b, ok) == [i \in Ids |-> IF i \in ok THEN Append(g[i], b[i][1]) ELSE g[i]]

ReorderClock ==
  LET rd == Older(Held(buf["rd"]))
      wr == Older(Held(buf["wr"]))
  IN
  \E p \in Picks(rd) : \E ok \in SUBSET p.ids :
    /\ \/ /\ p.return
          /\ buf' = [rd |-> Handed(rd, p, ok), wr |-> Held(buf["wr"])]
          /\ gone' = [gone EXCEPT !["rd"] = Out(@, rd, ok)]
       \/ /\ ~p.return
          /\ \E q \in Picks(wr) : \E okw \in SUBSET q.ids :
               /\ buf' = [rd |-> Handed(rd, p, ok), wr |-> Handed(wr, q, okw)]
               /\ gone' = [rd |-> Out(gone["rd"], rd, ok),
                           wr |-> Out(gone["wr"], wr, okw)]
    /\ UNCHANGED <<prio, came>>
=============================================================================
