----------------------------- MODULE RateBuffer -----------------------------
(***************************************************************************)
(* The response buffer of ordered_target (rate_limiting_buffer) and, apart *)
(* from the latencies, of replay_target (replay_buffer): a response waits  *)
(* for its latency, then a thread per command paces it to the bandwidth    *)
(* and hands it to the target PE until that accepts it.                    *)
(*                                                                         *)
(* Time is the number of clock edges.  What a thread does without waiting  *)
(* for time happens before the next edge.                                  *)
(***************************************************************************)
EXTENDS Integers, Sequences, FiniteSets, SequencesExt, BufferPayloads

CONSTANTS
  Latencies,      (* What the random latencies can be.                     *)
  Den,            (* Fractions of a clock period are multiples of 1 / Den. *)
  Limits,         (* The records [total, rd, wr] of the time a byte takes, *)
                  (* in 1 / Den of a period, 0 for no limit.               *)
  Horizon         (* The age of a payload is counted up to Horizon.        *)

VARIABLES
  limit,   (* The bandwidth parameters; never changes.                     *)
  lat,     (* lat[c]: .._req2resp_fifo, records [t, left].                 *)
  resp,    (* resp[c]: .._resp_fifo.                                       *)
  thr,     (* thr[c]: where start_.._resp_thread is: wait, arb, delay, try *)
           (* (before the call), again (it was refused).                   *)
  togo,    (* togo[c]: clock edges left in delay.                          *)
  resid,   (* The residual clocks of each thread and those of the total.   *)
  arb,     (* total_arb: the threads that wait, the holder first.          *)
  drawn,   (* drawn[t]: the latency of a payload, -1 before its transport. *)
  age,     (* age[t]: clock edges since (history).                         *)
  order,   (* The payloads in the order of their transport calls (history).*)
  done,    (* The payloads the target PE has accepted.                     *)
  owed     (* owed[p]: the time that limit p asks for the accepted bytes   *)
           (* and that has not passed yet, in 1 / Den of a period (history).*)

paceVars == <<thr, togo, resid, arb>>
rateVars == <<limit, lat, resp, paceVars, drawn, age, order, done, owed>>

Pacers == {"total", "rd", "wr"}

RateInit ==
  /\ limit \in Limits
  /\ lat = [c \in Cmds |-> << >>] /\ resp = [c \in Cmds |-> << >>]
  /\ thr = [c \in Cmds |-> "wait"] /\ togo = [c \in Cmds |-> 0]
  /\ resid = [p \in Pacers |-> 0] /\ owed = [p \in Pacers |-> 0]
  /\ arb = << >>
  /\ drawn = [t \in Tx |-> -1] /\ age = [t \in Tx |-> 0]
  /\ order = << >> /\ done = {}

\* A latency that is counted to its end, and the default 0, is less than
\* Horizon.
ASSUME RateAssumption ==
  /\ Den \in Nat \ {0} /\ Horizon \in Nat \ {0}
  /\ Latencies \subseteq 0 .. Horizon - 1
  /\ Limits \subseteq [total : Nat, rd : Nat, wr : Nat]

\* start_of_simulation: a total limit replaces the others.
Time(p) == IF limit.total > 0 /\ p # "total" THEN 0 ELSE limit[p]

\* The limit the thread of command c obeys: start_wr_resp_thread of
\* rate_limiting_buffer looks at the time of reads (wrPace).
Pace(c, wrPace) ==
  LET p == IF c = "rd" THEN "rd" ELSE wrPace IN
  IF Time("total") > 0 THEN "total" ELSE IF Time(p) > 0 THEN p ELSE "none"

\* transport.
Push(t, d) ==
  /\ drawn[t] = -1
  /\ drawn' = [drawn EXCEPT ![t] = d]
  /\ lat' = [lat EXCEPT ![Cmd[t]] = Append(@, [t |-> t, left |-> d])]
  /\ order' = Append(order, t)
  /\ UNCHANGED <<limit, resp, paceVars, age, done, owed>>

RateTransport(t) == \E d \in Latencies : Push(t, d)

-----------------------------------------------------------------------------
(* The clock.                                                              *)

\* Mutant: the lock is not waited for.
LetInMutant(c, wrPace) == thr[c] = "arb"

\* total_arb lets the thread in, or it needs no leave.
LetIn(c, wrPace) ==
  thr[c] = "arb" /\ (Pace(c, wrPace) = "total" => Head(arb) = c)

\* A thread that has something to do before the next clock edge.
Urgent(c, wrPace) ==
  \/ thr[c] = "wait" /\ resp[c] # << >>
  \/ LetIn(c, wrPace)
  \/ thr[c] = "try"

\* process_req2resp_fifos: every entry is looked at once.
Due(c) == Picked(lat[c], {i \in DOMAIN lat[c] : lat[c][i].left = 0})

Counted(s) == [i \in 1 .. Len(s) |-> [s[i] EXCEPT !.left = @ - 1]]

Waiting(c) ==
  Counted(Picked(lat[c], {i \in DOMAIN lat[c] : lat[c][i].left > 0}))

InFlight == {t \in Tx : drawn[t] # -1 /\ t \notin done}

Tick(wrPace) ==
  /\ \A c \in Cmds : ~Urgent(c, wrPace)
  /\ lat' = [c \in Cmds |-> Waiting(c)]
  /\ resp' = [c \in Cmds |->
       resp[c] \o [i \in 1 .. Len(Due(c)) |-> Due(c)[i].t]]
  /\ togo' = [c \in Cmds |-> IF togo[c] > 0 THEN togo[c] - 1 ELSE 0]
  /\ thr' = [c \in Cmds |->
       IF thr[c] = "again" \/ (thr[c] = "delay" /\ togo[c] = 1)
       THEN "try" ELSE thr[c]]
  /\ arb' = IF \E c \in Cmds : thr[c] = "delay" /\ togo[c] = 1
                                 /\ Pace(c, wrPace) = "total"
            THEN Tail(arb) ELSE arb
  /\ owed' = [p \in Pacers |-> IF owed[p] > Den THEN owed[p] - Den ELSE 0]
  /\ age' = [t \in Tx |-> IF t \in InFlight /\ age[t] < Horizon
                          THEN age[t] + 1 ELSE age[t]]
  /\ UNCHANGED <<limit, resid, drawn, order, done>>

-----------------------------------------------------------------------------
(* The threads.                                                            *)

\* The first response is looked at.  With a total limit the thread waits for
\* the other one.
Pick(c, wrPace) ==
  LET p == Pace(c, wrPace) IN
  /\ thr[c] = "wait" /\ resp[c] # << >>
  /\ thr' = [thr EXCEPT ![c] = IF p = "none" THEN "try" ELSE "arb"]
  /\ arb' = IF p = "total" THEN Append(arb, c) ELSE arb
  /\ UNCHANGED <<limit, lat, resp, togo, resid, drawn, age, order, done, owed>>

\* Mutant: the fraction of a clock that is left is thrown away.
ResidMutant(r, clocks) == [resid EXCEPT ![r] = 0]

Resid(r, clocks) == [resid EXCEPT ![r] = clocks % Den]

\* With no clocks to wait the thread still waits for a clock edge.
Edges(n) == IF n = 0 THEN 1 ELSE n

Delay(c, wrPace) ==
  LET p == Pace(c, wrPace)
      r == IF p = "total" THEN p ELSE c
      clocks == Bytes[Head(resp[c])] * Time(p) + resid[r]
  IN
  /\ LetIn(c, wrPace)
  /\ resid' = Resid(r, clocks)
  /\ togo' = [togo EXCEPT ![c] = Edges(clocks \div Den)]
  /\ thr' = [thr EXCEPT ![c] = "delay"]
  /\ UNCHANGED <<limit, lat, resp, arb, drawn, age, order, done, owed>>

\* bw_o->transport: the target PE accepts the response, or the thread tries
\* again at the next clock edge.
Accepted(c, wrPace) ==
  LET t == Head(resp[c]) IN
  /\ thr[c] = "try"
  /\ resp' = [resp EXCEPT ![c] = Tail(@)]
  /\ done' = done \union {t}
  /\ owed' = [p \in Pacers |->
       IF p \in {"total", c} THEN owed[p] + Bytes[t] * Time(p) ELSE owed[p]]
  /\ thr' = [thr EXCEPT ![c] = "wait"]
  /\ UNCHANGED <<limit, lat, togo, resid, arb, drawn, age, order>>

Refused(c) ==
  /\ thr[c] = "try"
  /\ thr' = [thr EXCEPT ![c] = "again"]
  /\ UNCHANGED <<limit, lat, resp, togo, resid, arb, drawn, age, order, done,
                 owed>>
=============================================================================
