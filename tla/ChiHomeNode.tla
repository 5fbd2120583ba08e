---------------------------- MODULE ChiHomeNode ----------------------------
(***************************************************************************)
(* The home node at the other end of the CHI link.  It is not part of the  *)
(* library; this is what chi_rn_initiator_b requires of it: which          *)
(* responses belong to a request, in which order, with which credits.      *)
(*                                                                         *)
(* Three habits are left open.  sync: it answers BEGIN phases with         *)
(* TLM_UPDATED instead of a later call.  attach: it returns credits with   *)
(* these answers where it can, instead of a call of their own.  early: it  *)
(* goes on with a transaction while it still receives the write data.      *)
(***************************************************************************)
EXTENDS Naturals, Sequences, FiniteSets, ChiMessages

CONSTANTS
  Payloads,    (* Requests and snoops.                                     *)
  Modes,       (* The records [sync, attach, early] to be considered.      *)
  CrdTotal     (* CrdTotal[c]: the credits for REQ, WDAT and SRSP.         *)

VARIABLES
  mode,     (* The habits; never changes.                                  *)
  plan,     (* plan[x]: the responses and beats still to be sent.          *)
  busy,     (* The payloads whose last response or beat is unanswered.     *)
  asked,    (* The requests that have been told to send their data.        *)
  got,      (* got[x]: number of data beats received.                      *)
  due,      (* due[x]: END phases to be sent.                              *)
  owed,     (* owed[c]: credits used by the request node and not returned. *)
  hnCrd     (* Credits for SNP, CRSP and RDAT.                             *)

hnVars == <<mode, plan, busy, asked, got, due, owed, hnCrd>>

HnInit ==
  /\ mode \in Modes
  /\ plan = [x \in Payloads |-> << >>]
  /\ busy = {} /\ asked = {}
  /\ got = [x \in Payloads |-> 0]
  /\ due = [x \in Payloads |-> << >>]
  /\ owed = CrdTotal
  /\ hnCrd = [SNP |-> 0, CRSP |-> 0, RDAT |-> 0]

Beats(n) == [i \in 1 .. n |-> IF i = n THEN "BEGIN_DATA"
                              ELSE "BEGIN_PARTIAL_DATA"]

\* Maintenance responses follow the write, in this order.
After(op) ==
  (IF ExpectCompCMO(op) THEN <<"CompCMO">> ELSE << >>)
    \o (IF ExpectPersist(op) THEN <<"Persist">> ELSE << >>)

\* The answers to a request r.  An atomic that returns data must not be
\* answered by DBIDResp, and an ordered read needs a response.
Plans(r) ==
  IF r.op \in ReturningAtomics THEN {<<"CompDBIDResp">> \o Beats(r.beats)}
  ELSE IF r.op = "CleanSharedPersistSep"
    THEN {<<"Comp", "Persist">>, <<"Persist", "Comp">>}
  ELSE IF r.op \in {"WriteNoSnpZero", "WriteUniqueZero"}
    THEN {<<"CompDBIDResp">>}
  ELSE IF IsDataless(r.op, NoResponse) THEN {<<"Comp">>}
  ELSE IF r.op = "MakeReadUnique" THEN {<<"Comp">>, Beats(r.beats)}
  ELSE IF r.cmd = "rd"
    THEN {q \o Beats(r.beats) :
            q \in {<<"ReadReceipt">>, <<"RespSepData">>} \union
                    IF IsRequestOrder(r.op, r.order) THEN {} ELSE {<< >>}}
  ELSE {q \o After(r.op) :
          q \in {<<"CompDBIDResp">>, <<"DBIDResp", "Comp">>,
                 <<"Comp", "DBIDResp">>}}

\* n credits come back with the answer to a phase on channel c.
Return(c, n) == owed' = [owed EXCEPT ![c] = @ + 1 - n]
Returned(c) == IF mode.attach THEN owed[c] + 1 ELSE 0
ReturnedNow(c) == IF mode.sync THEN Returned(c) ELSE 0
AnswerLater(x, phase) ==
  due' = IF mode.sync THEN due ELSE [due EXCEPT ![x] = Append(@, phase)]

HnRequest(t, r, n) ==
  /\ Return("REQ", n)
  /\ plan' \in {[plan EXCEPT ![t] = p] : p \in Plans(r)}
  /\ AnswerLater(t, "END_REQ")
  /\ UNCHANGED <<mode, busy, asked, got, hnCrd>>

HnData(x, last, n) ==
  /\ Return("WDAT", n)
  /\ got' = [got EXCEPT ![x] = @ + 1]
  /\ AnswerLater(x, IF last THEN "END_DATA" ELSE "END_PARTIAL_DATA")
  /\ UNCHANGED <<mode, plan, busy, asked, hnCrd>>

\* The response of a snoop pulls n beats, or none.
HnSnoopResp(s, pulled, n) ==
  /\ Return("SRSP", n)
  /\ plan' = [plan EXCEPT ![s] = Beats(pulled)]
  /\ AnswerLater(s, "END_RESP")
  /\ UNCHANGED <<mode, busy, asked, got, hnCrd>>

HnAck(n) ==
  /\ Return("SRSP", n)
  /\ UNCHANGED <<mode, plan, busy, asked, got, due, hnCrd>>

\* END_RESP or END_DATA of x, with n credits for read data.
HnEnd(x, n) ==
  /\ busy' = busy \ {x}
  /\ hnCrd' = [hnCrd EXCEPT !.RDAT = @ + n]
  /\ UNCHANGED <<mode, plan, asked, got, due, owed>>

\* Credits from the request node.
HnCredits(g) ==
  /\ hnCrd' = [c \in DOMAIN hnCrd |-> hnCrd[c] + g[c]]
  /\ UNCHANGED <<mode, plan, busy, asked, got, due, owed>>

\* The home node sends BEGIN_REQ of a snoop.
HnSnoop ==
  /\ hnCrd.SNP > 0
  /\ hnCrd' = [hnCrd EXCEPT !.SNP = @ - 1]
  /\ UNCHANGED <<mode, plan, busy, asked, got, due, owed>>

\* The next response of x can be sent.  The home node waits for write data
\* that it asked for, unless it is early.
Ready(x, beats) ==
  /\ plan[x] # << >> /\ x \notin busy
  /\ \A i \in 1 .. Len(due[x]) : due[x][i] \notin {"END_REQ", "END_RESP"}
  /\ mode.early \/ x \notin asked \/ (got[x] = beats /\ due[x] = << >>)

IsBeat(item) == item \in {"BEGIN_DATA", "BEGIN_PARTIAL_DATA"}

HnSend(x, beats) ==
  /\ Ready(x, beats)
  /\ LET item == Head(plan[x])
         c == IF IsBeat(item) THEN "RDAT" ELSE "CRSP"
     IN
     /\ hnCrd[c] > 0
     /\ hnCrd' = [hnCrd EXCEPT ![c] = @ - 1]
     /\ asked' = IF item \in {"DBIDResp", "CompDBIDResp"}
                 THEN asked \union {x} ELSE asked
  /\ plan' = [plan EXCEPT ![x] = Tail(@)]
  /\ busy' = busy \union {x}
  /\ UNCHANGED <<mode, got, due, owed>>

\* A late END phase, with n credits.
HnAnswer(x, c, n) ==
  /\ due[x] # << >>
  /\ due' = [due EXCEPT ![x] = Tail(@)]
  /\ owed' = [owed EXCEPT ![c] = @ - n]
  /\ UNCHANGED <<mode, plan, busy, asked, got, hnCrd>>

\* All credits of a channel that can be returned, in a call of their own.
\* (The first credits always come this way.)
HnGrant(c, n) ==
  /\ n > 0
  /\ owed' = [owed EXCEPT ![c] = @ - n]
  /\ UNCHANGED <<mode, plan, busy, asked, got, due, hnCrd>>
=============================================================================
