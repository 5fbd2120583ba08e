----------------------------- MODULE Recorders -----------------------------
(***************************************************************************)
(* A path of transaction recorders between an initiator and a target, and  *)
(* one payload that is used Uses times.  The configuration is chosen in    *)
(* Init: cfg.kind the recorder class, cfg.n their number, cfg.mode what is *)
(* recorded, cfg.mm whether the payload has a memory manager, cfg.back     *)
(* whether it comes from the target (snoops, credits), cfg.upstream        *)
(* whether it arrives with the extension of a recorder of the same class   *)
(* before this path, number 0, of which only what it does with its         *)
(* extension is modelled.                                                  *)
(*                                                                         *)
(* Initiator and target follow a script, the phases of one transaction.  A *)
(* call may be made from within a call of the other side, and a phase may  *)
(* be the answer to a call (UPDATED); frames is the stack of the calls     *)
(* that run.  SystemC processes are not preempted: what a recorder does    *)
(* before the forwarded call is one step, what it does after it another.   *)
(***************************************************************************)
EXTENDS RecorderCalls

CONSTANTS
  Kinds,       (* Recorder classes.                                        *)
  Uses,        (* Bound: uses of the payload.                              *)
  Depth,       (* Bound: calls within calls.                               *)
  NestedEnds   (* An END_RESP may be the answer to a BEGIN_RESP that       *)
               (* passes several recorders, the last of which removes what *)
               (* the others look at after it (FragileEnd).                *)

Scv == {"axi_scv", "ace_scv", "chi_scv"}
Axi == {"axi_scv", "axi_lwtr"}
Ace == {"ace_scv", "ace_lwtr"}
Chi == {"chi_scv", "chi_lwtr"}

ASSUME RecordersAssumption ==
  /\ Recorders = 1 .. Cardinality(Recorders)
  /\ Kinds \subseteq Axi \union Ace \union Chi
  /\ {Uses, Depth} \subseteq Nat \ {0}
  /\ NestedEnds \in BOOLEAN

VARIABLES cfg, s, gen, script, pos, frames
vars == <<cfg, s, gen, script, pos, frames>>

-----------------------------------------------------------------------------
(* The scripts.                                                            *)

F(ph) == [dir |-> "fw", ph |-> ph]
B(ph) == [dir |-> "bw", ph |-> ph]

AxiRequests ==
  {<<F("BEGIN_REQ")>>, <<F("BEGIN_REQ"), B("END_REQ")>>,
   <<F("BEGIN_PARTIAL_REQ"), B("END_PARTIAL_REQ"),
     F("BEGIN_REQ"), B("END_REQ")>>}

AxiResponses ==
  {<<B("BEGIN_RESP"), F("END_RESP")>>,
   <<B("BEGIN_PARTIAL_RESP"), F("END_PARTIAL_RESP"),
     B("BEGIN_RESP"), F("END_RESP")>>}

AxiScripts == {q \o p : q \in AxiRequests, p \in AxiResponses}

AceScripts == AxiScripts \union {t \o <<F("ACK")>> : t \in AxiScripts}

AceSnoops ==
  {<<B("BEGIN_REQ"), F("END_REQ")>> \o p :
     p \in {<<F("BEGIN_RESP"), B("END_RESP")>>,
            <<F("BEGIN_PARTIAL_RESP"), B("END_PARTIAL_RESP"),
              F("BEGIN_RESP"), B("END_RESP")>>}}

\* A credit is a BEGIN_REQ answered COMPLETED.
ChiScripts ==
  {<<F("BEGIN_REQ"), B("END_RESP")>>}
    \union
  {<<F("BEGIN_REQ"), B("END_REQ")>> \o p :
     p \in {<<B("BEGIN_RESP"), F("END_RESP")>>,
            <<B("BEGIN_PARTIAL_DATA"), F("END_PARTIAL_DATA"),
              B("BEGIN_DATA"), F("END_DATA"), F("ACK")>>,
            <<B("BEGIN_RESP"), F("END_RESP"),
              F("BEGIN_DATA"), B("END_DATA"),
              B("BEGIN_RESP"), F("END_RESP")>>}}

ChiSnoops ==
  {<<B("BEGIN_REQ"), F("END_RESP")>>}
    \union
  {<<B("BEGIN_REQ"), F("END_REQ")>> \o p :
     p \in {<<F("BEGIN_RESP"), B("END_RESP")>>,
            <<F("BEGIN_DATA"), B("END_DATA")>>}}

\* b_transport and b_snoop, the whole transaction in one call.
Blocking(dir) == <<[dir |-> dir, ph |-> "b"]>>

Scripts(k, back) ==
  CASE k \in Axi -> AxiScripts \union {Blocking("fw")}
    [] k \in Ace /\ ~back -> AceScripts \union {Blocking("fw")}
    [] k \in Ace /\ back -> AceSnoops \union {Blocking("bw")}
    [] k \in Chi /\ ~back -> ChiScripts \union {Blocking("fw")}
    [] k \in Chi /\ back -> ChiSnoops \union {Blocking("bw")}

IsCredit == cfg.kind \in Chi /\ Len(script) = 2

-----------------------------------------------------------------------------
(* The code of the configured recorder class.                              *)

Rule(dir) ==
  CASE cfg.kind = "axi_scv" -> IF dir = "fw" THEN AxiScvFw ELSE AxiScvBw
    [] cfg.kind = "ace_scv" -> IF dir = "fw" THEN AceScvFw ELSE AceScvBw
    [] cfg.kind = "chi_scv" -> IF dir = "fw" THEN ChiScvFw ELSE ChiScvBw
    [] cfg.kind = "axi_lwtr" -> IF dir = "fw" THEN AxiLwtrFw ELSE AxiLwtrBw
    [] cfg.kind = "ace_lwtr" -> IF dir = "fw" THEN AceLwtrFw ELSE AceLwtrBw
    [] cfg.kind = "chi_lwtr" -> IF dir = "fw" THEN ChiLwtrFw ELSE ChiLwtrBw

BlockingRule(dir) ==
  CASE cfg.kind = "axi_scv" -> AxiScvBlocking
    [] cfg.kind = "ace_scv" -> IF dir = "fw" THEN AceScvBlocking
                               ELSE AceScvSnoop
    [] cfg.kind = "chi_scv" -> IF dir = "fw" THEN ChiScvBlocking
                               ELSE ChiScvSnoop
    [] cfg.kind = "axi_lwtr" -> AxiLwtrBlocking
    [] cfg.kind = "ace_lwtr" -> IF dir = "fw" THEN AceLwtrBlocking
                                ELSE AceLwtrSnoop
    [] cfg.kind = "chi_lwtr" -> IF dir = "fw" THEN ChiLwtrBlocking
                                ELSE ChiLwtrSnoop

\* isRecordingBlockingTxEnabled; a snoop asks for the timed stream instead.
Records(dir, ph) ==
  IF ph = "b" /\ dir = "bw" THEN cfg.mode = "timed" ELSE cfg.mode # "off"

\* The recorders a call passes.  One that is sent back by the first recorder
\* it meets passes no other.
Path(dir, ph) ==
  LET all == IF dir = "fw" THEN [i \in 1 .. cfg.n |-> i]
             ELSE [i \in 1 .. cfg.n |-> cfg.n + 1 - i]
      to == IF Records(dir, ph) THEN BlockingRule(dir).to
            ELSE BlockingRule(dir).bypass
  IN  IF ph = "b" /\ to # dir THEN <<cfg.n>> ELSE all

Entry(ph) ==
  [gen |-> gen, ph |-> ph, credit |-> IsCredit /\ ph = "BEGIN_REQ"]

\* [st, pre]: the state after every recorder of the path was entered, and the
\* extension each one of them worked on.
Entered(dir, ph) ==
  LET step(acc, r) ==
        LET t == IF ph = "b"
                   THEN EnterBlocking(acc.st, r, gen,
                                      BlockingRule(dir).auto /\ cfg.mm)
                   ELSE Before(acc.st, r, Rule(dir), Entry(ph), cfg.mm,
                               cfg.mode = "timed")
        IN  [st |-> t,
             pre |-> [acc.pre EXCEPT ![r] =
                        IF acc.st.ext = NoExt THEN t.ext ELSE acc.st.ext]]
      none == [st |-> s, pre |-> [r \in Recorders |-> NoExt]]
  IN  IF Records(dir, ph) THEN FoldLeft(step, none, Path(dir, ph)) ELSE none

\* The recorder before the path takes its extension off a payload that it
\* sees finished.
UpstreamLeft(st, f, ph, status) ==
  IF cfg.upstream /\ f.ph # "b" /\ <<status, ph>> \in Rule(f.dir).done
    THEN Removed(st, 0, Rule(f.dir), 0, cfg.mm) ELSE st

\* The calls return in the opposite order: the recorder before the path is
\* the last one to return from a call that came through it, and the first one
\* from a call that was going to it.
Left(f, ph, status) ==
  LET step(st, r) ==
        IF f.ph = "b" THEN LeaveBlocking(st, r, f.pre[r])
        ELSE After(st, r, Rule(f.dir), Entry(ph), status, f.pre[r].owner,
                   cfg.mm, cfg.mode = "timed")
      path(st) == IF Records(f.dir, f.ph)
                    THEN FoldLeft(step, st, Reverse(Path(f.dir, f.ph))) ELSE st
  IN  IF (f.dir = "bw") = cfg.back
        THEN UpstreamLeft(path(s), f, ph, status)
        ELSE path(UpstreamLeft(s, f, ph, status))

-----------------------------------------------------------------------------
Running == s.bad \intersect {"assert", "null", "freed"} = {}

Top == Last(frames)

\* A call of one side, from its own process or from within a call it is in.
Call ==
  /\ Running
  /\ pos < Len(script)
  /\ Len(frames) < Depth
  /\ LET n == script[pos + 1]
         e == Entered(n.dir, n.ph)
     IN  /\ frames # << >> => Top.dir # n.dir
         /\ frames' = Append(frames, [dir |-> n.dir, ph |-> n.ph,
                                      at |-> pos + 1, pre |-> e.pre,
                                      found |-> s.ext])
         /\ s' = e.st
  /\ pos' = pos + 1
  /\ UNCHANGED <<cfg, gen, script>>

Return(status, ph) ==
  /\ s' = Left(Top, ph, status)
  /\ frames' = Front(frames)
  /\ UNCHANGED <<cfg, gen, script>>

\* The phase is taken, an answer follows in a call of the other side.  A
\* credit and a CHI acknowledge are always answered.
ReturnAccepted ==
  /\ Running
  /\ frames # << >>
  /\ Top.ph # "b"
  /\ ~IsCredit
  /\ ~(cfg.kind \in Chi /\ Top.ph = "ACK")
  /\ Return("ACCEPTED", Top.ph)
  /\ UNCHANGED pos

\* With this answer to a call in the backward direction the recorders of a
\* chain come to an extension that is gone: the scv recorders to none, the
\* lwtr recorders, without a memory manager, to one that is deleted.
FragileEnd(ph) ==
  /\ cfg.mode # "off" /\ (cfg.n > 1 \/ cfg.upstream)
  /\ cfg.kind = "axi_scv" \/ (cfg.kind = "axi_lwtr" /\ ~cfg.mm)
  /\ ph = "END_RESP"

\* The next phase of the script is the answer.
ReturnUpdated ==
  /\ Running
  /\ frames # << >>
  /\ pos = Top.at
  /\ pos < Len(script)
  /\ script[pos + 1].dir # Top.dir
  /\ ~IsCredit
  /\ FragileEnd(script[pos + 1].ph) => NestedEnds
  /\ Return("UPDATED", script[pos + 1].ph)
  /\ pos' = pos + 1

\* The transaction is complete: the last phase of the script, or a credit.
ReturnCompleted ==
  /\ Running
  /\ frames # << >>
  /\ pos = Top.at
  /\ \/ /\ pos = Len(script)
        /\ \/ Top.ph \in {"ACK", "b"}
           \/ cfg.kind \in Axi /\ Top.ph = "END_RESP"
        /\ Return("COMPLETED", Top.ph)
     \/ /\ IsCredit
        /\ pos = 1
        /\ Return("COMPLETED", script[2].ph)
  /\ pos' = Len(script)

\* nbtx_cb of the lwtr recorders, one entry a call.  Recorders share nothing
\* in their timed views: those that have an entry take it in one step.
NbTimed ==
  LET take(st, r) ==
        IF s.peq[r] = << >> THEN st
        ELSE [Timed(st, r, Head(s.peq[r]), Rule("fw").timed)
                EXCEPT !.peq[r] = Tail(@)]
  IN  /\ Running
      /\ \E r \in Recorders : s.peq[r] # << >>
      /\ s' = FoldLeft(take, s, [r \in Recorders |-> r])
      /\ UNCHANGED <<cfg, gen, script, pos, frames>>

Arriving(g) == [gen |-> g, tx |-> 0, owner |-> 0, auto |-> FALSE]

Idle == pos = Len(script) /\ frames = << >>

\* The payload is used again.  Its memory manager drops what it manages; the
\* recorder before this path brings its own extension.
NextUse ==
  /\ Running
  /\ Idle
  /\ gen < Uses
  /\ gen' = gen + 1
  /\ script' \in Scripts(cfg.kind, cfg.back)
  /\ pos' = 0
  /\ s' = [s EXCEPT !.ext =
             IF cfg.upstream THEN Arriving(gen + 1)
             ELSE IF s.ext.auto THEN NoExt ELSE s.ext]
  /\ UNCHANGED <<cfg, frames>>

Init ==
  /\ cfg \in [kind : Kinds, n : Recorders,
              mode : {"off", "untimed", "timed"},
              mm : BOOLEAN, back : BOOLEAN, upstream : BOOLEAN]
  /\ cfg.back => cfg.kind \notin Axi
  /\ script \in Scripts(cfg.kind, cfg.back)
  /\ s = [Fresh EXCEPT !.ext = IF cfg.upstream THEN Arriving(1) ELSE NoExt]
  /\ gen = 1
  /\ pos = 0
  /\ frames = << >>

Next ==
  \/ Call
  \/ ReturnAccepted
  \/ ReturnUpdated
  \/ ReturnCompleted
  \/ NbTimed
  \/ NextUse

Spec == Init /\ [][Next]_vars

-----------------------------------------------------------------------------
(* Properties.                                                             *)

TypeOK ==
  /\ gen \in 1 .. Uses
  /\ pos \in 0 .. Len(script)
  /\ Len(frames) <= Depth
  /\ s.ext \in [gen : 0 .. Uses, tx : {0} \union Recorders,
                owner : {0} \union Recorders, auto : BOOLEAN]
  /\ s.open \subseteq [r : Recorders, gen : 1 .. Uses,
                       kind : {"req", "resp", "data", "ack"},
                       n : 0 .. Uses * 8]
  /\ \A r \in Recorders, x \in {"resp", "data", "ack"} :
       s.map[r][x] \in s.open \union {NoTx}

\* No recorder stops the simulation: its extension is found wherever the code
\* asserts or assumes it, for phases that come as calls, as answers, and as
\* calls within calls.
NoAbort == Running

\* A timed transaction is ended once, though the end of a request can be
\* recorded before the call, after it and, implicitly, by the response.
EndedOnce == "ended twice" \notin s.bad

\* When the payload is idle and the queues are empty, every timed transaction
\* that was begun has ended.
NothingLeftOpen ==
  (Idle /\ \A r \in Recorders : s.peq[r] = << >>) => s.open = {}

\* The timed view is exact for every legal use of a payload: whatever is begun
\* is ended, and ended once.
TimedViewExact == TypeOK /\ NoAbort /\ EndedOnce /\ NothingLeftOpen

\* What a recorder links a transaction to belongs to the same use of the
\* payload, in the extension and in the maps that are indexed by its address:
\* AXI removes the extension at the end, the other dialects leave
\* that to the memory manager, where the recorder gives it the extension.
LinksOwn ==
  \/ "linked to another use" \notin s.bad
  \/ cfg.kind \notin Axi /\ ~cfg.mm
  \/ cfg.kind = "chi_scv"
  \/ cfg.kind \in Lwtr /\ cfg.back

\* Where the code knows the end of a transaction (AXI, an ACE transaction with
\* an acknowledge, a blocking call) no recorder of the path leaves its
\* extension behind.
NoneLeftBehind ==
  (/\ Idle
   /\ \/ cfg.kind \in Axi
      \/ script[Len(script)].ph \in {"b"}
      \/ cfg.kind \in Ace /\ script[Len(script)].ph = "ACK")
    => s.ext.owner = 0 \/ s.ext.gen # gen

\* No use of a payload sees the extension of another one.
ExtensionsOwn == LinksOwn /\ NoneLeftBehind

\* A blocking call leaves the extension as it found it, whichever recorders
\* it passed; one left over from an earlier use aside.
BlockingRestores ==
  [][\A i \in 1 .. Len(frames) :
       (/\ frames[i].ph = "b"
        /\ frames' = << >>
        /\ frames[i].found.gen \in {0, gen})
         => s'.ext = frames[i].found]_vars
=============================================================================
