---------------------------- MODULE RecorderCalls ----------------------------
(***************************************************************************)
(* nb_transport_fw, nb_transport_bw, b_transport and b_snoop of the six    *)
(* recorders: what a recorder does before and after the call it forwards.  *)
(* The functions have one shape, Before and After (EnterBlocking and       *)
(* LeaveBlocking); a record names what the code of each one decides:       *)
(*   creates   phases in which a missing extension is made;                *)
(*   auto      it is given to the memory manager of the payload, if any;   *)
(*   done      <<status, phase>> that finish the transaction;              *)
(*   fetched   the extension is looked up again after the call;            *)
(*   checked   and the result is compared with nullptr;                    *)
(*   timed     the dialect's timed view, queued in an lwtr recorder;       *)
(*   renames   a finishing BEGIN_REQ enters the timed view as END_RESP.    *)
(***************************************************************************)
EXTENDS RecorderStreams

Statuses == {"ACCEPTED", "UPDATED", "COMPLETED"}
Phases == BeginReqs \union EndReqs \union BeginResps \union EndResps
            \union BeginDatas \union EndDatas \union {"ACK"}

Completed == {"COMPLETED"} \X Phases

\* Mutant: END_RESP finishes nothing.
AxiScvFwMutant ==
  [creates |-> BeginReqs, auto |-> TRUE, fetched |-> TRUE, checked |-> TRUE,
   done |-> Completed, timed |-> "axi_scv", renames |-> TRUE]

AxiScvFw ==
  [creates |-> BeginReqs, auto |-> TRUE, fetched |-> TRUE, checked |-> TRUE,
   done |-> Completed \union {<<"ACCEPTED", "END_RESP">>},
   timed |-> "axi_scv", renames |-> TRUE]

AxiScvBw ==
  [creates |-> {"BEGIN_REQ"}, auto |-> TRUE, fetched |-> TRUE,
   checked |-> FALSE, done |-> Completed \union {<<"UPDATED", "END_RESP">>},
   timed |-> "axi_scv", renames |-> TRUE]

AceScvFw ==
  [AxiScvFw EXCEPT !.done = Completed \union (Statuses \X {"ACK"}),
                   !.timed = "ace_scv"]

AceScvBw ==
  [AxiScvBw EXCEPT !.done = Completed \union {<<"UPDATED", "ACK">>},
                   !.timed = "ace_scv"]

ChiScvFw ==
  [creates |-> {"BEGIN_REQ"}, auto |-> FALSE, fetched |-> TRUE,
   checked |-> TRUE, done |-> Completed, timed |-> "chi_scv", renames |-> TRUE]

ChiScvBw == [ChiScvFw EXCEPT !.checked = FALSE]

AxiLwtrFw == [AxiScvFw EXCEPT !.timed = "axi_lwtr", !.renames = FALSE]

\* The pointer read before the call is used after it.
AxiLwtrBw ==
  [creates |-> {"BEGIN_REQ"}, auto |-> FALSE, fetched |-> FALSE,
   checked |-> TRUE, done |-> Completed \union {<<"UPDATED", "END_RESP">>},
   timed |-> "axi_lwtr", renames |-> FALSE]

AceLwtrFw == [AceScvFw EXCEPT !.timed = "ace_lwtr", !.renames = FALSE]

AceLwtrBw ==
  [AxiLwtrBw EXCEPT !.done = Completed \union {<<"UPDATED", "ACK">>},
                    !.timed = "ace_lwtr"]

ChiLwtrFw ==
  [creates |-> {"BEGIN_REQ"}, auto |-> TRUE, fetched |-> TRUE,
   checked |-> TRUE, done |-> Completed, timed |-> "chi_lwtr", renames |-> TRUE]

ChiLwtrBw == [ChiLwtrFw EXCEPT !.auto = FALSE, !.fetched = FALSE]

-----------------------------------------------------------------------------
(* A recorder enters a phase into its timed view: an scv recorder at once, *)
(* an lwtr recorder by way of its queue.                                   *)

\* One entry of the queue, or one phase.
Timed(s, r, e, view) ==
  CASE view = "axi_scv" -> AxiScvTimed(s, r, e.gen, e.ph)
    [] view = "ace_scv" -> AceScvTimed(s, r, e.gen, e.ph)
    [] view = "chi_scv" -> ChiScvTimed(s, r, e.gen, e.ph, e.credit)
    [] view = "axi_lwtr" -> AxiLwtrTimed(s, r, e.gen, e.ph)
    [] view = "ace_lwtr" -> AceLwtrTimed(s, r, e.gen, e.ph)
    [] view = "chi_lwtr" -> ChiLwtrTimed(s, r, e.gen, e.ph, e.credit)

Lwtr == {"axi_lwtr", "ace_lwtr", "chi_lwtr"}

Notify(s, r, e, view) ==
  IF view \in Lwtr THEN [s EXCEPT !.peq[r] = Append(@, e)]
  ELSE Timed(s, r, e, view)

\* The relation to the handle of the call before, in the extension.
Linked(s, r, g) ==
  [(IF s.ext.gen = g THEN s ELSE Flag(s, "linked to another use"))
     EXCEPT !.ext.gen = g, !.ext.tx = r]

Made(s, r, g, auto) ==
  [s EXCEPT !.ext = [gen |-> g, tx |-> r, owner |-> r, auto |-> auto]]

\* What precedes the forwarded call.
Before(s, r, rule, e, mm, timed) ==
  LET t == IF s.ext # NoExt THEN Linked(s, r, e.gen)
           ELSE IF e.ph \in rule.creates THEN Made(s, r, e.gen, rule.auto /\ mm)
           ELSE Flag(s, "assert")
  IN  IF timed THEN Notify(t, r, e, rule.timed) ELSE t

\* Only who made the extension removes it, and deletes it if the payload has
\* no memory manager.  A recorder that kept the pointer reads the maker from
\* an extension that another one may have deleted during the call.
Removed(s, r, rule, owner, mm) ==
  LET maker == IF rule.fetched THEN s.ext.owner ELSE owner
  IN  CASE rule.fetched /\ s.ext = NoExt ->
             IF rule.checked THEN s ELSE Flag(s, "null")
        [] ~rule.fetched /\ s.ext = NoExt /\ ~mm -> Flag(s, "freed")
        [] OTHER -> IF maker = r THEN [s EXCEPT !.ext = NoExt] ELSE s

\* What follows it; e holds the phase as the call left it, owner is the
\* maker of the extension before the call.
After(s, r, rule, e, status, owner, mm, timed) ==
  LET f == IF rule.renames /\ e.ph = "BEGIN_REQ"
             THEN [e EXCEPT !.ph = "END_RESP"] ELSE e
  IN  IF <<status, e.ph>> \in rule.done
        THEN LET t == Removed(s, r, rule, owner, mm) IN
             IF timed
               THEN Notify(t, r, IF status = "COMPLETED" THEN f ELSE e,
                           rule.timed)
               ELSE t
      ELSE IF timed /\ status = "UPDATED" THEN Notify(s, r, e, rule.timed)
      ELSE s

-----------------------------------------------------------------------------
(* The blocking calls.  b_transport is forwarded to the target, b_snoop to *)
(* the initiator; bypass is where a call goes that is not recorded.        *)

AxiScvBlocking == [auto |-> TRUE, to |-> "fw", bypass |-> "fw"]
AceScvBlocking == [auto |-> TRUE, to |-> "fw", bypass |-> "fw"]
ChiScvBlocking == [auto |-> FALSE, to |-> "fw", bypass |-> "fw"]
AxiLwtrBlocking == [auto |-> TRUE, to |-> "fw", bypass |-> "fw"]
AceLwtrBlocking == [auto |-> TRUE, to |-> "fw", bypass |-> "fw"]
ChiLwtrBlocking == [auto |-> TRUE, to |-> "fw", bypass |-> "fw"]

\* The scv snoops call b_transport where b_snoop is meant.
AceScvSnoop == [auto |-> TRUE, to |-> "bw", bypass |-> "fw"]
ChiScvSnoop == [auto |-> FALSE, to |-> "fw", bypass |-> "fw"]
AceLwtrSnoop == [auto |-> FALSE, to |-> "bw", bypass |-> "bw"]
ChiLwtrSnoop == [auto |-> FALSE, to |-> "bw", bypass |-> "bw"]

EnterBlocking(s, r, g, auto) ==
  IF s.ext = NoExt THEN Made(s, r, g, auto)
  ELSE Linked(s, r, g)

\* Mutant: the handle of the caller is not put back.
LeaveBlockingMutant(s, r, pre) ==
  IF s.ext = NoExt THEN Flag(s, "null")
  ELSE IF s.ext.owner = r THEN [s EXCEPT !.ext = NoExt] ELSE s

\* The maker removes the extension, the others put the handle back.
LeaveBlocking(s, r, pre) ==
  IF s.ext = NoExt THEN Flag(s, "null")
  ELSE IF s.ext.owner = r THEN [s EXCEPT !.ext = NoExt]
  ELSE [s EXCEPT !.ext.tx = pre.tx, !.ext.gen = pre.gen]
=============================================================================
