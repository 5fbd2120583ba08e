------------------------ MODULE AxiLinkResponse_proofs ------------------------
(***************************************************************************)
(* The response side of AxiLink: who owns the response channels and the    *)
(* right to respond, how many beats a response still has, and that with    *)
(* matching flavors none of the two engines ever reports an error.         *)
(***************************************************************************)
EXTENDS AxiLinkLimit_proofs

-----------------------------------------------------------------------------
(* The invariants.                                                         *)

\* The queue of response beats, 128 long in the code, can hold one beat of every
\* transaction that may be accepted.
RoomForBeats ==
  CountersFit /\ \/ MaxOutstanding \in 1..BeatFifoSize
                 \/ Cardinality(Tx) <= BeatFifoSize

NotQueued(t, c) == \A e \in Range(beatFifo[c]) : e.tx # t

\* The transactions whose response beat was sent and not yet acknowledged.
OnChannel(c) ==
  {t \in OfCmd(c) : fsm[t] \in {"PartialResponse", "Response"} /\ NotQueued(t, c)}

OwnerInv ==
  \A c \in Cmds : \/ respCh[c] = 1 /\ OnChannel(c) = {}
                  \/ respCh[c] = 0 /\ \E t \in Tx : OnChannel(c) = {t}

\* The reads that have taken rd_resp.
Holders == {t \in Tx : OwnsId(t) \/ rdStart = [pc |-> "id", tx |-> t]}

RightInv ==
  \/ rdResp = 1 /\ Holders = {}
  \/ rdResp = 0 /\ \E t \in Tx : Holders = {t}

\* With a target that waits for acknowledges only if the initiator sends them
\* the state machine of a payload is idle whenever the next use begins.
BetweenBeats(t) == fsm[t] = IF sent[t] = 0 THEN "Idle" ELSE "WriteIdle"
AfterEnd == IF Coherent THEN "WaitAck" ELSE "Idle"

CallOK(t) ==
  /\ ini[t] \in {"idle", "id"} => fsm[t] = "Idle"
  /\ ini[t] = "chnl" => BetweenBeats(t)
  /\ ini[t] = "send" => IF fw[t] # << >> THEN BetweenBeats(t)
                        ELSE fsm[t] # "WaitAck"
  /\ ini[t] = "ack" => Ace /\ (fw[t] = << >> => fsm[t] = AfterEnd)
  /\ ini[t] = "fin" =>
       /\ fw[t] = << >> => fsm[t] = "Idle"
       /\ fw[t] = <<"ACK">> => Ace /\ fsm[t] = AfterEnd
       /\ fw[t] = <<"END_RESP">> => ~Ace

CallInv == \A t \in Tx : CallOK(t)

\* The beats of a response: the engine counts those that were acknowledged, the
\* initiator those that are still to come.
ReadBeats(t) ==
  /\ fsm[t] \in {"Request", "WaitForResponse"} => beat[t] = 0
  /\ fsm[t] = "PartialResponse" => beat[t] < BurstLen[t] - 1
  /\ fsm[t] = "ReadIdle" => beat[t] <= BurstLen[t] - 1
  /\ fsm[t] = "Response" => beat[t] = BurstLen[t] - 1
  /\ ini[t] = "send" /\ fsm[t] \notin RestStates => beat[t] = 0
  /\ fsm[t] \in {"WaitForResponse", "ReadIdle"} =>
       \A tp : IsDue(t, tp) => tp = NextRespBeat(t, beat[t])

BeatsLeft(t) ==
  LET all == IF Cmd[t] = "rd" THEN BurstLen[t] ELSE 1
      acknowledged == IF Cmd[t] # "rd" THEN 0
                      ELSE IF fw[t] = << >> THEN beat[t] ELSE beat[t] + 1
  IN  /\ ini[t] \in {"id", "chnl", "send"} => left[t] = all
      /\ ini[t] = "resp" => left[t] = all - acknowledged

BurstOK(t) == (Cmd[t] = "rd" => ReadBeats(t)) /\ BeatsLeft(t)
BurstInv == \A t \in Tx : BurstOK(t)

-----------------------------------------------------------------------------
(* The response channels.                                                  *)

OnLinkStates == {"PartialResponse", "Response"}

\* The queue of response beats never overflows: its beats are those of other
\* accepted transactions.
LEMMA RoomToRespond ==
  ASSUME TypeOK, TokenInv, LimitInv, RoomForBeats, NEW t \in Tx, NEW tp, NEW q,
         NEW k, BegRespStep(t, tp, q, k)
  PROVE  Len(beatFifo[Cmd[t]]) < BeatFifoSize
<1> DEFINE c == Cmd[t]
           s == beatFifo[c]
           rest == AcceptedOf(c) \ {t}
<1>1. /\ c \in Cmds /\ s \in Seq(Scheduled) /\ BeatFifoSize \in Nat
      /\ MaxOutstanding \in Nat /\ IsFiniteSet(Tx)
  BY ChannelAssumption, TargetAssumption
  DEF ChannelAssumption, TargetAssumption, TypeOK, TgtTypeOK, RoomForBeats,
      CountersFit
<1>2. fsm[t] \in {"WaitForResponse", "ReadIdle"}
  BY DEF BegRespStep
<1>3. ASSUME NEW i \in 1..Len(s) PROVE s[i].tx \in rest
  <2>1. s[i] \in Range(s) /\ s[i] \in Scheduled
    BY <1>1 DEF Range
  <2>2. /\ Cmd[s[i].tx] = c /\ s[i].tx \in Tx
        /\ fsm[s[i].tx] \in {"PartialResponse", "Response"}
    BY <1>1, <2>1 DEF TokenInv, BeatInv, Scheduled
  <2> QED
    BY <1>2, <2>2 DEF AcceptedOf, OfCmd, Accepted
<1>4. /\ t \in AcceptedOf(c) /\ AcceptedOf(c) \in SUBSET Tx
      /\ rest \in SUBSET AcceptedOf(c)
  BY <1>2 DEF AcceptedOf, OfCmd, Accepted
<1>5. /\ IsFiniteSet(AcceptedOf(c)) /\ IsFiniteSet(rest)
      /\ Cardinality(rest) \in Nat /\ Cardinality(AcceptedOf(c)) \in Nat
      /\ Cardinality(AcceptedOf(c)) <= Cardinality(Tx) /\ Cardinality(Tx) \in Nat
  BY <1>1, <1>4, FS_Subset, FS_CardinalityType
<1>6. Cardinality(rest) = Cardinality(AcceptedOf(c)) - 1
  BY <1>4, <1>5, FS_RemoveElement
<1>7. Len(s) <= Cardinality(rest)
  <2> DEFINE f == [i \in 1..Len(s) |-> s[i].tx]
  <2>1. f \in [1..Len(s) -> rest] /\ Len(s) \in Nat
    BY <1>1, <1>3
  <2>2. IsFiniteSet(1..Len(s)) /\ Cardinality(1..Len(s)) = Len(s)
    <3>1. /\ IsFiniteSet(1..Len(s))
          /\ Cardinality(1..Len(s)) = IF 1 > Len(s) THEN 0 ELSE Len(s) - 1 + 1
      <4>1. 1 \in Int /\ Len(s) \in Int
        BY <2>1
      <4> QED
        BY <4>1, FS_Interval
    <3> QED
      BY <2>1, <3>1
  <2>3. \A i, j \in 1..Len(s) : f[i] = f[j] => i = j
    BY <1>1 DEF TokenInv, BeatInv, OneEach
  <2> HIDE DEF f, rest, s
  <2>4. ~(Cardinality(rest) < Cardinality(1..Len(s)))
    BY <1>5, <2>1, <2>2, <2>3, FS_PigeonHole
  <2> QED
    BY <1>5, <2>1, <2>2, <2>4
<1>8. MaxOutstanding > 0 => Cardinality(AcceptedOf(c)) <= MaxOutstanding
  <2>1. AcceptedWithinLimit
    BY WithinLimit DEF RoomForBeats
  <2> QED
    BY <1>1, <2>1 DEF AcceptedWithinLimit, AcceptedOf
<1>9. Cardinality(AcceptedOf(c)) <= BeatFifoSize
  <2>1. CASE MaxOutstanding \in 1..BeatFifoSize
    BY <1>1, <1>5, <1>8, <2>1
  <2>2. CASE Cardinality(Tx) <= BeatFifoSize
    BY <1>1, <1>5, <2>2
  <2> QED
    BY <2>1, <2>2 DEF RoomForBeats
<1> HIDE DEF rest, s
<1>10. Len(s) \in Nat
  BY <1>1
<1> QED
  BY <1>1, <1>5, <1>6, <1>7, <1>9, <1>10 DEF s

\* A step of a state machine that has nothing to do with a channel.
LEMMA OwnerKeep ==
  ASSUME TypeOK, OwnerInv, NEW t \in Tx, NEW s, Becomes(t, s),
         fsm[t] \notin OnLinkStates, s \notin OnLinkStates,
         UNCHANGED <<beatFifo, respCh>>
  PROVE  OwnerInv'
<1>1. fsm'[t] = s /\ \A u \in Tx \ {t} : fsm'[u] = fsm[u]
  BY DEF TypeOK, TgtTypeOK, Becomes
<1>2. \A c \in Cmds : OnChannel(c)' = OnChannel(c)
  BY <1>1 DEF OnChannel, OfCmd, NotQueued, OnLinkStates
<1> QED
  BY <1>2 DEF OwnerInv

\* The end of a beat frees the channel it was on.
LEMMA OwnerRelease ==
  ASSUME TypeOK, TokenInv, OwnerInv, NEW t \in Tx, NEW s, Becomes(t, s),
         fsm[t] \in OnLinkStates, s \notin OnLinkStates, fw[t] # << >>,
         FreeChannel(Cmd[t]), UNCHANGED beatFifo
  PROVE  OwnerInv'
<1> DEFINE c == Cmd[t]
<1>1. /\ fsm'[t] = s /\ \A u \in Tx \ {t} : fsm'[u] = fsm[u]
      /\ c \in Cmds /\ respCh \in [Cmds -> Nat]
  BY ChannelAssumption
  DEF ChannelAssumption, TypeOK, TgtTypeOK, Becomes
<1>2. t \in OnChannel(c)
  <2>1. NotQueued(t, c)
    BY <1>1 DEF TokenInv, BeatInv, NotQueued
  <2> QED
    BY <2>1 DEF OnChannel, OfCmd, OnLinkStates
<1>3. OnChannel(c) = {t} /\ respCh[c] = 0
  BY <1>1, <1>2 DEF OwnerInv
<1>4. /\ OnChannel(c)' = OnChannel(c) \ {t}
      /\ \A d \in Cmds : d # c => OnChannel(d)' = OnChannel(d)
  BY <1>1 DEF OnChannel, OfCmd, NotQueued, OnLinkStates
<1>5. respCh'[c] = 1 /\ \A d \in Cmds : d # c => respCh'[d] = respCh[d]
  BY <1>1, <1>3 DEF FreeChannel
<1> QED
  BY <1>3, <1>4, <1>5 DEF OwnerInv

\* A new beat waits for the channel.
LEMMA OwnerQueue ==
  ASSUME TypeOK, TokenInv, LimitInv, RoomForBeats, OwnerInv, NEW t \in Tx,
         NEW tp, NEW q, NEW k, BegRespStep(t, tp, q, k)
  PROVE  OwnerInv'
<1> DEFINE c == Cmd[t]
           e == [tp |-> tp, tx |-> t]
<1>1. /\ c \in Cmds /\ beatFifo \in [Cmds -> Seq(Scheduled)]
      /\ fsm \in [Tx -> FsmStates] /\ fsm[t] \in {"WaitForResponse", "ReadIdle"}
      /\ \E s : Becomes(t, s)
  BY ChannelAssumption DEF ChannelAssumption, TypeOK, TgtTypeOK, BegRespStep
<1>2. e \in Scheduled /\ e.tx = t
  <2>1. tp \in TimePoints
    BY DEF BegRespStep, DueIn, TimePoints
  <2> QED
    BY <2>1 DEF Scheduled
<1>3. beatFifo' = [beatFifo EXCEPT ![c] = Append(@, e)] /\ UNCHANGED respCh
  <2>1. ~(Len(beatFifo[c]) >= BeatFifoSize)
    <3>1. Len(beatFifo[c]) < BeatFifoSize
      BY RoomToRespond
    <3>2. Len(beatFifo[c]) \in Nat /\ BeatFifoSize \in Nat
      BY <1>1, TargetAssumption DEF TargetAssumption
    <3> QED
      BY <3>1, <3>2
  <2> QED
    BY <2>1 DEF BegRespStep, BegRespCb
<1> HIDE DEF e
<1>4. Range(beatFifo'[c]) = Range(beatFifo[c]) \union {e}
  BY <1>1, <1>2, <1>3, RangeAppend
<1>5. \A u \in Tx \ {t} : fsm'[u] = fsm[u] /\ (NotQueued(u, c)' <=> NotQueued(u, c))
  BY <1>1, <1>2, <1>4 DEF NotQueued, Becomes
<1>6. ~NotQueued(t, c)'
  BY <1>2, <1>4 DEF NotQueued
<1>7. OnChannel(c)' = OnChannel(c)
  BY <1>1, <1>5, <1>6 DEF OnChannel, OfCmd
<1>8. \A d \in Cmds : d # c => OnChannel(d)' = OnChannel(d)
  BY <1>1, <1>3, <1>5 DEF OnChannel, OfCmd, NotQueued
<1> QED
  BY <1>3, <1>7, <1>8 DEF OwnerInv

\* A beat is sent when the channel is free.
LEMMA OwnerSend ==
  ASSUME TypeOK, TokenInv, OwnerInv, NEW c \in Cmds, SendRespBeat(c)
  PROVE  OwnerInv'
<1> DEFINE e == Head(beatFifo[c])
<1>1. /\ beatFifo \in [Cmds -> Seq(Scheduled)] /\ beatFifo[c] # << >>
      /\ respCh \in [Cmds -> Nat] /\ respCh[c] > 0 /\ UNCHANGED fsm
      /\ beatFifo' = [beatFifo EXCEPT ![c] = Tail(@)]
      /\ respCh' = [respCh EXCEPT ![c] = @ - 1]
  BY DEF TypeOK, TgtTypeOK, SendRespBeat, fsmVars
<1>2. /\ e \in Range(beatFifo[c]) /\ e.tx \in Tx
      /\ \A d \in Range(beatFifo[c]) : d = e \/ d \in Range(Tail(beatFifo[c]))
      /\ \A d \in Range(Tail(beatFifo[c])) : d \in Range(beatFifo[c]) /\ d.tx # e.tx
  <2>1. OneEach(beatFifo[c])
    BY DEF TokenInv, BeatInv
  <2>2. e \in Range(beatFifo[c]) /\ e \in Scheduled
    BY <1>1, RangeTail
  <2> QED
    BY <1>1, <2>1, <2>2, RangeTail, RangeHeadTail, OneEachTail DEF Scheduled
<1>3. Cmd[e.tx] = c /\ fsm[e.tx] \in OnLinkStates
  BY <1>2 DEF TokenInv, BeatInv, OnLinkStates
<1>4. respCh[c] = 1 /\ OnChannel(c) = {}
  BY <1>1 DEF OwnerInv
<1> HIDE DEF e
<1> PICK t \in Tx : t = e.tx
  BY <1>2
<1>5. NotQueued(t, c)' /\ \A u : u # t => (NotQueued(u, c)' <=> NotQueued(u, c))
  <2>1. beatFifo'[c] = Tail(beatFifo[c])
    BY <1>1
  <2> QED
    BY <1>2, <2>1 DEF NotQueued
<1>6. OnChannel(c)' = OnChannel(c) \union {t}
  BY <1>1, <1>3, <1>5 DEF OnChannel, OfCmd, OnLinkStates
<1>7. \A d \in Cmds : d # c => OnChannel(d)' = OnChannel(d) /\ respCh'[d] = respCh[d]
  BY <1>1 DEF OnChannel, OfCmd, NotQueued
<1>8. respCh'[c] = 0
  BY <1>1, <1>4
<1> QED
  BY <1>4, <1>6, <1>7, <1>8 DEF OwnerInv

\* Every step keeps the ownership of the channels.
LEMMA OwnerNext ==
  ASSUME TypeOK, TokenInv, LimitInv, RoomForBeats, OwnerInv, [Next]_vars
  PROVE  OwnerInv'
<1>1. ASSUME UNCHANGED <<fsm, beatFifo, respCh>> PROVE OwnerInv'
  <2>1. \A c : OnChannel(c)' = OnChannel(c)
    BY <1>1 DEF OnChannel, OfCmd, NotQueued
  <2> QED
    BY <1>1, <2>1 DEF OwnerInv
<1>2. ASSUME NEW t \in Tx, FsmStep(t) PROVE OwnerInv'
  <2>1. CASE BeginStep(t)
    <3>1. PICK s \in {"PartialRequest", "Request"} : Becomes(t, s)
      BY <2>1 DEF BeginStep
    <3>2. fsm[t] \in {"Idle", "WriteIdle"} /\ UNCHANGED <<beatFifo, respCh>>
      BY <2>1 DEF BeginStep
    <3> QED
      BY <3>1, <3>2, OwnerKeep DEF OnLinkStates
  <2>2. CASE DiscardStep(t)
    BY <1>1, <2>2 DEF DiscardStep
  <2>3. CASE EndPartRespStep(t)
    <3>1. /\ Becomes(t, "ReadIdle") /\ fsm[t] = "PartialResponse"
          /\ fw[t] = <<"END_PARTIAL_RESP">> /\ FreeChannel(Cmd[t])
          /\ UNCHANGED beatFifo
      BY <2>3 DEF EndPartRespStep, EndPartRespCb
    <3>2. fw[t] # << >>
      BY <3>1
    <3> QED
      BY <3>1, <3>2, OwnerRelease DEF OnLinkStates
  <2>4. CASE EndRespStep(t)
    <3>1. /\ Becomes(t, AfterEnd) /\ fsm[t] = "Response"
          /\ fw[t] = <<"END_RESP">> /\ FreeChannel(Cmd[t]) /\ UNCHANGED beatFifo
      BY <2>4 DEF EndRespStep, EndRespCb, AfterEnd
    <3>2. fw[t] # << >> /\ AfterEnd \notin OnLinkStates
      BY <3>1 DEF AfterEnd, OnLinkStates
    <3> QED
      BY <3>1, <3>2, OwnerRelease DEF OnLinkStates
  <2>5. CASE AckStep(t)
    BY <2>5, OwnerKeep DEF AckStep, Quiet, OnLinkStates
  <2>6. ASSUME NEW tp, NEW q, NEW k, DueStep(t, tp, q, k) PROVE OwnerInv'
    <3>1. CASE EndPartReqStep(t, q, k)
      BY <3>1, OwnerKeep DEF EndPartReqStep, EndPartReqCb, OnLinkStates
    <3>2. CASE EndReqStep(t, q, k)
      BY <3>2, OwnerKeep DEF EndReqStep, EndReqCb, OnLinkStates
    <3> QED
      BY <2>6, <3>1, <3>2, OwnerQueue DEF DueStep
  <2> QED
    BY <1>2, <2>1, <2>2, <2>3, <2>4, <2>5, <2>6 DEF FsmStep
<1>3. CASE ThreadStep
  <2>1. ASSUME NEW c \in Cmds, SendRespBeat(c) PROVE OwnerInv'
    BY <2>1, OwnerSend
  <2> QED
    BY <1>1, <1>3, <2>1
    DEF ThreadStep, ProcessReq2Resp, PushBackOverdue, StartRdRead, StartRdSem,
        StartRdBegin, StartWr, fsmVars, startRdRest
<1>4. CASE UNCHANGED tgtVars
  BY <1>1, <1>4 DEF tgtVars
<1> QED
  BY <1>2, <1>3, <1>4, TgtCases DEF Next, vars

\* A response channel is free or carries exactly one beat.
THEOREM OwnerInvariant ==
  ASSUME RoomForBeats
  PROVE  Spec => []OwnerInv
<1>1. Init => OwnerInv
  <2> SUFFICES ASSUME Init PROVE OwnerInv
    OBVIOUS
  <2>1. (\A t \in Tx : fsm[t] = "Idle") /\ (\A c \in Cmds : respCh[c] = 1)
    BY DEF Init, TgtInit
  <2>2. \A c \in Cmds : OnChannel(c) = {}
    BY <2>1 DEF OnChannel, OfCmd
  <2> QED
    BY <2>1, <2>2 DEF OwnerInv
<1>2. TypeOK /\ TokenInv /\ LimitInv /\ OwnerInv /\ [Next]_vars => OwnerInv'
  BY OwnerNext
<1>3. Spec => []LimitInv
  BY LimitInvariant DEF RoomForBeats
<1> QED
  BY <1>1, <1>2, <1>3, TokenInvariant, PTL DEF Spec

\* rd_resp_ch and wr_resp_ch: a beat is sent only when the one before it has been
\* acknowledged, and the channel is never lost.
THEOREM ChannelOwnedHolds ==
  ASSUME RoomForBeats
  PROVE  Spec => []ChannelOwned
<1>1. TypeOK /\ OwnerInv => ChannelOwned
  <2> SUFFICES
        ASSUME TypeOK, OwnerInv, NEW c \in Cmds
        PROVE  respCh[c] + Cardinality({t \in OfCmd(c) :
                 /\ fsm[t] \in {"PartialResponse", "Response"}
                 /\ PlacesOf(t, beatFifo[c]) = {}}) = 1
    BY DEF ChannelOwned
  <2>1. \A t : PlacesOf(t, beatFifo[c]) = {} <=> NotQueued(t, c)
    BY DEF PlacesOf, NotQueued, Range
  <2>2. {t \in OfCmd(c) : /\ fsm[t] \in {"PartialResponse", "Response"}
                          /\ PlacesOf(t, beatFifo[c]) = {}} = OnChannel(c)
    BY <2>1 DEF OnChannel
  <2>3. CASE respCh[c] = 1 /\ OnChannel(c) = {}
    <3>1. Cardinality(OnChannel(c)) = 0
      BY <2>3, FS_EmptySet
    <3> QED
      BY <2>2, <2>3, <3>1
  <2>4. CASE respCh[c] = 0 /\ \E t \in Tx : OnChannel(c) = {t}
    <3>1. Cardinality(OnChannel(c)) = 1
      BY <2>4, FS_Singleton
    <3>2. respCh[c] + Cardinality(OnChannel(c)) = 1
      BY <2>4, <3>1
    <3> QED
      BY <2>2, <3>2
  <2> QED
    BY <2>3, <2>4 DEF OwnerInv
<1> QED
  BY <1>1, OwnerInvariant, TokenInvariant, PTL

-----------------------------------------------------------------------------
(* The right to respond.                                                   *)

AllReads == \A t \in Tx : Cmd[t] = "rd"

\* Who owns its id only depends on the responses and the waiting reads.
LEMMA HoldersFrame ==
  ASSUME UNCHANGED rdStart, \A u \in Tx : OwnsId(u)' <=> OwnsId(u)
  PROVE  Holders' = Holders
BY DEF Holders

LEMMA OwnsFrame ==
  ASSUME NEW u, fsm'[u] = fsm[u],
         fsm[u] = "WaitForResponse" => (NotDue(u)' <=> NotDue(u))
  PROVE  OwnsId(u)' <=> OwnsId(u)
BY DEF OwnsId, Responding

\* The steps of the state machines before the end of the response.
LEMMA RightKept ==
  ASSUME TypeOK, TokenInv, NEW t \in Tx, FsmStep(t), ~EndRespStep(t)
  PROVE  /\ Holders' = Holders /\ UNCHANGED rdResp
         /\ \A u \in Tx : OwnsId(u)' <=> OwnsId(u)
<1>1. /\ fsm \in [Tx -> FsmStates] /\ QueueTypes(evq, clkq)
      /\ stalledTx \in [Cmds -> Tx \union {NoTx}]
  BY DEF TypeOK, TgtTypeOK, QueueTypes
<1>2. ASSUME NEW s, Becomes(t, s)
      PROVE  fsm'[t] = s /\ \A u \in Tx \ {t} : fsm'[u] = fsm[u]
  BY <1>1, <1>2 DEF Becomes
<1>3. ASSUME NEW s, Becomes(t, s), \A u \in Tx \ {t} : NotDue(u)' <=> NotDue(u)
      PROVE  \A u \in Tx \ {t} : OwnsId(u)' <=> OwnsId(u)
  BY <1>2, <1>3, OwnsFrame
<1>4. CASE BeginStep(t)
  <2>1. PICK s \in {"PartialRequest", "Request"},
             end \in {"EndPartReqE", "EndReqE"} :
          /\ Becomes(t, s)
          /\ Park(t, end) \/ Accept(t, end, BeatsAtBegin(t))
    BY <1>4 DEF BeginStep
  <2>2. /\ fsm[t] \in {"Idle", "WriteIdle"}
        /\ UNCHANGED <<rdStart, rdResp>>
    BY <1>4 DEF BeginStep, respondVars
  <2>3. \A u \in Tx \ {t} : NotDue(u)' <=> NotDue(u)
    <3>1. CASE Park(t, end)
      BY <3>1 DEF Park, NotDue, NotIn
    <3>2. CASE Accept(t, end, BeatsAtBegin(t))
      <4>1. Schedule(AcceptDelays, end, t, evq, clkq) /\ end \in TimePoints
        BY <3>2 DEF Accept, TimePoints
      <4> QED
        BY <1>1, <4>1, ScheduledDue DEF NotDue
    <3> QED
      BY <2>1, <3>1, <3>2
  <2>4. OwnsId(t)' <=> OwnsId(t)
    BY <1>2, <2>1, <2>2 DEF OwnsId, Responding
  <2> QED
    BY <1>3, <2>1, <2>2, <2>3, <2>4, HoldersFrame
<1>5. CASE DiscardStep(t)
  <2>1. UNCHANGED <<fsm, evq, clkq, rdStart, rdResp>>
    BY <1>5 DEF DiscardStep, respondVars
  <2> QED
    BY <2>1 DEF Holders, OwnsId, Responding, NotDue, NotIn
<1>6. CASE EndPartRespStep(t)
  <2>1. /\ fsm[t] = "PartialResponse" /\ Becomes(t, "ReadIdle")
        /\ UNCHANGED <<rdStart, rdResp>>
        /\ \E tp \in TimePoints : Schedule({"cycles"}, tp, t, evq, clkq)
    BY <1>6
    DEF EndPartRespStep, EndPartRespCb, respondVars, NextRespBeat, TimePoints
  <2>2. \A u \in Tx \ {t} : NotDue(u)' <=> NotDue(u)
    BY <1>1, <2>1, ScheduledDue DEF NotDue
  <2>3. OwnsId(t)' <=> OwnsId(t)
    BY <1>2, <2>1 DEF OwnsId, Responding
  <2> QED
    BY <1>3, <2>1, <2>2, <2>3, HoldersFrame
<1>7. CASE AckStep(t)
  <2>1. /\ fsm[t] \in {"WaitAck", "Idle"} /\ Becomes(t, "Idle")
        /\ UNCHANGED <<evq, clkq, rdStart, rdResp>>
    BY <1>7 DEF AckStep, Quiet, KeepQueues, respondVars
  <2>2. \A u \in Tx \ {t} : NotDue(u)' <=> NotDue(u)
    BY <2>1 DEF NotDue, NotIn
  <2>3. OwnsId(t)' <=> OwnsId(t)
    BY <1>2, <2>1 DEF OwnsId, Responding
  <2> QED
    BY <1>3, <2>1, <2>2, <2>3, HoldersFrame
<1>8. ASSUME NEW tp, NEW q, NEW k, DueStep(t, tp, q, k)
      PROVE  /\ Holders' = Holders /\ UNCHANGED rdResp
             /\ \A u \in Tx : OwnsId(u)' <=> OwnsId(u)
  <2>1. /\ LeftOver(t, q, k) /\ ~NotDue(t) /\ KeepQueues(q, k)
        /\ UNCHANGED <<rdStart, rdResp>>
    BY <1>8
    DEF DueStep, EndPartReqStep, EndReqStep, BegRespStep, EndPartReqCb, EndReqCb,
        BegRespCb, respondVars
  <2>2. \A u \in Tx \ {t} : NotDue(u)' <=> NotDue(u)
    BY <2>1, KeptDue
  <2>3. NotDue(t)'
    BY <2>1 DEF LeftOver, KeepQueues, NotDue
  <2>4. PICK s : Becomes(t, s)
    BY <1>8 DEF DueStep, EndPartReqStep, EndReqStep, BegRespStep
  <2>5. OwnsId(t)' <=> OwnsId(t)
    <3>1. CASE EndPartReqStep(t, q, k)
      BY <1>2, <3>1 DEF EndPartReqStep, OwnsId, Responding
    <3>2. CASE EndReqStep(t, q, k)
      BY <1>2, <2>3, <3>2 DEF EndReqStep, OwnsId, Responding
    <3>3. CASE BegRespStep(t, tp, q, k)
      <4>1. /\ fsm[t] \in {"WaitForResponse", "ReadIdle"}
            /\ fsm'[t] \in {"Response", "PartialResponse"}
        BY <1>2, <3>3 DEF BegRespStep
      <4> QED
        BY <2>1, <4>1 DEF OwnsId, Responding
    <3> QED
      BY <1>8, <3>1, <3>2, <3>3 DEF DueStep
  <2> QED
    BY <1>3, <2>1, <2>2, <2>4, <2>5, HoldersFrame
<1> QED
  BY <1>4, <1>5, <1>6, <1>7, <1>8 DEF FsmStep

\* The end of a read response gives the right back.
LEMMA RightReturned ==
  ASSUME TypeOK, TokenInv, AllReads, RightInv, NEW t \in Tx, EndRespStep(t)
  PROVE  RightInv'
<1> DEFINE c == Cmd[t]
<1>1. /\ fsm \in [Tx -> FsmStates] /\ QueueTypes(evq, clkq)
      /\ stalledTx \in [Cmds -> Tx \union {NoTx}] /\ c \in Cmds
  BY ChannelAssumption DEF ChannelAssumption, TypeOK, TgtTypeOK, QueueTypes
<1>2. /\ fsm[t] = "Response" /\ Becomes(t, AfterEnd) /\ UNCHANGED rdStart
      /\ rdResp' = IF rdResp < 1 THEN rdResp + 1 ELSE rdResp
      /\ IF stalledTx[c] # NoTx THEN LetIn(c, evq, clkq)
         ELSE KeepQueues(evq, clkq)
  BY DEF EndRespStep, EndRespCb, AfterEnd, respondVars
<1>3. fsm'[t] = AfterEnd /\ \A u \in Tx \ {t} : fsm'[u] = fsm[u]
  BY <1>1, <1>2 DEF Becomes
<1>4. t \in Holders /\ rdResp = 0 /\ Holders = {t}
  <2>1. t \in Holders
    BY <1>2 DEF Holders, OwnsId, Responding, AllReads
  <2> QED
    BY <2>1 DEF RightInv
<1>5. ~OwnsId(t)'
  <2>1. AfterEnd \in {"WaitAck", "Idle"}
    BY DEF AfterEnd
  <2> QED
    BY <1>3, <2>1 DEF OwnsId, Responding
<1>6. \A u \in Tx \ {t} : fsm[u] = "WaitForResponse" => (NotDue(u)' <=> NotDue(u))
  <2>1. CASE stalledTx[c] = NoTx
    BY <1>2, <2>1 DEF KeepQueues, NotDue, NotIn
  <2>2. CASE stalledTx[c] # NoTx
    <3>1. PICK v \in Tx : v = stalledTx[c]
      BY <1>1, <2>2
    <3>2. stalledTp[c] \in TimePoints /\ fsm[v] # "WaitForResponse"
      BY <1>1, <2>2, <3>1 DEF TokenInv, ParkedInv, DueIn, TimePoints
    <3>3. Schedule(AcceptDelays, stalledTp[c], v, evq, clkq)
      BY <1>2, <2>2, <3>1 DEF LetIn
    <3>4. \A w \in Tx \ {v} : NotDue(w)' <=> NotDue(w)
      BY <1>1, <3>2, <3>3, ScheduledDue DEF NotDue
    <3> QED
      BY <3>2, <3>4
  <2> QED
    BY <2>1, <2>2
<1>7. \A u \in Tx \ {t} : OwnsId(u)' <=> OwnsId(u)
  BY <1>3, <1>6, OwnsFrame
<1>8. rdStart # [pc |-> "id", tx |-> t]
  <2>1. rdStart.tx = t => t # NoTx
    BY ChannelAssumption DEF ChannelAssumption
  <2>2. rdStart.tx # t
    BY <1>2, <2>1 DEF TokenInv, WaitingInv
  <2> QED
    BY <2>2
<1>9. Holders' = {}
  BY <1>2, <1>4, <1>5, <1>7, <1>8 DEF Holders
<1> QED
  BY <1>2, <1>4, <1>9 DEF RightInv

\* start_rd_resp_thread takes the right and starts the response.
LEMMA RightTaken ==
  ASSUME TypeOK, TokenInv, RightInv, StartRdSem
  PROVE  RightInv'
<1>1. /\ rdStart.pc = "sem" /\ rdResp > 0 /\ rdResp' = rdResp - 1
      /\ rdStart' = [pc |-> "id", tx |-> rdStart.tx]
      /\ UNCHANGED <<fsm, evq, clkq>>
  BY DEF StartRdSem, startRdRest, fsmVars
<1>2. rdStart.tx \in Tx /\ rdResp = 1 /\ Holders = {}
  BY <1>1 DEF TypeOK, TgtTypeOK, RightInv
<1>3. PICK t \in Tx : t = rdStart.tx
  BY <1>2
<1>4. \A u \in Tx : OwnsId(u)' <=> OwnsId(u)
  BY <1>1 DEF OwnsId, Responding, NotDue, NotIn
<1>5. \A u \in Tx : ~OwnsId(u)
  BY <1>2 DEF Holders
<1>6. \A u : rdStart' = [pc |-> "id", tx |-> u] <=> u = t
  BY <1>1, <1>3
<1>7. Holders' = {t}
  BY <1>4, <1>5, <1>6 DEF Holders
<1> QED
  BY <1>1, <1>2, <1>7 DEF RightInv

LEMMA RightUsed ==
  ASSUME TypeOK, TokenInv, StartRdBegin
  PROVE  /\ Holders' = Holders /\ UNCHANGED rdResp
         /\ \A u \in Tx : OwnsId(u) => OwnsId(u)'
<1>1. PICK t \in Tx : t = rdStart.tx
  BY DEF StartRdBegin, TypeOK, TgtTypeOK
<1>2. /\ rdStart = [pc |-> "id", tx |-> t] /\ rdStart' = [pc |-> "read", tx |-> NoTx]
      /\ UNCHANGED <<fsm, rdResp>> /\ QueueTypes(evq, clkq) /\ t # NoTx
  BY <1>1, ChannelAssumption
  DEF ChannelAssumption, StartRdBegin, startRdRest, fsmVars, TypeOK, TgtTypeOK,
      QueueTypes
<1>3. PICK tp \in TimePoints : Schedule(BeatDelays, tp, t, evq, clkq)
  BY <1>1 DEF StartRdBegin, TimePoints
<1>4. ~NotDue(t)' /\ \A u \in Tx \ {t} : NotDue(u)' <=> NotDue(u)
  BY <1>2, <1>3, ScheduledDue DEF NotDue
<1>5. Cmd[t] = "rd" /\ fsm[t] = "WaitForResponse"
  BY <1>1, <1>2 DEF TokenInv, WaitingInv
<1>6. OwnsId(t)' /\ \A u \in Tx \ {t} : OwnsId(u)' <=> OwnsId(u)
  BY <1>2, <1>4, <1>5 DEF OwnsId, Responding
<1>7. \A u \in Tx : rdStart = [pc |-> "id", tx |-> u] <=> u = t
  BY <1>2
<1>8. \A u : rdStart' # [pc |-> "id", tx |-> u]
  BY <1>2
<1> QED
  BY <1>2, <1>6, <1>7, <1>8 DEF Holders

LEMMA RightNext ==
  ASSUME TypeOK, TokenInv, AllReads, Exclusive, RightInv, [Next]_vars
  PROVE  RightInv'
<1>1. ASSUME Holders' = Holders, UNCHANGED rdResp PROVE RightInv'
  BY <1>1 DEF RightInv
<1>2. ASSUME UNCHANGED <<fsm, evq, clkq, rdResp>>,
             \A u \in Tx : rdStart' = [pc |-> "id", tx |-> u]
                             <=> rdStart = [pc |-> "id", tx |-> u]
      PROVE  RightInv'
  <2>1. \A u \in Tx : OwnsId(u)' <=> OwnsId(u)
    BY <1>2 DEF OwnsId, Responding, NotDue, NotIn
  <2> QED
    BY <1>1, <1>2, <2>1 DEF Holders
<1>3. ASSUME NEW t \in Tx, FsmStep(t) PROVE RightInv'
  BY <1>1, <1>3, RightKept, RightReturned
<1>4. CASE ThreadStep
  <2>1. CASE StartRdRead
    <3>1. rdStart.pc = "read" /\ rdStart'.pc = "sem"
      BY <2>1 DEF StartRdRead
    <3>2. \A u : /\ rdStart' # [pc |-> "id", tx |-> u]
                 /\ rdStart # [pc |-> "id", tx |-> u]
      BY <3>1
    <3> QED
      BY <1>2, <2>1, <3>2 DEF StartRdRead, startRdRest, fsmVars
  <2>2. CASE StartWr
    <3>1. respFifo["wr"] \in Seq(Tx) /\ respFifo["wr"] # << >>
      BY <2>2 DEF StartWr, TypeOK, TgtTypeOK, Cmds
    <3>2. Head(respFifo["wr"]) \in Range(respFifo["wr"])
      BY <3>1, RangeTail
    <3>3. Cmd[Head(respFifo["wr"])] = "wr"
      BY <3>2 DEF TokenInv, WaitingInv, Cmds
    <3>4. Head(respFifo["wr"]) \in Tx
      BY <3>1
    <3> QED
      BY <3>3, <3>4 DEF AllReads
  <2>3. ASSUME \/ \E t \in Tx : ProcessReq2Resp(t)
               \/ PushBackOverdue
               \/ \E c \in Cmds : SendRespBeat(c)
        PROVE  UNCHANGED <<fsm, evq, clkq, rdResp, rdStart>>
    BY <2>3
    DEF ProcessReq2Resp, PushBackOverdue, SendRespBeat, fsmVars, respondVars
  <2> QED
    BY <1>1, <1>2, <1>4, <2>1, <2>2, <2>3, RightTaken, RightUsed DEF ThreadStep
<1>5. CASE UNCHANGED tgtVars
  BY <1>2, <1>5 DEF tgtVars
<1> QED
  BY <1>3, <1>4, <1>5, TgtCases DEF Next, vars

\* Without rd_data_interleaving, or without a beat delay, the beats of two read
\* responses do not mix.  The end of a write response posts rd_resp as well, so
\* this holds for a target that only serves reads.
THEOREM ReadBurstsNotInterleavedHolds ==
  ASSUME AllReads
  PROVE  Spec => []ReadBurstsNotInterleaved
<1>1. CASE Exclusive
  <2>1. Init => RightInv
    <3> SUFFICES ASSUME Init PROVE RightInv
      OBVIOUS
    <3>1. /\ \A t \in Tx : fsm[t] = "Idle"
          /\ rdResp = 1 /\ rdStart = [pc |-> "read", tx |-> NoTx]
      BY DEF Init, TgtInit
    <3>2. \A t : rdStart # [pc |-> "id", tx |-> t]
      BY <3>1
    <3> QED
      BY <3>1, <3>2 DEF RightInv, Holders, OwnsId, Responding
  <2>2. TypeOK /\ TokenInv /\ RightInv /\ [Next]_vars => RightInv'
    BY <1>1, RightNext
  <2>3. RightInv => ReadBurstsNotInterleaved
    <3> SUFFICES
          ASSUME RightInv
          PROVE  Cardinality({t \in OfCmd("rd") : Responding(t)}) <= 1
      BY DEF ReadBurstsNotInterleaved
    <3> DEFINE S == {t \in OfCmd("rd") : Responding(t)}
    <3>1. S \subseteq Holders
      BY DEF OfCmd, Holders, OwnsId
    <3>2. S = {} \/ \E t : S = {t}
      BY <3>1 DEF RightInv
    <3>3. Cardinality(S) \in {0, 1}
      BY <3>2, FS_EmptySet, FS_Singleton
    <3> QED
      BY <3>3
  <2> QED
    BY <2>1, <2>2, <2>3, TokenInvariant, PTL DEF Spec
<1>2. CASE ~Exclusive
  <2>1. ReadBurstsNotInterleaved
    BY <1>2 DEF ReadBurstsNotInterleaved, Exclusive
  <2> QED
    BY <2>1, PTL
<1> QED
  BY <1>1, <1>2

-----------------------------------------------------------------------------
(* Matching flavors.                                                       *)

\* A target that expects acknowledges is used by an initiator that sends them.
Acknowledged == Coherent => Ace

\* CallOK only depends on the call, its request on the link and its state
\* machine.
LEMMA CallFrame ==
  ASSUME NEW u, CallOK(u), ini'[u] = ini[u], sent'[u] = sent[u], fsm'[u] = fsm[u],
         fw'[u] = fw[u]
  PROVE  CallOK(u)'
BY DEF CallOK, BetweenBeats, AfterEnd

\* What a step of the initiator does to its call.
LEMMA IniCallStep ==
  ASSUME TypeOK, TokenInv, CallInv, CallsInv, Acknowledged, NEW t \in Tx,
         \/ Transport(t) \/ GetId(t) \/ SendRequest(t) \/ BeatAccepted(t)
         \/ RequestAccepted(t) \/ ResponseBeat(t) \/ SendAck(t) \/ Finish(t),
         UNCHANGED fsm
  PROVE  CallOK(t)'
<1>1. /\ fw \in [Tx -> Seq(FwPhases)] /\ bw \in [Tx -> Seq(BwPhases)]
      /\ ini \in [Tx -> IniPcs] /\ sent \in [Tx -> Nat]
      /\ Coherent \in BOOLEAN /\ Ace \in BOOLEAN
  BY TargetAssumption, InitiatorAssumption
  DEF TypeOK, LinkTypeOK, IniTypeOK, TargetAssumption, InitiatorAssumption
<1>2. CallOK(t) /\ LinkOK(t) /\ (ini[t] = "id" => sent[t] = 0)
  BY DEF CallInv, TokenInv, LinkInv, CallsInv
<1>3. CASE Transport(t)
  <2>1. ini[t] = "idle" /\ ini'[t] \in {"id", "chnl"} /\ sent'[t] = 0
    BY <1>1, <1>3 DEF Transport, Goto
  <2> QED
    BY <1>2, <2>1 DEF CallOK, BetweenBeats
<1>4. CASE GetId(t)
  <2>1. ini[t] = "id" /\ ini'[t] = "chnl" /\ UNCHANGED sent
    BY <1>1, <1>4 DEF GetId, Goto
  <2> QED
    BY <1>2, <2>1 DEF CallOK, BetweenBeats
<1>5. CASE SendRequest(t)
  <2>1. ini[t] = "chnl" /\ ini'[t] = "send" /\ UNCHANGED sent
    BY <1>1, <1>5 DEF SendRequest, Goto
  <2>2. BetweenBeats(t) /\ UNCHANGED fsm
    BY <1>2, <2>1 DEF CallOK
  <2>3. fw'[t] # << >>
    <3>1. fw[t] = << >>
      BY <1>2, <2>1 DEF LinkOK
    <3>2. fw'[t] = <<IF LastBeat(t) THEN "BEGIN_REQ" ELSE "BEGIN_PARTIAL_REQ">>
      BY <1>1, <1>5, <3>1, SeqOne DEF SendRequest, Put, FwPhases
    <3> QED
      BY <3>2
  <2> QED
    BY <2>1, <2>2, <2>3 DEF CallOK, BetweenBeats
<1>6. CASE BeatAccepted(t)
  <2>1. /\ ini[t] = "send" /\ ini'[t] = "chnl" /\ sent'[t] = sent[t] + 1
        /\ ~LastBeat(t) /\ bw[t] # << >>
    BY <1>1, <1>6 DEF BeatAccepted, Goto
  <2>2. fsm[t] = "WriteIdle"
    BY <1>2, <2>1 DEF LinkOK
  <2> QED
    BY <1>1, <2>1, <2>2 DEF CallOK, BetweenBeats
<1>7. CASE RequestAccepted(t)
  <2>1. ini'[t] = "resp"
    BY <1>1, <1>7 DEF RequestAccepted, Goto
  <2> QED
    BY <2>1 DEF CallOK
<1>8. CASE ResponseBeat(t)
  <2>1. ini[t] = "resp" /\ bw[t] # << >>
    BY <1>8 DEF ResponseBeat
  <2>2. CASE Head(bw[t]) = "BEGIN_RESP"
    <3>1. fw[t] = << >>
      BY <1>2, <2>1 DEF LinkOK
    <3>2. fw'[t] = <<"END_RESP">> /\ ini'[t] = AfterResponse
      BY <1>1, <1>8, <2>2, <3>1, SeqOne DEF ResponseBeat, Put, FwPhases
    <3> QED
      BY <1>1, <3>2 DEF CallOK, AfterResponse
  <2>3. CASE Head(bw[t]) # "BEGIN_RESP"
    <3>1. ini'[t] = "resp"
      BY <1>8, <2>1, <2>3 DEF ResponseBeat
    <3> QED
      BY <3>1 DEF CallOK
  <2> QED
    BY <2>2, <2>3
<1>9. CASE SendAck(t)
  <2>1. fw[t] = << >> /\ ini[t] = "ack" /\ ini'[t] = "fin"
    BY <1>1, <1>9 DEF SendAck, Goto
  <2>2. fw'[t] = <<"ACK">>
    BY <1>1, <1>9, <2>1, SeqOne DEF SendAck, Put, FwPhases
  <2> QED
    BY <1>2, <2>1, <2>2 DEF CallOK, AfterEnd
<1>10. CASE Finish(t)
  <2>1. fw[t] = << >> /\ ini[t] = "fin" /\ ini'[t] = "idle"
    BY <1>1, <1>10 DEF Finish, Goto
  <2> QED
    BY <1>2, <2>1 DEF CallOK
<1> QED
  BY <1>3, <1>4, <1>5, <1>6, <1>7, <1>8, <1>9, <1>10

LEMMA IniCallNext ==
  ASSUME TypeOK, TokenInv, CallInv, CallsInv, Acknowledged, IniNext,
         UNCHANGED tgtVars
  PROVE  CallInv'
<1> PICK t \in Tx : \/ Transport(t) \/ GetId(t) \/ SendRequest(t)
                    \/ BeatAccepted(t) \/ RequestAccepted(t)
                    \/ ResponseBeat(t) \/ SendAck(t) \/ Finish(t)
  BY DEF IniNext
<1>1. UNCHANGED fsm
  BY DEF tgtVars
<1>2. CallOK(t)'
  BY <1>1, IniCallStep
<1>3. ASSUME NEW u \in Tx \ {t} PROVE CallOK(u)'
  <2>1. /\ fw \in [Tx -> Seq(FwPhases)] /\ ini \in [Tx -> IniPcs]
        /\ sent \in [Tx -> Nat]
    BY DEF TypeOK, LinkTypeOK, IniTypeOK
  <2>2. ini'[u] = ini[u]
    BY <2>1
    DEF Transport, GetId, SendRequest, BeatAccepted, RequestAccepted, ResponseBeat,
        SendAck, Finish, Goto
  <2>3. sent'[u] = sent[u]
    BY <2>1
    DEF Transport, GetId, SendRequest, BeatAccepted, RequestAccepted, ResponseBeat,
        SendAck, Finish
  <2>4. fw'[u] = fw[u]
    BY <2>1
    DEF Transport, GetId, SendRequest, BeatAccepted, RequestAccepted, ResponseBeat,
        SendAck, Finish, Put, linkVars
  <2> QED
    BY <1>1, <2>2, <2>3, <2>4, CallFrame DEF CallInv
<1> QED
  BY <1>2, <1>3 DEF CallInv

LEMMA FsmCallStep ==
  ASSUME TypeOK, TokenInv, CallInv, Acknowledged, NEW t \in Tx, FsmStep(t),
         UNCHANGED iniVars
  PROVE  CallInv'
<1>1. /\ fsm \in [Tx -> FsmStates] /\ fw \in [Tx -> Seq(FwPhases)]
      /\ Coherent \in BOOLEAN /\ Ace \in BOOLEAN
      /\ UNCHANGED <<ini, sent>> /\ CallOK(t) /\ LinkOK(t)
  BY TargetAssumption, InitiatorAssumption
  DEF TypeOK, LinkTypeOK, TgtTypeOK, TargetAssumption, InitiatorAssumption, iniVars,
      CallInv, TokenInv, LinkInv
<1>2. /\ \E s : Becomes(t, s)
      /\ fw' = fw \/ fw' = Drop(fw, t)
  <2>1. DiscardStep(t) => Becomes(t, fsm[t])
    BY <1>1 DEF DiscardStep, Becomes
  <2> QED
    BY <2>1
    DEF FsmStep, BeginStep, DiscardStep, EndPartRespStep, EndRespStep, AckStep, DueStep,
        EndPartReqStep, EndReqStep, BegRespStep
<1>3. \A u \in Tx \ {t} : fsm'[u] = fsm[u] /\ fw'[u] = fw[u]
  BY <1>1, <1>2 DEF Becomes, Drop
<1>4. \A u \in Tx \ {t} : CallOK(u)'
  BY <1>1, <1>3, CallFrame DEF CallInv
<1>5. ASSUME NEW s, Becomes(t, s)
      PROVE  fsm'[t] = s
  BY <1>1, <1>5 DEF Becomes
<1>6. ASSUME fw' = Drop(fw, t), Len(fw[t]) = 1
      PROVE  fw'[t] = << >>
  <2>1. Tail(fw[t]) = << >>
    BY <1>1, <1>6, TailOfOne
  <2> QED
    BY <1>1, <1>6, <2>1 DEF Drop
<1>7. CASE BeginStep(t)
  <2>1. /\ ini[t] = "send" /\ fw[t] # << >> /\ fw' = Drop(fw, t)
        /\ \E s \in {"PartialRequest", "Request"} : Becomes(t, s)
    BY <1>7 DEF BeginStep
  <2>2. fsm'[t] \in {"PartialRequest", "Request"}
    BY <1>5, <2>1
  <2>3. fw[t] = <<IF LastBeat(t) THEN "BEGIN_REQ" ELSE "BEGIN_PARTIAL_REQ">>
    BY <1>1, <2>1 DEF LinkOK
  <2>4. fw'[t] = << >>
    BY <1>6, <2>1, <2>3
  <2>5. CallOK(t)'
    BY <1>1, <2>1, <2>2, <2>4 DEF CallOK
  <2> QED
    BY <1>4, <2>5 DEF CallInv
<1>8. CASE DiscardStep(t)
  <2>1. fsm[t] = "WaitAck" /\ ini[t] = "send" /\ fw[t] # << >>
    BY <1>8 DEF DiscardStep
  <2> QED
    BY <1>1, <2>1 DEF CallOK, BetweenBeats
<1>9. CASE EndPartRespStep(t)
  <2>1. fw[t] = <<"END_PARTIAL_RESP">>
    BY <1>9 DEF EndPartRespStep
  <2>2. ini[t] = "resp"
    BY <1>1, <2>1 DEF LinkOK
  <2>3. CallOK(t)'
    BY <1>1, <2>2 DEF CallOK
  <2> QED
    BY <1>4, <2>3 DEF CallInv
<1>10. CASE EndRespStep(t)
  <2>1. fw[t] = <<"END_RESP">> /\ fw' = Drop(fw, t) /\ Becomes(t, AfterEnd)
    BY <1>10 DEF EndRespStep, AfterEnd
  <2>2. ini[t] \in {"ack", "fin"} /\ fw'[t] = << >> /\ fsm'[t] = AfterEnd
    <3>1. ini[t] \in {"ack", "fin"}
      BY <1>1, <2>1 DEF LinkOK
    <3>2. Len(fw[t]) = 1
      BY <2>1
    <3> QED
      BY <1>5, <1>6, <2>1, <3>1, <3>2
  <2>3. CallOK(t)'
    BY <1>1, <2>1, <2>2 DEF CallOK, AfterEnd, Acknowledged
  <2> QED
    BY <1>4, <2>3 DEF CallInv
<1>11. CASE AckStep(t)
  <2>1. /\ fw[t] = <<"ACK">> /\ fw' = Drop(fw, t) /\ ini[t] = "fin"
        /\ Becomes(t, "Idle")
    BY <1>11 DEF AckStep
  <2>2. fw'[t] = << >> /\ fsm'[t] = "Idle"
    BY <1>5, <1>6, <2>1
  <2>3. CallOK(t)'
    BY <1>1, <2>1, <2>2 DEF CallOK
  <2> QED
    BY <1>4, <2>3 DEF CallInv
<1>12. ASSUME NEW tp, NEW q, NEW k, DueStep(t, tp, q, k) PROVE CallInv'
  <2>1. UNCHANGED fw /\ fsm[t] \in {"PartialRequest", "Request", "WaitForResponse",
                                    "ReadIdle"}
    BY <1>12 DEF DueStep, EndPartReqStep, EndReqStep, BegRespStep
  <2>2. fsm'[t] \in {"WriteIdle", "WaitForResponse", "Response", "PartialResponse"}
    <3>1. \E s \in {"WriteIdle", "WaitForResponse", "Response", "PartialResponse"} :
            Becomes(t, s)
      BY <1>12 DEF DueStep, EndPartReqStep, EndReqStep, BegRespStep
    <3> QED
      BY <1>5, <3>1
  <2>3. ini[t] \in {"send", "resp"} /\ (ini[t] = "send" => fw[t] = << >>)
    BY <1>1, <2>1 DEF LinkOK, RestStates
  <2>4. CallOK(t)'
    BY <1>1, <2>1, <2>2, <2>3 DEF CallOK
  <2> QED
    BY <1>4, <2>4 DEF CallInv
<1> QED
  BY <1>7, <1>8, <1>9, <1>10, <1>11, <1>12 DEF FsmStep

\* The calls and the state machines of their payloads stay in step.
THEOREM CallInvariant ==
  ASSUME Acknowledged, IsFiniteSet(Tx)
  PROVE  Spec => []CallInv
<1>1. Init => CallInv
  <2> SUFFICES ASSUME Init, NEW t \in Tx PROVE CallOK(t)
    BY DEF CallInv
  <2>1. ini[t] = "idle" /\ fsm[t] = "Idle"
    BY DEF Init, IniInit, TgtInit
  <2> QED
    BY <2>1 DEF CallOK
<1>2. TypeOK /\ TokenInv /\ CallsInv /\ CallInv /\ [Next]_vars => CallInv'
  <2> SUFFICES ASSUME TypeOK, TokenInv, CallsInv, CallInv, [Next]_vars
               PROVE  CallInv'
    OBVIOUS
  <2>1. ASSUME UNCHANGED <<fsm, fw, ini, sent>> PROVE CallInv'
    BY <2>1, CallFrame DEF CallInv
  <2>2. CASE IniNext /\ UNCHANGED tgtVars
    BY <2>2, IniCallNext
  <2>3. CASE TgtNext /\ UNCHANGED iniVars
    <3>1. CASE ThreadStep
      BY <2>1, <2>3, <3>1
      DEF ThreadStep, ProcessReq2Resp, PushBackOverdue, SendRespBeat, StartRdRead,
          StartRdSem, StartRdBegin, StartWr, fsmVars, startRdRest, linkVars, iniVars
    <3>2. ASSUME NEW t \in Tx, FsmStep(t) PROVE CallInv'
      BY <2>3, <3>2, FsmCallStep
    <3> QED
      BY <2>3, <3>1, <3>2, TgtCases
  <2>4. CASE UNCHANGED vars
    BY <2>1, <2>4 DEF vars, linkVars, iniVars, tgtVars
  <2> QED
    BY <2>2, <2>3, <2>4 DEF Next
<1>3. Spec => []CallsInv
  BY CallsInvariant
<1> QED
  BY <1>1, <1>2, <1>3, TokenInvariant, PTL DEF Spec

\* axi_target_pe::is_active is false again when every call has returned: no handle
\* is left in use, which a state machine that is not idle would need.
THEOREM InactiveWhenQuiescentHolds ==
  ASSUME Acknowledged, IsFiniteSet(Tx)
  PROVE  Spec => []InactiveWhenQuiescent
<1>1. TokenInv /\ CallInv => InactiveWhenQuiescent
  BY DEF TokenInv, ActiveInv, CallInv, CallOK, InactiveWhenQuiescent, Quiescent
<1> QED
  BY <1>1, CallInvariant, TokenInvariant, PTL

-----------------------------------------------------------------------------
(* The beats of a response.                                                *)

\* BurstOK(u) depends on the call, the state machine, the beat counters and the
\* scheduled time points of u.
LEMMA BurstFrame ==
  ASSUME NEW u, BurstOK(u), fsm'[u] = fsm[u], beat'[u] = beat[u],
         ini'[u] = ini[u], left'[u] = left[u],
         (ini[u] = "resp" => fw'[u] = fw[u]),
         fsm[u] \in {"WaitForResponse", "ReadIdle"} =>
           \A tp : IsDue(u, tp)' => IsDue(u, tp)
  PROVE  BurstOK(u)'
<1>1. ReadBeats(u) => ReadBeats(u)'
  BY DEF ReadBeats
<1>2. BeatsLeft(u)'
  BY DEF BurstOK, BeatsLeft
<1> QED
  BY <1>1, <1>2 DEF BurstOK

\* What a step of the initiator does to its call.
LEMMA IniBurstStep ==
  ASSUME TypeOK, TokenInv, BurstInv, NEW t \in Tx,
         \/ Transport(t) \/ GetId(t) \/ SendRequest(t) \/ BeatAccepted(t)
         \/ RequestAccepted(t) \/ ResponseBeat(t) \/ SendAck(t) \/ Finish(t),
         UNCHANGED tgtVars
  PROVE  BurstOK(t)'
<1>1. /\ fw \in [Tx -> Seq(FwPhases)] /\ bw \in [Tx -> Seq(BwPhases)]
      /\ ini \in [Tx -> IniPcs] /\ left \in [Tx -> Int]
      /\ beat[t] \in Nat /\ Cmd[t] \in Cmds /\ BurstLen[t] \in Nat \ {0}
  BY ChannelAssumption
  DEF TypeOK, LinkTypeOK, IniTypeOK, TgtTypeOK, ChannelAssumption
<1>2. /\ BurstOK(t) /\ LinkOK(t)
      /\ fsm[t] \in {"PartialResponse", "ReadIdle"} => Cmd[t] = "rd"
  BY DEF BurstInv, TokenInv, LinkInv, ReadInv
<1>3. UNCHANGED <<fsm, beat>> /\ \A tp : IsDue(t, tp)' <=> IsDue(t, tp)
  BY DEF tgtVars, IsDue, IsIn
<1>4. ASSUME ini'[t] = "send" => ini[t] = "send" \/ fsm[t] \in RestStates,
             BeatsLeft(t)'
      PROVE  BurstOK(t)'
  BY <1>2, <1>3, <1>4 DEF BurstOK, ReadBeats
<1>5. CASE Transport(t)
  <2>1. /\ ini'[t] \in {"id", "chnl"}
        /\ left'[t] = IF Cmd[t] = "rd" THEN BurstLen[t] ELSE 1
    BY <1>1, <1>5 DEF Transport, Goto
  <2> QED
    BY <1>4, <2>1 DEF BeatsLeft
<1>6. CASE GetId(t)
  <2>1. ini[t] = "id" /\ ini'[t] = "chnl" /\ UNCHANGED left
    BY <1>1, <1>6 DEF GetId, Goto
  <2> QED
    BY <1>2, <1>4, <2>1 DEF BurstOK, BeatsLeft
<1>7. CASE SendRequest(t)
  <2>1. ini[t] = "chnl" /\ ini'[t] = "send" /\ UNCHANGED left
    BY <1>1, <1>7 DEF SendRequest, Goto
  <2>2. fsm[t] \in RestStates
    BY <1>2, <2>1 DEF LinkOK
  <2> QED
    BY <1>2, <1>4, <2>1, <2>2 DEF BurstOK, BeatsLeft
<1>8. CASE BeatAccepted(t)
  <2>1. ini[t] = "send" /\ ini'[t] = "chnl" /\ UNCHANGED left
    BY <1>1, <1>8 DEF BeatAccepted, Goto
  <2> QED
    BY <1>2, <1>4, <2>1 DEF BurstOK, BeatsLeft
<1>9. CASE RequestAccepted(t)
  <2>1. /\ ini[t] = "send" /\ ini'[t] = "resp" /\ UNCHANGED <<left, fw>>
        /\ LastBeat(t) /\ bw[t] # << >>
    BY <1>1, <1>9 DEF RequestAccepted, Goto
  <2>2. /\ fw[t] = << >>
        /\ fsm[t] \in {"WaitForResponse", "PartialResponse", "Response"}
    BY <1>2, <2>1 DEF LinkOK
  <2>3. Cmd[t] = "rd" => beat[t] = 0
    BY <1>2, <2>1, <2>2 DEF BurstOK, ReadBeats, RestStates
  <2>4. BeatsLeft(t)'
    BY <1>1, <1>2, <1>3, <2>1, <2>2, <2>3 DEF BurstOK, BeatsLeft
  <2> QED
    BY <1>4, <2>1, <2>4
<1>10. CASE ResponseBeat(t)
  <2>1. ini[t] = "resp" /\ bw[t] # << >>
    BY <1>10 DEF ResponseBeat
  <2>2. /\ fw[t] = << >>
        /\ \/ bw[t] = <<"BEGIN_RESP">>
           \/ bw[t] = <<"BEGIN_PARTIAL_RESP">> /\ fsm[t] = "PartialResponse"
    BY <1>2, <2>1 DEF LinkOK
  <2>3. /\ Head(<<"BEGIN_PARTIAL_RESP">>) = "BEGIN_PARTIAL_RESP"
        /\ Head(<<"BEGIN_RESP">>) = "BEGIN_RESP"
    OBVIOUS
  <2>4. CASE bw[t] = <<"BEGIN_RESP">>
    <3>1. ini'[t] \in {"ack", "fin"}
      BY <1>1, <1>10, <2>3, <2>4 DEF ResponseBeat, AfterResponse
    <3> QED
      BY <1>4, <3>1 DEF BeatsLeft
  <2>5. CASE bw[t] = <<"BEGIN_PARTIAL_RESP">> /\ fsm[t] = "PartialResponse"
    <3>1. ini'[t] = "resp" /\ left'[t] = left[t] - 1
      BY <1>1, <1>10, <2>1, <2>3, <2>5 DEF ResponseBeat
    <3>2. fw'[t] = <<"END_PARTIAL_RESP">>
      BY <1>1, <1>10, <2>2, <2>3, <2>5, SeqOne DEF ResponseBeat, Put, FwPhases
    <3>3. Cmd[t] = "rd" /\ left[t] = BurstLen[t] - beat[t]
      BY <1>2, <2>1, <2>2, <2>5 DEF BurstOK, BeatsLeft
    <3>4. fw'[t] # << >> /\ beat'[t] = beat[t]
      BY <1>3, <3>2
    <3>5. left'[t] = BurstLen[t] - (beat[t] + 1)
      BY <1>1, <3>1, <3>3
    <3>6. BeatsLeft(t)'
      BY <3>1, <3>3, <3>4, <3>5 DEF BeatsLeft
    <3> QED
      BY <1>4, <3>1, <3>6
  <2> QED
    BY <2>2, <2>4, <2>5
<1>11. CASE SendAck(t) \/ Finish(t)
  <2>1. ini'[t] \in {"fin", "idle"}
    BY <1>1, <1>11 DEF SendAck, Finish, Goto
  <2> QED
    BY <1>4, <2>1 DEF BeatsLeft
<1> QED
  BY <1>5, <1>6, <1>7, <1>8, <1>9, <1>10, <1>11

LEMMA IniBurstNext ==
  ASSUME TypeOK, TokenInv, BurstInv, IniNext, UNCHANGED tgtVars
  PROVE  BurstInv'
<1> PICK t \in Tx : \/ Transport(t) \/ GetId(t) \/ SendRequest(t)
                    \/ BeatAccepted(t) \/ RequestAccepted(t)
                    \/ ResponseBeat(t) \/ SendAck(t) \/ Finish(t)
  BY DEF IniNext
<1>1. BurstOK(t)'
  BY IniBurstStep
<1>2. ASSUME NEW u \in Tx \ {t} PROVE BurstOK(u)'
  <2>1. /\ fw \in [Tx -> Seq(FwPhases)] /\ ini \in [Tx -> IniPcs]
        /\ left \in [Tx -> Int]
    BY DEF TypeOK, LinkTypeOK, IniTypeOK
  <2>2. ini'[u] = ini[u]
    BY <2>1
    DEF Transport, GetId, SendRequest, BeatAccepted, RequestAccepted, ResponseBeat,
        SendAck, Finish, Goto
  <2>3. left'[u] = left[u]
    BY <2>1
    DEF Transport, GetId, SendRequest, BeatAccepted, RequestAccepted, ResponseBeat,
        SendAck, Finish
  <2>4. fw'[u] = fw[u]
    BY <2>1
    DEF Transport, GetId, SendRequest, BeatAccepted, RequestAccepted, ResponseBeat,
        SendAck, Finish, Put, linkVars
  <2>5. UNCHANGED <<fsm, beat>> /\ \A tp : IsDue(u, tp)' <=> IsDue(u, tp)
    BY DEF tgtVars, IsDue, IsIn
  <2> QED
    BY <2>2, <2>3, <2>4, <2>5, BurstFrame DEF BurstInv
<1> QED
  BY <1>1, <1>2 DEF BurstInv

\* The step schedules nothing for the other transactions.
OthersNotScheduled(t) ==
  \A u \in Tx \ {t} :
    fsm[u] \in {"WaitForResponse", "ReadIdle"} =>
      \A tp : IsDue(u, tp)' => IsDue(u, tp)

\* A step of the state machine of t only concerns its own burst.
LEMMA FsmBurstFrame ==
  ASSUME TypeOK, BurstInv, NEW t \in Tx, UNCHANGED iniVars,
         fw' = fw \/ fw' = Drop(fw, t), \E s : Becomes(t, s),
         \A u \in Tx \ {t} : beat'[u] = beat[u],
         OthersNotScheduled(t), BurstOK(t)'
  PROVE  BurstInv'
<1>1. fw \in [Tx -> Seq(FwPhases)] /\ fsm \in [Tx -> FsmStates]
  BY DEF TypeOK, LinkTypeOK, TgtTypeOK
<1>2. \A u \in Tx \ {t} : fw'[u] = fw[u] /\ fsm'[u] = fsm[u]
  BY <1>1 DEF Drop, Becomes
<1>3. ASSUME NEW u \in Tx \ {t} PROVE BurstOK(u)'
  BY <1>2, <1>3, BurstFrame DEF BurstInv, iniVars, OthersNotScheduled
<1> QED
  BY <1>3 DEF BurstInv

\* Nothing is scheduled at all.
LEMMA KeptIs ==
  ASSUME NEW t \in Tx, UNCHANGED <<evq, clkq>>
  PROVE  OthersNotScheduled(t) /\ \A u : \A tp : IsDue(u, tp)' <=> IsDue(u, tp)
BY DEF OthersNotScheduled, IsDue, IsIn

\* A request beat starts a new burst when it is the first one.
LEMMA BeginBurst ==
  ASSUME TypeOK, TokenInv, LimitInv, BurstInv, NEW t \in Tx, BeginStep(t),
         UNCHANGED iniVars
  PROVE  BurstInv'
<1>1. /\ fsm \in [Tx -> FsmStates] /\ beat \in [Tx -> Nat]
      /\ QueueTypes(evq, clkq) /\ BurstOK(t)
  BY DEF TypeOK, TgtTypeOK, QueueTypes, BurstInv
<1>2. /\ fsm[t] \in {"Idle", "WriteIdle"} /\ ini[t] = "send" /\ NotDue(t)
      /\ fw' = Drop(fw, t) /\ beat' = [beat EXCEPT ![t] = BeatsAtBegin(t)]
  BY DEF BeginStep
<1>3. PICK s \in {"PartialRequest", "Request"},
           end \in {"EndPartReqE", "EndReqE"} :
        /\ Becomes(t, s)
        /\ Park(t, end) \/ Accept(t, end, BeatsAtBegin(t))
  BY DEF BeginStep
<1>4. fsm'[t] = s /\ ini'[t] = "send" /\ left'[t] = left[t]
  BY <1>1, <1>2, <1>3 DEF Becomes, iniVars
<1>5. Cmd[t] = "rd" => beat'[t] = 0
  <2>1. Cmd[t] = "rd" => fsm[t] = "Idle"
    BY <1>2 DEF LimitInv, WriteInv
  <2> QED
    BY <1>1, <1>2, <2>1 DEF BeatsAtBegin
<1>6. BurstOK(t)'
  <2>1. Cmd[t] = "rd" => ReadBeats(t)'
    BY <1>3, <1>4, <1>5 DEF ReadBeats
  <2>2. BeatsLeft(t)'
    BY <1>1, <1>2, <1>4 DEF BurstOK, BeatsLeft
  <2> QED
    BY <2>1, <2>2 DEF BurstOK
<1>7. OthersNotScheduled(t)
  <2>1. CASE Park(t, end)
    BY <2>1, KeptIs DEF Park
  <2>2. CASE Accept(t, end, BeatsAtBegin(t))
    <3>1. Schedule(AcceptDelays, end, t, evq, clkq) /\ end \in TimePoints
      BY <2>2 DEF Accept, TimePoints
    <3>2. \A u \in Tx \ {t} : \A d : IsDue(u, d)' => IsDue(u, d)
      BY <1>1, <1>2, <3>1, ScheduledIs DEF NotDue, IsDue
    <3> QED
      BY <3>2 DEF OthersNotScheduled
  <2> QED
    BY <1>3, <2>1, <2>2
<1>8. \A u \in Tx \ {t} : beat'[u] = beat[u]
  BY <1>1, <1>2
<1> QED
  BY <1>2, <1>3, <1>6, <1>7, <1>8, FsmBurstFrame

\* The request is answered, or a response beat is queued: a partial one as long as
\* it is not the last.
LEMMA DueBurst ==
  ASSUME TypeOK, TokenInv, BurstInv, NEW t \in Tx, NEW tp, NEW q, NEW k,
         DueStep(t, tp, q, k), UNCHANGED iniVars
  PROVE  BurstInv'
<1>1. /\ fsm \in [Tx -> FsmStates] /\ beat \in [Tx -> Nat]
      /\ BurstOK(t) /\ LinkOK(t) /\ BurstLen[t] \in Nat \ {0}
      /\ UNCHANGED <<ini, left>> /\ NotIn(t, q, k)
  BY ChannelAssumption
  DEF TypeOK, TgtTypeOK, BurstInv, TokenInv, LinkInv, ChannelAssumption, iniVars,
      DueStep, EndPartReqStep, EndReqStep, BegRespStep, LeftOver
<1>2. /\ UNCHANGED fw /\ KeepQueues(q, k) /\ Taken(t, tp, q, k)
      /\ \E s : Becomes(t, s)
  BY DEF DueStep, EndPartReqStep, EndReqStep, BegRespStep, EndPartReqCb, EndReqCb,
         BegRespCb
<1>3. OthersNotScheduled(t) /\ \A d : ~IsDue(t, d)'
  BY <1>1, <1>2, ZenonT(40)
  DEF OthersNotScheduled, Taken, KeepQueues, IsDue, IsIn, NotIn
<1>4. \A u \in Tx \ {t} : beat'[u] = beat[u]
  BY <1>1
  DEF DueStep, EndPartReqStep, EndReqStep, BegRespStep, EndPartReqCb, EndReqCb,
      BegRespCb
<1>5. CASE EndPartReqStep(t, q, k)
  <2>1. Cmd[t] = "wr"
    BY <1>5 DEF EndPartReqStep
  <2>2. BurstOK(t)'
    BY <1>1, <1>2, <2>1 DEF BurstOK, BeatsLeft
  <2> QED
    BY <1>2, <1>3, <1>4, <2>2, FsmBurstFrame
<1>6. CASE EndReqStep(t, q, k)
  <2>1. /\ fsm[t] = "Request" /\ fsm'[t] = "WaitForResponse" /\ UNCHANGED beat
    BY <1>1, <1>6 DEF EndReqStep, EndReqCb, Becomes
  <2>2. ReadBeats(t) => ReadBeats(t)'
    BY <1>3, <2>1 DEF ReadBeats
  <2>3. BeatsLeft(t)'
    BY <1>1, <1>2, <2>1 DEF BurstOK, BeatsLeft
  <2> QED
    BY <1>1, <1>2, <1>3, <1>4, <2>2, <2>3, FsmBurstFrame DEF BurstOK
<1>7. CASE BegRespStep(t, tp, q, k)
  <2>1. /\ fsm[t] \in {"WaitForResponse", "ReadIdle"} /\ UNCHANGED beat
        /\ fsm'[t] = IF tp = "BegRespE" THEN "Response" ELSE "PartialResponse"
    BY <1>1, <1>7 DEF BegRespStep, BegRespCb, Becomes
  <2>2. ReadBeats(t) => ReadBeats(t)'
    <3> SUFFICES ASSUME ReadBeats(t) PROVE ReadBeats(t)'
      OBVIOUS
    <3>1. tp = NextRespBeat(t, beat[t]) /\ beat[t] <= BurstLen[t] - 1
      BY <1>1, <1>2, <2>1 DEF ReadBeats, Taken
    <3>2. CASE tp = "BegRespE"
      <4>1. beat[t] = BurstLen[t] - 1
        BY <1>1, <3>1, <3>2 DEF NextRespBeat
      <4> QED
        BY <1>1, <2>1, <3>2, <4>1 DEF ReadBeats, RestStates
    <3>3. CASE tp # "BegRespE"
      <4>1. beat[t] < BurstLen[t] - 1
        BY <3>1, <3>3 DEF NextRespBeat
      <4> QED
        BY <1>1, <2>1, <3>3, <4>1 DEF ReadBeats, RestStates
    <3> QED
      BY <3>2, <3>3
  <2>3. BeatsLeft(t)'
    BY <1>1, <1>2, <2>1 DEF BurstOK, BeatsLeft
  <2> QED
    BY <1>1, <1>2, <1>3, <1>4, <2>2, <2>3, FsmBurstFrame DEF BurstOK
<1> QED
  BY <1>5, <1>6, <1>7 DEF DueStep

\* A beat of a read is acknowledged: the beat that follows is scheduled.
LEMMA EndPartRespBurst ==
  ASSUME TypeOK, TokenInv, BurstInv, NEW t \in Tx, EndPartRespStep(t),
         UNCHANGED iniVars
  PROVE  BurstInv'
<1> DEFINE n == beat[t] + 1
<1>1. /\ fsm \in [Tx -> FsmStates] /\ beat \in [Tx -> Nat]
      /\ fw \in [Tx -> Seq(FwPhases)]
      /\ QueueTypes(evq, clkq) /\ BurstOK(t) /\ LinkOK(t)
      /\ BurstLen[t] \in Nat \ {0} /\ UNCHANGED <<ini, left>>
  BY ChannelAssumption
  DEF TypeOK, LinkTypeOK, TgtTypeOK, QueueTypes, BurstInv, TokenInv, LinkInv,
      ChannelAssumption, iniVars
<1>2. /\ Cmd[t] = "rd" /\ fsm[t] = "PartialResponse" /\ Becomes(t, "ReadIdle")
      /\ fw[t] = <<"END_PARTIAL_RESP">> /\ fw' = Drop(fw, t)
      /\ beat' = [beat EXCEPT ![t] = n]
      /\ Schedule({"cycles"}, NextRespBeat(t, n), t, evq, clkq)
      /\ NotIn(t, evq, clkq)
  BY DEF EndPartRespStep, EndPartRespCb, NotDue
<1>3. /\ fsm'[t] = "ReadIdle" /\ beat'[t] = n /\ n <= BurstLen[t] - 1
      /\ left'[t] = BurstLen[t] - n /\ fw'[t] = << >> /\ ini'[t] = "resp"
  <2>1. fsm'[t] = "ReadIdle" /\ beat'[t] = n /\ n <= BurstLen[t] - 1
    BY <1>1, <1>2 DEF Becomes, BurstOK, ReadBeats
  <2>2. ini[t] = "resp"
    BY <1>1, <1>2 DEF LinkOK
  <2>3. fw'[t] = << >> /\ fw[t] # << >>
    <3>1. Len(fw[t]) = 1 /\ fw[t] # << >>
      BY <1>2
    <3>2. Tail(fw[t]) = << >>
      BY <1>1, <3>1, TailOfOne
    <3> QED
      BY <1>1, <1>2, <3>1, <3>2 DEF Drop
  <2>4. left[t] = BurstLen[t] - n
    BY <1>1, <1>2, <2>2, <2>3 DEF BurstOK, BeatsLeft
  <2> QED
    BY <1>1, <2>1, <2>2, <2>3, <2>4
<1>4. NextRespBeat(t, n) \in TimePoints
  BY DEF NextRespBeat, TimePoints
<1>5. /\ \A u \in Tx \ {t} : \A d : IsDue(u, d)' => IsDue(u, d)
      /\ \A d : IsDue(t, d)' => d = NextRespBeat(t, n)
  BY <1>1, <1>2, <1>4, ScheduledIs DEF IsDue
<1>6. ReadBeats(t)'
  BY <1>3, <1>5 DEF ReadBeats, RestStates, NextRespBeat
<1>7. BeatsLeft(t)'
  BY <1>2, <1>3 DEF BeatsLeft
<1> QED
  <2>1. \A u \in Tx \ {t} : beat'[u] = beat[u]
    BY <1>1, <1>2
  <2> QED
    BY <1>2, <1>5, <1>6, <1>7, <2>1, FsmBurstFrame DEF OthersNotScheduled, BurstOK

\* The burst is over; the request that is let in has no burst yet.
LEMMA EndRespBurst ==
  ASSUME TypeOK, TokenInv, BurstInv, NEW t \in Tx, EndRespStep(t),
         UNCHANGED iniVars
  PROVE  BurstInv'
<1> DEFINE c == Cmd[t]
           u == stalledTx[c]
<1>1. /\ fsm \in [Tx -> FsmStates] /\ c \in Cmds /\ QueueTypes(evq, clkq)
      /\ u \in Tx \union {NoTx}
      /\ u # NoTx => stalledTp[c] \in TimePoints
      /\ LinkOK(t) /\ UNCHANGED <<ini, left>>
  BY ChannelAssumption
  DEF TypeOK, TgtTypeOK, QueueTypes, ChannelAssumption, TokenInv, LinkInv, iniVars,
      TimePoints
<1>2. /\ fw[t] = <<"END_RESP">> /\ fw' = Drop(fw, t) /\ UNCHANGED beat
      /\ \E s \in {"WaitAck", "Idle"} : Becomes(t, s)
      /\ IF u # NoTx THEN LetIn(c, evq, clkq) ELSE KeepQueues(evq, clkq)
  BY DEF EndRespStep, EndRespCb
<1>3. BurstOK(t)'
  <2>1. ini'[t] \in {"ack", "fin"}
    BY <1>1, <1>2 DEF LinkOK
  <2>2. fsm'[t] \in {"WaitAck", "Idle"}
    BY <1>1, <1>2 DEF Becomes
  <2> QED
    BY <2>1, <2>2 DEF BurstOK, BeatsLeft, ReadBeats
<1>4. OthersNotScheduled(t)
  <2>1. CASE u = NoTx
    BY <1>2, <2>1, KeptIs DEF KeepQueues
  <2>2. CASE u # NoTx
    <3>1. /\ u \in Tx /\ fsm[u] \in {"PartialRequest", "Request"}
          /\ NotIn(u, evq, clkq)
      BY <1>1, <2>2 DEF TokenInv, ParkedInv, NotDue
    <3>2. Schedule(AcceptDelays, stalledTp[c], u, evq, clkq)
      BY <1>2, <2>2 DEF LetIn
    <3> HIDE DEF u, c
    <3>3. \A v \in Tx \ {u} : \A d : IsDue(v, d)' => IsDue(v, d)
      BY <1>1, <2>2, <3>1, <3>2, ScheduledIs DEF IsDue
    <3> QED
      BY <3>1, <3>3 DEF OthersNotScheduled
  <2> QED
    BY <2>1, <2>2
<1> QED
  BY <1>2, <1>3, <1>4, FsmBurstFrame

LEMMA AckBurst ==
  ASSUME TypeOK, TokenInv, BurstInv, NEW t \in Tx, AckStep(t), UNCHANGED iniVars
  PROVE  BurstInv'
<1>1. /\ fsm \in [Tx -> FsmStates] /\ ini'[t] = "fin" /\ Becomes(t, "Idle")
      /\ fw' = Drop(fw, t) /\ UNCHANGED <<evq, clkq, beat>>
  BY DEF TypeOK, TgtTypeOK, AckStep, iniVars, Quiet, KeepQueues
<1>2. fsm'[t] = "Idle"
  BY <1>1 DEF Becomes
<1>3. BurstOK(t)'
  BY <1>1, <1>2 DEF BurstOK, BeatsLeft, ReadBeats
<1> QED
  BY <1>1, <1>3, KeptIs, FsmBurstFrame

\* A beat that is not expected is dropped.
LEMMA DiscardBurst ==
  ASSUME TypeOK, TokenInv, BurstInv, NEW t \in Tx, DiscardStep(t),
         UNCHANGED iniVars
  PROVE  BurstInv'
<1>1. /\ fsm[t] = "WaitAck" /\ ini[t] = "send" /\ fw' = Drop(fw, t)
      /\ UNCHANGED <<fsm, evq, clkq, beat, ini, left>> /\ BurstOK(t)
      /\ fsm \in [Tx -> FsmStates]
  BY DEF DiscardStep, iniVars, BurstInv, TypeOK, TgtTypeOK
<1>2. BurstOK(t)' /\ Becomes(t, fsm[t])
  BY <1>1 DEF BurstOK, BeatsLeft, ReadBeats, RestStates, Becomes
<1> QED
  BY <1>1, <1>2, KeptIs, FsmBurstFrame

\* The first beat of a response is scheduled.
LEMMA ThreadBurst ==
  ASSUME TypeOK, TokenInv, BurstInv, ThreadStep, UNCHANGED iniVars
  PROVE  BurstInv'
<1>1. /\ UNCHANGED <<fsm, beat, ini, left, fw>> /\ QueueTypes(evq, clkq)
      /\ "BegRespE" \in TimePoints /\ "BegPartRespE" \in TimePoints
  BY DEF ThreadStep, ProcessReq2Resp, PushBackOverdue, SendRespBeat, StartRdRead,
         StartRdSem, StartRdBegin, StartWr, fsmVars, startRdRest, linkVars, iniVars,
         TypeOK, TgtTypeOK, QueueTypes, TimePoints
<1>2. ASSUME NEW t \in Tx, OthersNotScheduled(t), BurstOK(t)' PROVE BurstInv'
  BY <1>1, <1>2, BurstFrame DEF BurstInv, OthersNotScheduled
<1>3. CASE UNCHANGED <<evq, clkq>>
  <2>1. \A u : \A tp : IsDue(u, tp)' <=> IsDue(u, tp)
    BY <1>3 DEF IsDue, IsIn
  <2> QED
    BY <1>1, <2>1, BurstFrame DEF BurstInv
<1>4. CASE StartRdBegin
  <2>0. PICK t \in Tx : t = rdStart.tx /\ t # NoTx
    BY <1>4, ChannelAssumption DEF ChannelAssumption, StartRdBegin, TypeOK, TgtTypeOK
  <2>1. PICK tp \in {"BegRespE", "BegPartRespE"} :
          /\ tp = IF BurstLen[t] = 1 THEN "BegRespE" ELSE "BegPartRespE"
          /\ Schedule(BeatDelays, tp, t, evq, clkq)
    BY <1>4, <2>0 DEF StartRdBegin
  <2>2. /\ Cmd[t] = "rd" /\ fsm[t] = "WaitForResponse" /\ NotIn(t, evq, clkq)
        /\ BurstOK(t)
    BY <2>0 DEF TokenInv, WaitingInv, BurstInv, NotDue
  <2>3. beat[t] = 0 /\ BurstLen[t] \in Nat \ {0}
    BY <2>2, ChannelAssumption DEF BurstOK, ReadBeats, ChannelAssumption
  <2>4. tp = NextRespBeat(t, beat[t])
    BY <2>1, <2>3 DEF NextRespBeat
  <2>5. /\ \A v \in Tx \ {t} : \A d : IsDue(v, d)' => IsDue(v, d)
        /\ \A d : IsDue(t, d)' => d = tp
    BY <1>1, <2>1, <2>2, ScheduledIs DEF IsDue
  <2>6. BurstOK(t)'
    BY <1>1, <2>2, <2>4, <2>5 DEF BurstOK, ReadBeats, BeatsLeft, NextRespBeat
  <2> QED
    BY <1>2, <2>5, <2>6 DEF OthersNotScheduled
<1>5. CASE StartWr
  <2>1. respFifo["wr"] \in Seq(Tx) /\ respFifo["wr"] # << >>
    BY <1>5 DEF StartWr, TypeOK, TgtTypeOK, Cmds
  <2>2. PICK t \in Tx : t = Head(respFifo["wr"]) /\ t \in Range(respFifo["wr"])
    BY <2>1, RangeTail
  <2>3. /\ Cmd[t] = "wr" /\ NotIn(t, evq, clkq)
        /\ Schedule({"zero"}, "BegRespE", t, evq, clkq)
    BY <1>5, <2>2 DEF TokenInv, WaitingInv, NotDue, Cmds, StartWr
  <2>4. \A v \in Tx \ {t} : \A d : IsDue(v, d)' => IsDue(v, d)
    BY <1>1, <2>2, <2>3, ScheduledIs DEF IsDue
  <2>5. BurstOK(t)'
    BY <1>1, <2>2, <2>3 DEF BurstInv, BurstOK, BeatsLeft
  <2> QED
    BY <1>2, <2>2, <2>4, <2>5 DEF OthersNotScheduled
<1> QED
  BY <1>3, <1>4, <1>5
  DEF ThreadStep, ProcessReq2Resp, PushBackOverdue, SendRespBeat, StartRdRead,
      StartRdSem, startRdRest

LEMMA BurstNext ==
  ASSUME TypeOK, TokenInv, LimitInv, BurstInv, [Next]_vars
  PROVE  BurstInv'
<1>1. CASE IniNext /\ UNCHANGED tgtVars
  BY <1>1, IniBurstNext
<1>2. CASE TgtNext /\ UNCHANGED iniVars
  <2>1. ASSUME NEW t \in Tx, FsmStep(t) PROVE BurstInv'
    BY <1>2, <2>1, BeginBurst, DiscardBurst, EndPartRespBurst, EndRespBurst, AckBurst,
       DueBurst
    DEF FsmStep
  <2> QED
    BY <1>2, <2>1, ThreadBurst, TgtCases
<1>3. CASE UNCHANGED vars
  <2>1. \A u : \A tp : IsDue(u, tp)' <=> IsDue(u, tp)
    BY <1>3 DEF vars, tgtVars, IsDue, IsIn
  <2> QED
    BY <1>3, <2>1, BurstFrame DEF BurstInv, vars, linkVars, iniVars, tgtVars
<1> QED
  BY <1>1, <1>2, <1>3 DEF Next

\* The engine and the initiator count the beats of every response alike.
THEOREM BurstInvariant ==
  ASSUME CountersFit
  PROVE  Spec => []BurstInv
<1>1. Init => BurstInv
  <2> SUFFICES ASSUME Init, NEW t \in Tx PROVE BurstOK(t)
    BY DEF BurstInv
  <2>1. ini[t] = "idle" /\ fsm[t] = "Idle"
    BY DEF Init, IniInit, TgtInit
  <2> QED
    BY <2>1 DEF BurstOK, ReadBeats, BeatsLeft
<1>2. TypeOK /\ TokenInv /\ LimitInv /\ BurstInv /\ [Next]_vars => BurstInv'
  BY BurstNext
<1>3. Spec => []LimitInv
  BY LimitInvariant
<1> QED
  BY <1>1, <1>2, <1>3, TokenInvariant, PTL DEF Spec

-----------------------------------------------------------------------------
(* No error message.                                                       *)

\* Both engines have the flavor ACE, or none of them.
SameFlavor == Ace = Coherent

\* What the initiator finds on the link is what it waits for.
LEMMA IniSilent ==
  ASSUME TypeOK, TokenInv, BurstInv, IniNext, iniAlarm = {}
  PROVE  iniAlarm' = {}
<1> PICK t \in Tx : \/ Transport(t) \/ GetId(t) \/ SendRequest(t)
                    \/ BeatAccepted(t) \/ RequestAccepted(t)
                    \/ ResponseBeat(t) \/ SendAck(t) \/ Finish(t)
  BY DEF IniNext
<1>1. LinkOK(t) /\ BurstOK(t) /\ BurstLen[t] \in Nat
  BY ChannelAssumption DEF TokenInv, LinkInv, BurstInv, ChannelAssumption
<1>2. CASE SendRequest(t)
  <2>1. ini[t] = "chnl"
    BY <1>2 DEF SendRequest, Goto
  <2>2. bw[t] = << >>
    BY <1>1, <2>1 DEF LinkOK
  <2> QED
    BY <1>2, <2>2 DEF SendRequest
<1>3. CASE BeatAccepted(t)
  <2>1. ini[t] = "send" /\ ~LastBeat(t) /\ bw[t] # << >>
    BY <1>3 DEF BeatAccepted, Goto
  <2>2. bw[t] = <<"END_PARTIAL_REQ">>
    BY <1>1, <2>1 DEF LinkOK
  <2>3. Head(bw[t]) = "END_PARTIAL_REQ"
    BY <2>2
  <2> QED
    BY <1>3, <2>3 DEF BeatAccepted
<1>4. CASE RequestAccepted(t)
  <2>1. ini[t] = "send" /\ LastBeat(t) /\ bw[t] # << >>
    BY <1>4 DEF RequestAccepted, Goto
  <2>2. bw[t] \in {<<"END_REQ">>, <<"END_REQ", "BEGIN_PARTIAL_RESP">>,
                   <<"END_REQ", "BEGIN_RESP">>}
    BY <1>1, <2>1 DEF LinkOK
  <2>3. Head(bw[t]) = "END_REQ"
    BY <2>2
  <2> QED
    BY <1>4, <2>3 DEF RequestAccepted
<1>5. CASE ResponseBeat(t)
  <2>1. ini[t] = "resp" /\ bw[t] # << >>
    BY <1>5 DEF ResponseBeat
  <2>2. CASE Head(bw[t]) # "BEGIN_RESP"
    BY <1>5, <2>2 DEF ResponseBeat
  <2>3. CASE Head(bw[t]) = "BEGIN_RESP"
    <3>1. Head(<<"BEGIN_PARTIAL_RESP">>) = "BEGIN_PARTIAL_RESP"
      OBVIOUS
    <3>2. fw[t] = << >> /\ fsm[t] = "Response"
      BY <1>1, <2>1, <2>3, <3>1 DEF LinkOK
    <3>3. left[t] = 1
      BY <1>1, <2>1, <3>2 DEF BurstOK, BeatsLeft, ReadBeats
    <3> QED
      BY <1>5, <3>3 DEF ResponseBeat
  <2> QED
    BY <2>2, <2>3
<1>6. CASE Transport(t) \/ GetId(t) \/ SendAck(t) \/ Finish(t)
  BY <1>6 DEF Transport, GetId, SendAck, Finish
<1> QED
  BY <1>2, <1>3, <1>4, <1>5, <1>6

\* Every event falls on a state that expects it, and every beat finds room.
LEMMA TgtSilent ==
  ASSUME TypeOK, TokenInv, LimitInv, CallInv, RoomForBeats, SameFlavor, TgtNext,
         tgtAlarm = {}
  PROVE  tgtAlarm' = {}
<1>1. CASE ThreadStep
  BY <1>1 DEF ThreadStep, ProcessReq2Resp, PushBackOverdue, SendRespBeat, StartRdRead,
              StartRdSem, StartRdBegin, StartWr, startRdRest
<1>2. ASSUME NEW t \in Tx, BeginStep(t) PROVE tgtAlarm' = {}
  BY <1>2 DEF BeginStep
<1>3. ASSUME NEW t \in Tx, DiscardStep(t) PROVE FALSE
  <2>1. CallOK(t) /\ fsm[t] = "WaitAck" /\ ini[t] = "send" /\ fw[t] # << >>
    BY <1>3 DEF CallInv, DiscardStep
  <2> QED
    BY <2>1 DEF CallOK, BetweenBeats
<1>4. ASSUME NEW t \in Tx, EndPartRespStep(t) \/ EndRespStep(t)
      PROVE  tgtAlarm' = {}
  BY <1>4 DEF EndPartRespStep, EndPartRespCb, EndRespStep, EndRespCb
<1>5. ASSUME NEW t \in Tx, AckStep(t) PROVE tgtAlarm' = {}
  <2>1. CallOK(t) /\ ini[t] = "fin" /\ fw[t] = <<"ACK">>
    BY <1>5 DEF CallInv, AckStep
  <2>2. Ace /\ fsm[t] = AfterEnd
    BY <2>1 DEF CallOK
  <2>3. fsm[t] = "WaitAck"
    BY <2>2 DEF SameFlavor, AfterEnd
  <2> QED
    BY <1>5, <2>3 DEF AckStep
<1>6. ASSUME NEW t \in Tx, NEW tp, NEW q, NEW k, DueStep(t, tp, q, k)
      PROVE  tgtAlarm' = {}
  <2>1. CASE BegRespStep(t, tp, q, k)
    <3>1. Len(beatFifo[Cmd[t]]) < BeatFifoSize
      BY <2>1, RoomToRespond
    <3>2. ~(Len(beatFifo[Cmd[t]]) >= BeatFifoSize)
      <4>1. /\ beatFifo[Cmd[t]] \in Seq(Scheduled) /\ BeatFifoSize \in Nat
        BY ChannelAssumption, TargetAssumption
        DEF ChannelAssumption, TargetAssumption, TypeOK, TgtTypeOK
      <4> QED
        BY <3>1, <4>1
    <3> QED
      BY <2>1, <3>2 DEF BegRespStep, BegRespCb
  <2>2. CASE EndPartReqStep(t, q, k) \/ EndReqStep(t, q, k)
    BY <2>2 DEF EndPartReqStep, EndReqStep, EndPartReqCb, EndReqCb
  <2> QED
    BY <1>6, <2>1, <2>2 DEF DueStep
<1> QED
  BY <1>1, <1>2, <1>3, <1>4, <1>5, <1>6, TgtCases DEF FsmStep

\* Neither engine reports an error, throws or discards an event: no phase comes at
\* a moment at which its receiver does not expect it, no response has a beat too
\* few or too many and no queue overflows.
THEOREM NoAlarmHolds ==
  ASSUME SameFlavor, RoomForBeats
  PROVE  Spec => []NoAlarm
<1>1. Init => NoAlarm
  BY DEF Init, IniInit, TgtInit, NoAlarm
<1>2. TypeOK /\ TokenInv /\ LimitInv /\ CallInv /\ BurstInv /\ NoAlarm /\ [Next]_vars
        => NoAlarm'
  <2> SUFFICES ASSUME TypeOK, TokenInv, LimitInv, CallInv, BurstInv, NoAlarm,
                      [Next]_vars
               PROVE  NoAlarm'
    OBVIOUS
  <2>1. CASE IniNext /\ UNCHANGED tgtVars
    BY <2>1, IniSilent DEF NoAlarm, tgtVars
  <2>2. CASE TgtNext /\ UNCHANGED iniVars
    BY <2>2, TgtSilent DEF NoAlarm, iniVars
  <2>3. CASE UNCHANGED vars
    BY <2>3 DEF vars, iniVars, tgtVars, NoAlarm
  <2> QED
    BY <2>1, <2>2, <2>3 DEF Next
<1>3. CountersFit /\ IsFiniteSet(Tx) /\ Acknowledged
  BY DEF RoomForBeats, CountersFit, SameFlavor, Acknowledged
<1>4. (Spec => []LimitInv) /\ (Spec => []CallInv) /\ (Spec => []BurstInv)
  BY <1>3, LimitInvariant, CallInvariant, BurstInvariant
<1> QED
  BY <1>1, <1>2, <1>4, TokenInvariant, PTL DEF Spec
=============================================================================
