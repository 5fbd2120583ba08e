# Formal models of tlm2-interfaces

This directory holds TLA+ models of the AXI/ACE and CHI parts of the library,
their TLC configurations and machine-checked proofs. The models are translated
from the C++ sources; every definition that stands for code is listed with its
lines in `PROJECT.json` ("map").

## 1. Inventory

| Component | Code | State | Operations and partners | Hard parts, and what makes it correct |
|---|---|---|---|---|
| Protocol state machine | `axi/fsm` | one boost::statechart state, a beat count and callbacks per transaction; pool of handles; `fsm_event_queue`, `fsm_clk_queue` | `nb_fw`, `nb_bw`, `react`, `schedule`; used by the engines | unexpected events are discarded silently; handles are reused. No event discarded, one pending time point per transaction, clean handles |
| AXI target engine | `axi/pe/axi_target_pe` | counters, stall slots, response FIFOs, channel semaphores, active ids | state-machine callbacks, a clocked method, four threads; answers the initiator, hands requests to an operation | back-pressure, random latencies, interleaved read data. Limit kept, no request lost, channels owned, ids serial, everything answered |
| AXI initiator | `axi/pe/axi_initiator` | one blocking call per transaction, `rd_chnl`, `wr_chnl`, id semaphores, counters, snoop states | `transport`, `nb_transport_bw`, `snoop_thread`, `snoop_resp` | many threads in one function. Phases of the link in order, counters exact, every call returns, every snoop answered |
| AXI checker | `axi/checker/axi_protocol` | current beat, id and beat counts per command, open transactions per id | sees each `nb_transport` call | complains if and only if the link is wrong |
| Simple initiator | `axi/pe/simple_initiator` | the state machine with an initiator's callbacks, channel semaphores, snoop queue and threads | `transport`, callbacks, `process_snoop_resp`, `snoop_resp` | channels taken by a caller and given back by a callback; one channel for all snoop responses. One request per channel, snoops answered whole |
| ACE target engine | `axi/pe/ace_target_pe` | the AXI engine plus snoop handles | `snoop`, callbacks | the caller may reuse the payload as soon as `snoop` returns |
| ACE checker | `axi/checker/ace_protocol` | as the AXI checker | settings of a request | its table, its constraints and the comments of `axi_tlm.h` ought to agree |
| Ordered, reordering, replay target | `axi/pe/{ordered,reordering,replay}_target` | latency FIFOs, arbitration lock, reorder buffer, recorded sequences | `transport` from the engine's `fw_o`, responses to its `bw_i` | order and time of the responses, rounding, aging, retry when the engine has no room |
| CHI initiator | `chi/pe/chi_rn_initiator` | per-transaction queue, four channel semaphores, order gates, five credit counters, snoop handlers | `transport`, `nb_transport_bw`, `snoop_dispatch`, `snoop_handler`, `clk_counter` | credits, responses in any order, dynamic handler threads, gates in a row |
| AXI to CHI conversion | `convert_axi4ace_to_chi` | none | called by `transport` | long tables with ranges; every legal request must convert to a legal one |
| Payload types | `axi/axi_tlm`, `chi/chi_tlm`, `atp`, `cache` | none (data) | accessors, validity tables | the tables agree with those of their users |
| Recorders | `axi/scv`, `axi/lwtr`, `chi/scv`, `chi/lwtr` | link extension of the payload, handles of open records, trace database | observe every call, forward it | a phase may come as a call, as an answer or inside another call; payloads are reused. Records ended once, links to the own use only, no assertion |

Interaction: an initiator calls `nb_transport_fw` of the target, which calls
`nb_transport_bw` of the initiator; both put the phase into a payload event
queue and return `TLM_ACCEPTED`. Inside the target, the queue feeds the state
machine of the transaction, whose callbacks schedule time points, which come
back to the state machine in a later delta or clock cycle. A response buffer
sits behind the target's ports; recorders sit on the sockets in between. The
CHI initiator does without the state machine: its threads wait for phases in
the queue of their transaction.

## 2. Modules

| Module | Models | Correspondence |
|---|---|---|
| `AxiFsm` | `protocol_fsm.h`, `base::react` | `Reactions` is the table of the `reactions` typedefs; `EventOf` is the switch of `react`. The callbacks of a state's constructor or destructor are run by the action that takes the transition |
| `AxiChannel` | the two `nb_transport` paths | `fw[t]`, `bw[t]`: phases announced and not yet looked at |
| `AxiInitiator` | `axi_initiator_b::transport`, `send` | `ini[t]` is the place where the call for payload `t` waits; one action per stretch of code between two waits |
| `AxiTargetPe` | `axi_target_pe`, `fsm::base` | one operator per callback (`EndReqCb`, ...), one action per queue entry (`NbFw`, `ProcessFsmEvent`, `ProcessFsmClkQueue`), per method (`ProcessReq2Resp`, `PushBackOverdue`) and per stretch of a thread |
| `AxiProtocolChecker` | `checker::axi_protocol` | `Observe` is `check_phase_change` with its two updates |
| `AxiLink` | initiator, target and checker bound together | `Watch` runs the checker on the phase a step announces; the properties are stated here |
| `AxiTargetContract` | nothing: an abstract specification | what a user of an AXI target relies on; `AxiLink` and, for snoops, `AceSnoopLink` implement it |
| `SimpleInitiator`, `SimpleLink` | `simple_initiator_b::transport` and its callbacks, against `AxiTargetPe` and the checker | `call[t]`, `port[c]` (the semaphores `rd`, `wr`), `oFsm`, `oDue`: the caller, the channel and the initiator's own state machine |
| `AceTargetPe` | `ace_target_pe`: `snoop` and its callbacks | `tDue[s]`: time points with the slot (delta, edge) they are due in |
| `SimpleSnoops`, `AxiSnoopThreads` | the snoop paths of the two initiators | the response queue with its channel `snp`, the handler threads and `dispatch_queue`; the `snoop_thread`s and `snoop_resp` |
| `AceSnoopLink` | the target engine and either initiator | properties of snooping |
| `BufferPayloads`, `RateBuffer`, `ReplayBuffer`, `TxReorderer` | `rate_limiting_buffer`, `replay_buffer`, `tx_reorderer` | latency FIFOs `lat`, response FIFOs `resp`, `thr[c]` the place of a response thread; `left` what is left of the recording; `buf` the reorder buffer with its ages |
| `ResponseBuffers` | one of the three behind an engine | the engine refuses a response now and then |
| `ChiMessages`, `ChiConversion` | the CHI opcode predicates, `convert_axi4ace_to_chi`, `setExpCompAck` | pure operators, one step per stage of a request |
| `AxiMessages` | the AXI/ACE validity tables | pure operators |
| `ChiRnInitiator` | `chi_rn_initiator_b` | `pc[x]` is where the process of a transaction waits; `queue`, `idq`, `free` the semaphores; `slot`, `pool`, `peq` the `tx_state`s; `crd`, `prov` the credits; `threads`, `own`, `dispq` the snoop handlers |
| `ChiHomeNode` | external: what answers the initiator | plans of responses for each request, in every order CHI allows; three habits (`sync`, `attach`, `early`) |
| `ChiLink` | node and home node | properties of the CHI link |
| `RecorderStreams`, `RecorderCalls`, `Recorders` | the six recorders, alone or two on a path | one record of rules per class and direction; the frames of nested calls; scripts of phases |
| `MC...` | nothing: values of the constants for TLC | |
| `AxiLink_proofs`, `SeqLemmas`, `AxiLinkToken_proofs`, `AxiLinkLimit_proofs`, `AxiLinkResponse_proofs`, `AxiLinkChecker_proofs`, `ChiLink_proofs`, `ResponseBuffers_proofs` | nothing | section 4 |

Operators whose comment starts with "Mutant" are deliberately wrong variants of
the definition that follows them. No specification uses them; they show which
mistake in the code each property would find.

### Abstractions of the AXI link

* Payloads are model values with a command, an id and a burst length. A payload
  can be used again as soon as its transport call has returned, without bound.
* Time is not counted. A wait for clock cycles, a scheduled time point and a
  latency take any time. Phases of one transaction keep their order, those of
  different transactions do not.
  `fsm_event_queue` (entries without delay) is first in, first out.
* A delay parameter yields "zero" or "cycles", or either if it is negative
  (random). `ConstantLatency` says that `rd_resp_delay` and `wr_resp_delay` are
  not random: requests are then due in the order they came. A read that is due
  while `rd_resp_fifo` is full is re-pushed at each clock edge, behind reads
  that came since the edge before (`overdue`, `PushBackOverdue`); of several such reads any
  may be the next. With random latencies any request may be the next.
* The port pair `fw_o`/`bw_i` (a response buffer behind the engine) and the
  built-in latency are the same queue here.
* A handle of the pool is identified with the payload it serves. `FreedIsClean`
  is what makes this sound: a handle goes back idle and unreferenced.
* Phases that arrive and the call that answers them are one action of the
  initiator; a wait until the next clock edge, at which a phase announced for
  the edge has been delivered, is a guard (`fw[t]` empty in `SendAck`, `Finish`).
* Unsigned counters wrap at `UMax` (3 or 7 in the runs), which is at least the number
  of transactions, so that only a real underflow wraps. `CountersExact` says
  which of them do not; the counter behind `getOutStandingTx` (`outst`) does, and
  no property or theorem is about it.
* Branches for `TLM_UPDATED` and for `WValidE`/`WReadyE` at the target are not
  reachable between these two engines; dataless and `TLM_IGNORE` accesses are
  left out.
* From libraries: `scc::ordered_semaphore` is the list of the callers that wait, the first
  being the holder; what is pushed to `scc::fifo_w_cb` becomes visible after the
  current evaluation, which the loops of `process_req2resp_fifos` rely on.

### Abstractions of the other models

* `AceSnoopLink` does count time, in slots (delta cycle, clock edge), because
  the snoop path depends on it: `snoop` waits for a fixed number of cycles.
  A snoop is one payload with up to three beats.
* `RateBuffer` and `TxReorderer` count clock edges, and `RateBuffer` the
  fractions of a clock period exactly (`Den` parts) where the code has floating
  point. Latencies are drawn from a small set, below `Horizon`, which bounds the
  ages. What a thread has not waited for is kept per thread when it has a pace
  of its own (the local `residual_clocks`), and in one place for the total pace.
* `ChiRnInitiator`: each payload is used once. A phase that the call of another
  process waits for is taken by that process in one step. Timing parameters
  (`artv`, `awtv`, `wbv`) only add waits. `wait(1)` of `ordered_semaphore` is
  taken for priority over `wait()`.
* `ChiConversion`: strings of byte enables are "partial" or not; the address is
  left out.
* `Recorders`: phases, link extension and handles, not the attributes that are
  written. SystemC processes are not preempted, so what happens before the
  forwarded call is one step and what happens after it another; the script
  decides which calls nest. The LWTR event queue is first in, first out. LWTR
  `nb_transport_bw` uses the extension it read before the call, as the code does.
  Of a recorder before the path (`cfg.upstream`) only the extension it brings and
  takes away is there.

## 3. Runs

A run's properties are conjunctions of named parts where several of them are
about one thing (`CreditsExact` is `ReceivedCreditsConserved` and
`ProvidedCreditsExact`). For each property `PROJECT.json` names a wrong variant
of one definition with which it fails in the same run.

| Run | Module and configuration | Instance | Shows |
|---|---|---|---|
| `contract` | `MCAxiLink`, `AxiLink_contract.cfg` | two writes and a read, limit 1, two-beat bursts | `BackPressureKept`: never more accepted than the limit, and no parked request is lost; `StallSlotKept`, `ScheduledOnce`, `TypeOK`; `ServesContract`: the link implements `AxiTargetContract` with its liveness part |
| `reuse` | `AxiLink_reuse.cfg` | bursts of three beats (a middle one), delays of both kinds, no limit | reads of one id in sequence, counters of both sides exact, handles clean, channels owned, no alarm, no complaint of the checker |
| `order` | `AxiLink_order.cfg` | constant latencies, up to four reads of one id | responses per id in order (the checker has no complaint), every call returns |
| `ace` | `AxiLink_ace.cfg` | acknowledges, id serialization, random latencies, `rd_data_interleaving` off | no handle stays active, responses in order, read bursts not interleaved |
| `simple` | `MCSimpleLink`, `SimpleLink.cfg` | a read of two beats, writes of three and of one, limit 1, random latencies | the simple initiator keeps the protocol (channels, beats, no discarded event), returned handles are clean, every call returns |
| `snoop` | `MCAceSnoopLink`, `AceSnoopLink.cfg` | snoops of three and of two beats, one handler thread to start with, either initiator | shared state of the snoop path consistent, a payload can be reused when `snoop` has returned, every snoop is answered as the contract says |
| `buffers` | `MCResponseBuffers`, `ResponseBuffers.cfg` | up to six payloads, latencies 0 and 1, bandwidth in quarters of a cycle, `min_latency` 1, `max_latency` 2, `window_size` 1, an engine that refuses | order per id and by latency, latency neither shorter nor longer than asked, the bandwidth of reads and the total one never exceeded, recorded order replayed, everything answered |
| `recorders` | `MCRecorders`, `Recorders.cfg` | each of the six classes, alone or two on a path, with and without another one of its class before it; two uses of a payload; nested calls | every record is ended once and none left open, link extensions belong to the current use, the blocking calls restore what they found |
| `recorders_bug_chain` | `Recorders_bug_chain.cfg` | AXI SCV recorders, one use, a transaction ended inside the call | fails: see below |
| `chi` | `MCChiLink`, `ChiLink.cfg` | eight pairs of requests and snoops of every kind, two-beat data where bursts matter, one credit per channel, all habits of the home node | credits conserved, ids and ordered requests in sequence, bursts whole, per-transaction state owned by one call, handlers counted |
| `chi_live` | `ChiLink_live.cfg` | strict order, one credit per channel (two for read data), the two habits that differ most | every call returns, every snoop is answered |
| `conversion` | `MCChiConversion`, `ChiConversion.cfg` | every combination of snoop, domain, barrier and AxCACHE; lengths 32, 64, 128; all atomics | what `convert_axi4ace_to_chi` accepts is a legal CHI request; no data is sent or awaited for a payload without any |

Why the bounds are enough: two transactions per command are what most conflicts
need (a stalled and a running one, two of one id, two bursts), three to
overwrite a stall slot in use. The runs about the order of reads have as many as
the code needs to fail, or one fewer. Bursts have two beats (first and last
differ) or three. One credit per channel is the tightest a CHI link can be:
every second phase waits for one. Pairs of requests meet at every gate and at
every channel of the CHI initiator, and a request with a snoop at the two that
snoops have priority for. For a recorder two uses are enough: what one leaves
behind the next one finds. What holds for any number is proved (section 4).
`CHECK_DEADLOCK FALSE` is set where a run ends: each payload is used a bounded
number of times, or nobody has to call.

### What the code does not do

`recorders_bug_chain`: with two recorders on a path, as the comment of
`axi_recorder.h:45` has it, the backward path of the outer one reads the
link extension again after the call, when the inner one may have removed it, and
dereferences a null pointer (`axi_recorder.h:495`; `ace_recorder.h:558` and
`chi_recorder.h:531` are written alike). The forward path tests for it.

An LWTR recorder keeps the pointer from before the call instead and reads the
maker of the extension through it (`axi_lwtr.h:528`; also `ace_lwtr.h:594`,
`chi_lwtr.h:604`). On a payload without memory manager the inner recorder has
deleted the extension (`axi_lwtr.h:532`). With `Kinds = {"axi_lwtr"}` the
same run shows this ("freed" in `s.bad`).

Both take an `END_RESP` that answers a `BEGIN_RESP` (`UPDATED`) through a chain of
AXI recorders, the ones in the model or one before them. `FragileEnd` names these
answers, and `recorders` has every other one; ACE and CHI finish a transaction
with an `ACK` in the forward direction.

The following were met while modelling, most with a model; no run is kept for
them, and each is why some instance is what it is.

AXI:
* Without `rd_data_interleaving` (`axi_target_pe.h:66`) the end of any response,
  of a write as well, posts `rd_resp` (`axi_target_pe.cpp:211`), so that a
  second read response starts and beats interleave. `ReadBurstsNotInterleaved`
  is checked with reads only.
* An ACE-Lite target keeps every transaction active: it waits for an `ACK`
  that the initiator sends for ACE only (`axi_initiator.cpp:287`).
* `getOutStandingTx` wraps below zero after a stall: the request that is let in
  is counted in `outstanding_cnt` only (`axi_target_pe.cpp:217`, 220-230).
* With constant latencies and five reads of one id a read that waits is
  overtaken (`axi_target_pe.cpp:246`, the checker's message is at
  `axi_protocol.cpp:176`): one runs, one waits in `start_rd_resp_thread`, one
  in `rd_resp_fifo`, and two in `rd_req2resp_fifo` change places. The run
  `order` has four and also shows that the rotation starves none of them. With
  random latencies two reads are enough.
* `data_interleaving` with `max_outstanding_tx` deadlocks two writes: the
  parked one keeps a channel the other needs (`axi_initiator.cpp:192`).
* The checker counts the beats of all writes in one counter
  (`axi_protocol.cpp:117`), so that interleaved writes are reported.
* Its check of the ACE-Lite table tests `cache & 0xc0`, which never is set
  (`axi_protocol.cpp:218`), and the AXI3 branch tests `axi4_extension`;
  `check_datawith_settings` multiplies size and length instead of adding one.
* `axi_tlm.h:102` and the table of `ace_protocol::check_properties` let coherent
  requests and cache maintenance have `RESPECT_BARRIER` (lines 246-270);
  `ace_protocol.cpp:356` then reports each of them, because the barrier is not
  `IGNORE_BARRIER`, which the table forbids. No such request passes without an
  error, so that the settings are not modelled: there is nothing to keep.
* Memory updates pass the ACE checker's table with `MEMORY_BARRIER` only
  (`ace_protocol.cpp:284`), which `is_valid_msg` forbids.
* `is_dataless` of `axi_tlm.h` leaves out `CLEAN_SHARED_PERSIST`, which is dataless
  on the CHI side, and the conversion leaves an `Evict` its length. `NoDataNoBeats`
  therefore claims one direction only: what has no data, moves none.

Response buffers:
* The write thread paces itself with `time_per_byte_rd`
  (`ordered_target.cpp:115-116`), so that the limit of the writes
  (`ordered_target.h:50`) is without effect; writes go faster than it wherever
  the reads may. `BandwidthKept` is about the reads and the total limit, which
  the code keeps. The replay target sets no pace at all.
* "Sends responses in the order they arrived" (`ordered_target.h:96`) holds with
  equal latencies; latencies are counted down for each transaction on its own.
* `tx_reorderer` leaves its method after a read (`reordering_target.cpp:83-105`),
  so that writes may stay beyond `max_latency`; its `window_size` counts ids and
  is compared with `>`. `OfferedInTime` states what remains true.

Snoops:
* `snoop_thread` looks for its state under the address of a local pointer
  (`axi_initiator.cpp:331`) and never finds it; the only effect is that states
  are not reused.
* An early `snoop_resp` can put `BEGIN_RESP` before `END_REQ`; the target then
  discards `END_REQ` and no harm is done.
* `axi_initiator` sends all beats of a snoop response whatever its flags say;
  `ace_target_pe` counts `outstanding_cnt` up only (line 126) and never reads the
  FIFOs of its `bw_intor`.

CHI:
* Every response of an ordered request posts `req_order`
  (`chi_rn_initiator.cpp:986`). A write that gets `DBIDResp` and `Comp` apart
  posts it twice, and from then on two ordered requests run together; three
  ordered requests show it. The run has ordered requests with one response.
* The comment at line 1026 lets the home node send read data of an atomic while
  write data is still sent; the assertion of `send_packet` (line 760) then
  fails, unless the home node answers in the call. The `chi` run combines
  `early` with `sync` only.
* Credits for beats that a snoop pulls are never counted (line 1287): with a
  limit of 1 a second such snoop hangs. `ProvidedCreditsExact` makes the
  exception explicit, and `chi_live` has a limit of 2. Credits that come with the
  answers to a snoop's phases are ignored.
* An ordered read without a response (data only) never posts `req_order`; a
  combined `CompPersist` leaves the wait for `Persist` set; a late
  `RespSepData` meets the assertion of line 629; an `ACK` answered with a changed
  phase hangs (line 845). `ChiHomeNode` does none of this.
* `setExpCompAck` announces acknowledges that `send_comp_ack` does not send
  (`chi_rn_initiator.cpp:446`, `chi_tlm.h:491`); `send_comp_ack` leaves its credit
  extension on the payload; for `MakeReadUnique` it overwrites the payload's id.
* The bound of 32 threads can be exceeded by threads that are spawned and not
  yet counted; a finite `snp_req_limit` lets the credits shrink below it.
* The conversion is fatal for AXI4 writes below 64 bytes, for `WRITE_BACK` with
  byte enables, and for atomics shorter than a line. `READ_ONCE_CLEAN` and
  `MAKE_INVALID`, DVM messages and `STASH_TRANSLATION` become `ReqLCrdReturn` with
  only a warning. `WriteBackFullCleanShPerSep` counts as a non-copyback write.

Recorders:
* `b_snoop` goes to `b_transport` of the forward socket in `ace_recorder.h:352`
  and `chi_recorder.h:360`, 388. An ACE `ACK` is recorded twice, and
  `ace_recorder` adds the current time twice.
* Link extensions of snoops and of non-coherent ACE and CHI requests are never
  cleared: on a payload without memory manager the next use is linked to the use
  before. `LinksOwn` leaves these classes out.

### Fairness

* AXI link. `IniFairness`: each transport call runs on when it can (weakly fair
  actions), but nobody has to call `transport`. `TgtFairness`: SystemC runs every
  notified method and thread, so each queue and thread is weakly fair. For
  the requests in `req2resp_fifo` only "someone is let in when there is room" is
  assumed, per command: the code promises no more (see the rotation above),
  and with random latencies nothing at all about which one, so the liveness
  runs have constant latencies. `AxiTargetContract` asks for strong fairness of
  `Respond(t)`, as another read of the id can disable it.
* `SimpleLink`: weak fairness per caller, per queued phase and per time point;
  the target's fairness as above.
* `AceSnoopLink`: weak fairness of what is due in the current delta and of the
  clock; strong fairness of the component that answers a snoop, whose answer
  another snoop may hold up again and again.
* `ResponseBuffers`: weak fairness of clock and threads; strong fairness of the
  engine accepting a response (it has room again and again) and of the hand-over
  in the reorder buffer.
* `ChiLink`: weak fairness per process, for clock and handlers, and for a home node
  that answers and returns credits. It need not send a snoop.

## 4. Proofs

The theorems about the AXI link hold for any set of transactions, ids, burst
lengths and parameters, from `ChannelAssumption` and `TargetAssumption`; those
about the CHI link for any requests, snoops, limits and habits of the home
node, from `ChiAssumption`; those about the buffers for any payloads,
latencies, rates and recordings, from `PayloadAssumption`, `RateAssumption`,
`RecordingAssumption` and `ReorderAssumption`. TLC evaluates the assumptions in
every run. What a theorem needs beyond them is in its last column.

| Theorem | Module | Says | Needs |
|---|---|---|---|
| `TypeCorrect` | `AxiLink_proofs` | `Spec => []TypeOK` | |
| `TokenInvariant` | `AxiLinkToken_proofs` | `Spec => [](TypeOK /\ TokenInv)` | |
| `ScheduledOnceHolds` | `AxiLinkToken_proofs` | `Spec => []ScheduledOnce` | |
| `FreedIsCleanHolds` | `AxiLinkToken_proofs` | `Spec => []FreedIsClean` | |
| `SameIdReadsSerialHolds` | `AxiLinkToken_proofs` | `Spec => []SameIdReadsSerial` | |
| `StallSlotKeptHolds` | `AxiLinkToken_proofs` | `Spec => StallSlotKept` | |
| `LimitInvariant` | `AxiLinkLimit_proofs` | `Spec => []LimitInv` | `CountersFit` |
| `BackPressureKeptHolds` | `AxiLinkLimit_proofs` | `Spec => []BackPressureKept` | `CountersFit` |
| `CallsInvariant` | `AxiLinkLimit_proofs` | `Spec => []CallsInv` | finite `Tx` |
| `CountersExactHolds` | `AxiLinkLimit_proofs` | `Spec => []CountersExact` | `CountersFit` |
| `ContractKept` | `AxiLinkLimit_proofs` | `Spec => Contract!SafeSpec` | `CountersFit` |
| `OwnerInvariant` | `AxiLinkResponse_proofs` | `Spec => []OwnerInv` | `RoomForBeats` |
| `ChannelOwnedHolds` | `AxiLinkResponse_proofs` | `Spec => []ChannelOwned` | `RoomForBeats` |
| `ReadBurstsNotInterleavedHolds` | `AxiLinkResponse_proofs` | `Spec => []ReadBurstsNotInterleaved` | `AllReads` |
| `CallInvariant` | `AxiLinkResponse_proofs` | `Spec => []CallInv` | `Acknowledged`, finite `Tx` |
| `InactiveWhenQuiescentHolds` | `AxiLinkResponse_proofs` | `Spec => []InactiveWhenQuiescent` | `Acknowledged`, finite `Tx` |
| `BurstInvariant` | `AxiLinkResponse_proofs` | `Spec => []BurstInv` | `CountersFit` |
| `NoAlarmHolds` | `AxiLinkResponse_proofs` | `Spec => []NoAlarm` | `SameFlavor`, `RoomForBeats` |
| `PipeInvariant` | `AxiLinkChecker_proofs` | `Spec => []PipeInv` | `CountersFit` |
| `OrderedInvariant` | `AxiLinkChecker_proofs` | `Spec => []OrderedInv` | `KeepsOrder`, `RoomForBeats` |
| `ResponsesInOrderHolds` | `AxiLinkChecker_proofs` | `Spec => []ResponsesInOrder` | `KeepsOrder`, `RoomForBeats` |
| `CheckedInvariant` | `AxiLinkChecker_proofs` | `Spec => []CheckedInv` | `RoomForBeats`, `WritesApart` |
| `NoComplaintHolds` | `AxiLinkChecker_proofs` | `Spec => []NoComplaint` | `KeepsOrder`, `RoomForBeats`, `WritesApart`, `~Ace` |
| `CreditsExactHolds` | `ChiLink_proofs` | `Spec => []CreditsExact` | |
| `SameTxnSerialHolds` | `ChiLink_proofs` | `Spec => []SameTxnSerial` | |
| `BurstsWholeHolds` | `ChiLink_proofs` | `Spec => BurstsWhole` | |
| `StateOwnedHolds` | `ChiLink_proofs` | `Spec => []StateOwned` | finite `Xs` |
| `HandlersCountedHolds` | `ChiLink_proofs` | `Spec => []HandlersCounted` | finite `Xs` |
| `RequestsSerialHolds` | `ChiLink_proofs` | `Spec => []RequestsSerial` | finite `Xs`, `OneResponse` |
| `WorkInvariant` | `ChiLink_proofs` | `Spec => []WorkInv` | finite `Xs`, `EarlyIsSync`, `CommandsFit` |
| `NoAlarmHolds` | `ChiLink_proofs` | `Spec => []NoAlarm` | finite `Xs`, `EarlyIsSync`, `CommandsFit` |
| `NodeConsistentHolds` | `ChiLink_proofs` | `Spec => []NodeConsistent` | finite `Xs`, `OneResponse`, `EarlyIsSync`, `CommandsFit` |
| `FifoInvariant` | `ResponseBuffers_proofs` | `Spec => []FifoIInv` | |
| `BuffersConsistentHolds` | `ResponseBuffers_proofs` | `Spec => []BuffersConsistent` | |
| `BandwidthKeptHolds` | `ResponseBuffers_proofs` | `Spec => []BandwidthKept` | |
| `ReorderInvariant` | `ResponseBuffers_proofs` | `Spec => []ReorderInv` | |
| `LatencyKeptHolds` | `ResponseBuffers_proofs` | `Spec => []LatencyKept` | |
| `OrderKeptHolds` | `ResponseBuffers_proofs` | `Spec => []OrderKept` | |

The conditions are what the code relies on without checking it:

* `CountersFit`: the payloads in use are finitely many and no more than an
  unsigned counter can hold (32 bits in the code, `UMax` here).
* `RoomForBeats`: the beat queue of 128 entries holds a beat of every
  transaction that can be accepted, because of `max_outstanding_tx` or because
  there are no more payloads. Without room the code drops the beat with an error
  message.
* `Acknowledged`: a target that waits for an `ACK` has an initiator that sends
  it. An ACE-Lite target has none (section 3).
* `SameFlavor`: both sides are ACE, or neither is. With an initiator that sends
  `ACK` to a target that does not expect it the event is discarded.
* `AllReads`: the end of a write posts `rd_resp` too (section 3).
* `KeepsOrder`: the link serializes the ids (`enable_id_serializing`), or no two
  payloads of a command share an id (`IdsApart`), or latencies are constant and
  at most four reads are accepted at a time (`ConstantLatency /\ FewReads`).
  Otherwise the code does not keep the order (section 3): four is the bound
  because a fifth read makes two of them overdue together.
* `WritesApart`: `data_interleaving` is off, or there is one write only. The
  checker has one beat counter for all writes (section 3).
* `~Ace`: the checker has no case for `ACK` and reports it
  (`axi_protocol.cpp:95`).
* Finite `Xs`: the payloads of the CHI link can be counted, which the size of
  its pool and the number of its snoop handlers take for granted.
* `OneResponse`: an ordered request gets one response, and besides that only
  data beats: reads, atomics that return data, writes of zeros. Another write
  may get DBIDResp and Comp apart, and the code posts `req_order` for each
  (section 3).
* `EarlyIsSync`: a home node that sends the read data of an atomic while its
  write data is still sent answers in the call. Otherwise the assertion of
  `send_packet` (`chi_rn_initiator.cpp:760`) takes the read data for the answer
  to a beat and fails (section 3).
* `CommandsFit`: the TLM command of a request is a read or a write, and that of a
  `MakeReadUnique` a read.

The runs `contract`, `reuse`, `order` and `ace` are instances: the counters and
the beat queue have room, the flavors match where `NoAlarm` is checked, `ace`
has reads only and serializes ids, `order` has four reads and constant
latencies, and `reuse` has two reads and one write. The run `chi` has ordered
reads and an ordered atomic, and a home node that is early in the call only.

### The AXI link

`TypeOK` is inductive because it relates what is read together: a stall slot in
use has a request of its command and its handshake (otherwise `EndRespCb` would
schedule the terminator `CB_CNT`), an empty one has neither, and `start_rd_resp_thread` has a payload while it waits. The checker,
the initiator and the target have a lemma each (`WatchType`, `IniStepType`,
`TgtStepType`), with one case per action; `BeginRequestType` and `ReactType` do
the callbacks.

The four properties of the engine are not inductive. `ScheduledOnce`, for example, is broken by
a step from a state in which a parked request is also scheduled, or in which an
acknowledge is on its way for a transaction whose next beat is already due. Such
states do not occur, because a transaction moves like a token: its next step is
in one place, and the place and the state of its state machine determine each
other. `TokenInv` says this place by place:

* `ActiveInv`: a payload has a handle while its state machine is not idle;
* `DueInv`: at most one time point of it is in the two queues together, one the
  state expects (`DueIn`);
* `ParkedInv`, `WaitingInv`, `BeatInv`: what is in a stall slot, in the FIFOs
  between request and response, or waits for the response channel, has the
  state that belongs there and is nowhere else;
* `LinkInv`: the place of the transport call, the phases on the link and the
  state machine are one of the combinations `LinkOK` lists;
* `ChannelInv`: the call whose request beat is on the link holds the channel,
  which is why nobody else can be parked in the same slot;
* `IdInv`: a read owns its id from the schedule of its first beat to its last
  acknowledge, and no two own the same one;
* `ReadInv`: only reads have more than one response beat.

Each action has its lemma (`...Token`). Most of a step's proof is that it leaves
the other transactions alone, which the frame lemmas (`ParkedFrame`, ...) say once;
`EndRespToken` is the step that concerns two, the one that ends and the parked
one it lets in. An event that a state machine discards (a request beat in
`WaitAck`, an `ACK` for an idle transaction, which differing flavors of the two
sides produce) keeps the invariant as well, so that these theorems include
links with `Ace # Coherent`.

What the engine counts needs sizes of sets. `TgtCases` reduces the
reactions of the target to eight things that can happen to one state machine
(`FsmStep`: `BeginStep`, `EndReqStep`, ...), so that the invariants that follow
look at those and at the steps of the threads only.
`LimitInv` says `outstanding_cnt` is the number of transactions in certain
states, one above the limit exactly while a request is parked; the lemmas about
`Counted` do the arithmetic on finite sets. That nobody is lost (`NobodyLost`)
follows by counting: a parked request means that the limit is reached by others,
and each of these ends. `CallsInv` does the same for the initiator's counters.

`ContractKept` is a step simulation: `contractStage` maps the states of the
state machine to the three stages of the contract, and for each case a step of
the link is a step of the contract or leaves the stages alone.

`OwnerInv` pairs the semaphore of each response channel with the beat on it.
`BurstInv` relates the three counts of a burst's beats (the call, the state
machine, the link), and `CallInv` the place of a call with the phases that may
still come: together they are why no phase ever meets a state that does not
expect it, which is `NoAlarm`.

The order of the responses with one id is an argument about a pipeline. From
the announcement of its request to that of its response a transaction passes
five places (`Place`): the link, `req2resp_fifo`, `resp_fifo`, the thread that
starts the response (or, for a write, the queue of its time point), and the
running response. `OrderInv` says that the list which the checker keeps for a
command and an id holds exactly the transactions in these places, each ahead
of those that come later in the list: at a later place, or earlier in the
queue of the same place (`Ahead`, `InLine`). A step takes one transaction to the
next place, and the lemmas about the steps show that it is the first one at
its own and finds nobody with its id who ought to be ahead. What that takes
is `PipeInv`: `MutexInv` makes the case of serialized ids one in which nobody
else is in the pipeline; `BlockerInv` says that what `start_rd_resp_thread` waits
for is in the hands of a running response, and `OverdueInv` that with constant
latencies and few reads at most one read waits overdue, so that re-pushing it
cannot change the order. `OverdueInv` is where `FewReads` is needed: with two
overdue reads there is one in `rd_resp_fifo`, one in the thread, and a running
one that keeps the thread waiting, five in all.

`CheckedInv` compares two ways to count. The checker counts a beat when it is
announced, the engines when it is acknowledged; `ReqChannelInv` and
`RespChannelInv` say that each channel has at most one beat between the two.
`WriteCountInv` relates the counter of write beats to the caller at the head of
the write channel (`SendingInv`: the only one that has sent any), `ReadCountInv`
the counters of read beats to `Announced`, the sum of what the state machine has
counted and what is under way. That sum is the same before and after an
acknowledge, so only announcements need an argument.

### The CHI link

`CreditsExact` holds for the wrong reason if a snoop gets credits that nobody
counts, so its invariant `CreditInv` says who may be sent what: `PlanInv` (the
home node plans nothing but read data for a snoop, and only if the snoop pulls
it), `SnoopInv` (a snoop in `snpq` or `dispq` is there once, and has no answer
yet), and `ReceivedInv`, `ProvidedInv`, the two halves of the property with
their types. The lemmas `SpendKeeps`, `ReturnKeeps` and `TopUpKeeps` are the
ways a credit travels; `GrantedType` shows that the clock stays below the limits.

`SameTxnSerial` follows from `IdInv`: a request at work is the head of the list
of its id, one that waits is in it. Most steps only move a process from one
place of its work to another (`Quiet`); the lemmas `...Quiet` say which, so that
only the gates and the end of a call need an argument (`EnterId`, `FinishKeeps`).

`BurstsWhole` needs more than that the sender has the channel: whoever is in the
middle of a burst must still have it when it waits for an answer, for a clock
edge, or for the old data of an atomic. `Burst` says this for each payload, with
the reason why an atomic does not leave before its last beat (`OUT` is still in
`not_finish`); `KeepsHead` is what every step of another process does to the
channel's queue, `FirstHead` that a snoop with priority queues behind the holder.

The `tx_state` of a transaction is a slot whose queue outlives it. `StateOwned`
asks that a slot is clean when it goes back to the pool, so that `SlotInv` has
three parts: `OwnerInv` (who has a slot, and the pool has the others),
`CreatedInv` (they are numbered without a gap, so that a new one is new), and
`EntryInv` (an entry belongs to the payload that has the slot). The end of a call
clears the queue, and the home node sends only to a call that has not ended.
`HandlerInv` puts the two counters of the handlers and the set `own` together with
the places of the snoops; a step of a snoop changes each of them by one or not
at all (`RepliesMove`).

The gate of the ordered requests is again a token: `req_order` has it (`free`),
or one request, which holds it (`Holding`) from the gate until it takes the
response that posts `req_order`. The home node counts a response as given when it
sends it, the process when it takes it from its queue; in between it is `Told`.
`Gate` says that of one request's responses one is planned, told or taken, so
that `req_order` is posted once, and no second one is to come. That is where
`OneResponse` is needed. `OrderPosts` is the step that hands the token back.

`NoAlarm` says that no assertion of the threads fails and no protocol function
meets a message it has no case for. Whether a process finds what it expects
depends on all that is on its way, so `ViewInv` describes, for each payload, its
whole future (`View`): the mailbox holds at most an END phase `e` and a response
or beat `p`, and there is one list `r` of the responses and beats that the
process has not taken yet, sent or not.

* `Parts` splits that list between the mailbox and the plan of the home node, and
  says that `e`, or the END phase that is due, is the one the process waits for
  (`Await`), whatever its place.
* `Tidy` says that responses come before beats, that no two of them settle the
  same, and that the beats still in `r` are those that `rbeat` has not counted.
* `Loop` is the invariant of the loop in `exec_read_write_protocol`: `not_finish`
  has what each member of `r` settles, and the opcode allows it (`Fitting`). So
  the loop ends after the last message, never before. `SnpLoop` is its like for
  the beats that a snoop pulls.

One lemma per action, `...View`, takes the list one message further: `ViewKeeps`
is for the steps of a process that leave its messages alone, `ViewOther` for
those of the others. The step in which the home node sends (`HnRespond`) needs
`EarlyIsSync`. The steps of a process also need to know who holds a channel
(`BurstInv`) and that a semaphore's queue has each caller at the place that waits
for it, and once: that is `QueueInv`, with `HolderGoes` and `QueueMoves`.
`WorkInv` is the conjunction.

`TypeOK` asks for numbers as well. `NatInv` says that no credit is used that is
not there, and that no snoop has come before the clock has granted its credits;
`CntInv` equates `waiting_counter` and the number of requests on the link with
the callers at certain places (`Callers`). No queue is longer than there are
payloads, because its indices map one to one to them (`LinedLength`).

### The response buffers

`FifoInv` says where a payload can be and what a thread in each of its places
holds; `CallOrder` and `RespOrder` relate the fifos to the order of the calls,
which makes `OvertakesByLatency` inductive: of two payloads the one that came
first with the shorter latency is answered or before the other in the response
fifo. `Picked` (the due entries of a fifo, in their order) has the lemmas
`PickedProperties` and `PickedAppend`.

The bandwidth is an argument about a potential: `OwnOk` bounds, for each place
of a thread, what it still owes by what it has paid and the residue carried
over; for a total pace, which both threads pay for, `TotalBand` adds up what
the two hold (`Paid`, `Most`). Only the sum is bounded, and only with the lock
of the arbitration, so that `OneInArbitration` is part of the induction. An
attempt at this proof with one residue for both threads failed, and rightly:
the code has one per thread.

The steps of the reorder buffer need one idea: at a clock edge the entries of
a command and an id either lose their first, which goes to the entries that
have left, or stay with the first one older (`Moved`). `MovedFacts` draws from
it order, ages and types; `ClockMoved` shows it for each of the branches of
`clock_cb`.

### Only model-checked

* `ReplaysRecording`, whose reference definition filters a recording: that is
  computed by recursion, and what a recursive definition computes for every
  input cannot be proved here.
* The recorders, the snoop paths, the simple initiator and the conversion. The
  conversion's tables are finite, and its run goes over all of them but the
  shorter atomics.
* Liveness (`Completes`, `SnoopsAnswered`, `ServesSnoops`, `AllAnswered`, the
  fairness part of the contract), which is out of the prover's reach.

Induction theorems that take an operator cannot be used with the provers at
hand. Where an induction over finite sets is needed (a set of numbers has a
least element, a finite one a greatest), the proofs
take a minimal counterexample along the strict subset ordering instead.

## 5. Not modelled

* `b_transport`, DMI and debug calls of the engines pass through to their
  sockets; of the recorders' the blocking calls are modelled.
* The simple target wrapper only binds a target engine to sockets. Timing and
  cache descriptors (`atp`, `cache`) are plain data.
* Setters, getters and `to_char` of the payload types; what a trace record
  contains.
* `check_properties` of the ACE checker; its phase checks are those of the AXI
  checker.
* The branches for `TLM_UPDATED` and dataless accesses of the AXI initiators,
  and the timing parameters `artv`, `awtv`, `wbv`, which only add waits.
* More than 16 snoops at once, which would fill `dispatch_queue` of the AXI
  initiator.

## 6. Plan

Done: the AXI link with its contract and its proofs; the response buffers with
theirs; the simple initiator; snoops of ACE; the CHI link with its proofs; the
conversion and the validity tables; the recorders.

Left: the protocol of the simple initiator (`ProtocolKept`, `ReturnedIsClean`),
for which `AxiLinkLimit_proofs` has the target's half.
