--------------------------- MODULE ChiConversion ---------------------------
(***************************************************************************)
(* What chi_rn_initiator_b::transport makes of an AXI4 or ACE payload:     *)
(* convert_axi4ace_to_chi builds the CHI request, setExpCompAck announces  *)
(* whether the transaction ends with a CompAck, and the protocol functions *)
(* decide from the opcode what they wait for and send.                     *)
(***************************************************************************)
EXTENDS ChiMessages, AxiMessages, TLC

CONSTANT Messages   (* The payloads: records as in AxiMessages, with a     *)
                    (* field ace that is FALSE for a plain AXI4 payload.   *)

VARIABLES
  msg,        (* The payload before the conversion.                        *)
  legacy,     (* use_legacy_mapping.                                       *)
  stage,      (* axi, converted, announced.                                *)
  req,        (* The request, see Convert.                                 *)
  alarms      (* History: assertions, errors and warnings.                 *)

vars == <<msg, legacy, stage, req, alarms>>

NoRequest == [op |-> "ReqLCrdReturn", size |-> 0, len |-> 0, memAttr |-> 0,
              order |-> 0, expCompAck |-> FALSE]

\* Payloads the library itself calls valid.
IsValid(m) == IF m.ace THEN IsValidAce(m) ELSE IsValidAxi(m)

Init ==
  /\ msg \in {m \in Messages : IsValid(m)}
  /\ legacy \in BOOLEAN
  /\ stage = "axi"
  /\ req = NoRequest
  /\ alarms = {}

\* Mutants: the opcode of a partial write is chosen by the byte enables only;
\* most snoop values of a read are forgotten.
LineMutant(m, full, ptl) == IF m.partial THEN ptl ELSE full
ConvertReadMutant(m) ==
  IF m.snoop = "MAKE_INVALID" THEN "ReadUnique" ELSE "ReadOnce"

Min2(a, b) == IF a < b THEN a ELSE b

\* CHI moves at most 64 bytes; more are cut off.
Length(m) == Min2(m.len, 64)

Log2(n) == CHOOSE k \in 0 .. 8 : 2 ^ k <= n /\ n < 2 ^ (k + 1)

\* A whole cache line or a part of it.
Line(m, full, ptl) == IF Length(m) = 64 THEN full ELSE ptl

ConvertAtomic(atop) ==
  LET class == (atop \div 16) % 4
      sub   == atop % 8
  IN  IF class = 1 THEN AtomicStores[sub + 1]
      ELSE IF class = 2 THEN AtomicLoads[sub + 1]
      ELSE IF atop = 48 THEN "AtomicSwap"
      ELSE IF atop = 49 THEN "AtomicCompare" ELSE "ReqLCrdReturn"

ConvertRead(m) ==
  CASE m.snoop = "READ_NO_SNOOP"         -> "ReadNoSnp"
    [] m.snoop = "READ_ONCE"             -> "ReadOnce"
    [] m.snoop = "READ_SHARED"           -> "ReadShared"
    [] m.snoop = "READ_CLEAN"            -> "ReadClean"
    [] m.snoop = "READ_NOT_SHARED_DIRTY" -> "ReadNotSharedDirty"
    [] m.snoop = "READ_UNIQUE"           -> "ReadUnique"
    [] m.snoop = "CLEAN_SHARED"          -> "CleanShared"
    [] m.snoop = "CLEAN_INVALID"         -> "CleanInvalid"
    [] m.snoop = "CLEAN_SHARED_PERSIST"  -> "CleanSharedPersist"
    [] m.snoop = "CLEAN_UNIQUE"          -> "CleanUnique"
    [] m.snoop = "MAKE_UNIQUE"           -> "MakeUnique"
    [] m.snoop = "MAKE_INVALID"          -> "MakeInvalid"
    [] OTHER                             -> "ReqLCrdReturn"

ConvertWrite(m) ==
  CASE m.snoop = "WRITE_NO_SNOOP" -> Line(m, "WriteNoSnpFull", "WriteNoSnpPtl")
    [] m.snoop = "WRITE_UNIQUE" -> Line(m, "WriteUniqueFull", "WriteUniquePtl")
    [] m.snoop = "WRITE_LINE_UNIQUE"       -> "WriteUniqueFull"
    [] m.snoop = "WRITE_CLEAN" ->
         IF m.partial THEN "WriteCleanPtl" ELSE "WriteCleanFull"
    [] m.snoop = "WRITE_BACK" -> Line(m, "WriteBackFull", "WriteBackPtl")
    [] m.snoop = "EVICT"                   -> "Evict"
    [] m.snoop = "WRITE_EVICT"             -> "WriteEvictFull"
    [] m.snoop = "WRITE_UNIQUE_PTL_STASH"  -> "WriteUniquePtlStash"
    [] m.snoop = "WRITE_UNIQUE_FULL_STASH" -> "WriteUniqueFullStash"
    [] m.snoop = "STASH_ONCE_UNIQUE"       -> "StashOnceUnique"
    [] m.snoop = "STASH_ONCE_SHARED"       -> "StashOnceShared"
    [] OTHER                               -> "ReqLCrdReturn"

Opcode(m) ==
  IF ~m.ace THEN IF m.cmd = "rd" THEN "ReadNoSnp" ELSE "WriteNoSnpFull"
  ELSE IF m.atop # 0 THEN ConvertAtomic(m.atop)
  ELSE IF m.cmd = "rd" THEN ConvertRead(m) ELSE ConvertWrite(m)

\* The snoop values for which the data length is set to zero.
DropsData(m) ==
  /\ m.ace /\ m.atop = 0
  /\ m.snoop \in {"CLEAN_SHARED", "CLEAN_INVALID", "CLEAN_SHARED_PERSIST",
       "CLEAN_UNIQUE", "MAKE_UNIQUE", "MAKE_INVALID", "STASH_ONCE_UNIQUE",
       "STASH_ONCE_SHARED"}

Size(m) == IF m.ace /\ m.atop = 0
             /\ m.snoop \in {"STASH_ONCE_UNIQUE", "STASH_ONCE_SHARED"}
           THEN 6 ELSE Log2(Length(m))

\* use_legacy_mapping: by AxCACHE; 16 stands for "unexpected AxCACHE".
LegacyMemAttr(m) ==
  CASE m.cache = 0 -> 2
    [] m.cache = 1 -> 3
    [] m.cache = 2 -> 0
    [] m.cache = 3 -> 1
    [] m.cache \in {6, 7}   -> IF m.cmd = "rd" THEN 13 ELSE 5
    [] m.cache \in {10, 11} -> IF m.cmd = "rd" THEN 5 ELSE 13
    [] m.cache \in {14, 15} -> 13
    [] OTHER -> 16

\* Allocate 8, Cacheable 4, Device 2, EWA 1.
MemAttr(m) ==
  (IF Allocate(m.cache) THEN 8 ELSE 0) + (IF Modifiable(m.cache) THEN 4 ELSE 0)
    + (IF m.cache < 2 THEN 2 ELSE 0) + (IF Bufferable(m.cache) THEN 1 ELSE 0)

\* The assertions and messages of the conversion.
Complains(m, op, size) ==
  {a \in {"assert", "error", "warning", "fatal"} :
     \/ /\ a = "assert" /\ m.ace
        /\ \/ m.bar = "MEMORY_BARRIER" /\ m.snoop # "BARRIER"
           \/ /\ m.atop = 0 /\ m.snoop \in NonCoherent
              /\ m.domain \notin {"NON_SHAREABLE", "SYSTEM"}
           \/ /\ m.atop = 0 /\ m.snoop \in {"READ_ONCE", "WRITE_UNIQUE"}
              /\ m.domain \notin Inner
     \/ /\ a = "error" /\ m.ace
        /\ \/ m.bar = "MEMORY_BARRIER"
           \/ m.atop # 0 /\ op = "ReqLCrdReturn"
           \/ legacy /\ LegacyMemAttr(m) = 16
     \/ a = "warning" /\ m.ace /\ m.atop = 0 /\ op = "ReqLCrdReturn"
     \/ a = "fatal" /\ ~IsValidMsg(op, size)}

\* convert_axi4ace_to_chi.  The order field is left (or set to) 0.
Convert ==
  LET op == Opcode(msg) IN
  /\ stage = "axi"
  /\ stage' = "converted"
  /\ req' = [op |-> op, size |-> Size(msg),
             len |-> IF DropsData(msg) THEN 0 ELSE Length(msg),
             memAttr |-> IF ~msg.ace THEN 0
                         ELSE IF ~legacy THEN MemAttr(msg)
                         ELSE IF LegacyMemAttr(msg) = 16 THEN 0
                         ELSE LegacyMemAttr(msg),
             order |-> 0, expCompAck |-> FALSE]
  /\ alarms' = Complains(msg, op, Size(msg))
  /\ UNCHANGED <<msg, legacy>>

\* transport sends the request after setExpCompAck; a fatal message or an
\* assertion has ended the simulation before.
Announce ==
  /\ stage = "converted"
  /\ alarms \intersect {"assert", "fatal"} = {}
  /\ stage' = "announced"
  /\ req' = [req EXCEPT !.expCompAck = SetExpCompAck(req.op, req.order)]
  /\ UNCHANGED <<msg, legacy, alarms>>

Next == Convert \/ Announce

Spec == Init /\ [][Next]_vars
-----------------------------------------------------------------------------
(* Properties.                                                             *)

Converted == stage # "axi"

TypeOK ==
  /\ msg \in Messages
  /\ stage \in {"axi", "converted", "announced"}
  /\ req.size \in 0 .. 6
  /\ req.len \in 0 .. 64
  /\ req.memAttr \in 0 .. 15

\* Snoop values of ACE5 and DVM, and barriers, have no mapping.
Unmapped == {"READ_ONCE_CLEAN_INVALID", "READ_ONCE_MAKE_INVALID",
  "DVM_COMPLETE", "DVM_MESSAGE", "STASH_TRANSLATION", "BARRIER"}

\* What can be smaller than a cache line.
PartialAllowed(m) ==
  IF m.ace THEN \/ m.snoop \in {"READ_NO_SNOOP", "WRITE_NO_SNOOP",
                     "WRITE_UNIQUE", "WRITE_UNIQUE_PTL_STASH",
                     "CLEAN_SHARED_PERSIST"}
                \/ IsDatalessAce(m)
  ELSE m.cmd = "rd"

\* A payload that is_valid_msg of AXI or ACE accepts, has a mapping and carries
\* as much data as CHI allows becomes a request that is_valid_msg of CHI
\* accepts: the domain and snoop tables of axi_tlm.cpp, the assertions of the
\* conversion and the size rule of chi_tlm.cpp fit together.
LegalConverts ==
  Converted =>
    (/\ msg.snoop \notin Unmapped /\ msg.atop = 0 /\ msg.bar # "MEMORY_BARRIER"
     /\ Length(msg) = 64 \/ PartialAllowed(msg)
     => alarms = {} /\ req.op # "ReqLCrdReturn")

\* No data is sent or awaited for a payload that has none, be it because
\* is_dataless of the ACE side says so or because the conversion took its
\* length away: exec_read_write_protocol would wait for its data, or send it.
\* The converse is not claimed, the two sides disagree about it (is_dataless
\* of the ACE side leaves CLEAN_SHARED_PERSIST out, an Evict keeps its length).
NoDataNoBeats ==
  Converted /\ msg.ace /\ msg.atop = 0 =>
    (IsDatalessAce(msg) \/ req.len = 0 => IsDataless(req.op, NoResponse))

\* Every write that transfers data has a data opcode: otherwise send_wdata
\* would send the flits with a default one.
WriteDataDefined ==
  /\ Converted
  /\ msg.cmd = "wr" /\ req.op # "ReqLCrdReturn"
  /\ ~IsDataless(req.op, NoResponse)
  => WriteDataOpcode(req.op) # "none"

\* Device memory is neither cacheable nor allocated, in both mappings.
DeviceNotCached ==
  Converted /\ (req.memAttr \div 2) % 2 = 1 => req.memAttr \in {2, 3}

\* What is converted is a message CHI allows, with everything the protocol
\* functions read from it.
ConversionSound ==
  TypeOK /\ LegalConverts /\ WriteDataDefined /\ DeviceNotCached
=============================================================================
