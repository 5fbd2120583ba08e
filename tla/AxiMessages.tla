---------------------------- MODULE AxiMessages ----------------------------
(***************************************************************************)
(* The ACE signals of a request (axi_tlm.h) and which combinations of them *)
(* the library accepts (axi_tlm.cpp).  A message is a record with the      *)
(* fields cmd, snoop, domain, bar, cache, atop, len (bytes) and partial    *)
(* (some byte enable is off).                                              *)
(***************************************************************************)
EXTENDS Naturals

Domains == {"NON_SHAREABLE", "INNER_SHAREABLE", "OUTER_SHAREABLE", "SYSTEM"}
Inner == {"INNER_SHAREABLE", "OUTER_SHAREABLE"}
NotSystem == Domains \ {"SYSTEM"}

Barriers == {"RESPECT_BARRIER", "MEMORY_BARRIER", "IGNORE_BARRIER",
             "SYNCHRONISATION_BARRIER"}

\* The rows of rd_valid: the domains a read snoop value may have.
RdValid(snoop) ==
  CASE snoop \in {"READ_NO_SNOOP", "READ_ONCE"} -> Domains
    [] snoop \in {"CLEAN_SHARED", "CLEAN_INVALID", "MAKE_INVALID"} -> NotSystem
    [] OTHER -> Inner

\* The rows of wr_valid.  A barrier has snoop code 0x40 and is looked up in
\* the row of WRITE_NO_SNOOP; code 0x29 has the row of CleanInvalid.
WrValid(snoop) ==
  CASE snoop \in {"WRITE_NO_SNOOP", "WRITE_UNIQUE", "BARRIER"} -> Domains
    [] snoop \in {"WRITE_CLEAN", "WRITE_BACK", "WRITE_EVICT",
                  "WRITE_UNIQUE_PTL_STASH", "WRITE_UNIQUE_FULL_STASH",
                  "STASH_ONCE_SHARED"} -> NotSystem
    [] snoop = "CMO_ON_WRITE" -> {}
    [] OTHER -> Inner

RdSnoops ==
  {"READ_NO_SNOOP", "READ_ONCE", "READ_SHARED", "READ_CLEAN",
   "READ_NOT_SHARED_DIRTY", "READ_ONCE_CLEAN_INVALID",
   "READ_ONCE_MAKE_INVALID", "READ_UNIQUE", "CLEAN_UNIQUE", "MAKE_UNIQUE",
   "CLEAN_SHARED", "CLEAN_INVALID", "CLEAN_SHARED_PERSIST", "MAKE_INVALID",
   "DVM_COMPLETE", "DVM_MESSAGE"}

WrSnoops ==
  {"BARRIER", "WRITE_NO_SNOOP", "WRITE_UNIQUE", "WRITE_LINE_UNIQUE",
   "WRITE_CLEAN", "WRITE_BACK", "EVICT", "WRITE_EVICT", "CMO_ON_WRITE",
   "WRITE_UNIQUE_PTL_STASH", "WRITE_UNIQUE_FULL_STASH", "STASH_ONCE_SHARED",
   "STASH_ONCE_UNIQUE", "STASH_TRANSLATION"}

\* Bits of AxCACHE.
Bufferable(cache)  == cache % 2 = 1
Modifiable(cache)  == (cache \div 2) % 2 = 1
Allocate(cache)    == (cache \div 8) % 2 = 1
ReservedCache(cache) == cache \in {4, 5, 8, 9, 12, 13}

\* The snoop values that cannot be used outside the coherent domains, and
\* those that cannot be used inside.
CoherentOnly ==
  {"READ_ONCE", "READ_SHARED", "READ_CLEAN", "READ_NOT_SHARED_DIRTY",
   "READ_UNIQUE", "MAKE_UNIQUE", "DVM_COMPLETE", "DVM_MESSAGE",
   "WRITE_UNIQUE", "WRITE_LINE_UNIQUE", "EVICT"}
NonCoherent == {"READ_NO_SNOOP", "WRITE_NO_SNOOP"}

\* The snoop values whose code ends in four zero bits.
ZeroCode == {"READ_NO_SNOOP", "READ_ONCE", "WRITE_NO_SNOOP", "WRITE_UNIQUE",
             "BARRIER"}

IsValidAce(m) ==
  /\ m.domain \in IF m.snoop \in RdSnoops THEN RdValid(m.snoop)
                  ELSE WrValid(m.snoop)
  /\ m.cache < 2 => m.domain = "SYSTEM"
  /\ m.cache > 3 => m.domain # "SYSTEM"
  /\ ~Modifiable(m.cache) => m.domain \in {"NON_SHAREABLE", "SYSTEM"}
  /\ m.snoop \in NonCoherent => m.domain \in {"NON_SHAREABLE", "SYSTEM"}
  /\ m.snoop \in CoherentOnly => m.domain \in Inner
  /\ m.snoop \in {"CLEAN_SHARED", "CLEAN_INVALID", "MAKE_INVALID",
       "WRITE_CLEAN", "WRITE_BACK", "WRITE_EVICT"} => m.domain # "SYSTEM"
  /\ m.bar \in {"MEMORY_BARRIER", "SYNCHRONISATION_BARRIER"} =>
       m.snoop \in ZeroCode
  /\ ~ReservedCache(m.cache)

\* is_valid_msg of AXI4 and AXI3 requests.
IsValidAxi(m) == ~ReservedCache(m.cache)

\* No data is transferred for the request.
IsDatalessAce(m) ==
  m.snoop \in {"CLEAN_UNIQUE", "MAKE_UNIQUE", "CLEAN_SHARED",
    "CLEAN_INVALID", "MAKE_INVALID", "EVICT", "STASH_ONCE_SHARED",
    "STASH_ONCE_UNIQUE"}
=============================================================================
