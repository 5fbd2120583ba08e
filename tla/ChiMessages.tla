---------------------------- MODULE ChiMessages ----------------------------
(***************************************************************************)
(* The opcodes of CHI requests and the predicates on them that decide how  *)
(* a transaction runs: chi_tlm.h, chi_tlm.cpp and the free functions of    *)
(* chi_rn_initiator.cpp.  Opcodes are named as in req_optype_e.            *)
(***************************************************************************)
EXTENDS Naturals, Sequences

\* Atomics in the order of their sub-codes.
AtomicStores ==
  <<"AtomicStoreAdd", "AtomicStoreClr", "AtomicStoreEor", "AtomicStoreSet",
    "AtomicStoreSmax", "AtomicStoreSmin", "AtomicStoreUmax",
    "AtomicStoreUmin">>

AtomicLoads ==
  <<"AtomicLoadAdd", "AtomicLoadClr", "AtomicLoadEor", "AtomicLoadSet",
    "AtomicLoadSmax", "AtomicLoadSmin", "AtomicLoadUmax", "AtomicLoadUmin">>

\* AtomicLoadAdd .. AtomicCompare: the old data comes back.
ReturningAtomics ==
  {AtomicLoads[i] : i \in 1 .. 8} \union {"AtomicSwap", "AtomicCompare"}

IsAtomic(op) ==
  op \in {AtomicStores[i] : i \in 1 .. 8} \union ReturningAtomics

\* Requests that are followed by a cache maintenance operation.
WithCleanSh  == {"WriteBackFullCleanSh", "WriteCleanFullCleanSh",
                 "WriteNoSnpFullCleanSh", "WriteUniqueFullCleanSh",
                 "WriteUniquePtlCleanSh"}
WithCleanInv == {"WriteBackFullCleanInv", "WriteNoSnpFullCleanInv"}
WithPersist  == {"WriteBackFullCleanShPerSep", "WriteCleanFullCleanShPerSep",
                 "WriteNoSnpFullCleanShPerSep", "WriteUniquePtlCleanShPerSep",
                 "WriteUniqueFullCleanShPerSep"}

ExpectCompCMO(op) == op \in WithCleanSh \union WithCleanInv \union WithPersist
ExpectPersist(op) == op \in WithPersist \union {"CleanSharedPersistSep"}

Stashes == {"StashOnceUnique", "StashOnceSepUnique", "StashOnceShared",
            "StashOnceSepShared"}

\* Whether no data is transferred; for MakeReadUnique the response tells.
IsDataless(op, rspOp) ==
  \/ op \in Stashes \union {"CleanUnique", "MakeUnique", "Evict",
       "CleanShared", "CleanSharedPersist", "CleanSharedPersistSep",
       "CleanInvalid", "MakeInvalid", "WriteNoSnpZero", "WriteUniqueZero"}
  \/ /\ op = "MakeReadUnique"
     /\ rspOp \in {"Comp", "CompPersist", "CompCMO", "CompStashDone"}

\* Requests that have to be kept in order if their order field is 2.
IsRequestOrder(op, order) ==
  /\ order = 2
  /\ \/ op \in {"ReadNoSnp", "ReadNoSnpSep", "ReadOnce",
         "ReadOnceCleanInvalid", "ReadOnceMakeInvalid",
         "WriteNoSnpFull", "WriteNoSnpFullCleanInv", "WriteNoSnpFullCleanSh",
         "WriteNoSnpFullCleanShPerSep", "WriteNoSnpPtl",
         "WriteNoSnpPtlCleanInv", "WriteNoSnpPtlCleanSh",
         "WriteNoSnpPtlCleanShPerSep", "WriteUniqueFull",
         "WriteUniqueFullCleanSh", "WriteUniqueFullCleanShPerSep",
         "WriteUniqueFullStash", "WriteUniquePtl", "WriteUniquePtlCleanSh",
         "WriteUniquePtlCleanShPerSep", "WriteUniquePtlStash",
         "WriteUniqueZero"}
     \/ IsAtomic(op)

\* The response opcode of a payload that has not been answered.
NoResponse == "INVALID"

\* What is sent although only whole cache lines may be.
IsValidMsg(op, size) ==
  /\ size <= 6
  /\ \/ op \in {"ReadNoSnp", "ReadNoSnpSep", "WriteNoSnpPtl",
                "WriteUniquePtl", "WriteUniquePtlStash"}
     \/ IsDataless(op, NoResponse)
     \/ size = 6

\* WriteEvictFull .. WriteUniquePtlStash, by the numbers of the opcodes.
OrderedWriteRange ==
  {"WriteEvictFull", "WriteCleanPtl", "WriteCleanFull", "WriteUniquePtl",
   "WriteUniqueFull", "WriteBackPtl", "WriteBackFull", "WriteNoSnpPtl",
   "WriteNoSnpFull", "WriteUniqueFullStash", "WriteUniquePtlStash"}

\* setExpCompAck: whether the request announces a CompAck.
SetExpCompAck(op, order) ==
  \/ /\ op \notin {"ReadNoSnpSep", "Evict", "StashOnceUnique",
           "StashOnceShared", "CleanShared", "CleanSharedPersist",
           "CleanSharedPersistSep", "CleanInvalid", "MakeInvalid",
           "WriteNoSnpZero", "WriteNoSnpFull", "WriteNoSnpPtl",
           "WriteUniqueZero", "WriteUniquePtl", "WriteUniqueFull",
           "WriteUniqueFullStash", "WriteBackFull", "WriteBackPtl",
           "WriteCleanFull", "WriteCleanPtl"}
     /\ ~IsAtomic(op)
  \/ op \in OrderedWriteRange /\ order \in {2, 3}

\* transport(): whether the protocol of op ends with a CompAck if one was
\* announced.
CompAckAllowed(op) ==
  /\ ~IsAtomic(op)
  /\ op \notin {"WriteUniqueFullStash", "WriteUniquePtlStash",
         "WriteBackPtl", "WriteBackFull", "WriteCleanFull", "WriteCleanPtl",
         "CleanSharedPersistSep", "WriteEvictFull", "WriteUniqueZero",
         "WriteNoSnpZero", "WriteBackFullCleanSh", "WriteBackFullCleanInv",
         "WriteBackFullCleanShPerSep", "WriteCleanFullCleanSh",
         "WriteCleanFullCleanShPerSep"} \union Stashes

\* The opcode of the write data that belongs to a request, "none" (a warning)
\* if the request has no write data.
WriteDataOpcode(op) ==
  IF \/ op \in {"WriteNoSnpPtl", "WriteNoSnpFull", "WriteUniquePtl",
          "WriteUniqueFull", "WriteUniquePtlStash", "WriteUniqueFullStash",
          "WriteNoSnpFullCleanSh", "WriteNoSnpFullCleanInv",
          "WriteNoSnpFullCleanShPerSep", "WriteUniqueFullCleanSh",
          "WriteUniqueFullCleanShPerSep", "WriteBackFullCleanShPerSep",
          "WriteNoSnpPtlCleanSh", "WriteNoSnpPtlCleanInv",
          "WriteNoSnpPtlCleanShPerSep", "WriteUniquePtlCleanSh",
          "WriteUniquePtlCleanShPerSep"}
     \/ IsAtomic(op)
    THEN "NonCopyBackWrData"
  ELSE IF op \in {"WriteBackFull", "WriteBackPtl", "WriteCleanFull",
            "WriteCleanPtl", "WriteBackFullCleanSh", "WriteBackFullCleanInv",
            "WriteCleanFullCleanSh", "WriteCleanFullCleanShPerSep",
            "WriteEvictFull"}
    THEN "CopyBackWrData"
  ELSE "none"
=============================================================================
