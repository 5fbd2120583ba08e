----------------------------- MODULE MCChiLink -----------------------------
(***************************************************************************)
(* Instances of ChiLink for TLC: pairs of requests, a request and a snoop, *)
(* two snoops.  Data has two beats where bursts matter, and there is one   *)
(* credit per channel.                                                     *)
(***************************************************************************)
EXTENDS ChiLink, TLC

CONSTANTS t1, t2, s1, s2

R(op, cmd, order, txn, beats) ==
  [op |-> op, cmd |-> cmd, order |-> order, txn |-> txn, beats |-> beats]
Two(a, b) == t1 :> a @@ t2 :> b
Snp(beats) == R("Snoop", "rd", 0, 1, beats)

MCScenarios ==
  {Two(R("ReadOnce", "rd", 0, 1, 2), R("WriteNoSnpFull", "wr", 0, 1, 2)),
   Two(R("ReadNoSnp", "rd", 2, 1, 1), R("AtomicLoadAdd", "wr", 2, 2, 2)),
   Two(R("WriteUniqueFullCleanSh", "wr", 0, 1, 1),
       R("WriteNoSnpFullCleanShPerSep", "wr", 0, 2, 2)),
   Two(R("MakeReadUnique", "rd", 0, 1, 1),
       R("CleanSharedPersistSep", "rd", 0, 2, 1)),
   Two(R("AtomicStoreAdd", "wr", 0, 1, 1), R("WriteNoSnpZero", "wr", 0, 1, 1)),
   t1 :> R("AtomicSwap", "wr", 0, 1, 1) @@ s1 :> Snp(2),
   t1 :> R("ReadShared", "rd", 0, 1, 1) @@ s1 :> Snp(1),
   s1 :> Snp(1) @@ s2 :> Snp(1)}

MCConfigs == {[interleaving |-> b, strict |-> ~b] : b \in BOOLEAN}
MCModes ==
  {m \in [sync : BOOLEAN, attach : BOOLEAN, early : BOOLEAN] :
     m.early = m.sync}
\* For the liveness properties: one-beat data, both waiting gates, the two
\* habits that differ most.
MCScenariosLive ==
  {Two(R("ReadNoSnp", "rd", 2, 1, 1), R("AtomicLoadAdd", "wr", 2, 1, 1)),
   Two(R("WriteUniqueFullCleanSh", "wr", 0, 1, 1),
       R("MakeReadUnique", "rd", 0, 1, 1)),
   t1 :> R("CleanSharedPersistSep", "rd", 0, 1, 1) @@ s1 :> Snp(1),
   s1 :> Snp(1) @@ s2 :> Snp(1)}
MCConfigsLive == {[interleaving |-> TRUE, strict |-> TRUE]}
MCModesLive ==
  {[sync |-> b, attach |-> b, early |-> b] : b \in BOOLEAN}

MCTotal == [c \in Channels |-> 1]
=============================================================================
