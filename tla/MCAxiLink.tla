------------------------------ MODULE MCAxiLink ------------------------------
(***************************************************************************)
(* Small instances of AxiLink for TLC.  The transactions are r1 to r5      *)
(* (reads) and w1 to w3 (writes); a .cfg takes the ones it needs.          *)
(***************************************************************************)
EXTENDS AxiLink

CONSTANTS r1, r2, r3, r4, r5, w1, w2, w3, i1, i2

MCIds == {i1, i2}
MCCmd == [t \in Tx |-> IF t \in {w1, w2, w3} THEN "wr" ELSE "rd"]
MCId  == [t \in Tx |-> IF t = r3 THEN i2 ELSE i1]

\* One id for all.
MCIdSame == [t \in Tx |-> i1]
\* Single beats only.
MCSingle == [t \in Tx |-> 1]

\* Bursts of two beats; r2 and w3 are single beats.
MCBurstLen  == [t \in Tx |-> IF t \in {r2, w3} THEN 1 ELSE 2]
\* Bursts of three beats, the shortest with a beat that is neither the first
\* nor the last; r2 and w3 are single beats.
MCBurstLen3 == [t \in Tx |-> IF t \in {r2, w3} THEN 1 ELSE 3]
=============================================================================
