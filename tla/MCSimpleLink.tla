---------------------------- MODULE MCSimpleLink ----------------------------
(***************************************************************************)
(* Small instances of SimpleLink for TLC: r1 reads two beats, w1 writes    *)
(* three and w2 one.                                                       *)
(***************************************************************************)
EXTENDS SimpleLink

CONSTANTS r1, w1, w2

MCCmd == [t \in Tx |-> IF t = r1 THEN "rd" ELSE "wr"]
MCId == [t \in Tx |-> IF t = w2 THEN 2 ELSE 1]
MCBurstLen == [t \in Tx |-> IF t = w1 THEN 3 ELSE IF t = r1 THEN 2 ELSE 1]
=============================================================================
