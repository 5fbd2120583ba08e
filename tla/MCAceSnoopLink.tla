--------------------------- MODULE MCAceSnoopLink ---------------------------
(***************************************************************************)
(* Small instances of AceSnoopLink for TLC: s1 has three beats, s2 two and *)
(* s3 one.                                                                 *)
(***************************************************************************)
EXTENDS AceSnoopLink

CONSTANTS s1, s2, s3

MCBeats == [s \in Snp |-> IF s = s1 THEN 3 ELSE IF s = s2 THEN 2 ELSE 1]
MCFinish == 1 .. 3
=============================================================================
