---------------------------- MODULE MCRecorders ----------------------------
(* The instance of Recorders that TLC checks. *)
EXTENDS Recorders

MCRecorderSet == 1 .. 2
MCKinds == Axi \union Ace \union Chi
=============================================================================
