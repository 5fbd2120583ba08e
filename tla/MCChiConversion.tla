-------------------------- MODULE MCChiConversion --------------------------
(***************************************************************************)
(* All snoop values, domains, barriers and AxCACHE values; a part of a     *)
(* cache line, a whole line and more than a line; every class of atomics.  *)
(***************************************************************************)
EXTENDS ChiConversion

MCMessages ==
  [ace : {TRUE}, cmd : {"rd"}, snoop : RdSnoops, domain : Domains,
   bar : Barriers, cache : 0 .. 15, atop : {0}, len : {32, 64, 128},
   partial : {FALSE}]
  \union
  [ace : {TRUE}, cmd : {"wr"}, snoop : WrSnoops, domain : Domains,
   bar : Barriers, cache : 0 .. 15, atop : {0}, len : {32, 64, 128},
   partial : BOOLEAN]
  \union
  [ace : {TRUE}, cmd : {"wr"}, snoop : {"WRITE_NO_SNOOP", "WRITE_UNIQUE"},
   domain : Domains, bar : {"RESPECT_BARRIER"}, cache : {0, 2, 15},
   atop : {5, 16, 23, 32, 39, 48, 49, 50}, len : {8, 64}, partial : {FALSE}]
  \union
  [ace : {FALSE}, cmd : {"rd", "wr"}, snoop : {"READ_NO_SNOOP"},
   domain : {"SYSTEM"}, bar : {"RESPECT_BARRIER"}, cache : 0 .. 15,
   atop : {0}, len : {32, 64, 128}, partial : {FALSE}]
=============================================================================
