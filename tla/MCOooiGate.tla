----------------------------- MODULE MCOooiGate -----------------------------
(* TLC instances of OooiGate: one caller of each authority class.           *)
EXTENDS OooiGate, TLC

(* every phase from the two sources that race in practice, and the claims   *)
(* that each rule of the authority check is about                           *)
MCClaims ==
    [phase : {"out", "off", "on", "in"}, source : {"smes", "acars"}]
      \cup [phase : {"off", "in"}, source : {"tfms_airline", "adsb"}]
      \cup [phase : {"in"}, source : {"fids", "local_acars", "schedule_inference"}]

(* two sources, for the interleaving of whole transactions *)
RaceClaims == [phase : {"out", "on", "in"}, source : {"smes", "acars"}]

AllRoutes == [origin : BOOLEAN, destination : BOOLEAN]
Uncovered == [origin : {FALSE}, destination : {FALSE}]

WriterSymmetry == Permutations(Writers)
=============================================================================
