--------------------------- MODULE MCClassification ---------------------------
(***************************************************************************)
(* One sensor unit, and signals just below and at the lowest level.  The   *)
(* counters give delays below, in and above a window of just one value; the *)
(* other windows are those of a reset.  One of the coefficients takes its   *)
(* term beyond its limit, the others keep theirs below it.                 *)
(***************************************************************************)
EXTENDS Classification

MCUnit(limit) ==
  [p \in Parameters |->
     IF p \in Times THEN (IF p = "plus_to_minus_max" THEN limit - 1 ELSE limit) ELSE 1]
MCState(unit, state) ==
  [unit |-> [su \in SUs |-> unit],
   coefficient |-> [i \in Numbers |-> IF i = 1 THEN 255 ELSE DEFAULT_COEFF],
   SU_state |-> [su \in SUs |-> state]]
MCInitialSettings ==
  {InitClassification, MCState(MCUnit(1), "acquisition_e"), MCState(MCUnit(1), "self_test_e")}
=============================================================================
