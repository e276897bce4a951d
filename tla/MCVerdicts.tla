----------------------------- MODULE MCVerdicts -----------------------------
(***************************************************************************)
(* VerdictHistory with the values of MCIstioChange for the constants.      *)
(***************************************************************************)
EXTENDS VerdictHistory, MCIstioChange
=============================================================================
