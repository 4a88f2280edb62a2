----------------------------- MODULE MCIpsRules -----------------------------
(***************************************************************************)
(* Instances of IpsRules for TLC.                                          *)
(***************************************************************************)
EXTENDS IpsRules

CONSTANTS n1, p1
=============================================================================
