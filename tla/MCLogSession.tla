---------------------------- MODULE MCLogSession ----------------------------
(* LogSession for TLC.                                                       *)
EXTENDS LogSession

OneObject == {1}
TwoObjects == {1, 2}
=============================================================================
