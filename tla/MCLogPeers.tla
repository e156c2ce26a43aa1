----------------------------- MODULE MCLogPeers -----------------------------
(* LogPeers for TLC.                                                         *)
EXTENDS LogPeers

OneClient == {1}
TwoClients == {1, 2}
=============================================================================
