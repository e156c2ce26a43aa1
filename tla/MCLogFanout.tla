---------------------------- MODULE MCLogFanout ----------------------------
(* LogFanout for TLC.                                                        *)
EXTENDS LogFanout, TLC

CONSTANTS s1, s2, s3, t1, t2

NoThreads == {}
OneThread == {t1}
TwoSenders == {s1, s2}
ThreeSenders == {s1, s2, s3}
NoBacklogs == {}
SomeBacklogs == {-2, 0, 5}
SenderSymmetry == Permutations(Senders)
=============================================================================
