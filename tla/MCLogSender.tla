---------------------------- MODULE MCLogSender ----------------------------
(* LogSender for TLC: sets of lengths and limits for the configurations.     *)
EXTENDS LogSender

NoThreads == {}
OneThread == {"logger"}
EmptyAndShort == {0, 1}
EmptyAndLong == {0, 3}
NoBacklogs == {}
OtherBacklogs == {0, 1}
=============================================================================
