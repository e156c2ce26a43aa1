---------------------------- MODULE MCLogStream ----------------------------
(* LogStream for TLC: sets for the configurations.                           *)
EXTENDS LogStream

NoThreads == {}
OneThread == {"logger"}
EmptyAndShort == {0, 1}
EmptyAndLong == {0, 3}
NoBacklogs == {}
AnyReaction == {"none", "pause", "resume", "close"}
StayOpen == {"none", "pause"}
NoReaction == {"none"}
=============================================================================
