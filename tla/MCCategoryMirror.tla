-------------------------- MODULE MCCategoryMirror --------------------------
(* CategoryMirror for TLC.                                                   *)
EXTENDS CategoryMirror

OneName == {1}
TwoNames == {1, 2}
OneLevel == {6}
=============================================================================
