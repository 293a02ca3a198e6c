------------------------------ MODULE MCTaskLog ------------------------------
(* Instances of TaskLog for TLC.                                           *)
EXTENDS TaskLog

SomeStarts == {0, 2, 5}
SomeLimits == {1, 3}
SomeTails == {1, 2, 6}
=============================================================================
