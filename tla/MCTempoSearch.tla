---------------------------- MODULE MCTempoSearch ----------------------------
\* TempoSearch for TLC: every form of a time argument around a few seconds, and
\* integers on both sides of MAX_UNIX_SECONDS.  With 10 and 4 in place of 10^11 and
\* 10^3 an instant of up to 2.5 seconds, in the other unit, passes for seconds.
EXTENDS TempoSearch

AllArguments ==
  ({"omitted", "before_1970", "junk"} \X {0}) \cup ({"seconds"} \X {0, 1, 2, 10, 11})
    \cup ({"scaled"} \X {0, 4, 8, 10, 11, 12})
    \cup ({"rfc3339"} \X (1..4))
=============================================================================
