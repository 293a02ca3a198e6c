----------------------------- MODULE MCStepLogs -----------------------------
\* StepLogs for TLC.
EXTENDS StepLogs
=============================================================================
