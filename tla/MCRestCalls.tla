----------------------------- MODULE MCRestCalls -----------------------------
\* RestCalls for TLC: all requests of all servers, and all answers to them.
EXTENDS RestCalls

AllServers == {"prom", "loki", "pbs", "tempo", "am", "ha", "wp"}
AllValues == {"plain", "slash", "empty", "dot", "dotdot"}
AllNames == {"required", "all", "one", "missing", "misspelt"}
AllSettings == {"unset", "blank", "zero", "junk", "secs"}
SomeStatuses == {200, 201, 304, 400, 404, 500}
SomeRedirects == {302, 303, 307}
=============================================================================
