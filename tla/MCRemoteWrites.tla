--------------------------- MODULE MCRemoteWrites ---------------------------
\* RemoteWrites for TLC: one call of each tool, any two of them at a time.  Calls
\* meet only where one ends the silence the other creates, so pairs show it all.
EXTENDS RemoteWrites, FiniteSets, TLC

CONSTANTS create, expire, state, service

OneOfEach == create :> "create_silence" @@ expire :> "expire_silence"
               @@ state :> "set_state" @@ service :> "call_service"

MCNext == Next /\ Cardinality({c \in Calls : pc'[c] # "idle"}) <= 2
MCSpec == Init /\ [][MCNext]_vars
=============================================================================
