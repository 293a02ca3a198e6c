-------------------------- MODULE MCBinaryContract --------------------------
(***************************************************************************)
(* BinaryContract for TLC: one contract about any binary, or two about     *)
(* those that leave the most behind: a server that was to refuse to start, *)
(* and one that serves and is never healthy.                               *)
(***************************************************************************)
EXTENDS BinaryContract

CONSTANTS first, second

CleanupBuilds == {Conforming,
                  [Conforming EXCEPT !.without = Required],
                  [Conforming EXCEPT !.healthy = FALSE]}

Pairs == slow /\ build[first] \in CleanupBuilds

MCInit == /\ Init
          /\ build[second] \in CleanupBuilds
          /\ Pairs \/ build[second] = Conforming

MCNext == Next /\ (pc'[second] # "idle" => Pairs /\ pc'[first] # "idle")

MCSpec == MCInit /\ [][MCNext]_vars /\ Fairness
=============================================================================
