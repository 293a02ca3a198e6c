---------------------------- MODULE MCMcpExchange ----------------------------
(***************************************************************************)
(* Instances of McpExchange.                                               *)
(***************************************************************************)
EXTENDS McpExchange
=============================================================================
