--------------------------- MODULE ReadOnlyQueries ---------------------------
(***************************************************************************)
(* What the Postgres server promises a caller of `run_query`, said without  *)
(* pool, transaction or network: a call is pending until it is answered or  *)
(* refused, only a statement that reads is answered, and nothing a call     *)
(* does reaches the database.                                               *)
(***************************************************************************)
CONSTANTS
  Calls,       (* the tool calls in flight                                  *)
  Statements,  (* the kinds of SQL a caller may send                        *)
  Readable     (* those that read, and finish                               *)

VARIABLES
  status,      (* per call: "idle", "pending", "answered" or "refused"      *)
  request,     (* per call: the statement it sent                           *)
  contents     (* what calls have changed in the database                   *)

vars == <<status, request, contents>>

Init ==
  /\ status = [c \in Calls |-> "idle"]
  /\ request \in [Calls -> Statements]
  /\ contents = {}

Submit(c) ==
  /\ status[c] = "idle"
  /\ status' = [status EXCEPT ![c] = "pending"]
  /\ UNCHANGED <<request, contents>>

Answer(c) ==
  /\ status[c] = "pending"
  /\ request[c] \in Readable
  /\ status' = [status EXCEPT ![c] = "answered"]
  /\ UNCHANGED <<request, contents>>

Refuse(c) ==
  /\ status[c] = "pending"
  /\ status' = [status EXCEPT ![c] = "refused"]
  /\ UNCHANGED <<request, contents>>

Next == \E c \in Calls : Submit(c) \/ Answer(c) \/ Refuse(c)

Spec == Init /\ [][Next]_vars
==============================================================================
