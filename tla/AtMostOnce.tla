----------------------------- MODULE AtMostOnce -----------------------------
(***************************************************************************)
(* What a tool that changes something upstream promises its caller: a call  *)
(* takes effect at most once, a success is reported only after it did, and  *)
(* a refused call never does.  A failure promises nothing: the effect may   *)
(* have happened, or may still happen, since the request may be on its way. *)
(***************************************************************************)
CONSTANT Calls

VARIABLES
  outcome, (* per call: "none" until it is answered                         *)
  effects  (* per call: how often it took effect                            *)

vars == <<outcome, effects>>

Outcomes == {"none", "ok", "failed", "refused"}

Init ==
  /\ outcome = [c \in Calls |-> "none"]
  /\ effects = [c \in Calls |-> 0]

TakeEffect(c) ==
  /\ outcome[c] \in {"none", "failed"}
  /\ effects[c] = 0
  /\ effects' = [effects EXCEPT ![c] = 1]
  /\ UNCHANGED outcome

Succeed(c) ==
  /\ outcome[c] = "none"
  /\ effects[c] = 1
  /\ outcome' = [outcome EXCEPT ![c] = "ok"]
  /\ UNCHANGED effects

Fail(c) ==
  /\ outcome[c] = "none"
  /\ outcome' = [outcome EXCEPT ![c] = "failed"]
  /\ UNCHANGED effects

Refuse(c) ==
  /\ outcome[c] = "none"
  /\ effects[c] = 0
  /\ outcome' = [outcome EXCEPT ![c] = "refused"]
  /\ UNCHANGED effects

Next == \E c \in Calls : TakeEffect(c) \/ Succeed(c) \/ Fail(c) \/ Refuse(c)

Spec == Init /\ [][Next]_vars
=============================================================================
