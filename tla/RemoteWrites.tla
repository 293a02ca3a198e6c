---------------------------- MODULE RemoteWrites ----------------------------
(***************************************************************************)
(* The tools that change something upstream: create_silence and             *)
(* expire_silence of alertmanagermcp, set_state and call_service of hamcp.  *)
(* Each call is one HTTP request, sent once.  The request or its answer may *)
(* be lost or late, redirected or refused; the call may give up while the   *)
(* request is still on its way.  A caller who tries again makes a new call. *)
(*                                                                          *)
(* A silence is known by the call that created it.  It ending at its        *)
(* ends_at is left out.                                                     *)
(*                                                                          *)
(* X_variant, next to X, is a deliberately faulty variant of X.             *)
(***************************************************************************)
EXTENDS RestReplies

CONSTANTS
  Calls,     (* the calls made                                              *)
  Tool,      (* the tool of each                                            *)
  Redirects, (* the redirect statuses upstreams answer with                 *)
  MaxHops    (* reqwest gives up after this many                            *)

Tools == {"create_silence", "expire_silence", "set_state", "call_service"}

ASSUME ToolAssumption == Tool \in [Calls -> Tools]
ASSUME RedirectAssumption == Redirects \subseteq {301, 302, 303, 307, 308}
ASSUME HopAssumption == MaxHops \in Nat

VARIABLES
  gate,    (* ALERTMANAGER_ALLOW_SILENCE                                    *)
  pc,      (* per call: "idle", "connect", "sent" or "done"                 *)
  target,  (* of an expire_silence: the silence it names                    *)
  method,  (* the method of its latest request                              *)
  hops,    (* redirects followed                                            *)
  wire,    (* whether that request is on its way to the upstream            *)
  reply,   (* its answer, once it is back                                   *)
  result,  (* of the call                                                   *)
  effects, (* how often the upstream carried the call out                   *)
  silence  (* per call: the silence it created                              *)

callVars == <<pc, target, method, hops, wire, reply, result>>
upstream == <<effects, silence>>
vars == <<gate, callVars, upstream>>

NoReply == [status |-> 0, body |-> "empty"]
Pending == [ok |-> FALSE, what |-> "pending"]
SilenceTools == {"create_silence", "expire_silence"}

TypeOK ==
  /\ gate \in BOOLEAN
  /\ pc \in [Calls -> {"idle", "connect", "sent", "done"}]
  /\ target \in [Calls -> Calls]
  /\ method \in [Calls -> {"GET", "POST", "DELETE"}]
  /\ hops \in [Calls -> 0..MaxHops]
  /\ wire \in [Calls -> BOOLEAN]
  /\ reply \in [Calls -> [status : {0, 200, 400, 404, 502}, body : Bodies]]
  /\ result \in [Calls -> Results \cup {Pending}]
  /\ effects \in [Calls -> 0..1]
  /\ silence \in [Calls -> {"none", "active", "expired"}]

-----------------------------------------------------------------------------
\* How the client method behind a tool reads an answer.
Reading(tool, r) ==
  CASE tool = "create_silence" -> am_post_json(r)
    [] tool = "expire_silence" -> am_delete(r)
    [] tool = "set_state" -> ha_json(r)
    [] tool = "call_service" -> ha_call_service(r)

Method(tool) == IF tool = "expire_silence" THEN "DELETE" ELSE "POST"

\* The method of the request a redirect leads to (reqwest).
RedirectedMethod(status, m) ==
  IF status = 303 \/ (status \in {301, 302} /\ m = "POST") THEN "GET" ELSE m

\* The silence tools exist only behind the gate.
Registered_always(tool) == TRUE
Registered(tool) == tool \in SilenceTools => gate

End(c, res) ==
  /\ result' = [result EXCEPT ![c] = res]
  /\ pc' = [pc EXCEPT ![c] = "done"]

-----------------------------------------------------------------------------
Init ==
  /\ gate \in BOOLEAN
  /\ pc = [c \in Calls |-> "idle"]
  /\ target = [c \in Calls |-> c]
  /\ method = [c \in Calls |-> Method(Tool[c])]
  /\ hops = [c \in Calls |-> 0]
  /\ wire = [c \in Calls |-> FALSE]
  /\ reply = [c \in Calls |-> NoReply]
  /\ result = [c \in Calls |-> Pending]
  /\ effects = [c \in Calls |-> 0]
  /\ silence = [c \in Calls |-> "none"]

\* A call arrives; an expire_silence names any silence there is, or none there is.
Invoke(c) ==
  /\ pc[c] = "idle"
  /\ Registered(Tool[c])
  /\ \E d \in Calls :
       /\ Tool[c] = "expire_silence" \/ d = c
       /\ target' = [target EXCEPT ![c] = d]
  /\ pc' = [pc EXCEPT ![c] = "connect"]
  /\ UNCHANGED <<gate, method, hops, wire, reply, result, upstream>>

Refuse_afterSending(c) ==
  /\ pc[c] = "idle"
  /\ wire' = [wire EXCEPT ![c] = TRUE]
  /\ End(c, Err("invalid_argument"))
  /\ UNCHANGED <<gate, target, method, hops, reply, upstream>>

\* It is refused before any request: the tool does not exist, no matcher is
\* given, or an argument is no path segment.
Refuse(c) ==
  /\ pc[c] = "idle"
  /\ End(c, Err("invalid_argument"))
  /\ UNCHANGED <<gate, target, method, hops, wire, reply, upstream>>

Send(c) ==
  /\ pc[c] = "connect"
  /\ pc' = [pc EXCEPT ![c] = "sent"]
  /\ wire' = [wire EXCEPT ![c] = TRUE]
  /\ UNCHANGED <<gate, target, method, hops, reply, result, upstream>>

GiveUp_resends(c) ==
  /\ pc[c] = "sent"
  /\ hops[c] < MaxHops
  /\ hops' = [hops EXCEPT ![c] = @ + 1]
  /\ pc' = [pc EXCEPT ![c] = "connect"]
  /\ UNCHANGED <<gate, target, method, wire, reply, result, upstream>>

\* The connection fails or a timeout runs out, wherever the request is.
GiveUp(c) ==
  /\ pc[c] \in {"connect", "sent"}
  /\ End(c, Err("transport"))
  /\ UNCHANGED <<gate, target, method, hops, wire, reply, upstream>>

Finish(c) ==
  /\ pc[c] = "sent"
  /\ reply[c] # NoReply
  /\ End(c, Reading(Tool[c], reply[c]))
  /\ UNCHANGED <<gate, target, method, hops, wire, reply, upstream>>

-----------------------------------------------------------------------------
(* The network and the upstreams.                                          *)

\* An answer reaches a call that still waits, or is lost.
Back(c, answers) ==
  /\ wire' = [wire EXCEPT ![c] = FALSE]
  /\ \/ pc[c] = "sent" /\ \E r \in answers : reply' = [reply EXCEPT ![c] = r]
     \/ UNCHANGED reply

\* What may come back for a request that was carried out: the upstream's answer,
\* or that of a proxy that lost patience with it.
Carried == [status : {200}, body : Bodies] \cup [status : {502}, body : {"text", "empty"}]
Declined == [status : {400, 404, 502}, body : {"text", "error", "broken"}]

\* Whether the upstream changes anything for this request.
Works(c) ==
  /\ method[c] # "GET"
  /\ Tool[c] = "expire_silence" => silence[target[c]] = "active"

CarryOut(c) ==
  /\ wire[c] /\ Works(c)
  /\ effects' = [effects EXCEPT ![c] = @ + 1]
  /\ silence' = CASE Tool[c] = "create_silence" -> [silence EXCEPT ![c] = "active"]
                  [] Tool[c] = "expire_silence" -> [silence EXCEPT ![target[c]] = "expired"]
                  [] OTHER -> silence
  /\ Back(c, Carried)
  /\ UNCHANGED <<gate, pc, target, method, hops, result>>

\* A read that a redirect made of a write is answered; nothing changes.
OnlyRead(c) ==
  /\ wire[c] /\ method[c] = "GET"
  /\ Back(c, [status : {200}, body : {"bare"}])
  /\ UNCHANGED <<gate, pc, target, method, hops, result, upstream>>

Decline(c) ==
  /\ wire[c]
  /\ Back(c, Declined)
  /\ UNCHANGED <<gate, pc, target, method, hops, result, upstream>>

\* A redirect reaches a waiting call, which follows it, or gives up after MaxHops.
Redirect(c) ==
  /\ wire[c] /\ pc[c] = "sent"
  /\ wire' = [wire EXCEPT ![c] = FALSE]
  /\ IF hops[c] = MaxHops THEN End(c, Err("transport")) /\ UNCHANGED <<hops, method>>
     ELSE \E status \in Redirects :
            /\ hops' = [hops EXCEPT ![c] = @ + 1]
            /\ method' = [method EXCEPT ![c] = RedirectedMethod(status, @)]
            /\ pc' = [pc EXCEPT ![c] = "connect"]
            /\ UNCHANGED result
  /\ UNCHANGED <<gate, target, reply, upstream>>

Client(c) == Invoke(c) \/ Refuse(c) \/ Send(c) \/ GiveUp(c) \/ Finish(c)
Upstream(c) == CarryOut(c) \/ OnlyRead(c) \/ Decline(c) \/ Redirect(c)
Next == \E c \in Calls : Client(c) \/ Upstream(c)

Spec == Init /\ [][Next]_vars

-----------------------------------------------------------------------------
(* Properties.                                                             *)

\* A call whose request still is the write it was: a redirect may turn it into
\* a read, whose answer then says nothing of the write (see ReportIsTrue).
Kept(c) == method[c] # "GET"

\* A reported success happened: the silence was created or expired, the state
\* set, the service called, once (ensure_success, and nothing sent again).
OkHadEffect == \A c \in Calls : result[c].ok /\ Kept(c) => effects[c] = 1

\* The comment on ensure_success: a silence that was never created is not
\* reported created, whatever came between the request and Alertmanager.
ReportIsTrue == \A c \in Calls : result[c].ok => effects[c] = 1

\* A call the server refuses, or the upstream answers with a 4xx, has changed
\* nothing and will not: its request is not on its way either.
RefusalIsFinal ==
  \A c \in Calls :
    result[c].what \in {"invalid_argument", "bad_request"} \/ reply[c].status \in 400..499 =>
      effects[c] = 0 /\ ~wire[c]

\* A silence that was reported created stands until someone expires it.
SilenceStands ==
  \A c \in Calls :
    Tool[c] = "create_silence" /\ result[c].ok /\ Kept(c) =>
      \/ silence[c] = "active"
      \/ \E e \in Calls : Tool[e] = "expire_silence" /\ target[e] = c /\ pc[e] # "idle"

\* One that was reported expired is, and no step brings an expired one back.
ReportedExpired ==
  \A c \in Calls :
    Tool[c] = "expire_silence" /\ result[c].ok /\ Kept(c) => silence[target[c]] = "expired"

\* What is reported of a silence is true of Alertmanager.
SilencesAsReported == SilenceStands /\ ReportedExpired

\* Without ALERTMANAGER_ALLOW_SILENCE no silence is ever made or ended.
GateHolds == ~gate => \A c \in Calls : silence[c] = "none"

\* What a call's result is worth: one for a read promises no more than a failure.
outcome ==
  [c \in Calls |-> IF pc[c] # "done" THEN "none"
                   ELSE IF result[c].ok /\ Kept(c) THEN "ok"
                   ELSE IF result[c].what = "invalid_argument" THEN "refused" ELSE "failed"]

Promise == INSTANCE AtMostOnce

\* Every tool that changes something keeps the promise of AtMostOnce: each step
\* of the calls is a step of it or changes nothing a caller could tell.
KeepsPromise == Promise!Spec
=============================================================================
