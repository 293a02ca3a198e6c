------------------------------ MODULE RestCalls ------------------------------
(***************************************************************************)
(* A tool call of one of the REST servers, from its arguments to its        *)
(* result: arguments are checked, requests built (RestTools), sent, followed *)
(* through redirects, bounded by HttpTimeouts, and their answers read       *)
(* (RestReplies).  Calls share nothing but the client, which keeps no state, *)
(* so one call of any server stands for all of them.                        *)
(*                                                                          *)
(* The upstream may refuse, stay silent, redirect, break off or answer      *)
(* anything.  An argument value that ends up in a path is one of a few      *)
(* kinds, by what it does to the path; all others are "plain".              *)
(*                                                                          *)
(* X_variant, next to X, is a deliberately faulty variant of X; README.md   *)
(* says which property each one breaks.                                     *)
(***************************************************************************)
EXTENDS RestTools, RestReplies, SequencesExt

CONSTANTS
  Servers,    (* the servers looked at                                     *)
  PathValues, (* the kinds of values given for path arguments              *)
  NameSets,   (* which argument names are given: see Given                 *)
  Statuses,   (* the statuses upstreams answer with                        *)
  Redirects,  (* the redirect statuses they answer with                    *)
  MaxHops,    (* reqwest gives up after this many redirects                *)
  Settings,   (* the values of *_TIMEOUT_SECS and *_CONNECT_TIMEOUT_SECS   *)
  Library     (* whether HaClient's methods that no tool uses are called   *)

ASSUME ServerAssumption == Servers \subseteq {"prom", "loki", "pbs", "tempo", "am", "ha", "wp"}
ASSUME ValueAssumption == PathValues \subseteq {"plain", "slash", "empty", "dot", "dotdot"}
ASSUME SettingAssumption == Settings \subseteq {"unset", "blank", "zero", "junk", "secs"}
ASSUME StatusAssumption == Statuses \cup Redirects \subseteq 100..999
ASSUME HopAssumption == MaxHops \in Nat

VARIABLES
  server,   (* the server                                                   *)
  gate,     (* ALERTMANAGER_ALLOW_SILENCE                                   *)
  timeouts, (* its HttpTimeouts                                             *)
  tool,     (* the tool called                                              *)
  args,     (* the arguments given: name to kind of value                   *)
  pc,       (* "idle", "connect", "sent", "read" or "done"                  *)
  method,   (* method of the request under way                              *)
  hops,     (* redirects followed for it                                    *)
  heard,    (* what the upstream was asked first, for each request          *)
  reply,    (* the answer to the request under way                          *)
  parts,    (* results of the requests so far                               *)
  result    (* of the call                                                  *)

vars == <<server, gate, timeouts, tool, args, pc, method, hops, heard, reply, parts, result>>

NoReply == [status |-> 0, body |-> "empty"]
Pending == [ok |-> FALSE, what |-> "pending"]

-----------------------------------------------------------------------------
(* HttpTimeouts.                                                           *)

from_lookup_zeroMeansNone(raw) ==
  CASE raw \in {"unset", "blank"} -> "default"
    [] raw = "zero" -> "unbounded"
    [] raw = "secs" -> "bounded"
    [] raw = "junk" -> "refused"

\* Unset or empty is the default, zero and anything but whole seconds is refused.
from_lookup(raw) ==
  CASE raw \in {"unset", "blank"} -> "default"
    [] raw \in {"zero", "junk"} -> "refused"
    [] raw = "secs" -> "bounded"

\* hamcp reads no setting: ten seconds for connecting and for the whole request.
Timeouts(s) ==
  IF s = "ha" THEN {[request |-> "bounded", connect |-> "bounded"]}
  ELSE {t \in [request : {from_lookup(raw) : raw \in Settings},
               connect : {from_lookup(raw) : raw \in Settings}] :
        t.request # "refused" /\ t.connect # "refused"}

\* Which phases of a request the built client bounds.
http_client_builder(t) ==
  [connect |-> t.connect # "unbounded" \/ t.request # "unbounded",
   request |-> t.request # "unbounded"]

-----------------------------------------------------------------------------
(* Tools and arguments.                                                    *)

ToolsOf(s, g) ==
  CASE s = "prom" -> PromTools
    [] s = "loki" -> LokiTools
    [] s = "pbs" -> PbsTools
    [] s = "tempo" -> TempoTools
    [] s = "am" -> AlertTools(g)
    [] s = "ha" -> IF Library THEN Both(HaTools, Both(HaDelete, Both(HaEvents, HaRaw))) ELSE HaTools
    [] s = "wp" -> WpTools

Declared == ToolsOf(server, gate)[tool].params

\* The sets of names a caller may give for a tool's parameters p.
Given(p) ==
  LET all == p.required \cup p.optional IN
  UNION {CASE k = "required" -> {p.required}
           [] k = "all" -> {all}
           [] k = "one" -> {p.required \cup {n} : n \in p.optional}
           [] k = "missing" -> {all \ {n} : n \in p.required}
           [] k = "misspelt" -> {p.required \cup {"misspelt"}} : k \in NameSets}

deserialize_lax(p, names) == p.required \subseteq names

\* deny_unknown_fields: exactly the declared names are understood.
deserialize(p, names) ==
  p.required \subseteq names /\ names \subseteq p.required \cup p.optional

PathNames(path) == {path[i][2] : i \in {j \in DOMAIN path : path[j][1] = "argument"}}

\* The request of a tool given these names: get_history has two paths.
RequestOf(s, t, names) ==
  IF s = "ha" /\ t = "get_history" /\ "start_time" \in names
  THEN HistoryFrom ELSE ToolsOf(s, gate)[t]

Requests == IF server = "tempo" /\ tool = "status" THEN TempoStatus
            ELSE <<RequestOf(server, tool, DOMAIN args)>>
Current == Requests[Len(parts) + 1]

-----------------------------------------------------------------------------
(* URLs.  A filled piece is <<kind, value>>: "text" stands as written.      *)

path_segment_encodesDots(v) == <<"encoded", v>>

\* Percent-encoded as one segment, or refused.
path_segment(v) ==
  IF v \in {"empty", "dot", "dotdot"} THEN <<"refused", v>> ELSE <<"encoded", v>>

Fill(piece, given) ==
  CASE piece[1] = "literal" -> <<"text", piece[2]>>
    [] piece[1] = "number" -> <<"text", given[piece[2]]>>
    [] piece[1] = "argument" -> path_segment(given[piece[2]])

Refused(path, given) == \E i \in DOMAIN path : Fill(path[i], given)[1] = "refused"

\* A filled piece to the URL parser, behind the segments in done: a raw slash
\* splits it, an empty one is an empty segment, and dots are dots however spelt.
Walk(done, f) ==
  CASE f[1] = "raw" /\ f[2] = "slash" -> done \o <<"plain", "plain">>
    [] f[1] # "text" /\ f[2] = "empty" -> Append(done, "")
    [] f[1] # "text" /\ f[2] = "dot" -> done
    [] f[1] # "text" /\ f[2] = "dotdot" -> IF done = <<>> THEN done ELSE Front(done)
    [] OTHER -> Append(done, f[2])

\* The path as it goes over the wire, dot segments resolved, each segment decoded.
Wire(path, given) ==
  LET upTo[i \in 0..Len(path)] ==
        IF i = 0 THEN <<>> ELSE Walk(upTo[i - 1], Fill(path[i], given))
  IN  upTo[Len(path)]

query_of(req, names) ==
  {req.query[n] : n \in (names \cap DOMAIN req.query) \cup req.defaulted}

Heard(req) == [nth |-> Len(parts) + 1, method |-> req.method, path |-> Wire(req.path, args),
               query |-> query_of(req, DOMAIN args), body |-> req.body \cap DOMAIN args]

-----------------------------------------------------------------------------
\* How the client reads the answer r to the request under way.
Reading(r) ==
  CASE server = "prom" -> prom_get(r)
    [] server = "loki" -> loki_get(r)
    [] server = "pbs" -> pbs_get(r)
    [] server = "wp" -> wp_get(r)
    [] server = "tempo" ->
         CASE tool = "trace" -> tempo_get_json_or_404(r)
           [] tool = "status" /\ Len(parts) < 2 -> tempo_get_text(r)
           [] OTHER -> tempo_get_json(r)
    [] server = "am" ->
         CASE tool = "create_silence" -> am_post_json(r)
           [] tool = "expire_silence" -> am_delete(r)
           [] OTHER -> am_get(r)
    [] server = "ha" ->
         CASE tool = "health_check" -> ha_check_health(r)
           [] tool \in {"get_config", "get_entity"} -> ha_json_or_404(r)
           [] tool = "call_service" -> ha_call_service(r)
           [] tool = "render_template" -> ha_render_template(r)
           [] tool = "delete_state" -> ha_delete_state(r)
           [] tool \in {"get_error_log", "get_camera_image"} -> ha_body_or_404(r)
           [] OTHER -> ha_json(r)

\* The method of the request a redirect leads to (reqwest).
RedirectedMethod(status, m) ==
  IF status = 303 \/ (status \in {301, 302} /\ m = "POST") THEN "GET" ELSE m

Answer(res) ==
  /\ result' = res
  /\ pc' = "done"
  /\ UNCHANGED parts

\* A request is over.  `status` of tempomcp fails with its first request only
\* and reports the others; every other call is its one request.
Over(res) ==
  IF server = "tempo" /\ tool = "status" /\ (parts # <<>> \/ res.ok)
  THEN /\ parts' = Append(parts, res)
       /\ IF Len(parts) + 1 < Len(TempoStatus)
          THEN pc' = "connect" /\ method' = "GET" /\ hops' = 0 /\ UNCHANGED result
          ELSE pc' = "done" /\ result' = Ok("document") /\ UNCHANGED <<method, hops>>
  ELSE Answer(res) /\ UNCHANGED <<method, hops>>

-----------------------------------------------------------------------------
Init ==
  /\ server \in Servers
  /\ gate \in IF server = "am" THEN BOOLEAN ELSE {FALSE}
  /\ timeouts \in Timeouts(server)
  /\ tool \in DOMAIN ToolsOf(server, gate)
  /\ args = <<>>
  /\ pc = "idle"
  /\ method = "GET"
  /\ hops = 0
  /\ heard = <<>>
  /\ reply = NoReply
  /\ parts = <<>>
  /\ result = Pending

\* The call arrives.  Arguments that do not deserialize, a value the tool
\* itself refuses, or one that is no path segment ends it before any request.
Invoke ==
  /\ pc = "idle"
  /\ \E names \in Given(Declared) :
       LET req == RequestOf(server, tool, names)
           paths == PathNames(req.path) \cap names
       IN
       \E vs \in [paths -> PathValues], refused \in {FALSE, req.checked} :
         LET given == [n \in names |-> IF n \in paths THEN vs[n] ELSE "plain"] IN
         /\ args' = given
         /\ IF ~deserialize(Declared, names) \/ refused \/ Refused(req.path, given)
            THEN Answer(Err("invalid_argument")) /\ UNCHANGED method
            ELSE pc' = "connect" /\ method' = req.method /\ UNCHANGED <<parts, result>>
  /\ UNCHANGED <<server, gate, timeouts, tool, hops, heard, reply>>

\* The request reaches the upstream.
Send ==
  /\ pc = "connect"
  /\ pc' = "sent"
  /\ heard' = IF hops = 0 THEN Append(heard, Heard(Current)) ELSE heard
  /\ UNCHANGED <<server, gate, timeouts, tool, args, method, hops, reply, parts, result>>

\* Nothing listens, the name does not resolve, TLS fails, the connection breaks.
SendFails ==
  /\ pc \in {"connect", "sent"}
  /\ Over(Err("transport"))
  /\ UNCHANGED <<server, gate, timeouts, tool, args, heard, reply>>

\* The upstream answers with a redirect, which is followed or one too many.
Redirect ==
  /\ pc = "sent"
  /\ \E status \in Redirects :
       IF hops = MaxHops THEN Over(Err("transport"))
       ELSE /\ hops' = hops + 1
            /\ method' = RedirectedMethod(status, method)
            /\ pc' = "connect"
            /\ UNCHANGED <<parts, result>>
  /\ UNCHANGED <<server, gate, timeouts, tool, args, heard, reply>>

\* It answers; the body is still to be read.
Respond ==
  /\ pc = "sent"
  /\ \E status \in Statuses, body \in Bodies : reply' = [status |-> status, body |-> body]
  /\ pc' = "read"
  /\ UNCHANGED <<server, gate, timeouts, tool, args, method, hops, heard, parts, result>>

Finish ==
  /\ pc = "read"
  /\ Over(Reading(reply))
  /\ UNCHANGED <<server, gate, timeouts, tool, args, heard, reply>>

\* A bound on the request runs out: while connecting, waiting or reading.
TimesOut ==
  /\ \/ pc = "connect" /\ http_client_builder(timeouts).connect
     \/ pc \in {"sent", "read"} /\ http_client_builder(timeouts).request
  /\ reply' = [reply EXCEPT !.body = "broken"]
  /\ Over(IF pc = "read" THEN Reading(reply') ELSE Err("transport"))
  /\ UNCHANGED <<server, gate, timeouts, tool, args, heard>>

Next == Invoke \/ Send \/ SendFails \/ Redirect \/ Respond \/ Finish \/ TimesOut

Spec == Init /\ [][Next]_vars
\* Timers fire; nothing is assumed of callers, the network or the upstream.
FairSpec == Spec /\ WF_vars(TimesOut)
-----------------------------------------------------------------------------
(* Properties.                                                             *)

\* The path a caller means: each argument one whole segment, as it was given.
Meant(path) ==
  [i \in DOMAIN path |-> IF path[i][1] = "literal" THEN path[i][2] ELSE args[path[i][2]]]

\* Whatever is given for an identifier, the upstream is asked at the tool's own
\* endpoint, with that identifier as one segment of the path: no value moves
\* the request to another endpoint (path_segment, and every `format!` of a path).
OwnEndpoint ==
  \A i \in DOMAIN heard :
    LET req == Requests[heard[i].nth] IN
    /\ heard[i].method = req.method
    /\ heard[i].path = Meant(req.path)

\* The arguments a path is filled with.
InPath(path) == {path[i][2] : i \in {j \in DOMAIN path : path[j][1] # "literal"}}

\* Once the upstream was asked, every argument given took part: it was in the
\* path, the query or the body, or is used on the answer, and no two arguments
\* shared a key.  A misspelt filter is refused, not ignored (deny_unknown_fields).
NoArgumentDropped ==
  heard # <<>> =>
    LET req == Requests[1] IN
    /\ DOMAIN args \subseteq InPath(req.path) \cup DOMAIN req.query \cup req.body \cup req.local
    /\ {req.query[n] : n \in DOMAIN args \cap DOMAIN req.query} \subseteq heard[1].query
    /\ \A m, n \in DOMAIN req.query : req.query[m] = req.query[n] => m = n
    /\ DOMAIN args \cap req.body \subseteq heard[1].body

\* Tools of different servers may share a name.
Of(s, names) == server = s /\ tool \in names

\* The body of a successful answer has to be read to the end to be worth
\* something, except where nothing of it is used.
Usable(r) ==
  /\ is_success(r.status)
  /\ r.body # "broken" \/ Of("am", {"expire_silence"}) \/ Of("ha", {"delete_state"})
  /\ server \in {"prom", "loki"} => r.body # "error"
  /\ Of("ha", {"health_check"}) => r.status = 200

\* Methods of HaClient that look at no status but 404; no tool calls them.
LibraryOnly == Of("ha", {"delete_state", "get_error_log", "get_camera_image"})

\* A call is a success only if the upstream said so: a failure status, an error
\* envelope or half a body never becomes data, null or "nothing_changed".
\* tempomcp's status answers for its first probe and reports the other two; the
\* methods that only the library offers pass on any status but 404.
NoFailureAsSuccess ==
  result.ok =>
    IF Of("tempo", {"status"})
    THEN Len(parts) = Len(TempoStatus) /\ parts[1].ok
    ELSE Usable(reply) \/ (LibraryOnly /\ reply.status # 404)

\* The cause a caller is told is the one there was: "not_found" is a 404,
\* a refused argument was never sent, and a failure status that arrived is not
\* hidden behind the decoding of its body.
CauseIsTrue ==
  pc = "done" /\ ~result.ok =>
    /\ result.what = "invalid_argument" => heard = <<>>
    /\ heard = <<>> => result.what \in {"invalid_argument", "transport"}
    /\ result.what = "not_found" => reply.status = 404
    /\ result.what \in {"status", "template", "unhealthy", "bad_request"} =>
         reply.status # 0 /\ (~is_success(reply.status) \/ Of("ha", {"health_check"}))
    /\ result.what = "syntax" => is_success(reply.status)
    /\ Of("tempo", {"trace"}) \/ Of("ha", {"get_entity", "get_config"}) =>
         (reply.status = 404 /\ result.what # "transport" => result.what = "not_found")

\* Every call is answered, whatever the upstream does or fails to do: every
\* phase of a request is under a bound, whatever the *_TIMEOUT_SECS are.
EveryCallAnswered == pc # "idle" ~> pc = "done"
=============================================================================
