--------------------------- MODULE RestCallsProofs ---------------------------
(***************************************************************************)
(* Proofs about RestCalls for any statuses, redirects, hops and settings:   *)
(* what a caller is told of a call is what came of it, and what an upstream *)
(* is asked is what the caller meant.                                       *)
(***************************************************************************)
EXTENDS RestCalls, WellFoundedInduction, TLAPS

ServerType == server \in {"prom", "loki", "pbs", "tempo", "am", "ha", "wp"}

\* Status 0 stands for no answer yet.
ReplyType == reply \in [status : {0} \cup (100..999), body : Bodies]

\* An answer comes after a question.
HeardFirst ==
  /\ heard \in Seq({heard[i] : i \in DOMAIN heard})
  /\ pc = "idle" => heard = <<>>
  /\ pc \in {"sent", "read"} \/ hops # 0 => heard # <<>>
  /\ pc = "read" => reply.status # 0
  /\ reply.status # 0 => heard # <<>>

StatusProbe == Of("tempo", {"status"})

\* Only `status` of tempomcp collects parts, and only after its first succeeded.
PartsKept ==
  /\ parts \in Seq(Results)
  /\ parts # <<>> => StatusProbe /\ parts[1].ok
  /\ pc # "done" => Len(parts) < Len(TempoStatus)

\* Where the result of a call comes from.
Outcome ==
  /\ pc # "done" => result = Pending
  /\ pc = "done" =>
       \/ result = Err("invalid_argument") /\ heard = <<>>
       \/ result = Err("transport")
       \/ reply.status # 0 /\ result = Reading(reply) /\ (StatusProbe => ~result.ok)
       \/ StatusProbe /\ Len(parts) = Len(TempoStatus) /\ result = Ok("document")

CallInv == ServerType /\ ReplyType /\ HeardFirst /\ PartsKept /\ Outcome

-----------------------------------------------------------------------------
(* What the clients make of an answer (RestReplies).                       *)

\* What a failure says of the answer r it was read from.
CauseOf(r, cause) ==
  /\ cause # "invalid_argument"
  /\ cause = "not_found" => r.status = 404
  /\ cause \in {"status", "template", "unhealthy", "bad_request"} =>
       ~is_success(r.status) \/ Of("ha", {"health_check"})
  /\ cause = "syntax" => is_success(r.status)
  /\ Of("tempo", {"trace"}) \/ Of("ha", {"get_entity", "get_config"}) =>
       (r.status = 404 /\ cause # "transport" => cause = "not_found")

\* A reading of the answer r that neither hides a failure nor misnames one.
TrueReading(r, res) ==
  /\ res \in Results
  /\ res.ok /\ ~StatusProbe => Usable(r) \/ (LibraryOnly /\ r.status # 404)
  /\ ~res.ok => CauseOf(r, res.what)

Replies == [status : {0} \cup (100..999), body : Bodies]

\* A success and a failure, as results.
LEMMA ResultForms ==
  /\ \A v \in Values : Ok(v) \in Results /\ Ok(v).ok /\ Ok(v).what = v
  /\ \A c \in Causes : Err(c) \in Results /\ ~Err(c).ok /\ Err(c).what = c
BY DEF Results, Ok, Err

\* prommcp's and lokimcp's envelopes.
LEMMA EnvelopeReads ==
  ASSUME NEW r \in Replies, ServerType
  PROVE  /\ server = "prom" => TrueReading(r, prom_get(r))
         /\ server = "loki" => TrueReading(r, loki_get(r))
<1>1. r.body \in Bodies /\ r.status \in Nat
  BY DEF Replies
<1>2. server = "prom" => TrueReading(r, prom_get(r))
  BY <1>1, ResultForms DEF TrueReading, prom_get, unwrap_data, Usable, CauseOf, Of, ServerType, StatusProbe,
     Bodies, Values, Causes
<1>3. server = "loki" => TrueReading(r, loki_get(r))
  BY <1>1, ResultForms DEF TrueReading, loki_get, unwrap_data, Json, Usable, CauseOf, Of, ServerType, StatusProbe,
     Bodies, Values, Causes
<1>. QED BY <1>2, <1>3

\* pbsmcp and wpmcp, whose status decides.
LEMMA StatusReads ==
  ASSUME NEW r \in Replies, ServerType
  PROVE  /\ server = "pbs" => TrueReading(r, pbs_get(r))
         /\ server = "wp" => TrueReading(r, wp_get(r))
<1>1. r.body \in Bodies /\ r.status \in Nat
  BY DEF Replies
<1>2. server = "pbs" => TrueReading(r, pbs_get(r))
  BY <1>1, ResultForms DEF TrueReading, pbs_get, pbs_get_json, parsed, Json, unwrap_data, Usable, CauseOf, Of,
     ServerType, StatusProbe, Bodies, Values, Causes
<1>3. server = "wp" => TrueReading(r, wp_get(r))
  BY <1>1, ResultForms DEF TrueReading, wp_get, parsed, Json, Usable, CauseOf, Of, ServerType, StatusProbe,
     Bodies, Values, Causes
<1>. QED BY <1>2, <1>3

\* tempomcp, for each of its three readings.
LEMMA TempoReads ==
  ASSUME NEW r \in Replies, ServerType, server = "tempo"
  PROVE  /\ tool = "trace" => TrueReading(r, tempo_get_json_or_404(r))
         /\ StatusProbe => TrueReading(r, tempo_get_text(r))
         /\ tool # "trace" => TrueReading(r, tempo_get_json(r))
<1>1. r.body \in Bodies /\ r.status \in Nat
  BY DEF Replies
<1>2. 404 \notin 200..299
  OBVIOUS
<1>3. tool = "trace" => TrueReading(r, tempo_get_json_or_404(r))
  BY <1>1, <1>2, ResultForms DEF TrueReading, tempo_get_json_or_404, tempo_get_json, tempo_fetched, parsed,
     Json, Usable, CauseOf, Of, is_success, ServerType, StatusProbe, Bodies, Values, Causes
<1>4. StatusProbe => TrueReading(r, tempo_get_text(r))
  BY <1>1, ResultForms DEF TrueReading, tempo_get_text, tempo_fetched,
     Usable, CauseOf, Of, ServerType, StatusProbe, Bodies, Values, Causes
<1>5. tool # "trace" => TrueReading(r, tempo_get_json(r))
  BY <1>1, ResultForms DEF TrueReading, tempo_get_json, tempo_fetched, parsed,
     Json, Usable, CauseOf, Of, ServerType, StatusProbe, Bodies, Values, Causes
<1>. QED BY <1>3, <1>4, <1>5

\* alertmanagermcp: the status decides, whatever became of the body.
LEMMA AlertReads ==
  ASSUME NEW r \in Replies, ServerType, server = "am"
  PROVE  /\ TrueReading(r, am_get(r)) /\ TrueReading(r, am_post_json(r))
         /\ tool = "expire_silence" => TrueReading(r, am_delete(r))
<1>1. r.body \in Bodies /\ r.status \in Nat
  BY DEF Replies
<1>2. TrueReading(r, am_get(r))
  BY <1>1, ResultForms DEF TrueReading, am_get, am_ensure_success, parsed,
     Json, Usable, CauseOf, Of, ServerType, StatusProbe, Bodies, Values, Causes
<1>3. tool = "expire_silence" => TrueReading(r, am_delete(r))
  BY <1>1, ResultForms DEF TrueReading, am_delete, am_ensure_success,
     Usable, CauseOf, Of, ServerType, StatusProbe, Bodies, Values, Causes
<1>. QED BY <1>2, <1>3 DEF am_post_json

\* hamcp's tools.
LEMMA HaReads ==
  ASSUME NEW r \in Replies, ServerType, server = "ha"
  PROVE  /\ tool = "health_check" => TrueReading(r, ha_check_health(r))
         /\ tool \in {"get_config", "get_entity"} => TrueReading(r, ha_json_or_404(r))
         /\ tool \notin {"health_check", "get_config", "get_entity"} =>
              TrueReading(r, ha_json(r)) /\ TrueReading(r, ha_call_service(r))
              /\ TrueReading(r, ha_render_template(r))
<1>1. r.body \in Bodies /\ r.status \in Nat
  BY DEF Replies
<1>2. is_success(200) /\ ~is_success(400) /\ ~is_success(404)
  BY DEF is_success
<1>3. tool = "health_check" => TrueReading(r, ha_check_health(r))
  BY <1>1, <1>2, ResultForms DEF TrueReading, ha_check_health, ha_json, ha_ensure_success,
     Usable, CauseOf, Of, ServerType, StatusProbe, Bodies, Values, Causes
<1>4. tool \in {"get_config", "get_entity"} => TrueReading(r, ha_json_or_404(r))
  BY <1>1, <1>2, ResultForms DEF TrueReading, ha_json_or_404, ha_json, ha_ensure_success,
     Usable, CauseOf, Of, ServerType, StatusProbe, Bodies, Values, Causes
<1>5. tool \notin {"health_check", "get_config", "get_entity"} => TrueReading(r, ha_json(r))
  BY <1>1, <1>2, ResultForms DEF TrueReading, ha_json, ha_ensure_success,
     Usable, CauseOf, Of, ServerType, StatusProbe, Bodies, Values, Causes
<1>6. tool \notin {"health_check", "get_config", "get_entity"} => TrueReading(r, ha_call_service(r))
  BY <1>1, <1>2, ResultForms DEF TrueReading, ha_call_service, ha_ensure_success,
     Usable, CauseOf, Of, ServerType, StatusProbe, Bodies, Values, Causes
<1>7. tool \notin {"health_check", "get_config", "get_entity"} => TrueReading(r, ha_render_template(r))
  BY <1>1, <1>2, ResultForms DEF TrueReading, ha_render_template, ha_ensure_success,
     Usable, CauseOf, Of, ServerType, StatusProbe, Bodies, Values, Causes
<1>. QED BY <1>3, <1>4, <1>5, <1>6, <1>7

\* The methods of HaClient that no tool uses look at a 404 only.
LEMMA LibraryReads ==
  ASSUME NEW r \in Replies, ServerType, LibraryOnly
  PROVE  TrueReading(r, ha_delete_state(r)) /\ TrueReading(r, ha_body_or_404(r))
<1>1. r.body \in Bodies /\ r.status \in Nat
  BY DEF Replies
<1>. QED BY <1>1, ResultForms DEF TrueReading, ha_delete_state, ha_body_or_404, LibraryOnly,
     Usable, CauseOf, Of, ServerType, StatusProbe, Bodies, Values, Causes

\* No client hides a failure or misnames one, for any status and body.
LEMMA ReadingIsTrue ==
  ASSUME NEW r \in Replies, ServerType
  PROVE  TrueReading(r, Reading(r))
<1>1. CASE server \in {"prom", "loki"}
  BY <1>1, EnvelopeReads DEF Reading
<1>2. CASE server \in {"pbs", "wp"}
  BY <1>2, StatusReads DEF Reading
<1>3. CASE server = "tempo"
  <2>1. CASE tool = "trace"
    BY <1>3, <2>1, TempoReads DEF Reading
  <2>2. CASE tool = "status" /\ Len(parts) < 2
    BY <1>3, <2>2, TempoReads DEF Reading, StatusProbe, Of
  <2>3. CASE tool # "trace" /\ ~(tool = "status" /\ Len(parts) < 2)
    BY <1>3, <2>3, TempoReads DEF Reading
  <2>. QED BY <2>1, <2>2, <2>3
<1>4. CASE server = "am"
  <2>1. CASE tool = "create_silence"
    BY <1>4, <2>1, AlertReads DEF Reading
  <2>2. CASE tool = "expire_silence"
    BY <1>4, <2>2, AlertReads DEF Reading
  <2>3. CASE tool \notin {"create_silence", "expire_silence"}
    BY <1>4, <2>3, AlertReads DEF Reading
  <2>. QED BY <2>1, <2>2, <2>3
<1>5. CASE server = "ha"
  <2>1. CASE tool = "health_check"
    BY <1>5, <2>1, HaReads DEF Reading
  <2>2. CASE tool \in {"get_config", "get_entity"}
    BY <1>5, <2>2, HaReads DEF Reading
  <2>3. CASE tool \in {"call_service", "render_template"}
    BY <1>5, <2>3, HaReads DEF Reading
  <2>4. CASE LibraryOnly
    BY <1>5, <2>4, LibraryReads DEF Reading, LibraryOnly, Of
  <2>5. CASE tool \notin {"health_check", "get_config", "get_entity", "call_service", "render_template"}
             /\ ~LibraryOnly
    BY <1>5, <2>5, HaReads DEF Reading, LibraryOnly, Of
  <2>. QED BY <2>1, <2>2, <2>3, <2>4, <2>5
<1>. QED BY <1>1, <1>2, <1>3, <1>4, <1>5 DEF ServerType

-----------------------------------------------------------------------------
(* Every step keeps CallInv.                                               *)

\* `status` of tempomcp asks three times.
LEMMA ThreeProbes == Len(TempoStatus) = 3
BY DEF TempoStatus

LEMMA CallInit == Init => CallInv
<1>. SUFFICES ASSUME Init PROVE CallInv
  OBVIOUS
<1>1. ServerType
  BY ServerAssumption DEF Init, ServerType
<1>2. ReplyType
  BY DEF Init, ReplyType, NoReply, Bodies
<1>3. HeardFirst /\ PartsKept
  BY ThreeProbes DEF Init, HeardFirst, PartsKept, NoReply
<1>. QED BY <1>1, <1>2, <1>3 DEF CallInv, Outcome, Init

\* What has been asked stays asked, and one more is not nothing.
LEMMA OneMoreHeard ==
  ASSUME NEW S, NEW s \in Seq(S), NEW e
  PROVE  /\ Append(s, e) # <<>>
         /\ Append(s, e) \in Seq({Append(s, e)[i] : i \in DOMAIN Append(s, e)})
<1>1. Append(s, e) \in Seq(S \cup {e}) /\ Len(Append(s, e)) = Len(s) + 1 /\ Len(s) \in Nat
  <2>1. s \in Seq(S \cup {e})
    OBVIOUS
  <2>. QED BY <2>1
<1>. DEFINE t == Append(s, e)
<1>. HIDE DEF t
<1>2. t \in Seq(S \cup {e}) /\ Len(t) = Len(s) + 1 /\ Len(s) \in Nat
  BY <1>1 DEF t
<1>3. t # <<>> /\ t \in Seq({t[i] : i \in DOMAIN t})
  BY <1>2
<1>. QED BY <1>3 DEF t

\* How an answer is read depends on the tool and the parts there are.
LEMMA ReadingUnchanged ==
  ASSUME UNCHANGED <<server, tool, parts, reply>>
  PROVE  Reading(reply)' = Reading(reply)
BY DEF Reading

\* A request that ends without an answer, or with one that was read, keeps the
\* invariant, whether it ends the call or `status` goes on to the next.
LEMMA OverInv ==
  ASSUME CallInv, pc # "done", NEW res \in Results, Over(res),
         server' = server, tool' = tool, heard' = heard, ReplyType',
         reply'.status = reply.status,
         \/ res = Err("transport")
         \/ reply'.status # 0 /\ (UNCHANGED parts => res = Reading(reply)')
  PROVE  CallInv'
<1>1. StatusProbe' <=> StatusProbe
  BY DEF StatusProbe, Of
<1>2. ServerType'
  BY DEF CallInv, ServerType
<1>3. CASE StatusProbe /\ (parts # <<>> \/ res.ok)
  <2>1. /\ parts' = Append(parts, res) /\ (hops' = 0 \/ hops' = hops)
        /\ \/ /\ Len(parts) + 1 < Len(TempoStatus)
              /\ pc' = "connect" /\ result' = result
           \/ /\ ~(Len(parts) + 1 < Len(TempoStatus))
              /\ pc' = "done" /\ result' = Ok("document")
    BY <1>3 DEF Over, StatusProbe, Of
  <2>2. /\ parts' \in Seq(Results) /\ parts' # <<>> /\ Len(parts') = Len(parts) + 1
        /\ parts'[1].ok /\ Len(parts) \in Nat
    <3>1. parts \in Seq(Results) /\ (parts # <<>> => parts[1].ok)
      BY DEF CallInv, PartsKept
    <3>2. CASE parts = <<>>
      BY <1>3, <2>1, <3>1, <3>2
    <3>3. CASE parts # <<>>
      <4>1. /\ parts' \in Seq(Results) /\ Len(parts') = Len(parts) + 1
            /\ Len(parts) \in Nat /\ parts'[1] = parts[1]
        BY <2>1, <3>1, <3>3
      <4>. QED BY <3>1, <3>3, <4>1
    <3>. QED BY <3>2, <3>3
  <2>3. PartsKept'
    BY <1>1, <1>3, <2>1, <2>2, ThreeProbes DEF PartsKept
  <2>4. HeardFirst'
    BY <2>1 DEF CallInv, HeardFirst
  <2>5. Outcome'
    <3>1. Len(parts) < Len(TempoStatus) /\ result = Pending
      BY DEF CallInv, PartsKept, Outcome
    <3>2. CASE pc' = "connect" /\ result' = result
      BY <3>1, <3>2 DEF Outcome
    <3>3. CASE pc' = "done" /\ result' = Ok("document") /\ ~(Len(parts) + 1 < Len(TempoStatus))
      <4>1. Len(parts') = Len(TempoStatus)
        BY <2>2, <3>1, <3>3, ThreeProbes
      <4>. QED BY <1>1, <1>3, <3>3, <4>1 DEF Outcome
    <3>. QED BY <2>1, <3>2, <3>3
  <2>. QED BY <1>2, <2>3, <2>4, <2>5 DEF CallInv
<1>4. CASE ~(StatusProbe /\ (parts # <<>> \/ res.ok))
  <2>1. pc' = "done" /\ result' = res /\ parts' = parts /\ hops' = hops
    BY <1>4 DEF Over, Answer, StatusProbe, Of
  <2>2. PartsKept' /\ HeardFirst'
    BY <1>1, <2>1 DEF CallInv, PartsKept, HeardFirst
  <2>3. Outcome'
    BY <1>1, <1>4, <2>1 DEF Outcome
  <2>. QED BY <1>2, <2>2, <2>3 DEF CallInv
<1>. QED BY <1>3, <1>4

LEMMA InvokeInv == CallInv /\ Invoke => CallInv'
<1>. SUFFICES ASSUME CallInv, Invoke PROVE CallInv'
  OBVIOUS
<1>1. /\ UNCHANGED <<server, tool, hops, heard, reply, parts>> /\ pc = "idle"
      /\ \/ pc' = "done" /\ result' = Err("invalid_argument")
         \/ pc' = "connect" /\ result' = result
  BY DEF Invoke, Answer
<1>2. StatusProbe' <=> StatusProbe
  BY <1>1 DEF StatusProbe, Of
<1>3. ServerType' /\ ReplyType' /\ HeardFirst' /\ PartsKept'
  BY <1>1, <1>2 DEF CallInv, ServerType, ReplyType, HeardFirst, PartsKept
<1>4. Outcome'
  BY <1>1 DEF CallInv, Outcome, HeardFirst
<1>. QED BY <1>3, <1>4 DEF CallInv

LEMMA SendInv == CallInv /\ Send => CallInv'
<1>. SUFFICES ASSUME CallInv, Send PROVE CallInv'
  OBVIOUS
<1>1. /\ UNCHANGED <<server, tool, hops, reply, parts, result>> /\ pc = "connect" /\ pc' = "sent"
      /\ heard' = Append(heard, Heard(Current)) \/ (hops # 0 /\ heard' = heard)
  BY DEF Send
<1>2. HeardFirst'
  <2>1. CASE heard' = Append(heard, Heard(Current))
    <3>. DEFINE S == {heard[i] : i \in DOMAIN heard}
    <3>1. heard \in Seq(S)
      BY DEF CallInv, HeardFirst
    <3>. HIDE DEF S
    <3>2. heard' # <<>> /\ heard' \in Seq({heard'[i] : i \in DOMAIN heard'})
      BY <2>1, <3>1, OneMoreHeard
    <3>. QED BY <1>1, <3>2 DEF HeardFirst
  <2>2. CASE hops # 0 /\ heard' = heard
    BY <1>1, <2>2 DEF CallInv, HeardFirst
  <2>. QED BY <1>1, <2>1, <2>2
<1>. QED BY <1>1, <1>2 DEF CallInv, ServerType, ReplyType, PartsKept, Outcome, StatusProbe, Of

LEMMA SendFailsInv == CallInv /\ SendFails => CallInv'
<1>. SUFFICES ASSUME CallInv, SendFails PROVE CallInv'
  OBVIOUS
<1>1. /\ Over(Err("transport")) /\ pc # "done"
      /\ server' = server /\ tool' = tool /\ heard' = heard /\ reply' = reply
  BY DEF SendFails
<1>2. Err("transport") \in Results /\ ReplyType'
  BY <1>1, ResultForms DEF Causes, CallInv, ReplyType
<1>. QED BY <1>1, <1>2, OverInv

LEMMA RedirectInv == CallInv /\ Redirect => CallInv'
<1>. SUFFICES ASSUME CallInv, Redirect PROVE CallInv'
  OBVIOUS
<1>1. /\ pc = "sent" /\ server' = server /\ tool' = tool /\ heard' = heard /\ reply' = reply
      /\ \/ Over(Err("transport"))
         \/ pc' = "connect" /\ parts' = parts /\ result' = result
  BY DEF Redirect
<1>2. CASE Over(Err("transport"))
  <2>1. Err("transport") \in Results /\ ReplyType'
    BY <1>1, ResultForms DEF Causes, CallInv, ReplyType
  <2>. QED BY <1>1, <1>2, <2>1, OverInv
<1>3. CASE pc' = "connect" /\ parts' = parts /\ result' = result
  <2>1. HeardFirst'
    BY <1>1, <1>3 DEF CallInv, HeardFirst
  <2>. QED BY <1>1, <1>3, <2>1 DEF CallInv, ServerType, ReplyType, PartsKept, Outcome, StatusProbe, Of
<1>. QED BY <1>1, <1>2, <1>3

LEMMA RespondInv == CallInv /\ Respond => CallInv'
<1>. SUFFICES ASSUME CallInv, Respond PROVE CallInv'
  OBVIOUS
<1>1. /\ UNCHANGED <<server, tool, hops, heard, parts, result>> /\ pc = "sent" /\ pc' = "read"
      /\ \E status \in Statuses, body \in Bodies : reply' = [status |-> status, body |-> body]
  BY DEF Respond
<1>2. ReplyType' /\ reply'.status # 0
  BY <1>1, StatusAssumption DEF ReplyType
<1>3. HeardFirst'
  BY <1>1, <1>2 DEF CallInv, HeardFirst
<1>. QED BY <1>1, <1>2, <1>3 DEF CallInv, ServerType, PartsKept, Outcome, StatusProbe, Of

LEMMA FinishInv == CallInv /\ Finish => CallInv'
<1>. SUFFICES ASSUME CallInv, Finish PROVE CallInv'
  OBVIOUS
<1>1. /\ pc = "read" /\ Over(Reading(reply))
      /\ server' = server /\ tool' = tool /\ heard' = heard /\ reply' = reply
  BY DEF Finish
<1>2. Reading(reply) \in Results
  BY ReadingIsTrue DEF CallInv, ReplyType, Replies, TrueReading
<1>3. ReplyType' /\ reply'.status # 0
  BY <1>1 DEF CallInv, ReplyType, HeardFirst
<1>4. UNCHANGED parts => Reading(reply)' = Reading(reply)
  BY <1>1, ReadingUnchanged
<1>. QED BY <1>1, <1>2, <1>3, <1>4, OverInv

LEMMA TimesOutInv == CallInv /\ TimesOut => CallInv'
<1>. SUFFICES ASSUME CallInv, TimesOut PROVE CallInv'
  OBVIOUS
<1>1. /\ pc \in {"connect", "sent", "read"}
      /\ reply' = [reply EXCEPT !.body = "broken"]
      /\ Over(IF pc = "read" THEN Reading(reply') ELSE Err("transport"))
      /\ server' = server /\ tool' = tool /\ heard' = heard
  BY DEF TimesOut
<1>2. ReplyType' /\ reply' \in Replies /\ reply'.status = reply.status
  <2>1. reply \in Replies /\ "broken" \in Bodies
    BY DEF CallInv, ReplyType, Replies, Bodies
  <2>. QED BY <1>1, <2>1 DEF ReplyType, Replies
<1>3. CASE pc = "read"
  <2>1. Reading(reply') \in Results
    BY <1>2, ReadingIsTrue DEF CallInv, TrueReading
  <2>2. reply'.status # 0
    BY <1>2, <1>3 DEF CallInv, HeardFirst
  <2>3. UNCHANGED parts => Reading(reply)' = Reading(reply')
    BY <1>1 DEF Reading
  <2>4. Over(Reading(reply'))
    BY <1>1, <1>3
  <2>. QED BY <1>1, <1>2, <1>3, <2>1, <2>2, <2>3, <2>4, OverInv
<1>4. CASE pc # "read"
  <2>1. Err("transport") \in Results /\ Over(Err("transport"))
    BY <1>1, <1>4, ResultForms DEF Causes
  <2>. QED BY <1>1, <1>2, <2>1, OverInv
<1>. QED BY <1>3, <1>4

LEMMA CallStutter == CallInv /\ UNCHANGED vars => CallInv'
<1>. SUFFICES ASSUME CallInv, UNCHANGED vars PROVE CallInv'
  OBVIOUS
<1>1. UNCHANGED <<server, tool, pc, hops, heard, reply, parts, result>>
  BY DEF vars
<1>2. Outcome'
  BY <1>1, ReadingUnchanged DEF CallInv, Outcome, StatusProbe, Of
<1>. QED BY <1>1, <1>2 DEF CallInv, ServerType, ReplyType, HeardFirst, PartsKept, StatusProbe, Of

\* What holds of every call at every step, whatever the upstream does.
THEOREM CallInvariant == Spec => []CallInv
<1>1. CallInv /\ [Next]_vars => CallInv'
  BY CallStutter, InvokeInv, SendInv, SendFailsInv, RedirectInv, RespondInv, FinishInv, TimesOutInv
     DEF Next
<1>. QED BY CallInit, <1>1, PTL DEF Spec

-----------------------------------------------------------------------------
\* A failure status, an error envelope or half a body is never a success, for
\* any server, tool, status, redirects and timeouts.
THEOREM NeverFailureAsSuccess == Spec => []NoFailureAsSuccess
<1>1. CallInv => NoFailureAsSuccess
  <2>. SUFFICES ASSUME CallInv, result.ok PROVE NoFailureAsSuccess
    BY DEF NoFailureAsSuccess
  <2>1. ~Pending.ok /\ ~Err("transport").ok /\ ~Err("invalid_argument").ok
    BY DEF Pending, Err
  <2>2. CASE reply.status # 0 /\ result = Reading(reply) /\ (StatusProbe => ~result.ok)
    <3>1. TrueReading(reply, Reading(reply))
      BY ReadingIsTrue DEF CallInv, ReplyType, Replies
    <3>. QED BY <2>2, <3>1 DEF TrueReading, NoFailureAsSuccess, StatusProbe
  <2>3. CASE StatusProbe /\ Len(parts) = Len(TempoStatus) /\ result = Ok("document")
    <3>1. parts # <<>>
      BY <2>3, ThreeProbes
    <3>. QED BY <2>3, <3>1 DEF CallInv, PartsKept, NoFailureAsSuccess, StatusProbe
  <2>. QED BY <2>1, <2>2, <2>3 DEF CallInv, Outcome
<1>. QED BY CallInvariant, <1>1, PTL

\* The cause a caller is told is the one there was.
THEOREM CauseTold == Spec => []CauseIsTrue
<1>1. CallInv => CauseIsTrue
  <2>. SUFFICES ASSUME CallInv, pc = "done", ~result.ok PROVE CauseIsTrue
    BY DEF CauseIsTrue
  <2>1. /\ Err("transport").what = "transport" /\ Err("invalid_argument").what = "invalid_argument"
        /\ Ok("document").ok
    BY DEF Err, Ok
  <2>2. heard = <<>> => reply.status = 0
    BY DEF CallInv, HeardFirst
  <2>3. CASE reply.status # 0 /\ result = Reading(reply) /\ (StatusProbe => ~result.ok)
    <3>1. CauseOf(reply, result.what)
      BY <2>3, ReadingIsTrue DEF CallInv, ReplyType, Replies, TrueReading
    <3>. QED BY <2>2, <2>3, <3>1 DEF CauseOf, CauseIsTrue
  <2>4. CASE result = Err("invalid_argument") /\ heard = <<>>
    BY <2>1, <2>2, <2>4 DEF CauseIsTrue
  <2>5. CASE result = Err("transport")
    BY <2>1, <2>5 DEF CauseIsTrue
  <2>. QED BY <2>1, <2>3, <2>4, <2>5 DEF CallInv, Outcome
<1>. QED BY CallInvariant, <1>1, PTL

-----------------------------------------------------------------------------
(* The tables of RestTools: each tool's path and arguments.                *)

\* A path is a sequence of pieces of the three kinds.
Kinds == {"literal", "argument", "number"}
Piece(a) == a[1] \in Kinds
IsPath(path) ==
  \E pieces : path \in Seq(pieces) /\ \A p \in pieces : Piece(p)

\* A path that is filled with these arguments, maybe among others.
Holds(path, names) == IsPath(path) /\ names \subseteq InPath(path)

\* A path of literals.
LEMMA LitsHold ==
  ASSUME NEW words, NEW s \in Seq(words)
  PROVE  Holds(Lits(s), {})
<1>. DEFINE pieces == {Lit(w) : w \in words}
<1>1. Len(s) \in Nat /\ \A i \in 1..Len(s) : s[i] \in words
  OBVIOUS
<1>2. Lits(s) \in Seq(pieces)
  BY <1>1 DEF Lits
<1>3. \A p \in pieces : Piece(p)
  BY DEF Lit, Piece, Kinds
<1>. QED BY <1>2, <1>3 DEF Holds, IsPath

\* The literal paths there are.
LEMMA WordsHold ==
  /\ \A a : Holds(Lits(<<a>>), {})
  /\ \A a, b : Holds(Lits(<<a, b>>), {})
  /\ \A a, b, c : Holds(Lits(<<a, b, c>>), {})
  /\ \A a, b, c, d : Holds(Lits(<<a, b, c, d>>), {})
<1>. SUFFICES ASSUME NEW a, NEW b, NEW c, NEW d
              PROVE  /\ Holds(Lits(<<a>>), {}) /\ Holds(Lits(<<a, b>>), {})
                     /\ Holds(Lits(<<a, b, c>>), {}) /\ Holds(Lits(<<a, b, c, d>>), {})
  OBVIOUS
<1>. DEFINE words == {a, b, c, d}
<1>1. /\ <<a>> \in Seq(words) /\ <<a, b>> \in Seq(words)
      /\ <<a, b, c>> \in Seq(words) /\ <<a, b, c, d>> \in Seq(words)
  OBVIOUS
<1>. HIDE DEF words
<1>. QED BY <1>1, LitsHold

\* Two paths, one behind the other.
LEMMA JoinHolds ==
  ASSUME NEW p, NEW q, NEW P, NEW Q, Holds(p, P), Holds(q, Q)
  PROVE  Holds(p \o q, P \cup Q)
<1>1. PICK S : p \in Seq(S) /\ \A a \in S : Piece(a)
  BY DEF Holds, IsPath
<1>2. PICK T : q \in Seq(T) /\ \A a \in T : Piece(a)
  BY DEF Holds, IsPath
<1>. DEFINE r == p \o q
            U == S \cup T
<1>3. p \in Seq(U) /\ q \in Seq(U)
  BY <1>1, <1>2
<1>. HIDE DEF U
<1>4. /\ r \in Seq(U) /\ Len(p) \in Nat /\ Len(q) \in Nat /\ Len(r) = Len(p) + Len(q)
      /\ \A i \in 1..Len(p) : r[i] = p[i]
      /\ \A i \in 1..Len(q) : r[Len(p) + i] = q[i]
      /\ DOMAIN p = 1..Len(p) /\ DOMAIN q = 1..Len(q) /\ DOMAIN r = 1..Len(r)
  BY <1>3
<1>. HIDE DEF r
<1>5. InPath(p) \subseteq InPath(r)
  BY <1>4 DEF InPath
<1>6. InPath(q) \subseteq InPath(r)
  <2>. SUFFICES ASSUME NEW i \in 1..Len(q), q[i][1] # "literal" PROVE q[i][2] \in InPath(r)
    BY <1>4 DEF InPath
  <2>1. Len(p) + i \in DOMAIN r /\ r[Len(p) + i] = q[i]
    BY <1>4
  <2>. QED BY <2>1 DEF InPath
<1>7. IsPath(r)
  BY <1>1, <1>2, <1>4 DEF IsPath, U
<1>. QED BY <1>5, <1>6, <1>7 DEF Holds, r

\* The argument a piece is filled with.
Name(piece) == IF piece[1] = "literal" THEN {} ELSE {piece[2]}

\* What each kind of piece is filled with.
LEMMA PieceNames ==
  ASSUME NEW s
  PROVE  /\ Name(Lit(s)) = {} /\ Name(Arg(s)) = {s} /\ Name(Num(s)) = {s}
         /\ Piece(Lit(s)) /\ Piece(Arg(s)) /\ Piece(Num(s))
BY DEF Piece, Lit, Arg, Num, Kinds, Name

\* Paths by their pieces.
LEMMA PiecesHold ==
  /\ Holds(<<>>, {})
  /\ \A a : Piece(a) => Holds(<<a>>, Name(a))
  /\ \A a, b : Piece(a) /\ Piece(b) => Holds(<<a, b>>, Name(a) \cup Name(b))
  /\ \A a, b, c : Piece(a) /\ Piece(b) /\ Piece(c) =>
       Holds(<<a, b, c>>, Name(a) \cup Name(b) \cup Name(c))
  /\ \A a, b, c, d : Piece(a) /\ Piece(b) /\ Piece(c) /\ Piece(d) =>
       Holds(<<a, b, c, d>>, Name(a) \cup Name(b) \cup Name(c) \cup Name(d))
<1>1. ASSUME NEW S, NEW path \in Seq(S), \A p \in S : Piece(p) PROVE IsPath(path)
  BY <1>1 DEF IsPath
<1>2. Holds(<<>>, {})
  <2>. DEFINE a == Lit("")
  <2>1. Piece(a)
    BY PieceNames
  <2>. HIDE DEF a
  <2>. DEFINE S == {a}
  <2>2. <<>> \in Seq(S) /\ \A p \in S : Piece(p)
    BY <2>1
  <2>. HIDE DEF S
  <2>3. IsPath(<<>>)
    BY <1>1, <2>2
  <2>. QED BY <2>3 DEF Holds
<1>3. ASSUME NEW a, NEW b, NEW c, NEW d, Piece(a), Piece(b), Piece(c), Piece(d)
      PROVE  /\ IsPath(<<a>>) /\ IsPath(<<a, b>>) /\ IsPath(<<a, b, c>>) /\ IsPath(<<a, b, c, d>>)
  <2>. DEFINE S == {a, b, c, d}
  <2>1. /\ <<a>> \in Seq(S) /\ <<a, b>> \in Seq(S) /\ <<a, b, c>> \in Seq(S) /\ <<a, b, c, d>> \in Seq(S)
    OBVIOUS
  <2>2. \A p \in S : Piece(p)
    BY <1>3
  <2>. HIDE DEF S
  <2>. QED BY <1>1, <2>1, <2>2
<1>4. \A a : Name(a) \subseteq InPath(<<a>>)
  BY DEF Name, InPath
<1>5. \A a, b : Name(a) \cup Name(b) \subseteq InPath(<<a, b>>)
  BY DEF Name, InPath
<1>6. \A a, b, c : Name(a) \cup Name(b) \cup Name(c) \subseteq InPath(<<a, b, c>>)
  BY DEF Name, InPath
<1>7. \A a, b, c, d : Name(a) \cup Name(b) \cup Name(c) \cup Name(d) \subseteq InPath(<<a, b, c, d>>)
  BY DEF Name, InPath
<1>. QED BY <1>2, <1>3, <1>4, <1>5, <1>6, <1>7 DEF Holds

\* No two arguments under one key.
KeysDiffer(query) == \A m, n \in DOMAIN query : query[m] = query[n] => m = n

\* A request that has a place for each argument of its tool but those in late,
\* and no two under one key.
Fits(req, late) ==
  /\ IsPath(req.path)
  /\ req.params.required \cup req.params.optional
       \subseteq InPath(req.path) \cup DOMAIN req.query \cup req.body \cup req.local \cup late
  /\ KeysDiffer(req.query)

Table(tools, late) ==
  \A t \in DOMAIN tools : Fits(tools[t], IF t = "get_history" THEN late ELSE {})

\* What needs no exception fits with any.
LEMMA FitAnyway ==
  ASSUME NEW tools, \A t \in DOMAIN tools : Fits(tools[t], {})
  PROVE  \A late : Table(tools, late)
BY DEF Fits, Table

\* Two tables that fit, together.
LEMMA TablesTogether ==
  ASSUME NEW f, NEW g, NEW late, Table(f, late), Table(g, late)
  PROVE  Table(Both(f, g), late)
BY DEF Table, Both

\* Own names are keys that differ.
LEMMA SameKeys ==
  ASSUME NEW names
  PROVE  DOMAIN Same(names) = names /\ KeysDiffer(Same(names))
BY DEF Same, KeysDiffer

\* A request by its parts.
LEMMA AskFits ==
  ASSUME NEW path, NEW names, Holds(path, names), NEW query, KeysDiffer(query), NEW body, NEW late,
         NEW req, NEW opt, NEW local,
         req \subseteq names \cup DOMAIN query \cup body \cup late \cup local,
         opt \subseteq names \cup DOMAIN query \cup body \cup late \cup local,
         NEW r, r.path = path, r.params = Params(req, opt), r.query = query, r.body = body,
         r.local = local
  PROVE  Fits(r, late)
BY DEF Fits, Holds, Params

\* A request without a body, and the same with defaults.
LEMMA QueryFits ==
  ASSUME NEW path, NEW names, Holds(path, names), NEW query, KeysDiffer(query), NEW late,
         NEW req, req \subseteq names \cup DOMAIN query \cup late,
         NEW opt, opt \subseteq names \cup DOMAIN query \cup late
  PROVE  /\ Fits(Get(path, Params(req, opt), query), late)
         /\ \A d : Fits([Get(path, Params(req, opt), query) EXCEPT !.defaulted = d], late)
<1>. DEFINE r == Get(path, Params(req, opt), query)
            e(d) == [r EXCEPT !.defaulted = d]
            Is(q) == /\ q.path = path /\ q.params = Params(req, opt) /\ q.query = query
                     /\ q.body = {} /\ q.local = {}
<1>1. Is(r) /\ \A d : Is(e(d))
  BY DEF Get, Ask
<1>2. ASSUME NEW q, Is(q) PROVE Fits(q, late)
  BY <1>2, AskFits
<1>. HIDE DEF r, e, Is
<1>3. Fits(r, late) /\ \A d : Fits(e(d), late)
  BY <1>1, <1>2
<1>. QED BY <1>3 DEF r, e

\* A request whose query has the arguments' own names.
LEMMA GetFits ==
  ASSUME NEW path, NEW names, Holds(path, names), NEW keys, NEW late,
         NEW req, req \subseteq names \cup keys \cup late,
         NEW opt, opt \subseteq names \cup keys \cup late
  PROVE  /\ Fits(Get(path, Params(req, opt), Same(keys)), late)
         /\ \A d : Fits([Get(path, Params(req, opt), Same(keys)) EXCEPT !.defaulted = d], late)
<1>1. DOMAIN Same(keys) = keys /\ KeysDiffer(Same(keys))
  BY SameKeys
<1>. QED BY <1>1, QueryFits

\* A request without arguments.
LEMMA ReadFits ==
  ASSUME NEW path, NEW names, Holds(path, names), NEW late
  PROVE  Fits(Read(path), late)
BY GetFits DEF Read, NoArguments

\* Some under other names.
LEMMA UnderFits ==
  ASSUME NEW path, NEW names, Holds(path, names), NEW keys, NEW renamed,
         KeysDiffer(Under(keys, renamed)), NEW late,
         NEW req, req \subseteq names \cup keys \cup late,
         NEW opt, opt \subseteq names \cup keys \cup late
  PROVE  /\ Fits(Get(path, Params(req, opt), Under(keys, renamed)), late)
         /\ \A d : Fits([Get(path, Params(req, opt), Under(keys, renamed)) EXCEPT !.defaulted = d], late)
<1>1. DOMAIN Under(keys, renamed) = keys
  BY DEF Under
<1>. QED BY <1>1, QueryFits

\* The shapes of paths the tables use.
LEMMA ShapesHold ==
  /\ \A a : Holds(<<Lit(a)>>, {})
  /\ \A a, b : Holds(<<Lit(a), Lit(b)>>, {})
  /\ \A a, b : Holds(<<Lit(a), Arg(b)>>, {b})
  /\ \A a, b : Holds(<<Lit(a), Num(b)>>, {b})
  /\ \A a, b, c : Holds(<<Lit(a), Arg(b), Lit(c)>>, {b})
  /\ \A a, b, c : Holds(<<Lit(a), Arg(b), Arg(c)>>, {b, c})
  /\ \A a, b, c : Holds(<<Lit(a), Lit(b), Arg(c)>>, {c})
  /\ \A a, b, c : Holds(<<Lit(a), Num(b), Lit(c)>>, {b})
  /\ \A a, b, c : Holds(<<Lit(a), Num(b), Num(c)>>, {b, c})
  /\ \A a, b, c, d : Holds(<<Lit(a), Lit(b), Arg(c), Lit(d)>>, {c})
  /\ \A a, b, c, d : Holds(<<Lit(a), Lit(b), Arg(c), Arg(d)>>, {c, d})
  /\ \A a, b, c, d : Holds(<<Lit(a), Lit(b), Lit(c), Num(d)>>, {d})
<1>1. \A S, T, p : Holds(p, S) /\ T \subseteq S => Holds(p, T)
  BY DEF Holds
<1>2. \A a : Holds(<<Lit(a)>>, {})
  BY PiecesHold, PieceNames
<1>3. ASSUME NEW a, NEW b PROVE Holds(<<Lit(a), Lit(b)>>, {})
  <2>1. Holds(<<Lit(a), Lit(b)>>, {} \cup {})
    BY PiecesHold, PieceNames
  <2>. QED BY <1>1, <2>1
<1>4. ASSUME NEW a, NEW b PROVE Holds(<<Lit(a), Arg(b)>>, {b})
  <2>1. Holds(<<Lit(a), Arg(b)>>, {} \cup {b})
    BY PiecesHold, PieceNames
  <2>. QED BY <1>1, <2>1
<1>5. ASSUME NEW a, NEW b PROVE Holds(<<Lit(a), Num(b)>>, {b})
  <2>1. Holds(<<Lit(a), Num(b)>>, {} \cup {b})
    BY PiecesHold, PieceNames
  <2>. QED BY <1>1, <2>1
<1>6. ASSUME NEW a, NEW b, NEW c PROVE Holds(<<Lit(a), Arg(b), Lit(c)>>, {b})
  <2>1. Holds(<<Lit(a), Arg(b), Lit(c)>>, {} \cup {b} \cup {})
    BY PiecesHold, PieceNames
  <2>. QED BY <1>1, <2>1
<1>7. ASSUME NEW a, NEW b, NEW c PROVE Holds(<<Lit(a), Arg(b), Arg(c)>>, {b, c})
  <2>1. Holds(<<Lit(a), Arg(b), Arg(c)>>, {} \cup {b} \cup {c})
    BY PiecesHold, PieceNames
  <2>. QED BY <1>1, <2>1
<1>8. ASSUME NEW a, NEW b, NEW c PROVE Holds(<<Lit(a), Lit(b), Arg(c)>>, {c})
  <2>1. Holds(<<Lit(a), Lit(b), Arg(c)>>, {} \cup {} \cup {c})
    BY PiecesHold, PieceNames
  <2>. QED BY <1>1, <2>1
<1>9. ASSUME NEW a, NEW b, NEW c PROVE Holds(<<Lit(a), Num(b), Lit(c)>>, {b})
  <2>1. Holds(<<Lit(a), Num(b), Lit(c)>>, {} \cup {b} \cup {})
    BY PiecesHold, PieceNames
  <2>. QED BY <1>1, <2>1
<1>10. ASSUME NEW a, NEW b, NEW c PROVE Holds(<<Lit(a), Num(b), Num(c)>>, {b, c})
  <2>1. Holds(<<Lit(a), Num(b), Num(c)>>, {} \cup {b} \cup {c})
    BY PiecesHold, PieceNames
  <2>. QED BY <1>1, <2>1
<1>11. ASSUME NEW a, NEW b, NEW c, NEW d PROVE Holds(<<Lit(a), Lit(b), Arg(c), Lit(d)>>, {c})
  <2>1. Holds(<<Lit(a), Lit(b), Arg(c), Lit(d)>>, {} \cup {} \cup {c} \cup {})
    BY PiecesHold, PieceNames
  <2>. QED BY <1>1, <2>1
<1>12. ASSUME NEW a, NEW b, NEW c, NEW d PROVE Holds(<<Lit(a), Lit(b), Arg(c), Arg(d)>>, {c, d})
  <2>1. Holds(<<Lit(a), Lit(b), Arg(c), Arg(d)>>, {} \cup {} \cup {c} \cup {d})
    BY PiecesHold, PieceNames
  <2>. QED BY <1>1, <2>1
<1>13. ASSUME NEW a, NEW b, NEW c, NEW d PROVE Holds(<<Lit(a), Lit(b), Lit(c), Num(d)>>, {d})
  <2>1. Holds(<<Lit(a), Lit(b), Lit(c), Num(d)>>, {} \cup {} \cup {} \cup {d})
    BY PiecesHold, PieceNames
  <2>. QED BY <1>1, <2>1
<1>. QED BY <1>2, <1>3, <1>4, <1>5, <1>6, <1>7, <1>8, <1>9, <1>10, <1>11, <1>12, <1>13

\* Behind a prefix the same arguments.
LEMMA Prefixed ==
  ASSUME NEW rest, NEW names, Holds(rest, names)
  PROVE  /\ Holds(PromPath(rest), names) /\ Holds(LokiPath(rest), names)
         /\ Holds(PbsPath(rest), names) /\ Holds(AlertPath(rest), names)
         /\ Holds(Api(rest), names) /\ Holds(OfNode(rest), names)
<1>1. /\ Holds(Lits(<<"api", "v1">>), {}) /\ Holds(Lits(<<"loki", "api", "v1">>), {})
      /\ Holds(Lits(<<"api2", "json">>), {}) /\ Holds(Lits(<<"api", "v2">>), {})
  BY WordsHold
<1>2. Holds(<<Lit("api")>>, {}) /\ Holds(<<Lit("nodes"), Lit("node")>>, {})
  BY ShapesHold
<1>3. {} \cup names = names
  OBVIOUS
<1>4. \A p, q, Q : Holds(p, {}) /\ Holds(q, Q) => Holds(p \o q, Q)
  <2>1. \A Q : {} \cup Q = Q
    OBVIOUS
  <2>. QED BY <2>1, JoinHolds
<1>5. /\ Holds(PromPath(rest), names) /\ Holds(LokiPath(rest), names)
      /\ Holds(PbsPath(rest), names) /\ Holds(AlertPath(rest), names)
      /\ Holds(Api(rest), names)
  BY <1>1, <1>2, <1>4 DEF PromPath, LokiPath, PbsPath, AlertPath, Api
<1>6. Holds(OfNode(rest), names)
  BY <1>1, <1>2, <1>4 DEF PbsPath, OfNode
<1>. QED BY <1>5, <1>6

\* What an argument struct admits.
LEMMA ParamFields ==
  ASSUME NEW req, NEW opt
  PROVE  Params(req, opt).required = req /\ Params(req, opt).optional = opt
BY DEF Params

\* prommcp.
LEMMA PromFits == \A late : Table(PromTools, late)
<1>. DEFINE T == PromTools
<1>1. Fits(T.query, {})
  BY WordsHold, Prefixed, GetFits DEF PromTools, PromParams
<1>2. Fits(T.query_range, {})
  BY WordsHold, Prefixed, GetFits DEF PromTools, PromParams
<1>3. Fits(T.series, {})
  <2>1. KeysDiffer(Under({"selectors", "start", "end"}, Selectors))
    BY DEF KeysDiffer, Under, Selectors
  <2>. QED BY <2>1, WordsHold, Prefixed, UnderFits DEF PromTools, PromParams
<1>4. Fits(T.labels, {}) /\ Fits(T.alerts, {})
  BY WordsHold, Prefixed, ReadFits DEF PromTools
<1>5. Fits(T.label_values, {})
  BY ShapesHold, Prefixed, GetFits DEF PromTools, PromParams
<1>6. Fits(T.targets, {})
  BY WordsHold, Prefixed, GetFits DEF PromTools, PromParams
<1>8. Fits(T.rules, {})
  <2>1. KeysDiffer(Under({"rule_type"}, [rule_type |-> "type"]))
    BY DEF KeysDiffer, Under
  <2>. QED BY <2>1, WordsHold, Prefixed, UnderFits DEF PromTools, PromParams
<1>9. Fits(T.metadata, {})
  BY WordsHold, Prefixed, GetFits DEF PromTools, PromParams
<1>10. Fits(T.tsdb_status, {}) /\ Fits(T.build_info, {})
  BY WordsHold, Prefixed, ReadFits DEF PromTools
<1>12. DOMAIN T = {"query", "query_range", "series", "labels", "label_values", "targets", "alerts",
                  "rules", "metadata", "tsdb_status", "build_info"}
  BY DEF PromTools
<1>. HIDE DEF T
<1>13. \A t \in DOMAIN T : Fits(T[t], {})
  BY <1>1, <1>2, <1>3, <1>4, <1>5, <1>6, <1>8, <1>9, <1>10, <1>12
<1>. QED BY <1>13, FitAnyway DEF T

\* lokimcp.
LEMMA LokiFits == \A late : Table(LokiTools, late)
<1>. DEFINE T == LokiTools
<1>1. Fits(T.query, {})
  BY WordsHold, Prefixed, GetFits DEF LokiTools, LokiParams
<1>2. Fits(T.query_range, {})
  BY WordsHold, Prefixed, GetFits DEF LokiTools, LokiParams
<1>3. Fits(T.labels, {})
  BY WordsHold, Prefixed, GetFits DEF LokiTools, LokiParams
<1>4. Fits(T.label_values, {})
  BY ShapesHold, Prefixed, GetFits DEF LokiTools, LokiParams
<1>5. Fits(T.series, {})
  <2>1. KeysDiffer(Under({"selectors"} \cup Window, Selectors))
    BY DEF KeysDiffer, Under, Window, Selectors
  <2>. QED BY <2>1, WordsHold, Prefixed, UnderFits DEF LokiTools, LokiParams
<1>6. Fits(T.index_stats, {})
  BY WordsHold, Prefixed, GetFits DEF LokiTools, LokiParams
<1>7. DOMAIN T = {"query", "query_range", "labels", "label_values", "series", "index_stats"}
  BY DEF LokiTools
<1>. HIDE DEF T
<1>8. \A t \in DOMAIN T : Fits(T[t], {})
  BY <1>1, <1>2, <1>3, <1>4, <1>5, <1>6, <1>7
<1>. QED BY <1>8, FitAnyway DEF T

\* pbsmcp: datastores.
LEMMA DatastoreFits == \A late : Table(PbsDatastoreTools, late)
<1>. DEFINE T == PbsDatastoreTools
<1>1. Fits(T.list_datastores, {})
  BY WordsHold, Prefixed, ReadFits DEF PbsDatastoreTools
<1>2. Fits(T.datastore_status, {})
  BY ShapesHold, Prefixed, GetFits DEF PbsDatastoreTools, PbsParams, Datastore
<1>3. Fits(T.list_groups, {})
  <2>1. KeysDiffer(Under({"namespace"}, [namespace |-> "ns"]))
    BY DEF KeysDiffer, Under
  <2>. QED BY <2>1, ShapesHold, Prefixed, UnderFits DEF PbsDatastoreTools, PbsParams, Datastore
<1>4. Fits(T.list_snapshots, {})
  <2>. DEFINE opt == {"namespace", "backup_type", "backup_id"}
              other == [namespace |-> "ns", backup_type |-> "backup-type", backup_id |-> "backup-id"]
  <2>1. T.list_snapshots = Get(Datastore("snapshots"), Params({"store"}, opt), Under(opt, other))
    BY ParamFields DEF PbsDatastoreTools, PbsParams
  <2>2. KeysDiffer(Under(opt, other))
    BY DEF KeysDiffer, Under
  <2>3. Holds(Datastore("snapshots"), {"store"})
    BY ShapesHold, Prefixed DEF Datastore
  <2>. HIDE DEF opt, other
  <2>4. Fits(Get(Datastore("snapshots"), Params({"store"}, opt), Under(opt, other)), {})
    BY <2>2, <2>3, UnderFits
  <2>. QED BY <2>1, <2>4
<1>5. DOMAIN T = {"list_datastores", "datastore_status", "list_groups", "list_snapshots"}
  BY DEF PbsDatastoreTools
<1>. HIDE DEF T
<1>6. \A t \in DOMAIN T : Fits(T[t], {})
  BY <1>1, <1>2, <1>3, <1>4, <1>5
<1>. QED BY <1>6, FitAnyway DEF T

\* pbsmcp: tasks.
LEMMA TaskToolsFit == \A late : Table(PbsTaskTools, late)
<1>. DEFINE T == PbsTaskTools
<1>1. Fits(T.list_tasks, {})
  <2>. DEFINE opt == {"limit", "errors_only", "running", "since"}
              other == [errors_only |-> "errors"]
  <2>1. T.list_tasks = [Get(OfNode(Lits(<<"tasks">>)), Params({}, opt), Under(opt, other))
                        EXCEPT !.defaulted = {"limit"}]
    BY ParamFields DEF PbsTaskTools, PbsParams
  <2>2. KeysDiffer(Under(opt, other))
    BY DEF KeysDiffer, Under
  <2>3. Holds(OfNode(Lits(<<"tasks">>)), {})
    BY WordsHold, Prefixed
  <2>. HIDE DEF opt, other
  <2>4. Fits([Get(OfNode(Lits(<<"tasks">>)), Params({}, opt), Under(opt, other))
              EXCEPT !.defaulted = {"limit"}], {})
    BY <2>2, <2>3, UnderFits
  <2>. QED BY <2>1, <2>4
<1>2. Fits(T.task_status, {})
  BY ShapesHold, Prefixed, GetFits DEF PbsTaskTools, PbsParams
<1>3. DOMAIN T = {"list_tasks", "task_status"}
  BY DEF PbsTaskTools
<1>. HIDE DEF T
<1>4. \A t \in DOMAIN T : Fits(T[t], {})
  BY <1>1, <1>2, <1>3
<1>. QED BY <1>4, FitAnyway DEF T

\* pbsmcp: status.
LEMMA StatusToolsFit == \A late : Table(PbsStatusTools, late)
<1>. DEFINE T == PbsStatusTools
<1>1. Fits(T.gc_status, {})
  BY WordsHold, Prefixed, ReadFits DEF PbsStatusTools
<1>2. Fits(T.node_status, {})
  BY WordsHold, Prefixed, ReadFits DEF PbsStatusTools
<1>3. DOMAIN T = {"gc_status", "node_status"}
  BY DEF PbsStatusTools
<1>. HIDE DEF T
<1>4. \A t \in DOMAIN T : Fits(T[t], {})
  BY <1>1, <1>2, <1>3
<1>. QED BY <1>4, FitAnyway DEF T

\* Tempo's tools, whose window travels with the rest.
LEMMA WindowedFits ==
  ASSUME NEW path, NEW names, Holds(path, names), NEW keys, NEW req, NEW opt, NEW local,
         req \subseteq names \cup keys \cup Window \cup local,
         opt \subseteq names \cup keys \cup Window \cup local,
         NEW w, w = [Get(path, Params(req, opt), Same(keys \cup Window)) EXCEPT !.checked = TRUE]
  PROVE  /\ Fits([w EXCEPT !.local = local], {})
         /\ local = {} => Fits(w, {}) /\ \A d : Fits([w EXCEPT !.defaulted = d], {})
<1>. DEFINE query == Same(keys \cup Window)
            v == [Get(path, Params(req, opt), query) EXCEPT !.checked = TRUE]
            e == [v EXCEPT !.local = local]
            f(d) == [v EXCEPT !.defaulted = d]
            Is(r, l) == /\ r.path = path /\ r.params = Params(req, opt) /\ r.query = query
                        /\ r.body = {} /\ r.local = l
<1>1. DOMAIN query = keys \cup Window /\ KeysDiffer(query)
  BY SameKeys
<1>2. Is(e, local) /\ Is(v, {}) /\ \A d : Is(f(d), {})
  BY DEF Get, Ask
<1>. HIDE DEF query
<1>3. ASSUME NEW r, NEW l, Is(r, l), l = local PROVE Fits(r, {})
  BY <1>1, <1>3, AskFits
<1>. HIDE DEF e, f, v, Is
<1>4. Fits(e, {}) /\ (local = {} => Fits(v, {}) /\ \A d : Fits(f(d), {}))
  BY <1>2, <1>3
<1>5. w = v
  BY DEF v, query
<1>. QED BY <1>4, <1>5 DEF e, f

\* The path of search_tag_values.
LEMMA LongPathHolds ==
  Holds(<<Lit("api"), Lit("v2"), Lit("search"), Lit("tag"), Arg("tag"), Lit("values")>>, {"tag"})
<1>. DEFINE p == <<Lit("api"), Lit("v2"), Lit("search"), Lit("tag"), Arg("tag"), Lit("values")>>
            S == {Lit("api"), Lit("v2"), Lit("search"), Lit("tag"), Arg("tag"), Lit("values")}
<1>1. p \in Seq(S)
  OBVIOUS
<1>2. \A a \in S : Piece(a)
  BY PieceNames
<1>. HIDE DEF S
<1>3. IsPath(p)
  BY <1>1, <1>2 DEF IsPath
<1>4. "tag" \in InPath(p)
  <2>1. 5 \in DOMAIN p /\ p[5] = Arg("tag")
    OBVIOUS
  <2>. QED BY <2>1 DEF InPath, Arg
<1>. QED BY <1>3, <1>4 DEF Holds

\* tempomcp.
LEMMA TempoFits == \A late : Table(TempoTools, late)
<1>. DEFINE T == TempoTools
<1>1. Fits(T.search, {})
  BY WordsHold, WindowedFits DEF TempoTools, TempoParams
<1>2. Fits(T.trace, {})
  BY ShapesHold, WindowedFits DEF TempoTools, TempoParams
<1>3. Fits(T.search_tags, {})
  BY WordsHold, WindowedFits DEF TempoTools, TempoParams
<1>4. Fits(T.search_tag_values, {})
  BY LongPathHolds, WindowedFits DEF TempoTools, TempoParams
<1>5. Fits(T.metrics_query_range, {})
  BY WordsHold, WindowedFits DEF TempoTools, TempoParams
<1>6. Fits(T.status, {})
  BY WordsHold, ReadFits DEF TempoTools
<1>7. DOMAIN T = {"search", "trace", "search_tags", "search_tag_values", "metrics_query_range", "status"}
  BY DEF TempoTools
<1>. HIDE DEF T
<1>8. \A t \in DOMAIN T : Fits(T[t], {})
  BY <1>1, <1>2, <1>3, <1>4, <1>5, <1>6, <1>7
<1>. QED BY <1>8, FitAnyway DEF T

\* Alertmanager's filters travel under their own names.
LEMMA FiltersFit ==
  ASSUME NEW words, Holds(Lits(words), {}), NEW opt
  PROVE  Fits(push_filters(words, Params({}, opt)), {})
<1>1. Holds(AlertPath(Lits(words)), {})
  BY Prefixed
<1>. QED BY <1>1, ParamFields, GetFits DEF push_filters

\* alertmanagermcp: reading.
LEMMA AlertReadsFit == \A late : Table(AlertReadTools, late)
<1>. DEFINE T == AlertReadTools
<1>1. Fits(T.list_alerts, {})
  <2>1. T.list_alerts = push_filters(<<"alerts">>, 
           Params({}, {"active", "silenced", "inhibited"} \cup {"filter", "receiver"} \cup {"unprocessed"}))
    BY DEF AlertReadTools, AlertParams
  <2>. QED BY <2>1, WordsHold, FiltersFit
<1>2. Fits(T.alert_groups, {})
  <2>1. T.alert_groups = push_filters(<<"alerts", "groups">>,
           Params({}, {"active", "silenced", "inhibited"} \cup {"filter", "receiver"}))
    BY DEF AlertReadTools, AlertParams
  <2>. QED BY <2>1, WordsHold, FiltersFit
<1>3. Fits(T.list_silences, {})
  <2>1. T.list_silences = push_filters(<<"silences">>, Params({}, {"filter"}))
    BY DEF AlertReadTools, AlertParams
  <2>. QED BY <2>1, WordsHold, FiltersFit
<1>4. Fits(T.get_silence, {})
  BY ShapesHold, Prefixed, GetFits DEF AlertReadTools, AlertParams, Silence
<1>5. Fits(T.list_receivers, {})
  BY WordsHold, Prefixed, ReadFits DEF AlertReadTools
<1>6. Fits(T.status, {})
  BY WordsHold, Prefixed, ReadFits DEF AlertReadTools
<1>7. DOMAIN T = {"list_alerts", "alert_groups", "list_silences", "get_silence", "list_receivers",
                  "status"}
  BY DEF AlertReadTools
<1>. HIDE DEF T
<1>8. \A t \in DOMAIN T : Fits(T[t], {})
  BY <1>1, <1>2, <1>3, <1>4, <1>5, <1>6, <1>7
<1>. QED BY <1>8, FitAnyway DEF T

\* A request with a body.
LEMMA PostFits ==
  ASSUME NEW path, NEW names, Holds(path, names), NEW verb, NEW req, NEW opt, NEW body,
         req \subseteq names \cup body, opt \subseteq names \cup body
  PROVE  /\ Fits(Ask(verb, path, Params(req, opt), Same({}), body), {})
         /\ Fits([Ask(verb, path, Params(req, opt), Same({}), body) EXCEPT !.checked = TRUE], {})
<1>1. KeysDiffer(Same({}))
  BY SameKeys
<1>. DEFINE r == Ask(verb, path, Params(req, opt), Same({}), body)
            e == [r EXCEPT !.checked = TRUE]
<1>2. /\ r.path = path /\ r.params = Params(req, opt) /\ r.query = Same({})
      /\ r.body = body /\ r.local = {}
      /\ e.path = path /\ e.params = Params(req, opt) /\ e.query = Same({})
      /\ e.body = body /\ e.local = {}
  BY DEF Ask
<1>. HIDE DEF r, e
<1>3. DOMAIN Same({}) = {}
  BY SameKeys
<1>4. ASSUME NEW q, q.path = path, q.params = Params(req, opt), q.query = Same({}),
             q.body = body, q.local = {}
      PROVE  Fits(q, {})
  BY <1>1, <1>3, <1>4 DEF Fits, Holds, Params
<1>5. Fits(r, {})
  BY <1>2, <1>4
<1>6. Fits(e, {})
  BY <1>2, <1>4
<1>. QED BY <1>5, <1>6 DEF r, e

\* alertmanagermcp: silences.
LEMMA SilenceToolsFit == \A late : Table(AlertSilenceTools, late)
<1>. DEFINE T == AlertSilenceTools
<1>1. Fits(T.create_silence, {})
  <2>. DEFINE req == {"matchers", "ends_at", "created_by", "comment"}
              opt == {"starts_at"}
  <2>1. T.create_silence = [Ask("POST", AlertPath(Lits(<<"silences">>)), Params(req, opt), Same({}),
                               req \cup opt) EXCEPT !.checked = TRUE]
    BY ParamFields DEF AlertSilenceTools, AlertParams
  <2>2. Holds(AlertPath(Lits(<<"silences">>)), {})
    BY WordsHold, Prefixed
  <2>. HIDE DEF req, opt, T
  <2>. QED BY <2>1, <2>2, PostFits
<1>2. Fits(T.expire_silence, {})
  BY ShapesHold, Prefixed, PostFits DEF AlertSilenceTools, AlertParams, Silence
<1>3. DOMAIN T = {"create_silence", "expire_silence"}
  BY DEF AlertSilenceTools
<1>. HIDE DEF T
<1>4. \A t \in DOMAIN T : Fits(T[t], {})
  BY <1>1, <1>2, <1>3
<1>. QED BY <1>4, FitAnyway DEF T

\* hamcp: states.
LEMMA StatesFit == \A late : Table(HaStateTools, late)
<1>. DEFINE T == HaStateTools
<1>1. Fits(T.health_check, {})
  BY WordsHold, Prefixed, ReadFits DEF HaStateTools
<1>2. Fits(T.get_config, {})
  BY WordsHold, Prefixed, ReadFits DEF HaStateTools
<1>3. Fits(T.get_states, {})
  BY WordsHold, Prefixed, ReadFits DEF HaStateTools
<1>4. Fits(T.get_entity, {})
  BY ShapesHold, Prefixed, GetFits DEF HaStateTools, HaParams, State
<1>5. Fits(T.set_state, {})
  BY ShapesHold, Prefixed, PostFits DEF HaStateTools, HaParams, State
<1>6. DOMAIN T = {"health_check", "get_config", "get_states", "get_entity", "set_state"}
  BY DEF HaStateTools
<1>. HIDE DEF T
<1>7. \A t \in DOMAIN T : Fits(T[t], {})
  BY <1>1, <1>2, <1>3, <1>4, <1>5, <1>6
<1>. QED BY <1>7, FitAnyway DEF T

\* hamcp: services.
LEMMA ServicesFit == \A late : Table(HaServiceTools, late)
<1>. DEFINE T == HaServiceTools
<1>1. Fits(T.get_services, {})
  BY WordsHold, Prefixed, ReadFits DEF HaServiceTools
<1>2. Fits(T.call_service, {})
  BY ShapesHold, Prefixed, PostFits DEF HaServiceTools, HaParams
<1>3. Fits(T.render_template, {})
  BY WordsHold, Prefixed, PostFits DEF HaServiceTools, HaParams
<1>4. DOMAIN T = {"get_services", "call_service", "render_template"}
  BY DEF HaServiceTools
<1>. HIDE DEF T
<1>5. \A t \in DOMAIN T : Fits(T[t], {})
  BY <1>1, <1>2, <1>3, <1>4
<1>. QED BY <1>5, FitAnyway DEF T

\* hamcp: calendars and history; a start time is for HistoryFrom.
LEMMA TimesFit == Table(HaTimeTools, {"start_time"})
<1>. DEFINE T == HaTimeTools
<1>1. Fits(T.get_calendars, {})
  BY WordsHold, Prefixed, ReadFits DEF HaTimeTools
<1>2. Fits(T.get_calendar_events, {})
  BY ShapesHold, Prefixed, GetFits DEF HaTimeTools, HaParams
<1>3. Fits(T.check_config, {})
  BY WordsHold, Prefixed, PostFits DEF HaTimeTools, NoArguments
<1>4. Fits(T.get_history, {"start_time"})
  <2>1. KeysDiffer(Under({"entity_ids", "end_time", "minimal_response", "no_attributes"},
                         [entity_ids |-> "filter_entity_id"]))
    BY DEF KeysDiffer, Under
  <2>. QED BY <2>1, WordsHold, Prefixed, UnderFits DEF HaTimeTools, HaParams
<1>5. DOMAIN T = {"get_calendars", "get_calendar_events", "check_config", "get_history"}
  BY DEF HaTimeTools
<1>. HIDE DEF T
<1>6. \A t \in DOMAIN T : Fits(T[t], IF t = "get_history" THEN {"start_time"} ELSE {})
  BY <1>1, <1>2, <1>3, <1>4, <1>5
<1>. QED BY <1>6 DEF Table, T

\* hamcp: deleting.
LEMMA DeleteFits == \A late : Table(HaDelete, late)
<1>. DEFINE T == HaDelete
<1>1. Fits(T.delete_state, {})
  BY ShapesHold, Prefixed, PostFits DEF HaDelete, State, Entity
<1>2. DOMAIN T = {"delete_state"}
  BY DEF HaDelete
<1>. HIDE DEF T
<1>3. \A t \in DOMAIN T : Fits(T[t], {})
  BY <1>1, <1>2
<1>. QED BY <1>3, FitAnyway DEF T

\* hamcp: events.
LEMMA EventsFit == \A late : Table(HaEvents, late)
<1>. DEFINE T == HaEvents
<1>1. Fits(T.get_events, {})
  BY WordsHold, Prefixed, ReadFits DEF HaEvents
<1>2. Fits(T.fire_event, {})
  BY ShapesHold, Prefixed, PostFits DEF HaEvents
<1>3. DOMAIN T = {"get_events", "fire_event"}
  BY DEF HaEvents
<1>. HIDE DEF T
<1>4. \A t \in DOMAIN T : Fits(T[t], {})
  BY <1>1, <1>2, <1>3
<1>. QED BY <1>4, FitAnyway DEF T

\* hamcp: raw bodies.
LEMMA RawFits == \A late : Table(HaRaw, late)
<1>. DEFINE T == HaRaw
<1>1. Fits(T.get_error_log, {})
  BY WordsHold, Prefixed, ReadFits DEF HaRaw
<1>2. Fits(T.get_camera_image, {})
  BY ShapesHold, Prefixed, GetFits DEF HaRaw, Entity
<1>3. DOMAIN T = {"get_error_log", "get_camera_image"}
  BY DEF HaRaw
<1>. HIDE DEF T
<1>4. \A t \in DOMAIN T : Fits(T[t], {})
  BY <1>1, <1>2, <1>3
<1>. QED BY <1>4, FitAnyway DEF T

\* Behind the number of a repository, and of one of its pipelines.
LEMMA RepoHolds ==
  ASSUME NEW rest, Holds(rest, {})
  PROVE  Holds(Repo(rest), {"repo_id"}) /\ Holds(Pipeline(rest), {"repo_id", "number"})
<1>1. \A q, Q : Holds(q, Q) => Holds(Repo(q), {"repo_id"} \cup Q)
  BY ShapesHold, JoinHolds, Prefixed DEF Repo
<1>2. Holds(<<Lit("pipelines"), Num("number")>> \o rest, {"number"} \cup {})
  BY ShapesHold, JoinHolds
<1>3. /\ Holds(Pipeline(rest), {"repo_id"} \cup ({"number"} \cup {}))
      /\ Holds(Repo(rest), {"repo_id"} \cup {})
  BY <1>1, <1>2 DEF Pipeline
<1>4. {"repo_id"} \cup ({"number"} \cup {}) = {"repo_id", "number"} /\ {"repo_id"} \cup {} = {"repo_id"}
  OBVIOUS
<1>. QED BY <1>3, <1>4

\* The path of step_logs.
LEMMA LogsHold ==
  Holds(Repo(<<Lit("logs"), Num("number"), Num("step_id")>>), {"repo_id", "number", "step_id"})
<1>1. Holds(<<Lit("repos"), Num("repo_id")>> \o <<Lit("logs"), Num("number"), Num("step_id")>>,
            {"repo_id"} \cup {"number", "step_id"})
  BY ShapesHold, JoinHolds
<1>2. {"repo_id"} \cup {"number", "step_id"} = {"repo_id", "number", "step_id"}
  OBVIOUS
<1>. QED BY <1>1, <1>2, Prefixed DEF Repo

\* A request whose tool also uses arguments on the answer.
LEMMA LocalFits ==
  ASSUME NEW path, NEW names, Holds(path, names), NEW keys, NEW req, NEW opt, NEW local,
         req \subseteq names \cup keys \cup local, opt \subseteq names \cup keys \cup local
  PROVE  Fits([Get(path, Params(req, opt), Same(keys)) EXCEPT !.local = local], {})
<1>1. DOMAIN Same(keys) = keys /\ KeysDiffer(Same(keys))
  BY SameKeys
<1>. DEFINE r == [Get(path, Params(req, opt), Same(keys)) EXCEPT !.local = local]
<1>2. /\ r.path = path /\ r.params = Params(req, opt) /\ r.query = Same(keys)
      /\ r.body = {} /\ r.local = local
  BY DEF Get, Ask
<1>. HIDE DEF r
<1>3. Fits(r, {})
  BY <1>1, <1>2, AskFits
<1>. QED BY <1>3 DEF r

\* Pages are asked for under keys that differ.
LEMMA PagesKeys == KeysDiffer(Under(Paging, PagingKeys))
BY DEF KeysDiffer, Under, Paging, PagingKeys

\* wpmcp: repositories.
LEMMA ReposFit == \A late : Table(WpRepoTools, late)
<1>. DEFINE T == WpRepoTools
<1>1. Fits(T.version, {})
  BY WordsHold, ReadFits DEF WpRepoTools
<1>2. Fits(T.healthz, {})
  BY WordsHold, ReadFits DEF WpRepoTools
<1>3. Fits(T.queue_info, {})
  BY WordsHold, Prefixed, ReadFits DEF WpRepoTools
<1>4. Fits(T.list_repos, {})
  BY WordsHold, Prefixed, GetFits DEF WpRepoTools, WpParams
<1>5. Fits(T.lookup_repo, {})
  BY ShapesHold, Prefixed, GetFits DEF WpRepoTools, WpParams
<1>6. Fits(T.get_repo, {})
  BY PiecesHold, RepoHolds, GetFits DEF WpRepoTools, WpParams
<1>7. Fits(T.list_branches, {})
  BY PagesKeys, WordsHold, RepoHolds, UnderFits DEF WpRepoTools, WpParams
<1>8. Fits(T.list_pull_requests, {})
  BY PagesKeys, WordsHold, RepoHolds, UnderFits DEF WpRepoTools, WpParams
<1>9. DOMAIN T = {"version", "healthz", "queue_info", "list_repos", "lookup_repo", "get_repo", "list_branches",
                  "list_pull_requests"}
  BY DEF WpRepoTools
<1>. HIDE DEF T
<1>10. \A t \in DOMAIN T : Fits(T[t], {})
  BY <1>1, <1>2, <1>3, <1>4, <1>5, <1>6, <1>7, <1>8, <1>9
<1>. QED BY <1>10, FitAnyway DEF T

\* wpmcp: pipelines.
LEMMA PipelinesFit == \A late : Table(WpPipelineTools, late)
<1>. DEFINE T == WpPipelineTools
<1>1. Fits(T.list_pipelines, {})
  <2>. DEFINE opt == Paging \cup {"branch", "event", "status", "ref", "before", "after"}
  <2>1. T.list_pipelines = Get(Repo(Lits(<<"pipelines">>)), Params({"repo_id"}, opt),
                             Under(opt, PagingKeys))
    BY ParamFields DEF WpPipelineTools, WpParams
  <2>2. KeysDiffer(Under(opt, PagingKeys))
    BY DEF KeysDiffer, Under, Paging, PagingKeys
  <2>3. Holds(Repo(Lits(<<"pipelines">>)), {"repo_id"})
    BY WordsHold, RepoHolds
  <2>4. Fits(Get(Repo(Lits(<<"pipelines">>)), Params({"repo_id"}, opt), Under(opt, PagingKeys)), {})
    <3>1. {"repo_id"} \subseteq {"repo_id"} \cup opt \cup {} /\ opt \subseteq {"repo_id"} \cup opt \cup {}
      OBVIOUS
    <3>. HIDE DEF opt
    <3>. QED BY <2>2, <2>3, <3>1, UnderFits
  <2>. HIDE DEF T, opt
  <2>. QED BY <2>1, <2>4
<1>2. Fits(T.get_pipeline, {})
  <2>1. Holds(Pipeline(<<>>), {"repo_id", "number"})
    BY PiecesHold, RepoHolds
  <2>2. T.get_pipeline = Get(Pipeline(<<>>), Params({"repo_id", "number"}, {}), Same({}))
    <3>1. {"repo_id"} \cup {"number"} = {"repo_id", "number"}
      OBVIOUS
    <3>. QED BY <3>1 DEF WpPipelineTools, WpParams
  <2>. HIDE DEF T
  <2>3. Fits(Get(Pipeline(<<>>), Params({"repo_id", "number"}, {}), Same({})), {})
    BY <2>1, GetFits
  <2>. QED BY <2>2, <2>3
<1>3. Fits(T.pipeline_config, {})
  <2>1. Holds(Pipeline(Lits(<<"config">>)), {"repo_id", "number"})
    BY WordsHold, RepoHolds
  <2>2. T.pipeline_config = Get(Pipeline(Lits(<<"config">>)), Params({"repo_id", "number"}, {}), Same({}))
    <3>1. {"repo_id"} \cup {"number"} = {"repo_id", "number"}
      OBVIOUS
    <3>. QED BY <3>1 DEF WpPipelineTools, WpParams
  <2>. HIDE DEF T
  <2>3. Fits(Get(Pipeline(Lits(<<"config">>)), Params({"repo_id", "number"}, {}), Same({})), {})
    BY <2>1, GetFits
  <2>. QED BY <2>2, <2>3
<1>4. Fits(T.pipeline_metadata, {})
  <2>1. Holds(Pipeline(Lits(<<"metadata">>)), {"repo_id", "number"})
    BY WordsHold, RepoHolds
  <2>2. T.pipeline_metadata = Get(Pipeline(Lits(<<"metadata">>)), Params({"repo_id", "number"}, {}), Same({}))
    <3>1. {"repo_id"} \cup {"number"} = {"repo_id", "number"}
      OBVIOUS
    <3>. QED BY <3>1 DEF WpPipelineTools, WpParams
  <2>. HIDE DEF T
  <2>3. Fits(Get(Pipeline(Lits(<<"metadata">>)), Params({"repo_id", "number"}, {}), Same({})), {})
    BY <2>1, GetFits
  <2>. QED BY <2>2, <2>3
<1>5. Fits(T.step_logs, {})
  <2>1. {"repo_id"} \cup {"number"} \cup {"step_id"} = {"repo_id", "number", "step_id"}
    OBVIOUS
  <2>2. T.step_logs = [Get(Repo(<<Lit("logs"), Num("number"), Num("step_id")>>),
                           Params({"repo_id", "number", "step_id"}, {"max_lines"}), Same({}))
                       EXCEPT !.local = {"max_lines"}]
    BY <2>1 DEF WpPipelineTools, WpParams
  <2>3. Fits([Get(Repo(<<Lit("logs"), Num("number"), Num("step_id")>>),
                  Params({"repo_id", "number", "step_id"}, {"max_lines"}), Same({}))
              EXCEPT !.local = {"max_lines"}], {})
    BY LogsHold, LocalFits
  <2>. QED BY <2>2, <2>3
<1>6. DOMAIN T = {"list_pipelines", "get_pipeline", "pipeline_config", "pipeline_metadata", "step_logs"}
  BY DEF WpPipelineTools
<1>. HIDE DEF T
<1>7. \A t \in DOMAIN T : Fits(T[t], {})
  BY <1>1, <1>2, <1>3, <1>4, <1>5, <1>6
<1>. QED BY <1>7, FitAnyway DEF T

\* wpmcp: the server.
LEMMA WpServerFits == \A late : Table(WpServerTools, late)
<1>. DEFINE T == WpServerTools
<1>1. Fits(T.list_crons, {})
  BY PagesKeys, WordsHold, RepoHolds, UnderFits DEF WpServerTools, WpParams
<1>2. Fits(T.list_agents, {})
  BY PagesKeys, WordsHold, Prefixed, UnderFits DEF WpServerTools, WpParams
<1>3. Fits(T.list_agent_tasks, {})
  BY ShapesHold, Prefixed, GetFits DEF WpServerTools, WpParams
<1>4. Fits(T.pipeline_feed, {})
  BY WordsHold, Prefixed, ReadFits DEF WpServerTools
<1>5. DOMAIN T = {"list_crons", "list_agents", "list_agent_tasks", "pipeline_feed"}
  BY DEF WpServerTools
<1>. HIDE DEF T
<1>6. \A t \in DOMAIN T : Fits(T[t], {})
  BY <1>1, <1>2, <1>3, <1>4, <1>5
<1>. QED BY <1>6, FitAnyway DEF T

-----------------------------------------------------------------------------
\* get_history with a start time.
LEMMA HistoryFits == Fits(HistoryFrom, {})
<1>. DEFINE p == Api(<<Lit("history"), Lit("period"), Arg("start_time")>>)
            q == Api(Lits(<<"history", "period">>))
            keys == {"entity_ids", "end_time", "minimal_response", "no_attributes"}
            opt == {"start_time", "end_time", "minimal_response", "no_attributes"}
            query == Under(keys, [entity_ids |-> "filter_entity_id"])
            r == [Get(q, Params({"entity_ids"}, opt), query) EXCEPT !.path = p]
<1>1. KeysDiffer(query) /\ DOMAIN query = keys
  BY DEF KeysDiffer, Under
<1>2. Holds(p, {"start_time"})
  BY ShapesHold, Prefixed
<1>3. HistoryFrom = r
  <2>1. HaTimeTools.get_history = Get(q, Params({"entity_ids"}, opt), query)
    BY DEF HaTimeTools, HaParams
  <2>. HIDE DEF q, opt, query
  <2>. QED BY <2>1 DEF HistoryFrom
<1>4. /\ r.path = p /\ r.params = Params({"entity_ids"}, opt) /\ r.query = query
      /\ r.body = {} /\ r.local = {}
  BY DEF Get, Ask
<1>5. /\ {"entity_ids"} \subseteq {"start_time"} \cup DOMAIN query \cup {} \cup {} \cup {}
      /\ opt \subseteq {"start_time"} \cup DOMAIN query \cup {} \cup {} \cup {}
  BY <1>1
<1>. HIDE DEF p, q, opt, keys, query, r
<1>6. Fits(r, {})
  BY <1>1, <1>2, <1>4, <1>5, AskFits
<1>. QED BY <1>3, <1>6

\* Every tool of every server.
LEMMA ToolsFit ==
  ASSUME NEW s, s \in {"prom", "loki", "pbs", "tempo", "am", "ha", "wp"}, NEW g
  PROVE  Table(ToolsOf(s, g), IF s = "ha" THEN {"start_time"} ELSE {})
<1>1. Table(PbsTools, {})
  BY DatastoreFits, TaskToolsFit, StatusToolsFit, TablesTogether DEF PbsTools
<1>2. Table(AlertTools(g), {})
  BY AlertReadsFit, SilenceToolsFit, TablesTogether DEF AlertTools
<1>3. Table(WpTools, {})
  BY ReposFit, PipelinesFit, WpServerFits, TablesTogether DEF WpTools
<1>4. Table(HaTools, {"start_time"})
  BY StatesFit, ServicesFit, TimesFit, TablesTogether DEF HaTools
<1>5. Table(Both(HaTools, Both(HaDelete, Both(HaEvents, HaRaw))), {"start_time"})
  BY <1>4, DeleteFits, EventsFit, RawFits, TablesTogether
<1>. QED BY <1>1, <1>2, <1>3, <1>4, <1>5, PromFits, LokiFits, TempoFits DEF ToolsOf

-----------------------------------------------------------------------------
(* The path a request goes to.                                             *)

\* Some numbers have a least one.
LEMMA LeastNumber ==
  ASSUME NEW T \in SUBSET Nat, T # {}
  PROVE  \E m \in T : \A k \in T : m <= k
<1>1. PICK m \in T : \A k \in T : ~(<<k, m>> \in OpToRel(<, Nat))
  BY NatLessThanWellFounded, WFMin
<1>2. \A k \in T : ~(k < m)
  BY <1>1 DEF OpToRel
<1>. QED BY <1>2

\* w is what Wire has of the path after each of its first n pieces.
Walks(w, n, path) ==
  /\ w[0] = <<>>
  /\ \A k \in 1..n : w[k] = Walk(w[k - 1], Fill(path[k], args))

\* The path is built piece by piece.
LEMMA WireSteps ==
  ASSUME NEW path, IsPath(path)
  PROVE  \E w : Walks(w, Len(path), path) /\ Wire(path, args) = w[Len(path)]
<1>. DEFINE Up(n, g) == g = [k \in 0..n |-> IF k = 0 THEN <<>> ELSE Walk(g[k - 1], Fill(path[k], args))]
            Stuck == {n \in Nat : ~\E g : Up(n, g)}
<1>1. Stuck = {}
  <2>. SUFFICES ASSUME Stuck # {} PROVE FALSE
    OBVIOUS
  <2>1. PICK m \in Stuck : \A k \in Stuck : m <= k
    BY LeastNumber
  <2>2. CASE m = 0
    <3>. DEFINE h == [k \in 0..0 |-> <<>>]
    <3>1. Up(0, h)
      OBVIOUS
    <3>. QED BY <2>1, <2>2, <3>1
  <2>3. CASE m # 0
    <3>a. m \in Nat
      OBVIOUS
    <3>1. m - 1 \in Nat /\ m - 1 \notin Stuck
      <4>. HIDE DEF Stuck
      <4>. QED BY <2>1, <2>3, <3>a
    <3>2. PICK g : Up(m - 1, g)
      BY <3>1
    <3>. DEFINE h == [k \in 0..m |-> IF k = m THEN Walk(g[m - 1], Fill(path[m], args)) ELSE g[k]]
    <3>3. \A k \in 0..m : h[k] = IF k = 0 THEN <<>> ELSE Walk(h[k - 1], Fill(path[k], args))
      BY <3>1, <3>2, <2>3
    <3>4. Up(m, h)
      BY <3>3
    <3>. QED BY <2>1, <3>4
  <2>. QED BY <2>2, <2>3
<1>2. Len(path) \in Nat
  BY DEF IsPath
<1>3. \E g : Up(Len(path), g)
  BY <1>1, <1>2
<1>4. PICK w : Up(Len(path), w) /\ Wire(path, args) = w[Len(path)]
  BY <1>3 DEF Wire
<1>5. w[0] = <<>>
  BY <1>2, <1>4
<1>6. \A k \in 1..Len(path) : w[k] = Walk(w[k - 1], Fill(path[k], args))
  BY <1>2, <1>4
<1>. QED BY <1>4, <1>5, <1>6 DEF Walks

\* A piece that is not refused is one segment, as it was given.
Segment(piece) == IF piece[1] = "literal" THEN piece[2] ELSE args[piece[2]]

LEMMA PieceIsSegment ==
  ASSUME NEW piece, Piece(piece), Fill(piece, args)[1] # "refused", NEW done
  PROVE  Walk(done, Fill(piece, args)) = Append(done, Segment(piece))
<1>1. piece[1] \in {"literal", "argument", "number"}
  BY DEF Piece, Kinds
<1>2. CASE piece[1] = "literal"
  BY <1>2 DEF Fill, Walk, Segment
<1>3. CASE piece[1] = "number"
  BY <1>3 DEF Fill, Walk, Segment
<1>4. CASE piece[1] = "argument"
  BY <1>4 DEF Fill, Walk, Segment, path_segment
<1>. QED BY <1>1, <1>2, <1>3, <1>4

\* A path none of whose pieces is refused arrives as it was meant.
LEMMA WireIsMeant ==
  ASSUME NEW path, IsPath(path), ~Refused(path, args)
  PROVE  Wire(path, args) = Meant(path)
<1>1. PICK w : Walks(w, Len(path), path) /\ Wire(path, args) = w[Len(path)]
  BY WireSteps
<1>. DEFINE n == Len(path)
            So(k) == [i \in 1..k |-> Segment(path[i])]
            Off == {k \in 0..n : w[k] # So(k)}
<1>2. n \in Nat /\ DOMAIN path = 1..n /\ \A k \in 1..n : Piece(path[k])
  BY DEF IsPath
<1>3. Off = {}
  <2>. SUFFICES ASSUME Off # {} PROVE FALSE
    OBVIOUS
  <2>1. PICK m \in Off : \A k \in Off : m <= k
    <3>1. Off \in SUBSET Nat
      BY <1>2
    <3>. HIDE DEF Off
    <3>. QED BY <3>1, LeastNumber
  <2>2. m # 0
    <3>1. So(0) = <<>>
      OBVIOUS
    <3>. QED BY <1>1, <3>1 DEF Walks
  <2>3. m \in 1..n /\ m - 1 \in 0..n /\ m - 1 \notin Off
    BY <1>2, <2>1, <2>2
  <2>4. w[m - 1] = So(m - 1)
    BY <2>3
  <2>5. w[m] = Append(So(m - 1), Segment(path[m]))
    <3>1. Fill(path[m], args)[1] # "refused"
      BY <1>2, <2>3 DEF Refused
    <3>2. w[m] = Walk(w[m - 1], Fill(path[m], args))
      BY <1>1, <2>3 DEF Walks
    <3>. QED BY <1>2, <2>3, <2>4, <3>1, <3>2, PieceIsSegment
  <2>6. Append(So(m - 1), Segment(path[m])) = So(m)
    BY <2>3, <1>2
  <2>. QED BY <2>5, <2>6
<1>4. w[n] = So(n)
  BY <1>2, <1>3
<1>5. Meant(path) = So(n)
  BY <1>2 DEF Meant, Segment
<1>. QED BY <1>1, <1>4, <1>5

-----------------------------------------------------------------------------
(* What a request asks.                                                    *)

\* The k-th request of the call, as the upstream gets it.
Asked(k) ==
  [nth |-> k, method |-> Requests[k].method, path |-> Wire(Requests[k].path, args),
   query |-> query_of(Requests[k], DOMAIN args), body |-> Requests[k].body \cap DOMAIN args]

\* The arguments are the tool's, and none is refused as part of the path.
Accepted ==
  /\ deserialize(Declared, DOMAIN args)
  /\ ~Refused(RequestOf(server, tool, DOMAIN args).path, args)

AskInv ==
  /\ tool \in DOMAIN ToolsOf(server, gate)
  /\ pc \in {"connect", "sent", "read"} \/ heard # <<>> => Accepted
  /\ \A i \in DOMAIN heard : \E k \in 1..Len(Requests) : heard[i] = Asked(k)

\* Nothing was asked before the call.
LEMMA AskInit == Init => AskInv
<1>. SUFFICES ASSUME Init PROVE AskInv
  OBVIOUS
<1>1. tool \in DOMAIN ToolsOf(server, gate) /\ pc = "idle" /\ heard = <<>> /\ DOMAIN heard = {}
  BY DEF Init
<1>. QED BY <1>1 DEF AskInv

\* What is asked depends on the call and its arguments only.
LEMMA AskedUnchanged ==
  ASSUME UNCHANGED <<server, gate, tool, args>>
  PROVE  /\ Requests' = Requests /\ Accepted' = Accepted
         /\ \A k : Asked(k)' = Asked(k)
         /\ ToolsOf(server, gate)' = ToolsOf(server, gate)
<1>1. Requests' = Requests
  BY DEF Requests, RequestOf, ToolsOf
<1>2. Accepted' = Accepted
  BY DEF Accepted, Declared, RequestOf, ToolsOf
<1>3. \A k : Asked(k)' = Asked(k)
  BY <1>1 DEF Asked
<1>4. ToolsOf(server, gate)' = ToolsOf(server, gate)
  BY DEF ToolsOf
<1>. QED BY <1>1, <1>2, <1>3, <1>4

\* Once a call is under way, only Send asks, and nothing changes its arguments.
LEMMA OthersAskNothing ==
  ASSUME AskInv, UNCHANGED <<server, gate, tool, args, heard>>,
         pc \in {"connect", "sent", "read"} \/ pc' = pc
  PROVE  AskInv'
<1>1. /\ Requests' = Requests /\ Accepted' = Accepted
      /\ \A k : Asked(k)' = Asked(k)
      /\ ToolsOf(server, gate)' = ToolsOf(server, gate)
  BY AskedUnchanged
<1>. QED BY <1>1 DEF AskInv

\* A call goes on to its request only with arguments that were accepted.
LEMMA InvokeAsks == CallInv /\ AskInv /\ Invoke => AskInv'
<1>. SUFFICES ASSUME CallInv, AskInv, Invoke PROVE AskInv'
  OBVIOUS
<1>1. /\ UNCHANGED <<server, gate, tool, heard>> /\ pc = "idle" /\ heard = <<>> /\ DOMAIN heard = {}
      /\ pc' \in {"done", "connect"}
  BY DEF Invoke, Answer, CallInv, HeardFirst
<1>2. ToolsOf(server, gate)' = ToolsOf(server, gate) /\ Declared' = Declared
  BY <1>1 DEF ToolsOf, Declared
<1>3. ASSUME pc' = "connect" PROVE Accepted'
  <2>1. PICK names, vs, given :
          /\ names \in Given(Declared)
          /\ given = [n \in names |-> IF n \in PathNames(RequestOf(server, tool, names).path) \cap names
                                      THEN vs[n] ELSE "plain"]
          /\ args' = given
          /\ deserialize(Declared, names) /\ ~Refused(RequestOf(server, tool, names).path, given)
    BY <1>3 DEF Invoke, Answer
  <2>2. DOMAIN args' = names
    BY <2>1
  <2>3. RequestOf(server, tool, DOMAIN args)' = RequestOf(server, tool, names)
    BY <1>1, <2>2 DEF RequestOf, ToolsOf
  <2>. QED BY <1>2, <2>1, <2>2, <2>3 DEF Accepted
<1>. QED BY <1>1, <1>2, <1>3 DEF AskInv

\* `status` of tempomcp asks for three documents.
LEMMA ProbeLength == Len(TempoStatus) = 3 /\ DOMAIN TempoStatus = 1..3
BY DEF TempoStatus

\* What is sent is one of the call's requests.
LEMMA SendAsks == CallInv /\ AskInv /\ Send => AskInv'
<1>. SUFFICES ASSUME CallInv, AskInv, Send PROVE AskInv'
  OBVIOUS
<1>1. /\ UNCHANGED <<server, gate, tool, args, parts>> /\ pc = "connect" /\ pc' = "sent"
      /\ heard' = Append(heard, Heard(Current)) \/ heard' = heard
  BY DEF Send
<1>2. /\ Requests' = Requests /\ Accepted' = Accepted
      /\ \A k : Asked(k)' = Asked(k)
      /\ ToolsOf(server, gate)' = ToolsOf(server, gate)
  BY <1>1, AskedUnchanged
<1>3. CASE heard' = heard
  BY <1>1, <1>2, <1>3 DEF AskInv
<1>4. CASE heard' = Append(heard, Heard(Current))
  <2>. DEFINE n == Len(parts) + 1
  <2>1. n \in 1..Len(Requests)
    <3>1. CASE StatusProbe
      <4>1. Len(parts) \in Nat /\ Len(parts) < 3 /\ Len(Requests) = 3
        BY <1>1, <3>1, ProbeLength DEF CallInv, PartsKept, StatusProbe, Of, Requests
      <4>. QED BY <4>1
    <3>2. CASE ~StatusProbe
      <4>1. Len(parts) = 0 /\ Len(Requests) = 1
        BY <3>2 DEF CallInv, PartsKept, StatusProbe, Of, Requests
      <4>. QED BY <4>1
    <3>. QED BY <3>1, <3>2
  <2>2. Heard(Current) = Asked(n)
    BY DEF Heard, Current, Asked
  <2>3. ASSUME NEW i \in DOMAIN heard' PROVE \E k \in 1..Len(Requests) : heard'[i] = Asked(k)
    <3>. DEFINE S == {heard[j] : j \in DOMAIN heard}
    <3>1. heard \in Seq(S)
      BY DEF CallInv, HeardFirst
    <3>2. PICK e : e = Heard(Current)
      OBVIOUS
    <3>. HIDE DEF S
    <3>3. (i \in DOMAIN heard /\ heard'[i] = heard[i]) \/ heard'[i] = e
      BY <1>4, <2>3, <3>1, <3>2
    <3>. QED BY <2>1, <2>2, <3>2, <3>3 DEF AskInv
  <2>. QED BY <1>1, <1>2, <2>3 DEF AskInv
<1>. QED BY <1>1, <1>3, <1>4

\* What holds of what the upstream was asked, at every step.
THEOREM AskInvariant == Spec => []AskInv
<1>1. CallInv /\ AskInv /\ [Next]_vars => AskInv'
  <2>. SUFFICES ASSUME CallInv, AskInv, [Next]_vars PROVE AskInv'
    OBVIOUS
  <2>1. CASE Invoke
    BY <2>1, InvokeAsks
  <2>2. CASE Send
    BY <2>2, SendAsks
  <2>3. CASE SendFails
    BY <2>3, OthersAskNothing DEF SendFails
  <2>4. CASE Redirect
    BY <2>4, OthersAskNothing DEF Redirect
  <2>5. CASE Respond
    BY <2>5, OthersAskNothing DEF Respond
  <2>6. CASE Finish
    BY <2>6, OthersAskNothing DEF Finish
  <2>7. CASE TimesOut
    BY <2>7, OthersAskNothing DEF TimesOut
  <2>8. CASE UNCHANGED vars
    BY <2>8, OthersAskNothing DEF vars
  <2>. QED BY <2>1, <2>2, <2>3, <2>4, <2>5, <2>6, <2>7, <2>8 DEF Next
<1>. QED BY AskInit, <1>1, CallInvariant, PTL DEF Spec

-----------------------------------------------------------------------------
\* get_history, wherever it is looked up.
LEMMA HistoryTool ==
  ASSUME NEW g
  PROVE  /\ ToolsOf("ha", g)["get_history"] = HaTimeTools.get_history
         /\ HistoryFrom.params = HaTimeTools.get_history.params
<1>1. /\ "get_history" \in DOMAIN HaTimeTools
      /\ "get_history" \notin DOMAIN HaStateTools /\ "get_history" \notin DOMAIN HaServiceTools
  BY DEF HaTimeTools, HaStateTools, HaServiceTools
<1>2. /\ "get_history" \in DOMAIN Both(HaServiceTools, HaTimeTools)
      /\ Both(HaServiceTools, HaTimeTools)["get_history"] = HaTimeTools["get_history"]
  BY <1>1 DEF Both
<1>3. "get_history" \in DOMAIN HaTools /\ HaTools["get_history"] = HaTimeTools["get_history"]
  BY <1>1, <1>2 DEF Both, HaTools
<1>4. \A f : Both(HaTools, f)["get_history"] = HaTimeTools["get_history"]
  BY <1>3 DEF Both
<1>5. ToolsOf("ha", g)["get_history"] = HaTimeTools.get_history
  BY <1>3, <1>4 DEF ToolsOf
<1>6. HistoryFrom.params = HaTimeTools.get_history.params
  BY DEF HistoryFrom, HaTimeTools, Get, Ask
<1>. QED BY <1>5, <1>6

\* The request of a tool has a place for each of the names its tool takes.
LEMMA RequestFits ==
  ASSUME ServerType, tool \in DOMAIN ToolsOf(server, gate), NEW names,
         names \subseteq Declared.required \cup Declared.optional,
         NEW r, r = RequestOf(server, tool, names)
  PROVE  /\ IsPath(r.path) /\ KeysDiffer(r.query)
         /\ names \subseteq InPath(r.path) \cup DOMAIN r.query \cup r.body \cup r.local
<1>. DEFINE T == ToolsOf(server, gate)
<1>1. Fits(T[tool], IF tool = "get_history" THEN IF server = "ha" THEN {"start_time"} ELSE {} ELSE {})
  BY ToolsFit DEF ServerType, Table
<1>2. CASE server = "ha" /\ tool = "get_history" /\ "start_time" \in names
  <2>1. r = HistoryFrom /\ Declared = HistoryFrom.params
    BY <1>2, HistoryTool DEF Declared, RequestOf
  <2>. QED BY <2>1, HistoryFits DEF Fits
<1>3. CASE ~(server = "ha" /\ tool = "get_history" /\ "start_time" \in names)
  <2>1. r = T[tool] /\ Declared = T[tool].params
    BY <1>3 DEF RequestOf, Declared
  <2>2. Fits(T[tool], {}) \/ (Fits(T[tool], {"start_time"}) /\ "start_time" \notin names)
    BY <1>1, <1>3
  <2>. QED BY <2>1, <2>2 DEF Fits
<1>. QED BY <1>2, <1>3

\* The requests of tempomcp's `status`: fixed paths, and no arguments.
LEMMA ProbeFits ==
  ASSUME NEW k \in 1..3
  PROVE  /\ IsPath(TempoStatus[k].path) /\ ~Refused(TempoStatus[k].path, args)
         /\ KeysDiffer(TempoStatus[k].query)
<1>1. PICK words : TempoStatus[k] = Read(Lits(words)) /\ Len(words) \in Nat /\ IsPath(Lits(words))
  <2>1. /\ TempoStatus[1] = Read(Lits(<<"api", "echo">>)) /\ TempoStatus[2] = Read(Lits(<<"ready">>))
        /\ TempoStatus[3] = Read(Lits(<<"api", "status", "buildinfo">>))
    BY DEF TempoStatus
  <2>2. /\ IsPath(Lits(<<"api", "echo">>)) /\ IsPath(Lits(<<"ready">>))
        /\ IsPath(Lits(<<"api", "status", "buildinfo">>))
    BY WordsHold DEF Holds
  <2>3. /\ Len(<<"api", "echo">>) \in Nat /\ Len(<<"ready">>) \in Nat
        /\ Len(<<"api", "status", "buildinfo">>) \in Nat
    OBVIOUS
  <2>4. CASE k = 1
    BY <2>1, <2>2, <2>3, <2>4
  <2>5. CASE k = 2
    BY <2>1, <2>2, <2>3, <2>5
  <2>6. CASE k = 3
    BY <2>1, <2>2, <2>3, <2>6
  <2>. QED BY <2>4, <2>5, <2>6
<1>2. TempoStatus[k].path = Lits(words) /\ TempoStatus[k].query = Same({})
  BY <1>1 DEF Read, Get, Ask
<1>3. ~Refused(Lits(words), args)
  BY <1>1 DEF Refused, Lits, Lit, Fill
<1>. QED BY <1>1, <1>2, <1>3, SameKeys

\* Whatever is given for an identifier, and however often the call is
\* redirected, the upstream was asked at the tool's own endpoint.
THEOREM AlwaysOwnEndpoint == Spec => []OwnEndpoint
<1>1. CallInv /\ AskInv => OwnEndpoint
  <2>. SUFFICES ASSUME CallInv, AskInv, NEW i \in DOMAIN heard
                PROVE  LET req == Requests[heard[i].nth] IN
                         heard[i].method = req.method /\ heard[i].path = Meant(req.path)
    BY DEF OwnEndpoint
  <2>1. PICK k \in 1..Len(Requests) : heard[i] = Asked(k)
    BY DEF AskInv
  <2>2. /\ heard[i].nth = k /\ heard[i].method = Requests[k].method
        /\ heard[i].path = Wire(Requests[k].path, args)
    BY <2>1 DEF Asked
  <2>3. IsPath(Requests[k].path) /\ ~Refused(Requests[k].path, args)
    <3>1. CASE StatusProbe
      <4>1. Requests = TempoStatus /\ k \in 1..3
        BY <3>1, ProbeLength DEF StatusProbe, Of, Requests
      <4>. QED BY <4>1, ProbeFits
    <3>2. CASE ~StatusProbe
      <4>1. Requests = <<RequestOf(server, tool, DOMAIN args)>>
        BY <3>2 DEF StatusProbe, Of, Requests
      <4>2. Requests[k] = RequestOf(server, tool, DOMAIN args)
        BY <4>1
      <4>3. heard # <<>>
        OBVIOUS
      <4>4. Accepted
        BY <4>3 DEF AskInv
      <4>5. DOMAIN args \subseteq Declared.required \cup Declared.optional
        BY <4>4 DEF Accepted, deserialize
      <4>. QED BY <4>2, <4>4, <4>5, RequestFits DEF Accepted, CallInv, AskInv
    <3>. QED BY <3>1, <3>2
  <2>4. Wire(Requests[k].path, args) = Meant(Requests[k].path)
    BY <2>3, WireIsMeant
  <2>. QED BY <2>2, <2>4
<1>. QED BY CallInvariant, AskInvariant, <1>1, PTL

\* Once the upstream was asked, every argument given took part, each under a
\* key of its own.
THEOREM NoneDropped == Spec => []NoArgumentDropped
<1>1. CallInv /\ AskInv => NoArgumentDropped
  <2>. SUFFICES ASSUME CallInv, AskInv, heard # <<>> PROVE NoArgumentDropped
    BY DEF NoArgumentDropped
  <2>1. Accepted /\ DOMAIN args \subseteq Declared.required \cup Declared.optional
    BY DEF AskInv, Accepted, deserialize
  <2>2. 1 \in DOMAIN heard
    BY DEF CallInv, HeardFirst
  <2>3. PICK k \in 1..Len(Requests) : heard[1] = Asked(k)
    BY <2>2 DEF AskInv
  <2>4. /\ heard[1].query = query_of(Requests[k], DOMAIN args)
        /\ heard[1].body = Requests[k].body \cap DOMAIN args
    BY <2>3 DEF Asked
  <2>5. CASE StatusProbe
    <3>1. DOMAIN args = {}
      <4>1. Declared = NoArguments
        BY <2>5 DEF StatusProbe, Of, Declared, ToolsOf, TempoTools, Read, Get, Ask
      <4>. QED BY <2>1, <4>1 DEF NoArguments, Params
    <3>2. Requests[1] = TempoStatus[1] /\ KeysDiffer(TempoStatus[1].query)
      BY <2>5, ProbeFits DEF StatusProbe, Of, Requests
    <3>. QED BY <3>1, <3>2 DEF NoArgumentDropped, KeysDiffer
  <2>6. CASE ~StatusProbe
    <3>1. Requests = <<RequestOf(server, tool, DOMAIN args)>>
      BY <2>6 DEF StatusProbe, Of, Requests
    <3>2. k = 1 /\ Requests[1] = RequestOf(server, tool, DOMAIN args)
      BY <3>1
    <3>3. PICK r : r = Requests[1]
      OBVIOUS
    <3>4. /\ KeysDiffer(r.query)
          /\ DOMAIN args \subseteq InPath(r.path) \cup DOMAIN r.query \cup r.body \cup r.local
      BY <2>1, <3>2, <3>3, RequestFits DEF CallInv, AskInv
    <3>5. {r.query[n] : n \in DOMAIN args \cap DOMAIN r.query} \subseteq query_of(r, DOMAIN args)
      BY DEF query_of
    <3>. QED BY <2>4, <3>2, <3>3, <3>4, <3>5 DEF NoArgumentDropped, KeysDiffer
  <2>. QED BY <2>5, <2>6
<1>. QED BY CallInvariant, AskInvariant, <1>1, PTL
=============================================================================
