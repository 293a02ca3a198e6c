----------------------------- MODULE RestReplies -----------------------------
(***************************************************************************)
(* What each REST client makes of its upstream's answer.                    *)
(*                                                                          *)
(* A reply is a status and a body; bodies are told apart by what the        *)
(* clients tell apart:                                                      *)
(*   "broken"  reading it fails half-way       "empty"  nothing             *)
(*   "text"    not JSON (an HTML page)         "error"  a JSON error        *)
(*   "data"    JSON with a `data` member       "bare"   other JSON, of the  *)
(*                                                      endpoint's shape    *)
(* A result is `ok` with what is handed to the caller, or a failure with    *)
(* its cause.  Wording and truncation of error texts are left out.          *)
(*                                                                          *)
(* X_variant, next to X, is a deliberately faulty variant of X.             *)
(***************************************************************************)
EXTENDS Naturals

Bodies == {"broken", "empty", "text", "error", "data", "bare"}
Json(body) == body \in {"error", "data", "bare"}
is_success(status) == status \in 200..299

Ok(what) == [ok |-> TRUE, what |-> what]
Err(cause) == [ok |-> FALSE, what |-> cause]

Values == {"data", "document", "text", "null", "done", "states", "nothing_changed"}
Causes == {"invalid_argument", "transport", "status", "envelope", "syntax", "not_found",
           "bad_request", "unhealthy", "template"}
Results == {Ok(v) : v \in Values} \cup {Err(c) : c \in Causes}

\* The `data` member of a JSON document, or the document when it has none.
unwrap_data(body) == IF body = "data" THEN Ok("data") ELSE Ok("document")
parsed(body) == IF Json(body) THEN Ok("document") ELSE Err("syntax")

-----------------------------------------------------------------------------
\* Prometheus: the body is parsed whatever the status; its own error comes first.
prom_get(r) ==
  CASE r.body = "broken" -> Err("transport")
    [] r.body \in {"empty", "text"} ->
         IF is_success(r.status) THEN Err("syntax") ELSE Err("status")
    [] r.body = "error" -> Err("envelope")
    [] r.body \in {"data", "bare"} ->
         IF is_success(r.status) THEN unwrap_data(r.body) ELSE Err("status")

\* Loki: the status first, then the envelope.
loki_get(r) ==
  CASE r.body = "broken" -> Err("transport")
    [] r.body # "broken" /\ ~is_success(r.status) -> Err("status")
    [] r.body # "broken" /\ is_success(r.status) ->
         IF r.body = "error" THEN Err("envelope")
         ELSE IF Json(r.body) THEN unwrap_data(r.body) ELSE Err("syntax")

\* PBS: any JSON under a success status is an answer; `data` is unwrapped.
pbs_get_json(r) ==
  IF r.body = "broken" THEN Err("transport")
  ELSE IF is_success(r.status) THEN parsed(r.body) ELSE Err("status")

pbs_get(r) == IF pbs_get_json(r).ok THEN unwrap_data(r.body) ELSE pbs_get_json(r)

\* Woodpecker: the status is the signal; an empty success is null.
wp_get(r) ==
  IF r.body = "broken" THEN Err("transport")
  ELSE IF ~is_success(r.status) THEN Err("status")
  ELSE IF r.body = "empty" THEN Ok("null") ELSE parsed(r.body)

-----------------------------------------------------------------------------
(* Tempo: `fetch` fails only on transport; three readings of what it got.  *)

tempo_fetched(r) == r.body # "broken"

tempo_get_json(r) ==
  IF ~tempo_fetched(r) THEN Err("transport")
  ELSE IF is_success(r.status) THEN parsed(r.body) ELSE Err("status")

tempo_get_json_or_404_late(r) == tempo_get_json(r)

tempo_get_json_or_404(r) ==
  IF tempo_fetched(r) /\ r.status = 404 THEN Err("not_found") ELSE tempo_get_json(r)

tempo_get_text(r) ==
  IF ~tempo_fetched(r) THEN Err("transport")
  ELSE IF is_success(r.status) THEN Ok("text") ELSE Err("status")

-----------------------------------------------------------------------------
(* Alertmanager.  A body that cannot be read becomes a placeholder text, so *)
(* the status still decides.                                                *)

am_ensure_success(r) == is_success(r.status)

am_get(r) == IF am_ensure_success(r) THEN parsed(r.body) ELSE Err("status")
am_post_json_unchecked(r) == parsed(r.body)
am_post_json(r) == am_get(r)
am_delete(r) == IF am_ensure_success(r) THEN Ok("done") ELSE Err("status")

-----------------------------------------------------------------------------
(* Home Assistant.  A decoded body must have the shape of its model struct. *)

ha_ensure_success(r) == is_success(r.status)

ha_json(r) ==
  IF ~ha_ensure_success(r) THEN Err("status")
  ELSE CASE r.body = "broken" -> Err("transport")
         [] r.body = "bare" -> Ok("document")
         [] OTHER -> Err("syntax")

ha_json_or_404(r) == IF r.status = 404 THEN Err("not_found") ELSE ha_json(r)

\* check_health: only a 200 is healthy, and the tool turns the rest into an error.
ha_check_health(r) ==
  IF r.status # 200 THEN Err("unhealthy") ELSE ha_json(r)

ha_call_service_400only(r) ==
  CASE r.status = 400 -> Err("bad_request")
    [] r.body = "broken" -> Err("transport")
    [] OTHER -> IF r.body = "bare" THEN Ok("states") ELSE Ok("nothing_changed")

\* call_service: a success whose JSON does not hold states is one with no changes.
ha_call_service(r) ==
  IF r.status = 400 THEN Err("bad_request")
  ELSE IF ~ha_ensure_success(r) THEN Err("status")
  ELSE CASE r.body = "broken" -> Err("transport")
         [] r.body = "bare" -> Ok("states")
         [] r.body \in {"error", "data"} -> Ok("nothing_changed")
         [] r.body \in {"empty", "text"} -> Err("syntax")

ha_render_template(r) ==
  IF ~ha_ensure_success(r) THEN Err("template")
  ELSE IF r.body = "broken" THEN Err("transport") ELSE Ok("text")

\* delete_state: nothing but 404 is looked at.
ha_delete_state(r) == IF r.status = 404 THEN Err("not_found") ELSE Ok("done")

\* get_error_log and get_camera_image: 404 apart, the body is the answer.
ha_body_or_404(r) ==
  IF r.status = 404 THEN Err("not_found")
  ELSE IF r.body = "broken" THEN Err("transport") ELSE Ok("text")
=============================================================================
