------------------------ MODULE RemoteWritesProofs ------------------------
(***************************************************************************)
(* Proofs about RemoteWrites for any number of calls, of any tools, over    *)
(* any redirects.                                                           *)
(***************************************************************************)
EXTENDS RemoteWrites, TLAPS

\* What holds of one call, whatever redirects there are.
Sound(c) ==
  /\ pc[c] \in {"idle", "connect"} => ~wire[c]
  /\ pc[c] \in {"idle", "connect"} \/ wire[c] => effects[c] = 0 /\ reply[c] = NoReply
  /\ pc[c] # "done" => result[c] = Pending
  /\ reply[c].status \in 400..499 => effects[c] = 0
  /\ result[c].what = "bad_request" => reply[c].status = 400
  /\ result[c].what = "invalid_argument" => effects[c] = 0 /\ ~wire[c] /\ pc[c] = "done"

Inv == TypeOK /\ \A c \in Calls : Sound(c)

\* What holds of one no redirect made a read: an answer of success comes only
\* from an upstream that did the work.
Worked(c) ==
  Kept(c) => /\ reply[c].status = 200 => effects[c] = 1
             /\ result[c].ok => effects[c] = 1

KeptMethod == Redirects \subseteq {307, 308}
WorkInv == Inv /\ \A c \in Calls : Worked(c)

\* A silence stands for one creation that took effect, an expired one for an
\* expiry that did; only a call behind the gate is ever under way.
SilenceSound(d) ==
  /\ silence[d] # "none" => Tool[d] = "create_silence" /\ effects[d] = 1
  /\ Tool[d] = "create_silence" /\ effects[d] = 1 => silence[d] # "none"
  /\ silence[d] = "expired" =>
       \E e \in Calls : Tool[e] = "expire_silence" /\ target[e] = d /\ effects[e] = 1
  /\ Tool[d] = "expire_silence" /\ effects[d] = 1 => silence[target[d]] = "expired"

SilenceInv == Inv /\ \A d \in Calls : SilenceSound(d)

Closed(c) ==
  /\ Tool[c] \in SilenceTools /\ ~gate => pc[c] \in {"idle", "done"} /\ ~wire[c]
  /\ ~gate => silence[c] = "none"

GateInv == Inv /\ \A c \in Calls : Closed(c)

-----------------------------------------------------------------------------
\* What any answer may be.
Answers == Carried \cup Declined \cup [status : {200}, body : {"bare"}]
AllReplies == [status : {0, 200, 400, 404, 502}, body : Bodies]

\* An answer is a reply; a request carried out is never answered with a 4xx,
\* and one declined never with a success.
LEMMA AnswerType ==
  /\ Answers \subseteq AllReplies
  /\ \A r \in Answers : r.status # 0
  /\ \A r \in Carried : r.status \notin 400..499
  /\ \A r \in Declined : r.status # 200
BY DEF Answers, AllReplies, Carried, Declined, Bodies

\* The results the client methods give are results.
LEMMA ResultTypes ==
  /\ \A v \in Values : Ok(v) \in Results /\ Ok(v).ok /\ Ok(v).what = v
  /\ \A e \in Causes : Err(e) \in Results /\ ~Err(e).ok /\ Err(e).what = e
  /\ {"document", "done", "states", "nothing_changed"} \subseteq Values
  /\ {"status", "syntax", "transport", "bad_request", "invalid_argument"} \subseteq Causes
<1>1. \A v \in Values : Ok(v) \in Results
  BY DEF Results
<1>2. \A e \in Causes : Err(e) \in Results
  BY DEF Results
<1>. QED BY <1>1, <1>2 DEF Ok, Err, Values, Causes

\* What a client method makes of an answer: a result, an Ok only under a
\* success status, and "bad_request" only under a 400.
LEMMA ReadingSound ==
  ASSUME NEW tool \in Tools, NEW r \in AllReplies
  PROVE  /\ Reading(tool, r) \in Results
         /\ Reading(tool, r).ok => r.status = 200
         /\ Reading(tool, r).what = "bad_request" => r.status = 400
         /\ Reading(tool, r).what # "invalid_argument"
<1>1. PICK res : res = Reading(tool, r)
  OBVIOUS
<1>2. \/ \E v \in {"document", "done", "states", "nothing_changed"} :
           res = Ok(v) /\ is_success(r.status)
      \/ \E e \in {"status", "syntax", "transport"} : res = Err(e)
      \/ res = Err("bad_request") /\ r.status = 400
  <2>1. CASE tool = "create_silence"
    <3>1. res = am_post_json(r)
      BY <1>1, <2>1 DEF Reading
    <3>. QED BY <3>1 DEF am_post_json, am_get, am_ensure_success, parsed
  <2>2. CASE tool = "expire_silence"
    <3>1. res = am_delete(r)
      BY <1>1, <2>2 DEF Reading
    <3>. QED BY <3>1 DEF am_delete, am_ensure_success
  <2>3. CASE tool = "set_state"
    <3>1. res = ha_json(r)
      BY <1>1, <2>3 DEF Reading
    <3>. QED BY <3>1 DEF ha_json, ha_ensure_success
  <2>4. CASE tool = "call_service"
    <3>1. res = ha_call_service(r) /\ r.body \in Bodies
      BY <1>1, <2>4 DEF Reading, AllReplies
    <3>2. CASE r.status = 400 \/ ~is_success(r.status)
      BY <3>1, <3>2 DEF ha_call_service, ha_ensure_success
    <3>3. CASE r.status # 400 /\ is_success(r.status)
      <4>1. res = CASE r.body = "broken" -> Err("transport")
                    [] r.body = "bare" -> Ok("states")
                    [] r.body \in {"error", "data"} -> Ok("nothing_changed")
                    [] r.body \in {"empty", "text"} -> Err("syntax")
        BY <3>1, <3>3 DEF ha_call_service, ha_ensure_success
      <4>2. res \in {Err("transport"), Ok("states"), Ok("nothing_changed"), Err("syntax")}
        BY <3>1, <4>1 DEF Bodies
      <4>. QED BY <3>3, <4>2
    <3>. QED BY <3>2, <3>3
  <2>. QED BY <2>1, <2>2, <2>3, <2>4 DEF Tools
<1>3. is_success(r.status) => r.status = 200
  BY DEF is_success, AllReplies
<1>4. res \in Results
  <2>1. CASE \E v \in {"document", "done", "states", "nothing_changed"} : res = Ok(v)
    <3>1. PICK v \in Values : res = Ok(v)
      BY <2>1, ResultTypes
    <3>. QED BY <3>1, ResultTypes
  <2>2. CASE \E e \in {"status", "syntax", "transport", "bad_request"} : res = Err(e)
    <3>1. PICK e \in Causes : res = Err(e)
      BY <2>2, ResultTypes
    <3>. QED BY <3>1, ResultTypes
  <2>. QED BY <1>2, <2>1, <2>2
<1>5. /\ res.ok => r.status = 200
      /\ res.what = "bad_request" => r.status = 400
      /\ res.what # "invalid_argument"
  <2>1. ASSUME NEW v \in {"document", "done", "states", "nothing_changed"},
               res = Ok(v), is_success(r.status)
        PROVE  r.status = 200 /\ res.what = v
    BY <1>3, <2>1 DEF Ok
  <2>2. ASSUME NEW e \in {"status", "syntax", "transport", "bad_request"}, res = Err(e)
        PROVE  ~res.ok /\ res.what = e
    BY <2>2 DEF Err
  <2>. QED BY <1>2, <2>1, <2>2
<1>. QED BY <1>1, <1>4, <1>5

\* A method is one of the three, and stays itself under 307 and 308.
LEMMA MethodType ==
  /\ \A t \in Tools : Method(t) \in {"POST", "DELETE"}
  /\ \A s \in Redirects, m \in {"GET", "POST", "DELETE"} :
       /\ RedirectedMethod(s, m) \in {"GET", "POST", "DELETE"}
       /\ KeptMethod => RedirectedMethod(s, m) = m
BY RedirectAssumption DEF Method, RedirectedMethod, KeptMethod

\* What an upstream's answer does to the call it belongs to.
LEMMA BackSound ==
  ASSUME NEW c \in Calls, NEW answers \in SUBSET Answers, TypeOK, Back(c, answers)
  PROVE  /\ wire' = [wire EXCEPT ![c] = FALSE]
         /\ reply' \in [Calls -> AllReplies]
         /\ \A d \in Calls : d # c => reply'[d] = reply[d]
         /\ reply'[c] = reply[c] \/ (pc[c] = "sent" /\ reply'[c] \in answers)
<1>1. reply \in [Calls -> AllReplies]
  BY DEF TypeOK, AllReplies
<1>2. answers \subseteq AllReplies
  BY AnswerType
<1>. QED BY <1>1, <1>2 DEF Back

-----------------------------------------------------------------------------
LEMMA InitInv == Init => Inv
<1>. SUFFICES ASSUME Init PROVE Inv
  OBVIOUS
<1>1. TypeOK
  BY ToolAssumption, HopAssumption, MethodType DEF Init, TypeOK, NoReply, Bodies, Pending
<1>2. ASSUME NEW c \in Calls PROVE Sound(c)
  BY DEF Init, Sound, NoReply, Pending
<1>. QED BY <1>1, <1>2 DEF Inv

\* A step that leaves what is known of a call alone leaves it sound.
LEMMA Untouched ==
  ASSUME NEW d \in Calls, Sound(d), pc'[d] = pc[d], wire'[d] = wire[d],
         reply'[d] = reply[d], result'[d] = result[d], effects'[d] = effects[d]
  PROVE  Sound(d)'
BY DEF Sound

\* Ending a call sets its place and its result, and no other call's.
LEMMA EndSound ==
  ASSUME NEW c \in Calls, NEW res \in Results, TypeOK, End(c, res)
  PROVE  /\ result' \in [Calls -> Results \cup {Pending}]
         /\ pc' \in [Calls -> {"idle", "connect", "sent", "done"}]
         /\ pc'[c] = "done" /\ result'[c] = res
         /\ \A d \in Calls : d # c => pc'[d] = pc[d] /\ result'[d] = result[d]
BY DEF End, TypeOK

\* What the caller's side of a call does keeps the invariant.
LEMMA ClientInv ==
  ASSUME Inv, NEW c \in Calls, Client(c)
  PROVE  Inv'
<1>0. TypeOK /\ \A d \in Calls : Sound(d)
  BY DEF Inv
<1>1. CASE Invoke(c)
  <2>1. TypeOK'
    BY <1>0, <1>1 DEF TypeOK, Invoke, upstream
  <2>2. ASSUME NEW d \in Calls PROVE Sound(d)'
    <3>1. UNCHANGED <<wire, reply, result, effects>>
      BY <1>1 DEF Invoke, upstream
    <3>2. pc'[d] = pc[d] \/ (pc[d] = "idle" /\ pc'[d] = "connect")
      BY <1>0, <1>1 DEF Invoke, TypeOK
    <3>. QED BY <1>0, <3>1, <3>2 DEF Sound
  <2>. QED BY <2>1, <2>2 DEF Inv
<1>2. CASE Refuse(c)
  <2>0. Err("invalid_argument") \in Results /\ End(c, Err("invalid_argument"))
        /\ pc[c] = "idle" /\ UNCHANGED <<gate, target, method, hops, wire, reply, effects, silence>>
    BY <1>2, ResultTypes DEF Refuse, upstream
  <2>1. TypeOK'
    BY <1>0, <2>0, EndSound DEF TypeOK
  <2>2. Sound(c)'
    <3>1. pc'[c] = "done" /\ result'[c] = Err("invalid_argument")
      BY <1>0, <2>0, EndSound
    <3>2. Sound(c)
      BY <1>0
    <3>. QED BY <2>0, <3>1, <3>2 DEF Sound, Err
  <2>3. ASSUME NEW d \in Calls, d # c PROVE Sound(d)'
    BY <1>0, <2>0, <2>3, EndSound, Untouched
  <2>. QED BY <2>1, <2>2, <2>3 DEF Inv
<1>3. CASE Send(c)
  <2>1. TypeOK'
    BY <1>0, <1>3 DEF TypeOK, Send, upstream
  <2>2. /\ pc[c] = "connect" /\ pc'[c] = "sent"
        /\ \A d \in Calls : d # c => pc'[d] = pc[d] /\ wire'[d] = wire[d]
        /\ UNCHANGED <<reply, result, effects>>
    BY <1>0, <1>3 DEF TypeOK, Send, upstream
  <2>3. Sound(c)'
    <3>1. Sound(c)
      BY <1>0
    <3>. QED BY <2>2, <3>1 DEF Sound, Pending
  <2>4. ASSUME NEW d \in Calls, d # c PROVE Sound(d)'
    BY <1>0, <2>2, <2>4, Untouched
  <2>. QED BY <2>1, <2>3, <2>4 DEF Inv
<1>4. CASE GiveUp(c)
  <2>0. Err("transport") \in Results /\ End(c, Err("transport"))
        /\ UNCHANGED <<gate, target, method, hops, wire, reply, effects, silence>>
    BY <1>4, ResultTypes DEF GiveUp, upstream
  <2>1. TypeOK'
    BY <1>0, <2>0, EndSound DEF TypeOK
  <2>2. Sound(c)'
    <3>1. pc'[c] = "done" /\ result'[c] = Err("transport")
      BY <1>0, <2>0, EndSound
    <3>2. Sound(c)
      BY <1>0
    <3>. QED BY <2>0, <3>1, <3>2 DEF Sound, Err
  <2>3. ASSUME NEW d \in Calls, d # c PROVE Sound(d)'
    BY <1>0, <2>0, <2>3, EndSound, Untouched
  <2>. QED BY <2>1, <2>2, <2>3 DEF Inv
<1>5. CASE Finish(c)
  <2>1. PICK res : res = Reading(Tool[c], reply[c])
    OBVIOUS
  <2>2. reply[c] \in AllReplies /\ Tool[c] \in Tools
    BY <1>0, ToolAssumption DEF TypeOK, AllReplies
  <2>3. /\ res \in Results
        /\ res.what = "bad_request" => reply[c].status = 400
        /\ res.what # "invalid_argument"
    <3>1. PICK tool \in Tools, r \in AllReplies : tool = Tool[c] /\ r = reply[c]
      BY <2>2
    <3>. QED BY <2>1, <3>1, ReadingSound
  <2>4. End(c, res) /\ UNCHANGED <<gate, target, method, hops, wire, reply, effects, silence>>
    BY <1>5, <2>1 DEF Finish, upstream
  <2>5. TypeOK'
    BY <1>0, <2>3, <2>4, EndSound DEF TypeOK
  <2>6. Sound(c)'
    <3>1. pc'[c] = "done" /\ result'[c] = res
      BY <1>0, <2>3, <2>4, EndSound
    <3>2. Sound(c)
      BY <1>0
    <3>. QED BY <2>3, <2>4, <3>1, <3>2 DEF Sound
  <2>7. ASSUME NEW d \in Calls, d # c PROVE Sound(d)'
    BY <1>0, <2>3, <2>4, <2>7, EndSound, Untouched
  <2>. QED BY <2>5, <2>6, <2>7 DEF Inv
<1>. QED BY <1>1, <1>2, <1>3, <1>4, <1>5 DEF Client

\* A request carried out, read or declined: its answer comes back or is lost.
\* Only one carried out has an effect, and the call's first.
LEMMA AnsweredSound ==
  ASSUME Inv, NEW c \in Calls, CarryOut(c) \/ OnlyRead(c) \/ Decline(c)
  PROVE  /\ wire[c] /\ effects[c] = 0 /\ reply[c] = NoReply
         /\ UNCHANGED <<gate, pc, target, method, hops, result>>
         /\ wire' \in [Calls -> BOOLEAN] /\ ~wire'[c]
         /\ \A d \in Calls : d # c => wire'[d] = wire[d] /\ reply'[d] = reply[d]
         /\ reply' \in [Calls -> AllReplies]
         /\ reply'[c] = reply[c] \/ pc[c] = "sent"
         /\ CarryOut(c) => /\ effects' = [effects EXCEPT ![c] = 1]
                           /\ silence' \in [Calls -> {"none", "active", "expired"}]
                           /\ reply'[c].status \notin 400..499
                           /\ reply'[c] # reply[c] => reply'[c] \in Carried
         /\ ~CarryOut(c) => UNCHANGED upstream
<1>0. TypeOK /\ Sound(c)
  BY DEF Inv
<1>1. /\ wire[c] /\ UNCHANGED <<gate, pc, target, method, hops, result>>
      /\ \E answers \in SUBSET Answers : Back(c, answers) /\ (CarryOut(c) => answers = Carried)
  <2>1. CASE CarryOut(c)
    BY <2>1 DEF CarryOut, Answers
  <2>2. CASE OnlyRead(c) /\ ~CarryOut(c)
    BY <2>2 DEF OnlyRead, Answers
  <2>3. CASE Decline(c) /\ ~CarryOut(c)
    BY <2>3 DEF Decline, Answers
  <2>. QED BY <2>1, <2>2, <2>3
<1>2. effects[c] = 0 /\ reply[c] = NoReply
  BY <1>0, <1>1 DEF Sound
<1>3. PICK answers \in SUBSET Answers : Back(c, answers) /\ (CarryOut(c) => answers = Carried)
  BY <1>1
<1>4. /\ wire' = [wire EXCEPT ![c] = FALSE]
      /\ reply' \in [Calls -> AllReplies]
      /\ \A d \in Calls : d # c => reply'[d] = reply[d]
      /\ reply'[c] = reply[c] \/ (pc[c] = "sent" /\ reply'[c] \in answers)
  BY <1>0, <1>3, BackSound
<1>5. /\ wire' \in [Calls -> BOOLEAN] /\ ~wire'[c]
      /\ \A d \in Calls : d # c => wire'[d] = wire[d]
  BY <1>0, <1>4 DEF TypeOK
<1>6. ASSUME CarryOut(c)
      PROVE  /\ effects' = [effects EXCEPT ![c] = 1]
             /\ silence' \in [Calls -> {"none", "active", "expired"}]
             /\ reply'[c].status \notin 400..499
             /\ reply'[c] # reply[c] => reply'[c] \in Carried
  <2>1. effects' = [effects EXCEPT ![c] = 1]
    BY <1>0, <1>2, <1>6 DEF CarryOut, TypeOK
  <2>2. silence' \in [Calls -> {"none", "active", "expired"}]
    <3>1. \/ silence' = [silence EXCEPT ![c] = "active"]
          \/ silence' = [silence EXCEPT ![target[c]] = "expired"]
          \/ silence' = silence
      BY <1>6, Zenon DEF CarryOut
    <3>2. target[c] \in Calls /\ silence \in [Calls -> {"none", "active", "expired"}]
      BY <1>0 DEF TypeOK
    <3>3. ASSUME NEW d \in Calls, NEW s \in {"active", "expired"}
          PROVE  [silence EXCEPT ![d] = s] \in [Calls -> {"none", "active", "expired"}]
      BY <3>2
    <3>. QED BY <3>1, <3>2, <3>3
  <2>3. reply'[c] # reply[c] => reply'[c] \in Carried
    BY <1>3, <1>4, <1>6
  <2>4. reply'[c].status \notin 400..499
    BY <1>2, <2>3, AnswerType DEF NoReply
  <2>. QED BY <2>1, <2>2, <2>3, <2>4
<1>7. ~CarryOut(c) => UNCHANGED upstream
  BY DEF OnlyRead, Decline
<1>. QED BY <1>1, <1>2, <1>4, <1>5, <1>6, <1>7

\* A redirect ends the call or sends it off again.
LEMMA RedirectSound ==
  ASSUME Inv, NEW c \in Calls, Redirect(c)
  PROVE  /\ TypeOK'
         /\ effects[c] = 0 /\ reply[c] = NoReply /\ ~wire'[c] /\ pc[c] = "sent"
         /\ UNCHANGED <<gate, target, reply, effects, silence>>
         /\ \A d \in Calls : d # c => /\ pc'[d] = pc[d] /\ wire'[d] = wire[d]
                                      /\ result'[d] = result[d] /\ method'[d] = method[d]
         /\ \/ pc'[c] = "connect" /\ result'[c] = result[c]
            \/ pc'[c] = "done" /\ result'[c] = Err("transport")
         /\ KeptMethod => method'[c] = method[c]
<1>0. TypeOK /\ Sound(c)
  BY DEF Inv
<1>1. /\ wire[c] /\ pc[c] = "sent" /\ wire' = [wire EXCEPT ![c] = FALSE]
      /\ UNCHANGED <<gate, target, reply, effects, silence>>
  BY DEF Redirect, upstream
<1>2. effects[c] = 0 /\ reply[c] = NoReply
  BY <1>0, <1>1 DEF Sound
<1>3. /\ wire' \in [Calls -> BOOLEAN] /\ ~wire'[c]
      /\ \A d \in Calls : d # c => wire'[d] = wire[d]
  BY <1>0, <1>1 DEF TypeOK
<1>4. CASE hops[c] = MaxHops
  <2>1. Err("transport") \in Results /\ End(c, Err("transport")) /\ UNCHANGED <<hops, method>>
    BY <1>4, ResultTypes DEF Redirect
  <2>2. TypeOK'
    BY <1>0, <1>1, <1>3, <2>1, EndSound DEF TypeOK
  <2>. QED BY <1>0, <1>1, <1>2, <1>3, <2>1, <2>2, EndSound
<1>5. CASE hops[c] # MaxHops
  <2>1. PICK s \in Redirects :
          /\ hops' = [hops EXCEPT ![c] = @ + 1]
          /\ method' = [method EXCEPT ![c] = RedirectedMethod(s, @)]
          /\ pc' = [pc EXCEPT ![c] = "connect"]
          /\ UNCHANGED result
    BY <1>5 DEF Redirect
  <2>2. PICK m : m = RedirectedMethod(s, method[c])
    OBVIOUS
  <2>3. m \in {"GET", "POST", "DELETE"} /\ (KeptMethod => m = method[c])
    BY <1>0, <2>2, MethodType DEF TypeOK
  <2>4. method' = [method EXCEPT ![c] = m]
    BY <2>1, <2>2
  <2>5. method' \in [Calls -> {"GET", "POST", "DELETE"}] /\ (KeptMethod => method'[c] = method[c])
        /\ \A d \in Calls : d # c => method'[d] = method[d]
    BY <1>0, <2>3, <2>4 DEF TypeOK
  <2>6. hops' \in [Calls -> 0..MaxHops]
    <3>1. hops \in [Calls -> 0..MaxHops]
      BY <1>0 DEF TypeOK
    <3>2. hops[c] \in 0..MaxHops
      BY <3>1
    <3>3. hops[c] + 1 \in 0..MaxHops
      BY <1>5, <3>2, HopAssumption
    <3>. QED BY <2>1, <3>1, <3>3
  <2>7. pc' \in [Calls -> {"idle", "connect", "sent", "done"}] /\ pc'[c] = "connect"
        /\ \A d \in Calls : d # c => pc'[d] = pc[d]
    BY <1>0, <2>1 DEF TypeOK
  <2>8. TypeOK'
    BY <1>0, <1>1, <1>3, <2>1, <2>5, <2>6, <2>7 DEF TypeOK
  <2>. QED BY <1>1, <1>2, <1>3, <2>1, <2>5, <2>7, <2>8
<1>. QED BY <1>4, <1>5

\* So does what the network and the upstream do to it.
LEMMA UpstreamInv ==
  ASSUME Inv, NEW c \in Calls, Upstream(c)
  PROVE  Inv'
<1>0. TypeOK /\ \A d \in Calls : Sound(d)
  BY DEF Inv
<1>1. CASE CarryOut(c) \/ OnlyRead(c) \/ Decline(c)
  <2>1. effects' \in [Calls -> 0..1] /\ silence' \in [Calls -> {"none", "active", "expired"}]
        /\ \A d \in Calls : d # c => effects'[d] = effects[d]
    <3>1. effects \in [Calls -> 0..1] /\ silence \in [Calls -> {"none", "active", "expired"}]
      BY <1>0 DEF TypeOK
    <3>2. CASE CarryOut(c)
      BY <3>1, <3>2, AnsweredSound
    <3>3. CASE ~CarryOut(c)
      BY <1>1, <3>1, <3>3, AnsweredSound DEF upstream
    <3>. QED BY <3>2, <3>3
  <2>2. UNCHANGED <<gate, pc, target, method, hops, result>>
        /\ wire' \in [Calls -> BOOLEAN] /\ ~wire'[c] /\ reply' \in [Calls -> AllReplies]
        /\ \A d \in Calls : d # c => wire'[d] = wire[d] /\ reply'[d] = reply[d]
    BY <1>1, AnsweredSound
  <2>3. TypeOK'
    BY <1>0, <2>1, <2>2 DEF TypeOK, AllReplies
  <2>4. Sound(c)'
    <3>1. Sound(c) /\ wire[c] /\ effects[c] = 0 /\ reply[c] = NoReply
          /\ (reply'[c] = reply[c] \/ pc[c] = "sent")
          /\ (reply'[c].status \in 400..499 => effects'[c] = 0)
      BY <1>0, <1>1, AnsweredSound DEF upstream
    <3>2. pc[c] \notin {"idle", "connect"} /\ result[c].what # "invalid_argument"
          /\ result[c].what # "bad_request"
      BY <3>1 DEF Sound, NoReply
    <3>. QED BY <2>2, <3>1, <3>2 DEF Sound
  <2>5. ASSUME NEW d \in Calls, d # c PROVE Sound(d)'
    BY <1>0, <2>1, <2>2, <2>5, Untouched
  <2>. QED BY <2>3, <2>4, <2>5 DEF Inv
<1>2. CASE Redirect(c)
  <2>1. Sound(c)'
    <3>1. Sound(c)
      BY <1>0
    <3>. QED BY <1>2, <3>1, RedirectSound DEF Sound, Err, NoReply, Pending
  <2>2. ASSUME NEW d \in Calls, d # c PROVE Sound(d)'
    BY <1>0, <1>2, <2>2, RedirectSound, Untouched
  <2>. QED BY <1>2, <2>1, <2>2, RedirectSound DEF Inv
<1>. QED BY <1>1, <1>2 DEF Upstream

LEMMA StepInv == Inv /\ [Next]_vars => Inv'
<1>1. CASE UNCHANGED vars
  <2>1. ASSUME Inv PROVE TypeOK' /\ \A d \in Calls : Sound(d)'
    BY <1>1, <2>1 DEF Inv, TypeOK, Sound, vars, callVars, upstream
  <2>. QED BY <2>1 DEF Inv
<1>. QED BY <1>1, ClientInv, UpstreamInv DEF Next

\* The state keeps its shape: no call takes effect twice, follows more than
\* MaxHops redirects or reports a result no client method gives.
THEOREM TypeCorrect == Spec => []TypeOK
<1>1. Inv => TypeOK
  BY DEF Inv
<1>. QED BY <1>1, InitInv, StepInv, PTL DEF Spec

LEMMA AlwaysInv == Spec => []Inv
BY InitInv, StepInv, PTL DEF Spec

\* A refusal is final: a call refused by the server or answered with a 4xx has
\* changed nothing upstream, and no request of it is left that could.
THEOREM RefusalsAreFinal == Spec => []RefusalIsFinal
<1>1. Inv => RefusalIsFinal
  <2>. SUFFICES ASSUME Inv, NEW c \in Calls,
                       result[c].what \in {"invalid_argument", "bad_request"}
                         \/ reply[c].status \in 400..499
                PROVE  effects[c] = 0 /\ ~wire[c]
    BY DEF RefusalIsFinal
  <2>1. CASE result[c].what = "invalid_argument"
    BY <2>1 DEF Inv, Sound
  <2>2. CASE reply[c].status \in 400..499
    BY <2>2 DEF Inv, Sound, NoReply, TypeOK
  <2>3. CASE result[c].what = "bad_request"
    BY <2>2, <2>3 DEF Inv, Sound
  <2>. QED BY <2>1, <2>2, <2>3
<1>. QED BY <1>1, AlwaysInv, PTL

-----------------------------------------------------------------------------
(* Successes.                                                              *)

LEMMA InitWork == Init => WorkInv
<1>. SUFFICES ASSUME Init PROVE \A c \in Calls : Worked(c)
  BY InitInv DEF WorkInv
<1>. TAKE c \in Calls
<1>1. reply[c].status = 0 /\ ~result[c].ok
  BY DEF Init, NoReply, Pending
<1>. QED BY <1>1 DEF Worked

\* A call keeps having worked through every step of the calls.
LEMMA StepWork == WorkInv /\ [Next]_vars => WorkInv'
<1>. SUFFICES ASSUME WorkInv, [Next]_vars, NEW d \in Calls PROVE Worked(d)'
  BY StepInv DEF WorkInv
<1>0. TypeOK /\ Sound(d) /\ Worked(d) /\ Inv
  BY DEF WorkInv, Inv
<1>1. CASE UNCHANGED vars
  BY <1>0, <1>1 DEF Kept, Worked, vars, callVars, upstream
<1>2. ASSUME NEW c \in Calls, Invoke(c) \/ Send(c)
      PROVE  Worked(d)'
  <2>1. UNCHANGED <<method, reply, result, effects>>
    BY <1>2 DEF Invoke, Send, upstream
  <2>. QED BY <1>0, <2>1 DEF Kept, Worked
<1>3. ASSUME NEW c \in Calls, Refuse(c) \/ GiveUp(c)
      PROVE  Worked(d)'
  <2>1. PICK e \in {"invalid_argument", "transport"} : End(c, Err(e))
    BY <1>3 DEF Refuse, GiveUp
  <2>2. UNCHANGED <<method, reply, effects>>
    BY <1>3 DEF Refuse, GiveUp, upstream
  <2>3. result'[d] = result[d] \/ result'[d] = Err(e)
    BY <1>0, <2>1 DEF End, TypeOK
  <2>. QED BY <1>0, <2>2, <2>3 DEF Kept, Worked, Err
<1>4. ASSUME NEW c \in Calls, Finish(c)
      PROVE  Worked(d)'
  <2>1. PICK res : res = Reading(Tool[c], reply[c])
    OBVIOUS
  <2>2. Tool[c] \in Tools /\ reply[c] \in AllReplies
    BY <1>0, ToolAssumption DEF TypeOK, AllReplies
  <2>3. res.ok => reply[c].status = 200
    BY <2>1, <2>2, ReadingSound
  <2>4. UNCHANGED <<method, reply, effects>> /\ End(c, res)
    BY <1>4, <2>1 DEF Finish, upstream
  <2>5. result'[d] = result[d] \/ (d = c /\ result'[d] = res)
    BY <1>0, <2>4 DEF End, TypeOK
  <2>. QED BY <1>0, <2>3, <2>4, <2>5 DEF Kept, Worked
<1>5. ASSUME NEW c \in Calls, CarryOut(c) \/ OnlyRead(c) \/ Decline(c)
      PROVE  Worked(d)'
  <2>1. UNCHANGED <<method, result>> /\ effects \in [Calls -> 0..1]
    BY <1>0, <1>5, AnsweredSound DEF TypeOK
  <2>2. CASE d # c
    <3>1. reply'[d] = reply[d] /\ effects'[d] = effects[d]
      BY <1>0, <1>5, <2>1, <2>2, AnsweredSound DEF upstream
    <3>. QED BY <1>0, <2>1, <3>1 DEF Kept, Worked
  <2>3. CASE d = c /\ CarryOut(c)
    <3>1. effects'[d] = 1
      BY <1>0, <2>1, <2>3, AnsweredSound
    <3>. QED BY <1>0, <2>1, <3>1 DEF Worked
  <2>4. CASE d = c /\ Decline(c) /\ ~CarryOut(c)
    <3>1. effects' = effects /\ effects[d] = 0 /\ reply[d] = NoReply
      BY <1>0, <2>4, AnsweredSound DEF upstream
    <3>2. Back(c, Declined)
      BY <2>4 DEF Decline
    <3>3. reply'[d] = reply[d] \/ reply'[d] \in Declined
      BY <1>0, <2>4, <3>2 DEF Back, TypeOK
    <3>4. reply'[d].status # 200
      BY <3>1, <3>3, AnswerType DEF NoReply
    <3>. QED BY <1>0, <2>1, <3>1, <3>4 DEF Kept, Worked
  <2>5. CASE d = c /\ OnlyRead(c) /\ ~CarryOut(c)
    BY <2>1, <2>5 DEF OnlyRead, Worked, Kept
  <2>. QED BY <1>5, <2>2, <2>3, <2>4, <2>5
<1>6. ASSUME NEW c \in Calls, Redirect(c)
      PROVE  Worked(d)'
  <2>1. UNCHANGED <<reply, effects>>
        /\ (d # c => method'[d] = method[d] /\ result'[d] = result[d])
        /\ reply[c] = NoReply /\ pc[c] = "sent"
        /\ (result'[c] = result[c] \/ result'[c] = Err("transport"))
    BY <1>0, <1>6, RedirectSound
  <2>2. CASE d # c
    BY <1>0, <2>1, <2>2 DEF Worked, Kept
  <2>3. CASE d = c
    <3>1. ~result[c].ok
      BY <1>0, <2>1, <2>3 DEF Sound, Pending
    <3>2. ~result'[c].ok /\ reply'[c].status # 200
      BY <2>1, <3>1 DEF Err, NoReply
    <3>. QED BY <2>3, <3>2 DEF Worked
  <2>. QED BY <2>2, <2>3
<1>. QED BY <1>1, <1>2, <1>3, <1>4, <1>5, <1>6 DEF Next, Client, Upstream

\* A success is reported only after the upstream carried the call out, unless a
\* redirect made a read of it: am_ensure_success and ha_ensure_success suffice
\* for create_silence, expire_silence, set_state and call_service.
THEOREM SuccessHadEffect == Spec => []OkHadEffect
<1>1. WorkInv => OkHadEffect
  BY DEF WorkInv, Worked, OkHadEffect
<1>. QED BY <1>1, InitWork, StepWork, PTL DEF Spec

AllKept == \A c \in Calls : Kept(c)

\* Under redirects that keep the method every request stays the write it was.
LEMMA StepKept == ASSUME KeptMethod PROVE Inv /\ AllKept /\ [Next]_vars => AllKept'
<1>. SUFFICES ASSUME Inv, AllKept, [Next]_vars, NEW d \in Calls PROVE Kept(d)'
  BY DEF AllKept
<1>1. CASE UNCHANGED vars
  BY <1>1 DEF AllKept, Kept, vars, callVars
<1>2. ASSUME NEW c \in Calls, Client(c) \/ CarryOut(c) \/ OnlyRead(c) \/ Decline(c)
      PROVE  Kept(d)'
  <2>1. UNCHANGED method
    BY <1>2 DEF Client, Invoke, Refuse, Send, GiveUp, Finish, CarryOut, OnlyRead, Decline
  <2>. QED BY <2>1 DEF AllKept, Kept
<1>3. ASSUME NEW c \in Calls, Redirect(c)
      PROVE  Kept(d)'
  <2>1. method'[d] = method[d]
    BY <1>3, RedirectSound
  <2>. QED BY <2>1 DEF AllKept, Kept
<1>. QED BY <1>1, <1>2, <1>3 DEF Next, Upstream

\* With 307 and 308 alone, what ensure_success was written for holds: no call
\* that changed nothing is reported a success.
THEOREM ReportsAreTrue == ASSUME KeptMethod PROVE Spec => []ReportIsTrue
<1>1. Init => AllKept
  BY ToolAssumption, MethodType DEF Init, AllKept, Kept
<1>2. WorkInv /\ AllKept => ReportIsTrue
  BY DEF WorkInv, Worked, AllKept, ReportIsTrue
<1>. QED BY <1>1, <1>2, AlwaysInv, StepKept, InitWork, StepWork, PTL DEF Spec

-----------------------------------------------------------------------------
(* The promise of AtMostOnce.                                              *)

\* How a call looks to its caller when it has not been answered.
LEMMA OutcomeValues ==
  ASSUME NEW c \in Calls
  PROVE  /\ pc[c] # "done" => outcome[c] = "none"
         /\ pc[c] = "done" /\ result[c].ok /\ Kept(c) => outcome[c] = "ok"
         /\ pc[c] = "done" /\ ~(result[c].ok /\ Kept(c)) =>
              outcome[c] = IF result[c].what = "invalid_argument" THEN "refused" ELSE "failed"
BY DEF outcome

\* Where a call stands at the same place with the same result, it looks the same.
LEMMA SameOutcome == UNCHANGED <<pc, method, result>> => UNCHANGED outcome
BY DEF outcome, Kept

\* Ending a call is seen as the end of that call alone.
LEMMA EndOutcome ==
  ASSUME TypeOK, NEW c \in Calls, NEW res \in Results, End(c, res),
         UNCHANGED method
  PROVE  outcome' = [outcome EXCEPT ![c] =
           IF res.ok /\ Kept(c) THEN "ok" ELSE IF res.what = "invalid_argument" THEN "refused" ELSE "failed"]
<1>1. PICK o : o = IF res.ok /\ Kept(c) THEN "ok" ELSE IF res.what = "invalid_argument" THEN "refused" ELSE "failed"
  OBVIOUS
<1>2. \A d \in Calls : outcome'[d] = IF d = c THEN o ELSE outcome[d]
  <2>. TAKE d \in Calls
  <2>1. CASE d = c
    <3>1. pc'[d] = "done" /\ result'[d] = res
      BY <2>1, EndSound
    <3>. QED BY <1>1, <2>1, <3>1 DEF outcome, Kept
  <2>2. CASE d # c
    <3>1. pc'[d] = pc[d] /\ result'[d] = result[d]
      BY <2>2, EndSound
    <3>. QED BY <2>2, <3>1 DEF outcome, Kept
  <2>. QED BY <2>1, <2>2
<1>3. outcome = [d \in Calls |-> outcome[d]] /\ outcome' = [d \in Calls |-> outcome'[d]]
  BY DEF outcome
<1>4. outcome' = [d \in Calls |-> IF d = c THEN o ELSE outcome[d]]
  BY <1>2, <1>3
<1>5. outcome' = [outcome EXCEPT ![c] = o]
  BY <1>3, <1>4
<1>. QED BY <1>1, <1>5

\* Each step of the calls is a step of the promise, or changes neither what a
\* caller is told nor how often a call took effect.
LEMMA StepPromise ==
  ASSUME WorkInv, [Next]_vars
  PROVE  [Promise!Next]_(Promise!vars)
<1>0. TypeOK /\ Inv
  BY DEF WorkInv, Inv
<1>1. CASE UNCHANGED vars
  BY <1>1, SameOutcome DEF vars, callVars, upstream, Promise!vars
<1>2. ASSUME NEW c \in Calls, Invoke(c) \/ Send(c)
      PROVE  UNCHANGED Promise!vars
  <2>1. UNCHANGED <<method, result, effects>> /\ (pc[c] = "idle" \/ pc[c] = "connect")
        /\ pc' = [pc EXCEPT ![c] = IF pc[c] = "idle" THEN "connect" ELSE "sent"]
    BY <1>2 DEF Invoke, Send, upstream
  <2>2. \A d \in Calls : pc'[d] = "done" <=> pc[d] = "done"
    BY <1>0, <2>1 DEF TypeOK
  <2>3. UNCHANGED outcome
    BY <2>1, <2>2 DEF outcome, Kept
  <2>. QED BY <2>1, <2>3 DEF Promise!vars
<1>3. ASSUME NEW c \in Calls, Refuse(c)
      PROVE  Promise!Next
  <2>1. /\ End(c, Err("invalid_argument")) /\ UNCHANGED <<method, effects>> /\ effects[c] = 0
        /\ outcome[c] = "none" /\ Err("invalid_argument") \in Results
    BY <1>0, <1>3, ResultTypes, OutcomeValues DEF Refuse, upstream, Inv, Sound
  <2>2. outcome' = [outcome EXCEPT ![c] = "refused"]
    BY <1>0, <2>1, EndOutcome DEF Err
  <2>. QED BY <2>1, <2>2 DEF Promise!Next, Promise!Refuse
<1>4. ASSUME NEW c \in Calls, GiveUp(c)
      PROVE  Promise!Next
  <2>1. /\ End(c, Err("transport")) /\ UNCHANGED <<method, effects>>
        /\ outcome[c] = "none" /\ Err("transport") \in Results
    BY <1>4, ResultTypes, OutcomeValues DEF GiveUp, upstream
  <2>2. outcome' = [outcome EXCEPT ![c] = "failed"]
    BY <1>0, <2>1, EndOutcome DEF Err
  <2>. QED BY <2>1, <2>2 DEF Promise!Next, Promise!Fail
<1>5. ASSUME NEW c \in Calls, Finish(c)
      PROVE  Promise!Next
  <2>1. PICK res : res = Reading(Tool[c], reply[c])
    OBVIOUS
  <2>2. Tool[c] \in Tools /\ reply[c] \in AllReplies
    BY <1>0, ToolAssumption DEF TypeOK, AllReplies
  <2>3. res \in Results /\ (res.ok => reply[c].status = 200) /\ res.what # "invalid_argument"
    BY <2>1, <2>2, ReadingSound
  <2>4. UNCHANGED <<method, effects>> /\ End(c, res) /\ outcome[c] = "none"
    BY <1>5, <2>1, OutcomeValues DEF Finish, upstream
  <2>5. outcome' = [outcome EXCEPT ![c] = IF res.ok /\ Kept(c) THEN "ok" ELSE "failed"]
    BY <1>0, <2>3, <2>4, EndOutcome
  <2>6. res.ok /\ Kept(c) => effects[c] = 1
    BY <2>3 DEF WorkInv, Worked
  <2>7. CASE res.ok /\ Kept(c)
    BY <2>4, <2>5, <2>6, <2>7 DEF Promise!Next, Promise!Succeed
  <2>8. CASE ~(res.ok /\ Kept(c))
    BY <2>4, <2>5, <2>8 DEF Promise!Next, Promise!Fail
  <2>. QED BY <2>7, <2>8
<1>6. ASSUME NEW c \in Calls, CarryOut(c)
      PROVE  Promise!Next
  <2>1. /\ UNCHANGED outcome /\ effects[c] = 0 /\ wire[c] /\ Kept(c)
        /\ effects' = [effects EXCEPT ![c] = 1]
    BY <1>0, <1>6, AnsweredSound, SameOutcome DEF CarryOut, Works, Kept
  <2>2. ~result[c].ok /\ result[c].what # "invalid_argument"
    BY <2>1 DEF WorkInv, Worked, Inv, Sound
  <2>3. outcome[c] \in {"none", "failed"}
    BY <1>0, <2>2, OutcomeValues DEF TypeOK
  <2>. QED BY <2>1, <2>3 DEF Promise!Next, Promise!TakeEffect
<1>7. ASSUME NEW c \in Calls, (OnlyRead(c) \/ Decline(c)) /\ ~CarryOut(c)
      PROVE  UNCHANGED Promise!vars
  BY <1>0, <1>7, AnsweredSound, SameOutcome DEF upstream, Promise!vars
<1>8. ASSUME NEW c \in Calls, Redirect(c)
      PROVE  Promise!Next \/ UNCHANGED Promise!vars
  <2>0. UNCHANGED effects /\ outcome[c] = "none"
    BY <1>0, <1>8, RedirectSound, OutcomeValues
  <2>1. CASE hops[c] = MaxHops
    <3>1. End(c, Err("transport")) /\ Err("transport") \in Results /\ UNCHANGED method
      BY <1>8, <2>1, ResultTypes DEF Redirect
    <3>2. outcome' = [outcome EXCEPT ![c] = "failed"]
      BY <1>0, <3>1, EndOutcome DEF Err
    <3>. QED BY <2>0, <3>2 DEF Promise!Next, Promise!Fail
  <2>2. CASE hops[c] # MaxHops
    <3>1. pc[c] = "sent" /\ pc' = [pc EXCEPT ![c] = "connect"] /\ UNCHANGED result
      BY <1>8, <2>2 DEF Redirect
    <3>3. \A d \in Calls : pc[d] = "done" => d # c /\ method'[d] = method[d]
      BY <1>0, <1>8, <3>1, RedirectSound
    <3>2. \A d \in Calls : pc'[d] = "done" <=> pc[d] = "done"
      BY <1>0, <3>1 DEF TypeOK
    <3>4. UNCHANGED outcome
      BY <3>1, <3>2, <3>3 DEF outcome, Kept
    <3>. QED BY <2>0, <3>4 DEF Promise!vars
  <2>. QED BY <2>1, <2>2
<1>. QED BY <1>1, <1>2, <1>3, <1>4, <1>5, <1>6, <1>7, <1>8 DEF Next, Client, Upstream

LEMMA InitPromise == Init => Promise!Init
BY DEF Init, outcome, Promise!Init

\* The tools that write keep the promise of AtMostOnce through lost, late,
\* refused and redirected requests.
THEOREM PromiseKept == Spec => KeepsPromise
<1>1. WorkInv /\ [Next]_vars => [Promise!Next]_(Promise!vars)
  BY StepPromise
<1>2. Spec => Promise!Spec
  BY <1>1, InitPromise, InitWork, StepWork, PTL DEF Spec, Promise!Spec
<1>. QED BY <1>2 DEF KeepsPromise

-----------------------------------------------------------------------------
(* Silences.                                                               *)

\* Behind a closed gate no silence tool ever gets past its refusal.
LEMMA StepGate == GateInv /\ [Next]_vars => GateInv'
<1>. SUFFICES ASSUME GateInv, [Next]_vars, NEW d \in Calls PROVE Closed(d)'
  BY StepInv DEF GateInv
<1>0. TypeOK /\ Inv /\ \A c \in Calls : Closed(c)
  BY DEF GateInv, Inv
<1>1. CASE UNCHANGED vars
  BY <1>0, <1>1 DEF Closed, vars, callVars, upstream
<1>2. ASSUME NEW c \in Calls, Invoke(c)
      PROVE  Closed(d)'
  <2>1. /\ UNCHANGED <<gate, wire, silence>> /\ (Tool[c] \in SilenceTools => gate)
        /\ pc' = [pc EXCEPT ![c] = "connect"]
    BY <1>2 DEF Invoke, upstream, Registered
  <2>2. d # c => pc'[d] = pc[d]
    BY <1>0, <2>1 DEF TypeOK
  <2>. QED BY <1>0, <2>1, <2>2 DEF Closed
<1>3. ASSUME NEW c \in Calls, Refuse(c) \/ GiveUp(c) \/ Finish(c)
      PROVE  Closed(d)'
  <2>1. UNCHANGED <<gate, wire, silence>> /\ pc' = [pc EXCEPT ![c] = "done"]
    BY <1>3 DEF Refuse, GiveUp, Finish, End, upstream
  <2>2. pc'[d] = pc[d] \/ pc'[d] = "done"
    BY <1>0, <2>1 DEF TypeOK
  <2>. QED BY <1>0, <2>1, <2>2 DEF Closed
<1>4. ASSUME NEW c \in Calls, Send(c)
      PROVE  Closed(d)'
  <2>1. /\ UNCHANGED <<gate, silence>> /\ pc[c] = "connect"
        /\ \A e \in Calls : e # c => pc'[e] = pc[e] /\ wire'[e] = wire[e]
    BY <1>0, <1>4 DEF Send, upstream, TypeOK
  <2>2. Tool[c] \in SilenceTools => gate
    BY <1>0, <2>1 DEF Closed
  <2>. QED BY <1>0, <2>1, <2>2 DEF Closed
<1>5. ASSUME NEW c \in Calls, CarryOut(c) \/ OnlyRead(c) \/ Decline(c)
      PROVE  Closed(d)'
  <2>1. /\ UNCHANGED <<gate, pc>> /\ wire[c] /\ ~wire'[c]
        /\ \A e \in Calls : e # c => wire'[e] = wire[e]
        /\ ~CarryOut(c) => UNCHANGED silence
    BY <1>0, <1>5, AnsweredSound DEF upstream
  <2>2. Tool[c] \in SilenceTools => gate
    BY <1>0, <2>1 DEF Closed
  <2>3. Tool[c] \notin SilenceTools => UNCHANGED silence
    <3>1. CASE CarryOut(c) /\ Tool[c] \notin SilenceTools
      <4>1. Tool[c] # "create_silence" /\ Tool[c] # "expire_silence"
        BY <3>1 DEF SilenceTools
      <4>. QED BY <3>1, <4>1, Zenon DEF CarryOut
    <3>. QED BY <2>1, <3>1
  <2>. QED BY <1>0, <2>1, <2>2, <2>3 DEF Closed
<1>6. ASSUME NEW c \in Calls, Redirect(c)
      PROVE  Closed(d)'
  <2>1. /\ UNCHANGED <<gate, silence>> /\ wire[c] /\ ~wire'[c]
        /\ \A e \in Calls : e # c => pc'[e] = pc[e] /\ wire'[e] = wire[e]
    BY <1>0, <1>6, RedirectSound DEF Redirect
  <2>2. Tool[c] \in SilenceTools => gate
    BY <1>0, <2>1 DEF Closed
  <2>. QED BY <1>0, <2>1, <2>2 DEF Closed
<1>. QED BY <1>1, <1>2, <1>3, <1>4, <1>5, <1>6 DEF Next, Client, Upstream

\* Without ALERTMANAGER_ALLOW_SILENCE no silence is made or ended, whatever is
\* called and whatever the upstream answers.
THEOREM GateAlwaysHolds == Spec => []GateHolds
<1>1. Init => GateInv
  BY InitInv DEF Init, GateInv, Closed
<1>2. GateInv => GateHolds
  BY DEF GateInv, Closed, GateHolds
<1>. QED BY <1>1, <1>2, StepGate, PTL DEF Spec

LEMMA InitSilence == Init => SilenceInv
<1>. SUFFICES ASSUME Init, NEW d \in Calls PROVE SilenceSound(d)
  BY InitInv DEF SilenceInv
<1>. QED BY DEF Init, SilenceSound

\* A step that changes no silence, no effect and no target of a call that took
\* effect changes nothing about the silences.
LEMMA SilencesUntouched ==
  ASSUME SilenceInv, UNCHANGED <<effects, silence>>,
         \A e \in Calls : effects[e] = 1 => target'[e] = target[e]
  PROVE  \A d \in Calls : SilenceSound(d)'
BY DEF SilenceInv, SilenceSound

\* The silences stay accounted for through every step.
LEMMA StepSilence == SilenceInv /\ [Next]_vars => SilenceInv'
<1>. SUFFICES ASSUME SilenceInv, [Next]_vars PROVE \A d \in Calls : SilenceSound(d)'
  BY StepInv DEF SilenceInv
<1>0. TypeOK /\ Inv /\ \A c \in Calls : SilenceSound(c)
  BY DEF SilenceInv, Inv
<1>1. CASE UNCHANGED vars
  BY <1>1, SilencesUntouched DEF vars, callVars, upstream
<1>2. ASSUME NEW c \in Calls, Client(c) \/ OnlyRead(c) \/ Decline(c) \/ Redirect(c)
      PROVE  \A d \in Calls : SilenceSound(d)'
  <2>1. CASE Invoke(c)
    <3>1. UNCHANGED <<effects, silence>> /\ effects[c] = 0
      BY <1>0, <2>1 DEF Invoke, upstream, Inv, Sound
    <3>2. \A e \in Calls : e # c => target'[e] = target[e]
      BY <1>0, <2>1 DEF Invoke, TypeOK
    <3>. QED BY <3>1, <3>2, SilencesUntouched
  <2>2. CASE Refuse(c) \/ Send(c) \/ GiveUp(c) \/ Finish(c) \/ OnlyRead(c) \/ Decline(c) \/ Redirect(c)
    <3>1. UNCHANGED <<effects, silence, target>>
      BY <2>2 DEF Refuse, Send, GiveUp, Finish, OnlyRead, Decline, Redirect, upstream
    <3>. QED BY <3>1, SilencesUntouched
  <2>. QED BY <1>2, <2>1, <2>2 DEF Client
<1>3. ASSUME NEW c \in Calls, CarryOut(c)
      PROVE  \A d \in Calls : SilenceSound(d)'
  <2>0. /\ effects[c] = 0 /\ effects' = [effects EXCEPT ![c] = 1] /\ UNCHANGED target
        /\ effects \in [Calls -> 0..1] /\ target \in [Calls -> Calls]
        /\ silence \in [Calls -> {"none", "active", "expired"}]
    BY <1>0, <1>3, AnsweredSound DEF TypeOK
  <2>1. effects'[c] = 1 /\ \A e \in Calls : e # c => effects'[e] = effects[e]
    BY <2>0
  <2>2. silence[c] = "none"
    BY <1>0, <2>0 DEF SilenceSound
  <2>3. CASE Tool[c] = "create_silence"
    <3>1. silence' = [silence EXCEPT ![c] = "active"]
      BY <1>3, <2>3, Zenon DEF CarryOut
    <3>2. silence'[c] = "active" /\ \A e \in Calls : e # c => silence'[e] = silence[e]
      BY <2>0, <3>1
    <3>3. \A e \in Calls : Tool[e] = "expire_silence" /\ effects[e] = 1 => target[e] # c
      BY <1>0, <2>2 DEF SilenceSound
    <3>. QED BY <1>0, <2>0, <2>1, <2>3, <3>2, <3>3 DEF SilenceSound
  <2>4. CASE Tool[c] = "expire_silence"
    <3>1. silence[target[c]] = "active" /\ target[c] # c
      BY <1>3, <2>2, <2>4 DEF CarryOut, Works
    <3>2. silence' = [silence EXCEPT ![target[c]] = "expired"]
      BY <1>3, <2>4, Zenon DEF CarryOut
    <3>3. silence'[target[c]] = "expired" /\ \A e \in Calls : e # target[c] => silence'[e] = silence[e]
      BY <2>0, <3>2
    <3>. QED BY <1>0, <2>0, <2>1, <2>4, <3>1, <3>3 DEF SilenceSound
  <2>5. CASE Tool[c] \notin SilenceTools
    <3>1. Tool[c] # "create_silence" /\ Tool[c] # "expire_silence"
      BY <2>5 DEF SilenceTools
    <3>2. silence' = silence
      BY <1>3, <3>1, Zenon DEF CarryOut
    <3>. QED BY <1>0, <2>0, <2>1, <3>1, <3>2 DEF SilenceSound
  <2>. QED BY <2>3, <2>4, <2>5 DEF SilenceTools
<1>. QED BY <1>1, <1>2, <1>3 DEF Next, Upstream

\* A silence reported created stands until an expire_silence names it.
THEOREM CreatedSilencesStand == Spec => []SilenceStands
<1>1. SilenceInv /\ WorkInv => SilenceStands
  <2>. SUFFICES ASSUME SilenceInv, WorkInv, NEW c \in Calls, Kept(c),
                       Tool[c] = "create_silence", result[c].ok, silence[c] # "active"
                PROVE  \E e \in Calls : /\ Tool[e] = "expire_silence"
                                        /\ target[e] = c /\ pc[e] # "idle"
    BY DEF SilenceStands
  <2>1. effects[c] = 1
    BY DEF WorkInv, Worked
  <2>2. silence[c] = "expired"
    BY <2>1 DEF SilenceInv, SilenceSound, Inv, TypeOK
  <2>3. PICK e \in Calls : Tool[e] = "expire_silence" /\ target[e] = c /\ effects[e] = 1
    BY <2>2 DEF SilenceInv, SilenceSound
  <2>. QED BY <2>3 DEF SilenceInv, Inv, Sound
<1>. QED BY <1>1, InitSilence, StepSilence, InitWork, StepWork, PTL DEF Spec

\* A silence reported expired is expired, and stays so.
THEOREM ExpiredSilencesEnded == Spec => []ReportedExpired
<1>1. SilenceInv /\ WorkInv => ReportedExpired
  BY DEF SilenceInv, SilenceSound, WorkInv, Worked, ReportedExpired
<1>. QED BY <1>1, InitSilence, StepSilence, InitWork, StepWork, PTL DEF Spec

\* Both together: the answers of the silence tools are true of Alertmanager.
THEOREM SilencesTrue == Spec => []SilencesAsReported
<1>1. SilenceStands /\ ReportedExpired => SilencesAsReported
  BY DEF SilencesAsReported
<1>. QED BY <1>1, CreatedSilencesStand, ExpiredSilencesEnded, PTL
=============================================================================
