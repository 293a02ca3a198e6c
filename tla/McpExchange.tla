----------------------------- MODULE McpExchange -----------------------------
(***************************************************************************)
(* The test client every end-to-end test trusts (McpClient in              *)
(* mcp-common/e2e.rs): requests of several tasks over one session, the     *)
(* JSON or event-stream bodies they are answered with, and tools/list page *)
(* by page.  A server may put notifications and other requests' responses  *)
(* on a stream, split a message over several lines, or fail.               *)
(***************************************************************************)
EXTENDS Naturals, Sequences

CONSTANTS Tasks,      \* tasks that share the client
          Listing,    \* those that list tools, the others call one
          Pages,      \* pages of the server's tools/list
          MaxAhead    \* lines from which on a stream carries the response next

ASSUME ExchangeAssumption ==
  Listing \subseteq Tasks /\ Pages \in Nat \ {0} /\ MaxAhead \in Nat

VARIABLES next_id,   \* McpClient::next_id
          stage,     \* "idle", "sent", "answered" or "done"
          id,        \* the id of the request each task has under way
          page,      \* the page a listing task asks for
          reply,     \* the body each task is answered with, as far as it is sent
          tools,     \* the pages a listing task has collected
          got        \* what a task was given: {} an error

exchangeVars == <<next_id, stage, id, page, reply, tools, got>>

-----------------------------------------------------------------------------
(* Messages and bodies.                                                    *)

(* The response to a request, told apart by whose it is, its page and      *)
(* whether it is a result or a JSON-RPC error; 0 stands for no id.         *)
Response(t, ok) == [id |-> id[t], to |-> {t}, page |-> page[t], ok |-> ok]
Notification == [id |-> 0, to |-> {}, page |-> 0, ok |-> FALSE]

(* Lines: a message's data on one line, or on two; a data line with        *)
(* nothing behind it; blank lines end an event; others are id:, retry:.    *)
Data(m, part) == [kind |-> "data", part |-> part, message |-> m]
Empty == [kind |-> "data", part |-> "none", message |-> Notification]
Blank == [kind |-> "blank", part |-> "none", message |-> Notification]
Other == [kind |-> "other", part |-> "none", message |-> Notification]

Event(m, split) ==
  IF split THEN <<Data(m, "head"), Data(m, "tail")>> ELSE <<Data(m, "whole")>>

Priming == <<Other, Empty, Blank>>

(* One line: data is kept, a blank line ends the event there is, if any.   *)
Line(acc, line) ==
  IF line.kind = "data" THEN [events |-> acc.events, data |-> Append(acc.data, line)]
  ELSE IF line.kind = "blank" /\ acc.data # <<>>
  THEN [events |-> Append(acc.events, acc.data), data |-> <<>>]
  ELSE acc

(* What the loop holds after the lines of a body.                          *)
Reading(body) ==
  LET after[k \in 0..Len(body)] ==
        IF k = 0 THEN [events |-> <<>>, data |-> <<>>] ELSE Line(after[k - 1], body[k])
  IN  after[Len(body)]

(* The data of each event; the body's end ends the last one.               *)
sse_events(body) == Reading(Append(body, Blank)).events

(* An event that is one whole message parses, anything else is dropped.    *)
Parses(data) ==
  \/ Len(data) = 1 /\ data[1].part = "whole"
  \/ /\ Len(data) = 2 /\ data[1].part = "head" /\ data[2].part = "tail"
     /\ data[1].message = data[2].message

(* The first candidate with the request's id, or an error: also for a      *)
(* status that is not a success and for a body that is not JSON.           *)
extract_message(answer, i) ==
  CASE answer.form = "sse" ->
         LET events == sse_events(answer.body)
             found == {k \in DOMAIN events : Parses(events[k]) /\ events[k][1].message.id = i}
         IN  {events[k][1].message : k \in {f \in found : \A g \in found : f <= g}}
    [] answer.form = "json" -> {m \in {answer.body[1].message} : m.id = i}
    [] OTHER -> {}

(* A result, or an error instead of a JSON-RPC error.                      *)
into_result(message) == {m \in message : m.ok}

-----------------------------------------------------------------------------
NoReply == [form |-> "none", body |-> <<>>]

(* After the handshake: initialize took id 0.                              *)
ExchangeInit ==
  /\ next_id = 1
  /\ stage = [t \in Tasks |-> "idle"]
  /\ id = [t \in Tasks |-> 0]
  /\ page = [t \in Tasks |-> 1]
  /\ reply = [t \in Tasks |-> NoReply]
  /\ tools = [t \in Tasks |-> <<>>]
  /\ got = [t \in Tasks |-> {}]

Request_sameId(t) ==
  /\ stage[t] = "idle"
  /\ id' = [id EXCEPT ![t] = next_id]
  /\ stage' = [stage EXCEPT ![t] = "sent"]
  /\ UNCHANGED <<next_id, page, reply, tools, got>>

(* next_id.fetch_add, then the POST.                                       *)
Request(t) ==
  /\ stage[t] = "idle"
  /\ id' = [id EXCEPT ![t] = next_id]
  /\ next_id' = next_id + 1
  /\ stage' = [stage EXCEPT ![t] = "sent"]
  /\ UNCHANGED <<page, reply, tools, got>>

(* What a stream may carry ahead of the response: a priming event, a       *)
(* notification, the response to another task's request.                   *)
Others(t) == {Notification}
               \cup {Response(u, ok) : u \in {v \in Tasks \ {t} : stage[v] = "sent"}, ok \in BOOLEAN}

Ahead(t) ==
  {Priming} \cup {Event(m, split) \o <<Blank>> : m \in Others(t), split \in BOOLEAN}

(* The server sends some of it.                                            *)
Push(t) ==
  /\ stage[t] = "sent" /\ Len(reply[t].body) < MaxAhead
  /\ \E ahead \in Ahead(t) :
       reply' = [reply EXCEPT ![t] = [form |-> "sse", body |-> @.body \o ahead]]
  /\ UNCHANGED <<next_id, stage, id, page, tools, got>>

(* The server ends its answer to a POST: with the response alone, as JSON  *)
(* or as the last event of a stream, with a stream that ends too early, or *)
(* with a failure.                                                         *)
Reply(t) ==
  /\ stage[t] = "sent"
  /\ \/ /\ reply[t] = NoReply
        /\ \/ \E ok \in BOOLEAN :
                reply' = [reply EXCEPT ![t] =
                            [form |-> "json", body |-> <<Data(Response(t, ok), "whole")>>]]
           \/ \E form \in {"failed", "text"} :
                reply' = [reply EXCEPT ![t] = [form |-> form, body |-> <<>>]]
     \/ \E split, ended, ok \in BOOLEAN :
          reply' = [reply EXCEPT ![t] =
                      [form |-> "sse",
                       body |-> @.body \o Event(Response(t, ok), split)
                                \o (IF ended THEN <<Blank>> ELSE <<>>)]]
     \/ reply' = [reply EXCEPT ![t].form = "sse"]
  /\ stage' = [stage EXCEPT ![t] = "answered"]
  /\ UNCHANGED <<next_id, id, page, tools, got>>

(* A call takes the message; an error ends whatever was under way.         *)
Take(t) ==
  LET message == extract_message(reply[t], id[t])
  IN  /\ stage[t] = "answered" /\ (t \notin Listing \/ into_result(message) = {})
      /\ got' = [got EXCEPT ![t] = IF t \in Listing THEN {} ELSE message]
      /\ stage' = [stage EXCEPT ![t] = "done"]
      /\ UNCHANGED <<next_id, id, page, reply, tools>>

More_never(m) == FALSE

(* result.nextCursor is there and not empty.                               *)
More(m) == m.page < Pages

(* list_tools collects the page and asks for the next one.                 *)
Collect(t) ==
  LET message == into_result(extract_message(reply[t], id[t]))
  IN  /\ stage[t] = "answered" /\ t \in Listing
      /\ \E m \in message :
           /\ tools' = [tools EXCEPT ![t] = Append(@, m.page)]
           /\ \/ /\ More(m)
                 /\ page' = [page EXCEPT ![t] = @ + 1]
                 /\ stage' = [stage EXCEPT ![t] = "idle"]
                 /\ reply' = [reply EXCEPT ![t] = NoReply]
                 /\ UNCHANGED got
              \/ /\ ~More(m)
                 /\ stage' = [stage EXCEPT ![t] = "done"]
                 /\ got' = [got EXCEPT ![t] = message]
                 /\ UNCHANGED <<page, reply>>
      /\ UNCHANGED <<next_id, id>>

ExchangeNext == \E t \in Tasks : Request(t) \/ Push(t) \/ Reply(t) \/ Take(t) \/ Collect(t)

ExchangeSpec == ExchangeInit /\ [][ExchangeNext]_exchangeVars

-----------------------------------------------------------------------------
(* A reply that holds the response to the request gives that response,     *)
(* however it is framed and whatever travels with it; any other gives an   *)
(* error, never what was meant for another request.  A JSON-RPC error is a *)
(* response to a call, and no list.                                        *)
Own(t) == {m \in {reply[t].body[i].message : i \in DOMAIN reply[t].body} : m.to = {t}}

AnswerIsOwn == \A t \in Tasks :
  stage[t] = "done" =>
     got[t] = {m \in Own(t) : reply[t].form \in {"json", "sse"} /\ (m.ok \/ t \notin Listing)}

(* tools/list returns every page once and in order, or an error: a listing *)
(* that breaks off is never taken for a short one.                         *)
ListIsWhole == \A t \in Listing :
  stage[t] = "done" /\ got[t] # {} => tools[t] = [n \in 1..Pages |-> n]
=============================================================================
