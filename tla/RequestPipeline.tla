-------------------------- MODULE RequestPipeline ---------------------------
(***************************************************************************)
(* What the gateway does to a request before forward(): the route picks an *)
(* upstream (resolve_target and its siblings), repairs malformed messages  *)
(* (payload.py, toolcalls.py), caps the output, sets the priority, and     *)
(* turns away what cannot fit (context.py).                                *)
(*                                                                         *)
(* A payload keeps what these functions look at: the kind of each value,   *)
(* and how many characters it comes to.  Texts themselves are left out.    *)
(***************************************************************************)
EXTENDS Integers, Sequences

CONSTANTS
  Payloads,       \* the bodies that clients send
  Configs,        \* the settings a deployment may have
  Names,          \* the names of models, known and unknown
  Overhead,       \* _MESSAGE_OVERHEAD_TOKENS
  CharsPerToken,  \* settings.chars_per_token, an integer here
  Absent,         \* a field that is missing or, but for the priority, null
  NotInt          \* a field that holds something else than an int

(* A content is [kind, inner, chars]; the kinds str, list and none are     *)
(* what the engine takes, and inner is the kind of what is wrapped.        *)
Plain == {"str", "list", "none"}

ContentValue == [kind : Plain \cup {"wrapped", "dict", "number"}, inner : Plain, chars : Nat]

(* The arguments of a call, by kind: text that is JSON, blank, a Python    *)
(* literal or none of these; a dict or list instead of text; or anything   *)
(* else, such as a number, a missing field or a call that is no dict.      *)
ArgumentKind == {"json", "blank", "literal", "broken", "dict", "other"}

(* The calls of a message are [shape, list]: a list, empty if there are    *)
(* none; one object that stands for a list; or something else that is left *)
(* alone.                                                                  *)
CallsValue == [shape : {"list", "object", "junk"}, list : Seq(ArgumentKind)]

(* A message that is no dict is left alone, and counted by its length.     *)
MessageValue == [type : {"dict", "other"}, content : ContentValue, calls : CallsValue]

FieldValue == {Absent, NotInt} \cup Int

(* A JSON body, with the lengths of its prompt and of its tool schemas.    *)
BodyValue ==
  [route : {"chat", "embeddings", "rerank"}, model : {Absent} \cup Names,
   messages : {Absent} \cup Seq(MessageValue), prompt : Nat, tools : Nat,
   priority : FieldValue, max_tokens : FieldValue, max_completion_tokens : FieldValue]

(* Settings; the margin is in hundredths.                                  *)
Settings ==
  [autocomplete : BOOLEAN, embeddings : BOOLEAN, rerank : BOOLEAN, fallback : BOOLEAN,
   priorities : BOOLEAN, normalize : BOOLEAN, cap : Nat, guard : Nat, margin : 1..100]

(* The statuses of replies: of what was forwarded, and of what no upstream *)
(* is there for.                                                           *)
Outcomes == {"ok", "upstream_unavailable", "internal_error"}

Unserved == {"bad_request", "model_not_found", "route_disabled"}

ASSUME PipelineAssumption ==
  /\ Overhead \in Nat /\ CharsPerToken \in Nat \ {0}
  /\ {Absent, NotInt} \cap Int = {}
  /\ {"primary", "fim", "embedder", "reranker"} \subseteq Names
  /\ Absent \notin Outcomes \cup Unserved /\ Absent \notin Seq(MessageValue)
  /\ Payloads \subseteq BodyValue /\ Configs \subseteq Settings

VARIABLES
  config,   \* Settings
  pc,       \* how far the request has come
  payload,  \* the body as the client sent it
  prepared, \* the body as it will be forwarded
  target,   \* the Target, once resolved
  used,     \* MetricsCollector._model_usage, as the models recorded
  status    \* the status of the reply, once there is one

vars == <<config, pc, payload, prepared, target, used, status>>

-----------------------------------------------------------------------------
(* Settings.                                                               *)

context_budget(c) == (c.guard * c.margin) \div 100

autocomplete_aliases(c) == IF c.autocomplete THEN {"fim", "autocomplete"} ELSE {}

served_models(c) ==
  {"primary"} \cup (IF c.autocomplete THEN {"fim"} ELSE {})
              \cup (IF c.embeddings THEN {"embedder"} ELSE {})
              \cup (IF c.rerank THEN {"reranker"} ELSE {})

-----------------------------------------------------------------------------
(* Where a request goes.  An upstream is named by the model it serves.     *)

Target(model, priority) == [model |-> model, priority |-> priority]

Priority(c, value) == IF c.priorities THEN value ELSE Absent

(* The targets resolve_target may return: none when it raises              *)
(* ModelNotFoundError.                                                     *)
resolve_target(c, requested) ==
  CASE requested \in autocomplete_aliases(c) -> {Target("fim", Priority(c, -1))}
    [] /\ requested \notin autocomplete_aliases(c) \cup {Absent, "", "primary"}
       /\ ~c.fallback -> {}
    [] OTHER -> {Target("primary", Priority(c, 0))}

(* Mutant: the route does not ask whether its service is deployed.         *)
resolve_rerank_target_Always(c) == {Target("reranker", Absent)}

(* The routes of routes/retrieval.py: none when they raise                 *)
(* RouteDisabledError.                                                     *)
resolve_embeddings_target(c) == IF c.embeddings THEN {Target("embedder", Absent)} ELSE {}

resolve_rerank_target(c) == IF c.rerank THEN {Target("reranker", Absent)} ELSE {}

-----------------------------------------------------------------------------
(* Repairing messages.                                                     *)

(* A dict with the one key text or content, around something plain, is     *)
(* unwrapped; any other dict is encoded, any other value is str()'d.       *)
NormalContent(content) ==
  CASE content.kind \in Plain -> content
    [] content.kind = "wrapped" -> [content EXCEPT !.kind = content.inner]
    [] OTHER -> [content EXCEPT !.kind = "str"]

_normalize_message_content(m) == [m EXCEPT !.content = NormalContent(@)]

_normalize_tool_calls(m) ==
  IF m.calls.shape = "object" THEN [m EXCEPT !.calls.shape = "list"] ELSE m

(* Mutant: blank arguments are taken for text.                             *)
_normalize_value_KeepsBlank(arguments) ==
  IF arguments \in {"literal", "dict"} THEN "json" ELSE arguments

_normalize_value(arguments) ==
  CASE arguments = "blank" -> "json"
    [] arguments = "literal" -> "json"
    [] arguments = "dict" -> "json"
    [] OTHER -> arguments

_normalize_message(m) ==
  IF m.type = "dict" /\ m.calls.shape = "list"
  THEN [m EXCEPT !.calls.list = [k \in DOMAIN @ |-> _normalize_value(@[k])]]
  ELSE m

HasMessages(p) == p.messages # Absent

MapMessages(p, Op(_)) ==
  IF HasMessages(p)
  THEN [p EXCEPT !.messages = [k \in DOMAIN @ |-> Op(@[k])]]
  ELSE p

Unwrap(m) ==
  IF m.type = "dict" THEN _normalize_tool_calls(_normalize_message_content(m)) ELSE m

(* Mutant: arguments are repaired before a lone call is put in a list.     *)
normalize_inbound_payload_CallsFirst(c, p) ==
  MapMessages(IF c.normalize THEN MapMessages(p, _normalize_message) ELSE p, Unwrap)

normalize_inbound_payload(c, p) ==
  LET current == MapMessages(p, Unwrap)
  IN  IF c.normalize THEN MapMessages(current, _normalize_message) ELSE current

-----------------------------------------------------------------------------
(* The token cap.                                                          *)

Fields == {"max_tokens", "max_completion_tokens"}

IsInt(value) == value \notin {Absent, NotInt}

Capped(c, p) ==
  LET held == [f \in DOMAIN p |->
                 IF f \in Fields /\ IsInt(p[f]) /\ p[f] > c.cap THEN c.cap ELSE p[f]]
  IN  CASE c.cap = 0 -> p
        [] c.cap > 0 /\ \A f \in Fields : held[f] = Absent -> [held EXCEPT !.max_tokens = c.cap]
        [] OTHER -> held

Prioritised(t, p) ==
  IF t.priority # Absent /\ p.priority = Absent THEN [p EXCEPT !.priority = t.priority] ELSE p

-----------------------------------------------------------------------------
(* The context guard.                                                      *)

ArgumentChars(arguments) == CASE arguments \in {"blank", "other"} -> 0 [] OTHER -> 2

(* The sums of the first k sizes.                                          *)
Sums(sizes) ==
  LET sum[k \in 0..Len(sizes)] == IF k = 0 THEN 0 ELSE sum[k - 1] + sizes[k]
  IN  sum

Total(sizes) == Sums(sizes)[Len(sizes)]

CallsChars(calls) ==
  IF calls.shape = "list"
  THEN Total([k \in DOMAIN calls.list |-> ArgumentChars(calls.list[k])])
  ELSE 0

MessageChars(m) == m.content.chars + (IF m.type = "dict" THEN CallsChars(m.calls) ELSE 0)

estimate_payload_tokens(p) ==
  LET characters ==
        p.tools + (IF HasMessages(p)
                   THEN Total([k \in DOMAIN p.messages |-> MessageChars(p.messages[k])])
                   ELSE p.prompt)
      message_count == IF HasMessages(p) THEN Len(p.messages) ELSE 1
  IN  characters \div CharsPerToken + message_count * Overhead

(* Mutant: only one of the fields is reserved for.                         *)
_reserved_completion_tokens_OldFieldOnly(p) ==
  IF IsInt(p.max_tokens) /\ p.max_tokens > 0 THEN p.max_tokens ELSE 0

_reserved_completion_tokens(p) ==
  CASE IsInt(p.max_tokens) /\ p.max_tokens > 0 -> p.max_tokens
    [] /\ ~(IsInt(p.max_tokens) /\ p.max_tokens > 0)
       /\ IsInt(p.max_completion_tokens)
       /\ p.max_completion_tokens > 0 -> p.max_completion_tokens
    [] OTHER -> 0

Overflows(c, p) ==
  /\ context_budget(c) > 0
  /\ estimate_payload_tokens(p) + _reserved_completion_tokens(p) > context_budget(c)

-----------------------------------------------------------------------------
Init ==
  /\ config \in Configs
  /\ payload \in Payloads
  /\ prepared = payload
  /\ pc = "received"
  /\ target = Absent
  /\ used = <<>>
  /\ status = Absent

Reply(code) ==
  /\ pc' = "replied"
  /\ status' = code

(* A "model" that is there and is not a string.                            *)
BadModel ==
  /\ pc = "received" /\ payload.route = "chat" /\ payload.model = "number"
  /\ Reply("bad_request")
  /\ UNCHANGED <<config, payload, prepared, target, used>>

Resolved ==
  CASE payload.route = "chat" -> resolve_target(config, payload.model)
    [] payload.route = "embeddings" -> resolve_embeddings_target(config)
    [] payload.route = "rerank" -> resolve_rerank_target(config)

Resolve ==
  /\ pc = "received"
  /\ payload.route = "chat" => payload.model # "number"
  /\ \E t \in Resolved :
       /\ target' = t
       /\ prepared' = [payload EXCEPT !.model = t.model]
  /\ pc' = IF payload.route = "chat" THEN "resolved" ELSE "prepared"
  /\ UNCHANGED <<config, payload, used, status>>

(* ModelNotFoundError and RouteDisabledError, as main.py renders them.     *)
NotServed ==
  /\ pc = "received"
  /\ payload.route = "chat" => payload.model # "number"
  /\ Resolved = {}
  /\ Reply(IF payload.route = "chat" THEN "model_not_found" ELSE "route_disabled")
  /\ UNCHANGED <<config, payload, prepared, target, used>>

(* prepare_payload, up to the guard.                                       *)
prepare(c, t, p) == Prioritised(t, Capped(c, normalize_inbound_payload(c, p)))

Prepare ==
  /\ pc = "resolved"
  /\ prepared' = prepare(config, target, prepared)
  /\ pc' = "guarding"
  /\ UNCHANGED <<config, payload, target, used, status>>

Guard ==
  /\ pc = "guarding"
  /\ IF Overflows(config, prepared)
     THEN Reply("context_length_exceeded") /\ UNCHANGED used
     ELSE pc' = "prepared" /\ used' = Append(used, target.model) /\ UNCHANGED status
  /\ UNCHANGED <<config, payload, prepared, target>>

(* forward() returned a response or raised UpstreamError, which has a      *)
(* status of its own, or something else.                                   *)
Forward(outcome) ==
  /\ pc = "prepared"
  /\ Reply(outcome)
  /\ UNCHANGED <<config, payload, prepared, target, used>>

Next ==
  \/ BadModel \/ Resolve \/ NotServed \/ Prepare \/ Guard
  \/ \E outcome \in Outcomes : Forward(outcome)

Spec == Init /\ [][Next]_vars

-----------------------------------------------------------------------------
(* On its way to an upstream, or past it.                                  *)
Forwarded == pc = "prepared" \/ status \in Outcomes

(* A chat model that GET /v1/models lists is served, by its own upstream;  *)
(* nothing goes to an upstream that the settings do not deploy, or there   *)
(* under another model's name; and what goes to none is not recorded as    *)
(* use of its model.                                                       *)
ListedIsServed ==
  /\ payload.route = "chat" /\ payload.model \in served_models(config) \cap {"primary", "fim"}
       => status \notin Unserved /\ (target # Absent => target.model = payload.model)
  /\ Forwarded => target.model \in served_models(config) /\ prepared.model = target.model
  /\ used # <<>> => Forwarded /\ used = <<target.model>>

(* Preparing a prepared body again changes nothing: a repair, the cap and  *)
(* the priority leave nothing behind for a second gateway, or for the next *)
(* turn that replays the message, to repair differently.                   *)
PreparedIsFixpoint ==
  pc = "guarding" => prepare(config, target, prepared) = prepared

(* The engine is given no message that it would reject for a reason the    *)
(* gateway repairs, and no message and no call is lost, added or moved; a  *)
(* call whose arguments were JSON already is not touched, and neither is a *)
(* message that is no dict.                                                *)
EngineTakesIt ==
  payload.route = "chat" /\ Forwarded /\ HasMessages(payload) =>
    /\ Len(prepared.messages) = Len(payload.messages)
    /\ \A k \in DOMAIN payload.messages :
         LET sent == payload.messages[k]
             got == prepared.messages[k]
         IN  \/ sent.type # "dict" /\ got = sent
             \/ /\ sent.type = "dict" /\ got.type = "dict"
                /\ got.content.kind \in Plain
                /\ got.calls.shape # "object"
                /\ Len(got.calls.list) = Len(sent.calls.list)
                /\ \A j \in DOMAIN sent.calls.list :
                     \/ got.calls.list[j] = "json"
                     \/ /\ got.calls.list[j] = sent.calls.list[j]
                        /\ \/ sent.calls.list[j] \in {"broken", "other"}
                           \/ ~config.normalize
                           \/ got.calls.shape = "junk"

(* What reaches the engine is bounded by the cap, if there is one, and     *)
(* what passes the guard fits the window, prompt and output together, when *)
(* at most one of the two fields asks for output.                          *)
FitsTheWindow ==
  payload.route = "chat" /\ Forwarded =>
    /\ config.cap > 0 =>
         /\ \A f \in Fields : IsInt(prepared[f]) => prepared[f] <= config.cap
         /\ \E f \in Fields : prepared[f] # Absent
    /\ context_budget(config) > 0 =>
         \A f \in Fields :
           IsInt(prepared[f]) /\ (\A g \in Fields \ {f} : prepared[g] = Absent)
             => estimate_payload_tokens(prepared) + prepared[f] <= context_budget(config)
=============================================================================
