------------------------- MODULE MCRequestPipeline --------------------------
(* Instances of RequestPipeline for TLC.                                   *)
EXTENDS RequestPipeline

(* One of the two retrieval services is deployed.                          *)
MCConfigs ==
  {c \in [autocomplete : BOOLEAN, embeddings : BOOLEAN, rerank : BOOLEAN, fallback : BOOLEAN,
          priorities : BOOLEAN, normalize : BOOLEAN, cap : {0, 2}, guard : {0, 8}, margin : {95}] :
     c.embeddings # c.rerank}

MCNames == {"", "number", "primary", "fim", "autocomplete", "embedder", "reranker", "gpt"}

Content(kind, inner) == [kind |-> kind, inner |-> inner, chars |-> 3]

Contents ==
  {Content(k, "str") : k \in {"str", "list", "dict", "number", "wrapped"}}
    \cup {[kind |-> "none", inner |-> "str", chars |-> 0], Content("wrapped", "list")}

Arguments == {"json", "blank", "literal", "broken", "dict", "other"}

Calls ==
  [shape : {"list"}, list : {<<>>} \cup Arguments \X Arguments]
    \cup [shape : {"object", "junk"}, list : {<<a>> : a \in Arguments}]

Body(route, model, messages) ==
  [route |-> route, model |-> model, messages |-> messages, prompt |-> 9, tools |-> 2,
   priority |-> Absent, max_tokens |-> Absent, max_completion_tokens |-> Absent]

Hello ==
  [type |-> "dict", content |-> Content("str", "str"), calls |-> [shape |-> "list", list |-> <<>>]]

Junk == [Hello EXCEPT !.type = "other", !.content = Content("number", "str")]

(* Messages of every kind under one set of fields, and fields of every     *)
(* kind around one message or a bare prompt.                               *)
MCPayloads ==
  {Body("chat", "primary", <<Hello, [type |-> "dict", content |-> c, calls |-> k]>>) : c \in Contents, k \in Calls}
    \cup
  {[Body("chat", m, b) EXCEPT !.priority = p, !.max_tokens = x, !.max_completion_tokens = y] :
     m \in {Absent} \cup MCNames,
     b \in {Absent, <<Hello>>, <<Junk>>}, p \in {Absent, NotInt, 5},
     x \in {Absent, NotInt, 0, 2, 3}, y \in {Absent, 2, 3}}
    \cup
  {Body(r, m, Absent) : r \in {"embeddings", "rerank"}, m \in {Absent, "gpt"}}
=============================================================================
