------------------------ MODULE RequestPipelineProofs -------------------------
(***************************************************************************)
(* Proofs about RequestPipeline, for every body a client may send and all  *)
(* settings: where a request goes, that its repair is complete and final,  *)
(* and that what passes the guard fits.                                    *)
(***************************************************************************)
EXTENDS RequestPipeline, SequenceTheorems, WellFoundedInduction, TLAPS

(* Every nonempty set of natural numbers has a least element.              *)
LEMMA LeastNumber ==
  ASSUME NEW S \in SUBSET Nat, S # {}
  PROVE  \E n \in S : \A m \in S : n <= m
<1>1. IsWellFoundedOn(OpToRel(<, Nat), Nat)
  BY NatLessThanWellFounded, Zenon
<1>2. PICK n \in S : \A m \in S : ~(<<m, n>> \in OpToRel(<, Nat))
  BY <1>1, WFMin, Zenon
<1>3. \A m \in S : ~(m < n)
  BY <1>2 DEF OpToRel
<1> QED
  BY <1>3

-----------------------------------------------------------------------------
(* Sums of characters.                                                     *)

SumUp(s, n, g) == \A k \in 0..n : s[k] = IF k = 0 THEN 0 ELSE s[k - 1] + g[k]

(* The sums exist: by the least number of sizes without them, since what   *)
(* is there for all but the last size goes on with it.                     *)
LEMMA SumsExist ==
  ASSUME NEW n \in Nat, NEW g \in [1..n -> Int]
  PROVE  \E s \in [0..n -> Int] : SumUp(s, n, g)
<1> DEFINE Summed(m) == \E s \in [0..m -> Int] : SumUp(s, m, g)
           bad == {m \in 0..n : ~Summed(m)}
<1> SUFFICES bad = {}
  OBVIOUS
<1> SUFFICES ASSUME bad # {} PROVE FALSE
  OBVIOUS
<1>1. bad \in SUBSET Nat
  OBVIOUS
<1>2. PICK m \in bad : \A j \in bad : m <= j
  BY <1>1, LeastNumber
<1>3. m \in 0..n /\ m \in Nat /\ ~Summed(m)
  BY <1>2
<1>4. m # 0
  <2> SUFFICES ASSUME m = 0 PROVE FALSE
    OBVIOUS
  <2>1. [k \in 0..0 |-> 0] \in [0..0 -> Int] /\ SumUp([k \in 0..0 |-> 0], 0, g)
    BY DEF SumUp
  <2> QED
    BY <1>3, <2>1
<1>5. m - 1 \in 0..n /\ m \in 1..n
  BY <1>3, <1>4
<1>6. m - 1 \notin bad
  <2> HIDE DEF bad
  <2> SUFFICES ASSUME m - 1 \in bad PROVE FALSE
    OBVIOUS
  <2>1. m <= m - 1
    BY <1>2
  <2> QED
    BY <1>3, <2>1
<1>7. PICK s \in [0..(m - 1) -> Int] : SumUp(s, m - 1, g)
  BY <1>5, <1>6
<1> DEFINE z == [k \in 0..m |-> IF k = m THEN s[m - 1] + g[m] ELSE s[k]]
<1>8. m - 1 \in 0..(m - 1) /\ \A k \in 0..m : k # m => k \in 0..(m - 1)
  BY <1>3, <1>4
<1>9. z \in [0..m -> Int]
  <2>1. s[m - 1] \in Int /\ g[m] \in Int
    BY <1>5, <1>7, <1>8
  <2>2. s[m - 1] + g[m] \in Int
    BY <2>1
  <2> QED
    BY <1>7, <1>8, <2>2
<1>10. ASSUME NEW k \in 0..m
       PROVE  z[k] = IF k = 0 THEN 0 ELSE z[k - 1] + g[k]
  <2>1. CASE k = m
    <3>1. z[m] = s[m - 1] + g[m] /\ z[m - 1] = s[m - 1]
      BY <1>3, <1>5, <1>8
    <3> QED
      BY <1>4, <2>1, <3>1
  <2>2. CASE k # m
    <3>1. k \in 0..(m - 1) /\ z[k] = s[k]
      BY <1>8, <2>2
    <3>2. k # 0 => k - 1 \in 0..m /\ k - 1 # m
      BY <1>3, <3>1
    <3>3. k # 0 => z[k - 1] = s[k - 1]
      BY <3>2
    <3>4. s[k] = IF k = 0 THEN 0 ELSE s[k - 1] + g[k]
      BY <1>7, <3>1 DEF SumUp
    <3> QED
      BY <3>1, <3>3, <3>4
  <2> QED
    BY <2>1, <2>2
<1>11. SumUp(z, m, g)
  BY <1>10 DEF SumUp
<1> QED
  BY <1>3, <1>9, <1>11

(* Characters add up to a number.                                          *)
LEMMA TotalType ==
  ASSUME NEW sizes \in Seq(Int)
  PROVE  Total(sizes) \in Int
<1> DEFINE n == Len(sizes)
           By(s) == [k \in 0..n |-> IF k = 0 THEN 0 ELSE s[k - 1] + sizes[k]]
           sum == Sums(sizes)
<1>1. n \in Nat /\ sizes \in [1..n -> Int]
  OBVIOUS
<1>2. PICK s \in [0..n -> Int] : SumUp(s, n, sizes)
  BY <1>1, SumsExist
<1>3. s = By(s)
  BY <1>2 DEF SumUp
<1>4. sum = CHOOSE x : x = By(x)
  BY DEF Sums
<1>5. sum = By(sum)
  BY <1>3, <1>4
<1> HIDE DEF sum
<1>6. \A k \in 0..n : sum[k] = IF k = 0 THEN 0 ELSE sum[k - 1] + sizes[k]
  BY <1>5
<1> HIDE DEF n
<1> DEFINE bad == {k \in 0..n : sum[k] \notin Int}
<1>7. bad = {}
  <2> SUFFICES ASSUME bad # {} PROVE FALSE
    OBVIOUS
  <2>1. bad \in SUBSET Nat
    BY <1>1
  <2>2. PICK k \in bad : \A j \in bad : k <= j
    BY <2>1, LeastNumber
  <2>3. k \in 0..n /\ k \in Nat /\ sum[k] \notin Int
    BY <1>1, <2>2
  <2>4. k # 0 /\ sum[k] = sum[k - 1] + sizes[k]
    BY <1>6, <2>3
  <2>5. k - 1 \in 0..n /\ k \in 1..n /\ ~(k <= k - 1)
    BY <1>1, <2>3, <2>4
  <2>6. sum[k - 1] \in Int
    <3> HIDE DEF sum
    <3>1. k - 1 \notin bad
      BY <2>2, <2>5
    <3> QED
      BY <2>5, <3>1
  <2>7. sizes[k] \in Int
    BY <1>1, <2>5
  <2> QED
    BY <2>3, <2>4, <2>6, <2>7
<1>8. n \in 0..n
  BY <1>1
<1>9. sum[n] \in Int
  BY <1>7, <1>8
<1> QED
  BY <1>9 DEF Total, sum, n

(* The estimate of a body is a number.                                     *)
LEMMA EstimateType ==
  ASSUME NEW p \in BodyValue
  PROVE  estimate_payload_tokens(p) \in Int
<1>1. ASSUME NEW calls \in CallsValue PROVE CallsChars(calls) \in Int
  <2> DEFINE sizes == [k \in DOMAIN calls.list |-> ArgumentChars(calls.list[k])]
  <2>1. calls.list \in Seq(ArgumentKind)
    BY DEF CallsValue
  <2>2. sizes \in Seq(Int)
    BY <2>1 DEF ArgumentChars
  <2> HIDE DEF sizes
  <2>3. Total(sizes) \in Int
    BY <2>2, TotalType
  <2> QED
    BY <2>3 DEF CallsChars, sizes
<1>2. ASSUME NEW m \in MessageValue PROVE MessageChars(m) \in Int
  <2>1. m.content.chars \in Nat /\ m.calls \in CallsValue
    BY DEF MessageValue, ContentValue
  <2> QED
    BY <1>1, <2>1 DEF MessageChars
<1> DEFINE sizes == [k \in DOMAIN p.messages |-> MessageChars(p.messages[k])]
<1>3. /\ p.tools \in Nat /\ p.prompt \in Nat
      /\ HasMessages(p) => p.messages \in Seq(MessageValue)
  BY DEF BodyValue, HasMessages
<1>4. HasMessages(p) => Total(sizes) \in Int /\ Len(p.messages) \in Nat
  <2> SUFFICES ASSUME HasMessages(p) PROVE Total(sizes) \in Int /\ Len(p.messages) \in Nat
    OBVIOUS
  <2>1. p.messages \in Seq(MessageValue)
    BY <1>3
  <2>2. sizes \in Seq(Int)
    <3>1. \A k \in 1..Len(p.messages) : p.messages[k] \in MessageValue
      BY <2>1
    <3>2. \A k \in 1..Len(p.messages) : MessageChars(p.messages[k]) \in Int
      BY <1>2, <3>1
    <3> QED
      BY <2>1, <3>2
  <2> HIDE DEF sizes
  <2> QED
    BY <2>1, <2>2, TotalType
<1> DEFINE characters == p.tools + (IF HasMessages(p) THEN Total(sizes) ELSE p.prompt)
           count == IF HasMessages(p) THEN Len(p.messages) ELSE 1
<1>5. characters \in Int /\ count \in Int
  BY <1>3, <1>4
<1>6. estimate_payload_tokens(p) = characters \div CharsPerToken + count * Overhead
  BY DEF estimate_payload_tokens
<1> HIDE DEF characters, count
<1>7. /\ characters \div CharsPerToken \in Int
      /\ count * Overhead \in Int
  BY <1>5, PipelineAssumption
<1> QED
  BY <1>6, <1>7

-----------------------------------------------------------------------------
(* The repair of a message.                                                *)

(* The arguments that a repair leaves, and the calls.                      *)
RepairedArguments(c, calls) ==
  IF c.normalize /\ calls.shape \in {"list", "object"}
  THEN [k \in DOMAIN calls.list |-> _normalize_value(calls.list[k])]
  ELSE calls.list

RepairedCalls(c, calls) ==
  [shape |-> IF calls.shape = "object" THEN "list" ELSE calls.shape,
   list |-> RepairedArguments(c, calls)]

RepairedMessage(c, m) ==
  IF c.normalize THEN _normalize_message(Unwrap(m)) ELSE Unwrap(m)

(* Repairs field by field.                                                 *)
LEMMA RepairFields ==
  ASSUME NEW c \in Settings, NEW m \in MessageValue
  PROVE  /\ RepairedMessage(c, m) \in MessageValue
         /\ RepairedMessage(c, m).type = m.type
         /\ m.type # "dict" => RepairedMessage(c, m) = m
         /\ m.type = "dict" => RepairedMessage(c, m).content = NormalContent(m.content)
         /\ m.type = "dict" => RepairedMessage(c, m).calls = RepairedCalls(c, m.calls)
         /\ NormalContent(m.content) \in ContentValue
         /\ RepairedCalls(c, m.calls) \in CallsValue
<1>1. /\ m.content \in ContentValue /\ m.calls \in CallsValue
      /\ m = [type |-> m.type, content |-> m.content, calls |-> m.calls] /\ m.type \in {"dict", "other"}
  BY DEF MessageValue
<1>2. /\ m.calls.shape \in {"list", "object", "junk"}
      /\ m.calls.list \in Seq(ArgumentKind)
      /\ m.calls = [shape |-> m.calls.shape, list |-> m.calls.list]
  BY <1>1 DEF CallsValue
<1>3. NormalContent(m.content) \in ContentValue
  BY <1>1 DEF NormalContent, ContentValue, Plain
<1>4. RepairedArguments(c, m.calls) \in Seq(ArgumentKind)
  <2>1. \A a \in ArgumentKind : _normalize_value(a) \in ArgumentKind
    BY DEF _normalize_value, ArgumentKind
  <2>2. [k \in DOMAIN m.calls.list |-> _normalize_value(m.calls.list[k])] \in Seq(ArgumentKind)
    BY <1>2, <2>1
  <2> QED
    BY <1>2, <2>2 DEF RepairedArguments
<1>5. RepairedCalls(c, m.calls) \in CallsValue
  BY <1>2, <1>4 DEF RepairedCalls, CallsValue
<1> DEFINE u == Unwrap(m)
           shape == IF m.calls.shape = "object" THEN "list" ELSE m.calls.shape
<1>6. ASSUME m.type = "dict"
      PROVE  u = [type |-> m.type, content |-> NormalContent(m.content),
                  calls |-> [shape |-> shape, list |-> m.calls.list]]
  <2> HIDE DEF NormalContent
  <2>1. _normalize_message_content(m)
          = [type |-> m.type, content |-> NormalContent(m.content), calls |-> m.calls]
    BY <1>1 DEF _normalize_message_content
  <2> QED
    BY <1>2, <1>6, <2>1 DEF Unwrap, _normalize_tool_calls
<1>7. ASSUME m.type = "dict"
      PROVE  RepairedMessage(c, m) = [type |-> m.type, content |-> NormalContent(m.content),
                                      calls |-> RepairedCalls(c, m.calls)]
  <2> HIDE DEF u
  <2>1. u.calls.shape = shape /\ u.calls.list = m.calls.list /\ u.type = "dict"
    BY <1>6, <1>7
  <2>2. CASE c.normalize /\ shape = "list"
    <3>1. RepairedMessage(c, m)
            = [u EXCEPT !.calls.list = [k \in DOMAIN @ |-> _normalize_value(@[k])]]
      BY <2>1, <2>2 DEF RepairedMessage, _normalize_message, u
    <3>2. m.calls.shape \in {"list", "object"}
      BY <1>2, <2>2
    <3>3. RepairedArguments(c, m.calls)
            = [k \in DOMAIN m.calls.list |-> _normalize_value(m.calls.list[k])]
      BY <2>2, <3>2 DEF RepairedArguments
    <3> HIDE DEF shape
    <3>4. [u EXCEPT !.calls.list = [k \in DOMAIN @ |-> _normalize_value(@[k])]]
            = [type |-> m.type, content |-> NormalContent(m.content),
               calls |-> [shape |-> shape,
                          list |-> [k \in DOMAIN m.calls.list |-> _normalize_value(m.calls.list[k])]]]
      BY <1>6, <1>7
    <3> QED
      BY <3>1, <3>3, <3>4 DEF RepairedCalls, shape
  <2>3. CASE ~(c.normalize /\ shape = "list")
    <3>1. RepairedMessage(c, m) = u
      BY <2>1, <2>3 DEF RepairedMessage, _normalize_message, u
    <3>2. RepairedArguments(c, m.calls) = m.calls.list
      BY <1>2, <2>3 DEF RepairedArguments
    <3> QED
      BY <1>6, <1>7, <3>1, <3>2 DEF RepairedCalls
  <2> QED
    BY <2>2, <2>3
<1>8. m.type # "dict" => RepairedMessage(c, m) = m
  BY DEF RepairedMessage, Unwrap, _normalize_message
<1> HIDE DEF RepairedMessage, NormalContent, RepairedCalls
<1>9. CASE m.type # "dict"
  BY <1>3, <1>5, <1>8, <1>9
<1>10. CASE m.type = "dict"
  BY <1>1, <1>3, <1>5, <1>7, <1>10 DEF MessageValue
<1> QED
  BY <1>9, <1>10

(* What a message r that was repaired is like.                             *)
Repaired(c, m, r) ==
  /\ r.content.kind \in Plain
  /\ r.calls.shape # "object"
  /\ Len(r.calls.list) = Len(m.calls.list)
  /\ \A j \in DOMAIN m.calls.list :
       \/ r.calls.list[j] = "json"
       \/ /\ r.calls.list[j] = m.calls.list[j]
          /\ \/ m.calls.list[j] \in {"broken", "other"}
             \/ ~c.normalize
             \/ r.calls.shape = "junk"

(* What a repaired message is like, and that a second repair leaves it.    *)
LEMMA RepairIsFinal ==
  ASSUME NEW c \in Settings, NEW m \in MessageValue
  PROVE  LET r == RepairedMessage(c, m)
         IN  /\ RepairedMessage(c, r) = r
             /\ \/ m.type # "dict" /\ r = m
                \/ m.type = "dict" /\ r.type = "dict" /\ Repaired(c, m, r)
<1>0. CASE m.type # "dict"
  BY <1>0, RepairFields
<1> SUFFICES ASSUME m.type = "dict"
             PROVE  LET r == RepairedMessage(c, m)
                    IN  RepairedMessage(c, r) = r /\ r.type = "dict" /\ Repaired(c, m, r)
  BY <1>0
<1> DEFINE r == RepairedMessage(c, m)
           z == RepairedMessage(c, r)
<1>1. /\ r \in MessageValue /\ r.content = NormalContent(m.content)
      /\ r.calls = RepairedCalls(c, m.calls) /\ r.type = m.type
      /\ r.content \in ContentValue /\ r.calls \in CallsValue
  BY RepairFields
<1> HIDE DEF r
<1>2. /\ z \in MessageValue /\ z.content = NormalContent(r.content)
      /\ z.calls = RepairedCalls(c, r.calls) /\ z.type = r.type
  BY <1>1, RepairFields
<1> HIDE DEF z
<1>3. m.content \in ContentValue /\ m.calls \in CallsValue
  BY DEF MessageValue
<1>4. r.content.kind \in Plain
  BY <1>1, <1>3 DEF NormalContent, ContentValue, Plain
<1>5. z.content = r.content
  BY <1>2, <1>4 DEF NormalContent, Plain
<1> DEFINE a == m.calls.list
           b == r.calls.list
<1>6. /\ a \in Seq(ArgumentKind) /\ b \in Seq(ArgumentKind)
      /\ m.calls.shape \in {"list", "object", "junk"}
      /\ r.calls.shape = IF m.calls.shape = "object" THEN "list" ELSE m.calls.shape
      /\ b = RepairedArguments(c, m.calls)
  BY <1>1, <1>3 DEF CallsValue, RepairedCalls
<1>7. \A x \in ArgumentKind :
        /\ _normalize_value(_normalize_value(x)) = _normalize_value(x)
        /\ _normalize_value(x) = "json" \/ (_normalize_value(x) = x /\ x \in {"broken", "other"})
  BY DEF _normalize_value, ArgumentKind
<1> HIDE DEF a, b
<1>8. CASE c.normalize /\ m.calls.shape \in {"list", "object"}
  <2>1. b = [k \in DOMAIN a |-> _normalize_value(a[k])] /\ r.calls.shape = "list"
    BY <1>6, <1>8 DEF RepairedArguments, a
  <2>2. DOMAIN b = DOMAIN a /\ Len(b) = Len(a)
    BY <1>6, <2>1
  <2>3. \A j \in DOMAIN a : b[j] = "json" \/ (b[j] = a[j] /\ a[j] \in {"broken", "other"})
    BY <1>6, <1>7, <2>1
  <2>4. \A j \in DOMAIN b : _normalize_value(b[j]) = b[j]
    BY <1>6, <1>7, <2>1
  <2>5. RepairedArguments(c, r.calls) = b
    <3>1. RepairedArguments(c, r.calls) = [k \in DOMAIN b |-> _normalize_value(b[k])]
      BY <1>8, <2>1 DEF RepairedArguments, b
    <3>2. b = [k \in DOMAIN b |-> b[k]]
      BY <1>6
    <3> QED
      BY <2>4, <3>1, <3>2
  <2>6. z.calls = [shape |-> "list", list |-> b]
    BY <1>2, <2>1, <2>5 DEF RepairedCalls
  <2>7. z.calls = r.calls
    BY <1>1, <2>1, <2>6 DEF CallsValue, b
  <2>8. z = r
    BY <1>1, <1>2, <1>5, <2>7 DEF MessageValue
  <2> QED
    BY <1>4, <2>1, <2>2, <2>3, <2>8, <1>1 DEF r, z, a, b, Repaired
<1>9. CASE ~(c.normalize /\ m.calls.shape \in {"list", "object"})
  <2>1. b = a
    BY <1>6, <1>9 DEF RepairedArguments, a
  <2>2. ~c.normalize \/ r.calls.shape = "junk"
    BY <1>6, <1>9
  <2>3. r.calls.shape # "object"
    BY <1>6
  <2>4. RepairedArguments(c, r.calls) = b
    BY <2>2 DEF RepairedArguments, b
  <2>5. z.calls = [shape |-> r.calls.shape, list |-> b]
    BY <1>2, <2>3, <2>4 DEF RepairedCalls
  <2>6. z.calls = r.calls
    BY <1>1, <2>5 DEF CallsValue, b
  <2>7. z = r
    BY <1>1, <1>2, <1>5, <2>6 DEF MessageValue
  <2> QED
    BY <1>4, <2>1, <2>2, <2>3, <2>7, <1>1 DEF r, z, a, b, Repaired
<1> QED
  BY <1>8, <1>9

-----------------------------------------------------------------------------
(* The repair of a body.                                                   *)

RepairedMessages(c, p) ==
  IF HasMessages(p) THEN [k \in DOMAIN p.messages |-> RepairedMessage(c, p.messages[k])] ELSE Absent

(* Only the messages of a body are repaired, each by itself.               *)
LEMMA RepairOfBody ==
  ASSUME NEW c \in Settings, NEW p \in BodyValue
  PROVE  /\ normalize_inbound_payload(c, p) = [p EXCEPT !.messages = RepairedMessages(c, p)]
         /\ normalize_inbound_payload(c, p) \in BodyValue
<1>1. p.messages \in {Absent} \cup Seq(MessageValue) /\ p = [p EXCEPT !.messages = p.messages]
  BY DEF BodyValue
<1> DEFINE u == MapMessages(p, Unwrap)
<1>2. CASE ~HasMessages(p)
  <2>1. u = p /\ p.messages = Absent
    BY <1>2 DEF MapMessages, HasMessages
  <2>2. normalize_inbound_payload(c, p) = p
    BY <1>2, <2>1 DEF normalize_inbound_payload, MapMessages
  <2> QED
    BY <1>1, <1>2, <2>1, <2>2 DEF RepairedMessages
<1>3. CASE HasMessages(p)
  <2>1. p.messages \in Seq(MessageValue)
    BY <1>1, <1>3 DEF HasMessages
  <2> DEFINE um == [k \in DOMAIN p.messages |-> Unwrap(p.messages[k])]
             rm == [k \in DOMAIN p.messages |-> RepairedMessage(c, p.messages[k])]
  <2>2. u = [p EXCEPT !.messages = um]
    BY <1>3 DEF MapMessages
  <2>3. rm \in Seq(MessageValue) /\ RepairedMessages(c, p) = rm
    <3>1. \A k \in 1..Len(p.messages) : p.messages[k] \in MessageValue
      BY <2>1
    <3>2. \A k \in 1..Len(p.messages) : RepairedMessage(c, p.messages[k]) \in MessageValue
      BY <3>1, RepairFields
    <3> QED
      BY <1>3, <2>1, <3>2 DEF RepairedMessages
  <2>4. CASE ~c.normalize
    <3>1. um = rm
      BY <2>4 DEF RepairedMessage
    <3>2. normalize_inbound_payload(c, p) = u
      BY <2>4 DEF normalize_inbound_payload
    <3> HIDE DEF um, rm, u
    <3> QED
      BY <2>2, <2>3, <3>1, <3>2 DEF BodyValue
  <2>5. CASE c.normalize
    <3>1. u.messages = um
      BY <2>2 DEF BodyValue
    <3>2. DOMAIN um = DOMAIN p.messages /\ um \in Seq(MessageValue)
      <4> DEFINE off == [c EXCEPT !.normalize = FALSE]
      <4>1. off \in Settings /\ off.normalize = FALSE
        BY DEF Settings
      <4> HIDE DEF off
      <4>2. \A k \in 1..Len(p.messages) : p.messages[k] \in MessageValue
        BY <2>1
      <4>3. \A k \in 1..Len(p.messages) : RepairedMessage(off, p.messages[k]) \in MessageValue
        BY <4>1, <4>2, RepairFields
      <4>4. \A k \in 1..Len(p.messages) : Unwrap(p.messages[k]) \in MessageValue
        BY <4>1, <4>3 DEF RepairedMessage
      <4> QED
        BY <2>1, <4>4
    <3>3. HasMessages(u)
      BY <3>1, <3>2, PipelineAssumption DEF HasMessages
    <3>4. normalize_inbound_payload(c, p)
            = [u EXCEPT !.messages = [k \in DOMAIN u.messages |-> _normalize_message(u.messages[k])]]
      BY <2>5, <3>3 DEF normalize_inbound_payload, MapMessages
    <3>5. [k \in DOMAIN u.messages |-> _normalize_message(u.messages[k])] = rm
      <4>1. \A k \in DOMAIN p.messages :
              _normalize_message(um[k]) = RepairedMessage(c, p.messages[k])
        BY <2>5 DEF RepairedMessage
      <4> HIDE DEF u
      <4> QED
        BY <3>1, <3>2, <4>1
    <3> HIDE DEF um, rm, u
    <3>6. normalize_inbound_payload(c, p) = [u EXCEPT !.messages = rm]
      BY <3>4, <3>5
    <3>7. [[p EXCEPT !.messages = um] EXCEPT !.messages = rm] = [p EXCEPT !.messages = rm]
      BY DEF BodyValue
    <3>8. normalize_inbound_payload(c, p) = [p EXCEPT !.messages = rm]
      BY <2>2, <3>6, <3>7
    <3> QED
      BY <2>3, <3>8 DEF BodyValue
  <2> QED
    BY <2>4, <2>5
<1> QED
  BY <1>2, <1>3

-----------------------------------------------------------------------------
(* The cap and the priority.                                               *)

WithinCap(c, b) ==
  c.cap > 0 => /\ \A f \in Fields : IsInt(b[f]) => b[f] <= c.cap
               /\ \E f \in Fields : b[f] # Absent

(* A body within the cap stays as it is.                                   *)
LEMMA CapLeaves ==
  ASSUME NEW c \in Settings, NEW b \in BodyValue, WithinCap(c, b)
  PROVE  Capped(c, b) = b
<1>1. c.cap \in Nat /\ Absent \notin Int /\ NotInt \notin Int
  BY PipelineAssumption DEF Settings
<1>2. CASE c.cap = 0
  BY <1>2 DEF Capped
<1>3. CASE c.cap # 0
  <2>1. c.cap > 0 /\ \E f \in Fields : b[f] # Absent
    BY <1>1, <1>3 DEF WithinCap
  <2>2. b.max_tokens \in FieldValue /\ b.max_completion_tokens \in FieldValue
    BY DEF BodyValue
  <2>3. \A v \in FieldValue : IsInt(v) <=> v \in Int
    BY <1>1 DEF FieldValue, IsInt
  <2>4. \A f \in Fields : ~(IsInt(b[f]) /\ b[f] > c.cap)
    BY <1>1, <2>1, <2>2, <2>3 DEF Fields, WithinCap
  <2> DEFINE held == [f \in DOMAIN b |->
                        IF f \in Fields /\ IsInt(b[f]) /\ b[f] > c.cap THEN c.cap ELSE b[f]]
  <2>5. b = [f \in DOMAIN b |-> b[f]]
    BY DEF BodyValue
  <2>6. held = b
    BY <2>4, <2>5
  <2> QED
    BY <1>3, <2>1, <2>6 DEF Capped
<1> QED
  BY <1>2, <1>3

(* Capping a body leaves it within the cap, and the rest of it alone.      *)
LEMMA CapHolds ==
  ASSUME NEW c \in Settings, NEW p \in BodyValue
  PROVE  /\ Capped(c, p) \in BodyValue
         /\ WithinCap(c, Capped(c, p))
         /\ Capped(c, p).messages = p.messages /\ Capped(c, p).priority = p.priority
         /\ Capped(c, p).model = p.model /\ Capped(c, p).route = p.route
<1>1. c.cap \in Nat /\ Absent \notin Int /\ NotInt \notin Int
  BY PipelineAssumption DEF Settings
<1>2. /\ p.max_tokens \in FieldValue /\ p.max_completion_tokens \in FieldValue
      /\ DOMAIN p = {"route", "model", "messages", "prompt", "tools", "priority",
                     "max_tokens", "max_completion_tokens"}
  BY DEF BodyValue
<1> DEFINE h == [f \in DOMAIN p |->
                  IF f \in Fields /\ IsInt(p[f]) /\ p[f] > c.cap THEN c.cap ELSE p[f]]
           x == Capped(c, p)
<1>3. \A v \in FieldValue : IsInt(v) <=> v \in Int
  BY <1>1 DEF FieldValue, IsInt
<1>4. CASE c.cap = 0
  BY <1>4 DEF Capped, WithinCap
<1>5. CASE c.cap # 0
  <2>0. c.cap > 0
    BY <1>1, <1>5
  <2>1. /\ h \in BodyValue
        /\ h.messages = p.messages /\ h.priority = p.priority /\ h.model = p.model
        /\ h.route = p.route
        /\ \A f \in Fields : IsInt(h[f]) => h[f] <= c.cap
    <3>1. /\ h.max_tokens \in FieldValue /\ h.max_completion_tokens \in FieldValue
          /\ IsInt(h.max_tokens) => h.max_tokens <= c.cap
          /\ IsInt(h.max_completion_tokens) => h.max_completion_tokens <= c.cap
      BY <1>1, <1>2, <1>3 DEF Fields, FieldValue
    <3>2. /\ h.messages = p.messages /\ h.priority = p.priority /\ h.model = p.model
          /\ h.route = p.route /\ h.prompt = p.prompt /\ h.tools = p.tools
      BY <1>2 DEF Fields
    <3>3. h = [route |-> h.route, model |-> h.model, messages |-> h.messages,
               prompt |-> h.prompt, tools |-> h.tools, priority |-> h.priority,
               max_tokens |-> h.max_tokens, max_completion_tokens |-> h.max_completion_tokens]
      BY <1>2
    <3> HIDE DEF h
    <3>4. h \in BodyValue
      BY <3>1, <3>2, <3>3 DEF BodyValue
    <3> QED
      BY <3>1, <3>2, <3>4 DEF Fields
  <2>2. x = IF \A f \in Fields : h[f] = Absent THEN [h EXCEPT !.max_tokens = c.cap] ELSE h
    BY <1>5, <2>0 DEF Capped
  <2> HIDE DEF h
  <2>3. CASE \A f \in Fields : h[f] = Absent
    <3>1. x = [h EXCEPT !.max_tokens = c.cap] /\ h.max_completion_tokens = Absent
      BY <2>2, <2>3 DEF Fields
    <3>2. /\ x \in BodyValue /\ x.max_tokens = c.cap /\ x.max_completion_tokens = Absent
          /\ x.messages = p.messages /\ x.priority = p.priority /\ x.model = p.model
          /\ x.route = p.route
      BY <1>1, <2>1, <3>1 DEF BodyValue, FieldValue
    <3> HIDE DEF x
    <3>3. WithinCap(c, x)
      BY <1>1, <3>2 DEF Fields, IsInt, WithinCap
    <3> QED
      BY <3>2, <3>3 DEF x
  <2>4. CASE ~ \A f \in Fields : h[f] = Absent
    BY <2>1, <2>2, <2>4 DEF WithinCap
  <2> QED
    BY <2>3, <2>4
<1> QED
  BY <1>4, <1>5

-----------------------------------------------------------------------------
(* prepare_payload.                                                        *)

TargetValue == [model : Names, priority : {Absent} \cup Int]

(* What a prepared body is like, and that preparing it again leaves it.    *)
LEMMA PrepareIsFinal ==
  ASSUME NEW c \in Settings, NEW t \in TargetValue, NEW p \in BodyValue
  PROVE  LET x == prepare(c, t, p)
         IN  /\ x \in BodyValue /\ prepare(c, t, x) = x
             /\ x.model = p.model /\ x.messages = RepairedMessages(c, p)
             /\ WithinCap(c, x)
<1> DEFINE n == normalize_inbound_payload(c, p)
           q == Capped(c, n)
           x == Prioritised(t, q)
<1>1. /\ n = [p EXCEPT !.messages = RepairedMessages(c, p)] /\ n \in BodyValue
  BY RepairOfBody
<1>2. n.messages = RepairedMessages(c, p) /\ n.model = p.model
  BY <1>1 DEF BodyValue
<1> HIDE DEF n
<1>3. /\ q \in BodyValue /\ WithinCap(c, q)
      /\ q.messages = n.messages /\ q.model = n.model
  BY <1>1, CapHolds
<1> HIDE DEF q
<1>4. /\ x \in BodyValue
      /\ x.messages = q.messages /\ x.model = q.model
      /\ x.max_tokens = q.max_tokens /\ x.max_completion_tokens = q.max_completion_tokens
      /\ ~(t.priority # Absent /\ x.priority = Absent)
  BY <1>3 DEF Prioritised, BodyValue, TargetValue, FieldValue
<1>5. prepare(c, t, p) = x
  BY DEF prepare, n, q
<1> HIDE DEF x
<1>6. WithinCap(c, x)
  BY <1>3, <1>4 DEF WithinCap, Fields
<1>7. RepairedMessages(c, x) = x.messages
  <2>1. x.messages = RepairedMessages(c, p)
    BY <1>2, <1>3, <1>4
  <2>2. CASE ~HasMessages(p)
    BY <2>1, <2>2 DEF RepairedMessages, HasMessages
  <2>3. CASE HasMessages(p)
    <3>1. p.messages \in Seq(MessageValue)
      BY <2>3 DEF BodyValue, HasMessages
    <3>2. x.messages = [k \in DOMAIN p.messages |-> RepairedMessage(c, p.messages[k])]
      BY <2>1, <2>3 DEF RepairedMessages
    <3>3. \A k \in DOMAIN p.messages : p.messages[k] \in MessageValue
      BY <3>1
    <3>4. \A k \in DOMAIN p.messages : RepairedMessage(c, x.messages[k]) = x.messages[k]
      BY <3>2, <3>3, RepairIsFinal
    <3>5. HasMessages(x)
      <4>1. x.messages \in Seq(MessageValue)
        <5>1. \A k \in DOMAIN p.messages : RepairedMessage(c, p.messages[k]) \in MessageValue
          BY <3>3, RepairFields
        <5> QED
          BY <3>1, <3>2, <5>1
      <4> QED
        BY <4>1, PipelineAssumption DEF HasMessages
    <3>6. RepairedMessages(c, x) = [k \in DOMAIN x.messages |-> RepairedMessage(c, x.messages[k])]
      BY <3>5 DEF RepairedMessages
    <3>7. x.messages = [k \in DOMAIN p.messages |-> x.messages[k]] /\ DOMAIN x.messages = DOMAIN p.messages
      BY <3>2
    <3> QED
      BY <3>4, <3>6, <3>7
  <2> QED
    BY <2>2, <2>3
<1>8. normalize_inbound_payload(c, x) = x
  <2>1. normalize_inbound_payload(c, x) = [x EXCEPT !.messages = RepairedMessages(c, x)]
    BY <1>4, RepairOfBody
  <2>2. [x EXCEPT !.messages = x.messages] = x
    BY <1>4 DEF BodyValue
  <2> QED
    BY <1>7, <2>1, <2>2
<1>9. Capped(c, x) = x
  BY <1>4, <1>6, CapLeaves
<1>10. Prioritised(t, x) = x
  BY <1>4 DEF Prioritised
<1>11. prepare(c, t, x) = x
  BY <1>8, <1>9, <1>10 DEF prepare
<1> QED
  BY <1>2, <1>3, <1>4, <1>5, <1>6, <1>11

-----------------------------------------------------------------------------
(* The inductive invariant: at each point of its way a request's target    *)
(* and body are what the client's body and the settings make of them.      *)

Chat == payload.route = "chat"

(* The body with the model of its target.                                  *)
Renamed == [payload EXCEPT !.model = target.model]

Routed == target \in Resolved /\ (Chat => payload.model # "number")

Passed ==
  /\ Routed
  /\ Chat => /\ prepared = prepare(config, target, Renamed)
             /\ ~Overflows(config, prepared)
             /\ used = <<target.model>>
  /\ ~Chat => prepared = Renamed /\ used = <<>>

Refused == target = Absent /\ (Chat => payload.model = "number" \/ Resolved = {})

PInv ==
  /\ config \in Settings /\ payload \in BodyValue
  /\ pc \in {"received", "resolved", "guarding", "prepared", "replied"}
  /\ pc = "received" => target = Absent
  /\ pc = "resolved" => Chat /\ Routed /\ prepared = Renamed
  /\ pc = "guarding" => Chat /\ Routed /\ prepared = prepare(config, target, Renamed)
  /\ pc = "prepared" => Passed
  /\ pc # "replied" => status = Absent
  /\ pc \in {"received", "resolved", "guarding"} => used = <<>>
  /\ pc = "replied" => \/ status \in Outcomes /\ Passed
                       \/ status \in Unserved /\ used = <<>> /\ Refused
                       \/ status = "context_length_exceeded" /\ Chat /\ Routed /\ used = <<>>

(* A request starts with its own body and no target.                       *)
LEMMA InitPInv == Init => PInv
  BY PipelineAssumption DEF Init, PInv

(* Every step of a request keeps the invariant.                            *)
LEMMA NextPInv == PInv /\ [Next]_vars => PInv'
<1> SUFFICES ASSUME PInv, [Next]_vars PROVE PInv'
  OBVIOUS
<1> USE DEF PInv
<1>1. CASE BadModel
  BY <1>1 DEF BadModel, Reply, Unserved, Refused, Chat
<1>2. CASE Resolve
  <2>1. PICK t \in Resolved : target' = t /\ prepared' = [payload EXCEPT !.model = t.model]
    BY <1>2 DEF Resolve
  <2>2. /\ pc = "received" /\ (Chat => payload.model # "number")
        /\ pc' = IF Chat THEN "resolved" ELSE "prepared"
        /\ UNCHANGED <<config, payload, used, status>>
    BY <1>2 DEF Resolve, Chat
  <2>3. /\ Chat' = Chat /\ Resolved' = Resolved /\ Renamed' = prepared' /\ Routed'
    BY <2>1, <2>2 DEF Chat, Resolved, Renamed, Routed
  <2> QED
    BY <2>2, <2>3 DEF Passed
<1>3. CASE NotServed
  <2>1. /\ pc = "received" /\ Resolved = {} /\ pc' = "replied" /\ status' \in Unserved
        /\ UNCHANGED <<config, payload, prepared, target, used>>
    BY <1>3 DEF NotServed, Reply, Unserved
  <2>2. Refused' /\ used' = <<>>
    BY <2>1 DEF Refused, Chat, Resolved
  <2> QED
    BY <2>1, <2>2
<1>4. CASE Prepare
  <2>1. /\ pc = "resolved" /\ pc' = "guarding" /\ prepared' = prepare(config, target, prepared)
        /\ UNCHANGED <<config, payload, target, used, status>>
    BY <1>4 DEF Prepare
  <2>2. Chat' /\ Routed' /\ Renamed' = Renamed
    BY <2>1 DEF Chat, Routed, Renamed, Resolved
  <2> QED
    BY <2>1, <2>2
<1>5. CASE Guard
  <2>1. /\ pc = "guarding" /\ UNCHANGED <<config, payload, prepared, target>>
        /\ IF Overflows(config, prepared)
           THEN pc' = "replied" /\ status' = "context_length_exceeded" /\ used' = used
           ELSE pc' = "prepared" /\ used' = Append(used, target.model) /\ status' = status
    BY <1>5 DEF Guard, Reply
  <2>2. Chat /\ Chat' /\ Routed' /\ Renamed' = Renamed
    BY <2>1 DEF Chat, Routed, Renamed, Resolved
  <2>3. CASE Overflows(config, prepared)
    BY <2>1, <2>2, <2>3
  <2>4. CASE ~Overflows(config, prepared)
    <3>1. used' = <<target.model>>
      BY <2>1, <2>4
    <3> QED
      BY <2>1, <2>2, <2>4, <3>1 DEF Passed
  <2> QED
    BY <2>3, <2>4
<1>6. ASSUME NEW outcome \in Outcomes, Forward(outcome) PROVE PInv'
  <2>1. /\ pc = "prepared" /\ pc' = "replied" /\ status' \in Outcomes
        /\ UNCHANGED <<config, payload, prepared, target, used>>
    BY <1>6 DEF Forward, Reply
  <2>2. Passed'
    BY <2>1 DEF Passed, Routed, Chat, Renamed, Resolved
  <2> QED
    BY <2>1, <2>2
<1>7. CASE UNCHANGED vars
  BY <1>7 DEF vars, Passed, Refused, Routed, Chat, Renamed, Resolved
<1> QED
  BY <1>1, <1>2, <1>3, <1>4, <1>5, <1>6, <1>7 DEF Next

(* The invariant holds in every reachable state.                           *)
LEMMA InductiveInvariant == Spec => []PInv
  BY InitPInv, NextPInv, PTL DEF Spec

(* Where requests go: only to what is deployed.                            *)
LEMMA TargetFacts ==
  ASSUME PInv, Routed
  PROVE  /\ target \in TargetValue /\ target.model \in served_models(config)
         /\ Renamed \in BodyValue /\ Renamed.model = target.model
         /\ Renamed.messages = payload.messages
<1>1. CASE Chat
  <2>1. target \in resolve_target(config, payload.model)
    BY <1>1 DEF Routed, Resolved, Chat
  <2>2. \/ target = Target("fim", Priority(config, -1)) /\ config.autocomplete
        \/ target = Target("primary", Priority(config, 0))
    BY <2>1 DEF resolve_target, autocomplete_aliases
  <2> QED
    <3>1. "fim" \in Names /\ "primary" \in Names /\ -1 \in Int /\ 0 \in Int
      BY PipelineAssumption
    <3>2. target \in TargetValue /\ target.model \in {"fim", "primary"}
      BY <2>2, <3>1 DEF Target, Priority, TargetValue
    <3>3. target.model \in served_models(config)
      BY <2>2 DEF Target, served_models
    <3>4. target.model \in Names
      BY <3>1, <3>2
    <3> QED
      BY <3>2, <3>3, <3>4 DEF PInv, Renamed, BodyValue
<1>2. CASE ~Chat
  <2>1. \/ target = Target("embedder", Absent) /\ config.embeddings
        \/ target = Target("reranker", Absent) /\ config.rerank
    BY <1>2 DEF PInv, BodyValue, Routed, Resolved, Chat, resolve_embeddings_target,
                resolve_rerank_target
  <2> QED
    <3>1. "embedder" \in Names /\ "reranker" \in Names
      BY PipelineAssumption
    <3>2. target \in TargetValue /\ target.model \in {"embedder", "reranker"}
      BY <2>1, <3>1 DEF Target, TargetValue
    <3>3. target.model \in served_models(config)
      BY <2>1 DEF Target, served_models
    <3>4. target.model \in Names
      BY <3>1, <3>2
    <3> QED
      BY <3>2, <3>3, <3>4 DEF PInv, Renamed, BodyValue
<1> QED
  BY <1>1, <1>2

(* A reply says whether the request was forwarded, refused or too long.    *)
LEMMA StatusFacts ==
  /\ Absent \notin Outcomes /\ Absent \notin Unserved
  /\ "context_length_exceeded" \notin Outcomes \cup Unserved
  /\ Outcomes \cap Unserved = {}
<1>1. Absent \notin Outcomes /\ Absent \notin Unserved
  BY PipelineAssumption
<1> QED
  BY <1>1 DEF Outcomes, Unserved

(* A request that is forwarded passed every check.                         *)
LEMMA ForwardedPassed ==
  ASSUME PInv, Forwarded
  PROVE  Passed
  BY StatusFacts DEF PInv, Forwarded

-----------------------------------------------------------------------------
(* A chat model that GET /v1/models lists is served, by its own upstream;  *)
(* nothing goes to an upstream that is not deployed, or there under        *)
(* another model's name; and what goes nowhere is not counted as use.      *)
THEOREM RoutingIsRight == Spec => []ListedIsServed
<1>1. PInv => ListedIsServed
  <2> SUFFICES ASSUME PInv PROVE ListedIsServed
    OBVIOUS
  <2>1. ASSUME Chat, payload.model \in served_models(config) \cap {"primary", "fim"}
        PROVE  status \notin Unserved /\ (target # Absent => target.model = payload.model)
    <3>1. payload.model = "primary" \/ (payload.model = "fim" /\ config.autocomplete)
      BY <2>1 DEF served_models
    <3>2. Resolved = resolve_target(config, payload.model)
      BY <2>1 DEF Resolved, Chat
    <3>3. \E x : Resolved = {Target(payload.model, x)}
      BY <3>1, <3>2 DEF resolve_target, autocomplete_aliases
    <3>4. ~Refused
      BY <2>1, <3>1, <3>3 DEF Refused
    <3>5. status \notin Unserved
      BY <3>4, StatusFacts DEF PInv
    <3>6. target # Absent => Routed
      BY DEF PInv, Passed, Refused
    <3>7. target # Absent => target.model = payload.model
      BY <3>3, <3>6 DEF Routed, Target
    <3> QED
      BY <3>5, <3>7
  <2>2. ASSUME Forwarded
        PROVE  target.model \in served_models(config) /\ prepared.model = target.model
    <3>1. Passed /\ Routed
      BY <2>2, ForwardedPassed DEF Passed
    <3>2. /\ target \in TargetValue /\ target.model \in served_models(config)
          /\ Renamed \in BodyValue /\ Renamed.model = target.model
      BY <3>1, TargetFacts
    <3>3. CASE ~Chat
      BY <3>1, <3>2, <3>3 DEF Passed
    <3>4. CASE Chat
      <4>1. prepared = prepare(config, target, Renamed) /\ config \in Settings
        BY <3>1, <3>4 DEF Passed, PInv
      <4>2. prepared.model = Renamed.model
        BY <3>2, <4>1, PrepareIsFinal
      <4> QED
        BY <3>2, <4>2
    <3> QED
      BY <3>3, <3>4
  <2>3. ASSUME used # <<>> PROVE Forwarded /\ used = <<target.model>>
    BY <2>3 DEF PInv, Passed, Forwarded
  <2> QED
    BY <2>1, <2>2, <2>3 DEF ListedIsServed, Chat
<1> QED
  BY <1>1, InductiveInvariant, PTL

(* Preparing a prepared body again changes nothing: a second gateway, or   *)
(* the next turn that replays the message, repairs nothing differently.    *)
THEOREM PreparationIsFinal == Spec => []PreparedIsFixpoint
<1>1. PInv => PreparedIsFixpoint
  <2> SUFFICES ASSUME PInv, pc = "guarding"
               PROVE  prepare(config, target, prepared) = prepared
    BY DEF PreparedIsFixpoint
  <2>1. config \in Settings /\ Routed /\ prepared = prepare(config, target, Renamed)
    BY DEF PInv
  <2>2. target \in TargetValue /\ Renamed \in BodyValue
    BY <2>1, TargetFacts
  <2> QED
    BY <2>1, <2>2, PrepareIsFinal
<1> QED
  BY <1>1, InductiveInvariant, PTL

(* The engine is given no message that it would reject for a reason the    *)
(* gateway repairs; no message and no call is lost, added or moved, and    *)
(* arguments that were JSON already are not touched.                       *)
THEOREM RepairIsComplete == Spec => []EngineTakesIt
<1>1. PInv => EngineTakesIt
  <2> SUFFICES ASSUME PInv, Chat, Forwarded, HasMessages(payload)
               PROVE  /\ Len(prepared.messages) = Len(payload.messages)
                      /\ \A k \in DOMAIN payload.messages :
                           LET sent == payload.messages[k]
                               got == prepared.messages[k]
                           IN  \/ sent.type # "dict" /\ got = sent
                               \/ sent.type = "dict" /\ got.type = "dict" /\ Repaired(config, sent, got)
    BY DEF EngineTakesIt, Chat, Repaired
  <2>1. Routed /\ prepared = prepare(config, target, Renamed) /\ config \in Settings
    BY ForwardedPassed DEF Passed, PInv
  <2>2. target \in TargetValue /\ Renamed \in BodyValue /\ Renamed.messages = payload.messages
    BY <2>1, TargetFacts
  <2>3. prepared.messages = RepairedMessages(config, Renamed)
    BY <2>1, <2>2, PrepareIsFinal
  <2>4. payload.messages \in Seq(MessageValue)
    BY DEF PInv, BodyValue, HasMessages
  <2>5. prepared.messages = [k \in DOMAIN payload.messages |-> RepairedMessage(config, payload.messages[k])]
    BY <2>2, <2>3 DEF RepairedMessages, HasMessages
  <2>6. Len(prepared.messages) = Len(payload.messages)
    BY <2>4, <2>5
  <2>7. ASSUME NEW k \in DOMAIN payload.messages
        PROVE  payload.messages[k] \in MessageValue
               /\ prepared.messages[k] = RepairedMessage(config, payload.messages[k])
    BY <2>4, <2>5
  <2> QED
    BY <2>1, <2>6, <2>7, RepairIsFinal
<1> QED
  BY <1>1, InductiveInvariant, PTL

(* What reaches the engine is bounded by the cap, if there is one, and     *)
(* fits the window, prompt and output together, if at most one of the two  *)
(* fields asks for output.                                                 *)
THEOREM WhatPassesFits == Spec => []FitsTheWindow
<1>1. PInv => FitsTheWindow
  <2> SUFFICES ASSUME PInv, Chat, Forwarded
               PROVE  /\ WithinCap(config, prepared)
                      /\ context_budget(config) > 0 =>
                           \A f \in Fields :
                             IsInt(prepared[f]) /\ (\A g \in Fields \ {f} : prepared[g] = Absent)
                               => estimate_payload_tokens(prepared) + prepared[f]
                                    <= context_budget(config)
    BY DEF FitsTheWindow, WithinCap, Chat
  <2>1. /\ Routed /\ prepared = prepare(config, target, Renamed) /\ config \in Settings
        /\ ~Overflows(config, prepared)
    BY ForwardedPassed DEF Passed, PInv
  <2>2. target \in TargetValue /\ Renamed \in BodyValue
    BY <2>1, TargetFacts
  <2>3. WithinCap(config, prepared) /\ prepared \in BodyValue
    BY <2>1, <2>2, PrepareIsFinal
  <2>4. ASSUME context_budget(config) > 0, NEW f \in Fields, IsInt(prepared[f]),
               \A g \in Fields \ {f} : prepared[g] = Absent
        PROVE  estimate_payload_tokens(prepared) + prepared[f] <= context_budget(config)
    <3> DEFINE e == estimate_payload_tokens(prepared)
               b == context_budget(config)
               w == _reserved_completion_tokens(prepared)
    <3>1. e \in Int
      BY <2>3, EstimateType
    <3>2. b \in Int
      BY <2>1 DEF context_budget, Settings
    <3>3. prepared[f] \in Int
      BY <2>3, <2>4 DEF BodyValue, Fields, FieldValue, IsInt
    <3>4. w \in Int /\ prepared[f] <= w
      <4>1. /\ prepared.max_tokens \in FieldValue /\ prepared.max_completion_tokens \in FieldValue
        BY <2>3 DEF BodyValue
      <4>2. f = "max_tokens" \/ (f = "max_completion_tokens" /\ prepared.max_tokens = Absent)
        BY <2>4 DEF Fields
      <4>3. CASE f = "max_tokens"
        <5>1. prepared.max_completion_tokens = Absent
          BY <2>4, <4>3 DEF Fields
        <5> QED
          BY <2>4, <3>3, <4>3, <5>1 DEF _reserved_completion_tokens, IsInt
      <4>4. CASE f = "max_completion_tokens" /\ prepared.max_tokens = Absent
        BY <2>4, <3>3, <4>4 DEF _reserved_completion_tokens, IsInt
      <4> QED
        BY <4>2, <4>3, <4>4
    <3>5. ~(e + w > b)
      BY <2>1, <2>4 DEF Overflows
    <3> HIDE DEF e, b, w
    <3>6. e + prepared[f] <= b
      BY <3>1, <3>2, <3>3, <3>4, <3>5
    <3> QED
      BY <3>6 DEF e, b
  <2> QED
    BY <2>3, <2>4
<1> QED
  BY <1>1, InductiveInvariant, PTL
=============================================================================
