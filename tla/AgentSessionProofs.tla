-------------------------- MODULE AgentSessionProofs -------------------------
(***************************************************************************)
(* Proofs about AgentSession, for any tools, any number of questions and   *)
(* turns, any step limit and any lengths of the compacted transcript: what *)
(* is sent, what is saved and what runs, through interruptions, refusals,  *)
(* failures, compactions, crashes and resumptions.  And, at the end, about *)
(* ToolCallStream, the turns that the session's calls come from.           *)
(***************************************************************************)
EXTENDS AgentSession, ToolCallStream, SequenceTheorems, FiniteSetTheorems, WellFoundedInduction, TLAPS

(* One transcript continues another.                                       *)
Grows(h, n) == Len(h) <= Len(n) /\ \A i \in 1..Len(h) : n[i] = h[i]

StoppedIn(h, t) ==
  \E q \in Results(h) : h[q].id[1] = t /\ h[q].text \in {"not_asked", "gave_up"}

(* The result at q is for the assistant message at p, the last before it.  *)
Owns(h, p, q) ==
  /\ p < q
  /\ h[q].id[1] = h[p].id[1]
  /\ h[q].id[2] \in DOMAIN h[p].calls
  /\ \A j \in (p + 1)..q : h[j].role # "assistant"

Numbered(h, t) ==
  /\ \A p \in Assistants(h) : h[p].id[1] \in 1..t
  /\ \A p, q \in Assistants(h) : p < q => h[p].id[1] < h[q].id[1]

Owned(h) == \A q \in Results(h) : \E p \in Assistants(h) : Owns(h, p, q)

Once(h) == \A p, q \in Results(h) : h[p].id = h[q].id => p = q

Attached(h) == \A q \in Results(h) : StoppedIn(h, h[q].id[1]) \/ ResultAttached(h, q)

(* A transcript of turns up to t, in which ...                             *)
Transcript(h, t) ==
  /\ h \in Seq(Message)
  /\ Len(h) > 0 => h[1].role = "user"
  /\ Numbered(h, t) /\ Owned(h) /\ Once(h) /\ Attached(h)

(* ... every call is answered, but for those of turn u, and of the turns   *)
(* that _execute abandoned.                                                *)
AllAnswered(h, p) ==
  \A i \in DOMAIN h[p].calls : \E q \in ResultsAt(h, p) : h[q].id = <<h[p].id[1], i>>

Complete(h, u) ==
  \A p \in Assistants(h) : h[p].id[1] = u \/ StoppedIn(h, h[p].id[1]) \/ AllAnswered(h, p)

-----------------------------------------------------------------------------
(* The inductive invariant.                                                *)

Executing == pc \in {"executing", "running"}

(* The assistant message whose calls are being executed, and behind it     *)
(* their results so far, in the order of the calls.                        *)
CurrentAt(p) ==
  /\ p \in Assistants(history)
  /\ history[p].id[1] = turns
  /\ history[p].calls = calls
  /\ Len(history) = p + current - 1
  /\ \A q \in (p + 1)..Len(history) :
       history[q].role = "tool" /\ history[q].id = <<turns, q - p>>

(* The transcript, the file, and what the file is part of.                 *)
HistoryOK ==
  /\ Transcript(history, turns)
  /\ Complete(history, IF Executing THEN turns ELSE 0)
  /\ Executing => \E p \in 1..Len(history) : CurrentAt(p)
  /\ pc \notin {"prompt"} => Len(history) > 0

SavedOK ==
  /\ Transcript(saved, turns)
  /\ Complete(saved, 0)
  /\ Grows(saved, history)

(* What is sent starts its tail at k, which is no result, and not behind   *)
(* the turn that is being executed.                                        *)
CutAt(k) ==
  /\ messages = <<history[1], UserMessage("summary")>> \o SubSeq(history, k, Len(history))
  /\ k <= Len(history) => history[k].role # "tool"
  /\ Executing => k <= Len(history) - current + 1

SentOK ==
  \/ messages = history
  \/ Len(history) > 0 /\ \E k \in 2..(Len(history) + 1) : CutAt(k)

(* A thread works on a call that was reached.                              *)
ThreadsOK ==
  \A id \in workers \cup ran :
    /\ id \in Ids
    /\ id[1] <= turns
    /\ id[1] = turns /\ pc = "executing" => id[2] < current
    /\ id[1] = turns /\ pc = "running" => id[2] <= current

ControlOK ==
  /\ pc \in {"prompt", "loop", "thinking", "executing", "running", "finished", "crashed"}
  /\ calls \in Seq(Tools) /\ Len(calls) <= MaxCalls
  /\ current \in 0..MaxCalls
  /\ Executing => current \in 1..Len(calls)
  /\ step \in 0..MaxSteps
  /\ failures \in [Tools -> Nat]
  /\ edited \in BOOLEAN
  /\ asks \in 0..MaxAsks
  /\ turns \in 0..MaxTurns

IInv == ControlOK /\ HistoryOK /\ SavedOK /\ SentOK /\ ThreadsOK /\ DeclinedNeverRuns

-----------------------------------------------------------------------------
(* Lists and numbers.                                                      *)

(* Every nonempty set of natural numbers has a least element, ...          *)
LEMMA LeastNumber ==
  ASSUME NEW S \in SUBSET Nat, S # {}
  PROVE  \E n \in S : \A m \in S : n <= m
<1>1. IsWellFoundedOn(OpToRel(<, Nat), Nat)
  BY NatLessThanWellFounded, Zenon
<1>2. PICK n \in S : \A m \in S : ~(<<m, n>> \in OpToRel(<, Nat))
  BY <1>1, WFMin, Zenon
<1>3. \A m \in S : ~(m < n)
  BY <1>2 DEF OpToRel
<1> QED
  BY <1>3

(* ... and a bounded one a greatest.                                       *)
LEMMA GreatestNumber ==
  ASSUME NEW n \in Nat, NEW S \in SUBSET (1..n), S # {}
  PROVE  \E m \in S : \A k \in S : k <= m
<1> DEFINE above == {b \in Nat : \A k \in S : k <= b}
<1>1. above \in SUBSET Nat /\ n \in above
  OBVIOUS
<1>2. PICK b \in above : \A c \in above : b <= c
  BY <1>1, LeastNumber
<1>3. b \in S
  <2> SUFFICES ASSUME b \notin S PROVE FALSE
    OBVIOUS
  <2>1. PICK k \in S : TRUE
    OBVIOUS
  <2>2. b \in Nat /\ k \in Nat /\ k > 0 /\ k <= b
    BY <1>2, <2>1
  <2>3. b - 1 \in Nat /\ \A j \in S : j \in Nat /\ j <= b /\ j # b
    BY <1>2, <2>2
  <2>4. \A j \in S : j <= b - 1
    BY <2>2, <2>3
  <2>5. b - 1 \in above
    BY <2>3, <2>4
  <2> QED
    BY <1>2, <2>2, <2>5
<1> QED
  BY <1>2, <1>3

Increasing(s) == \A i, j \in DOMAIN s : i < j => s[i] < s[j]

(* Every finite set of positive numbers can be listed in order.  By the    *)
(* least bound of a set that cannot: without its greatest member it can.   *)
LEMMA Listing ==
  ASSUME NEW n \in Nat, NEW S \in SUBSET (1..n)
  PROVE  \E s \in [1..Cardinality(S) -> S] : Increasing(s)
<1> DEFINE Listed(T) == \E s \in [1..Cardinality(T) -> T] : Increasing(s)
           bad == {b \in Nat : \E T \in SUBSET (1..b) : ~Listed(T)}
<1> SUFFICES bad = {}
  OBVIOUS
<1> SUFFICES ASSUME bad # {} PROVE FALSE
  OBVIOUS
<1>1. bad \in SUBSET Nat
  OBVIOUS
<1>2. PICK b \in bad : \A c \in bad : b <= c
  BY <1>1, LeastNumber
<1>3. PICK T \in SUBSET (1..b) : ~Listed(T)
  BY <1>2
<1>4. b \in Nat /\ IsFiniteSet(1..b)
  BY <1>2, FS_Interval
<1>5. IsFiniteSet(T) /\ Cardinality(T) \in Nat
  BY <1>4, FS_Subset, FS_CardinalityType, Zenon
<1>6. T # {}
  <2> SUFFICES ASSUME T = {} PROVE FALSE
    OBVIOUS
  <2>1. Cardinality(T) = 0
    BY FS_EmptySet, Zenon
  <2>2. [i \in 1..0 |-> i] \in [1..0 -> T] /\ Increasing([i \in 1..0 |-> i])
    BY DEF Increasing
  <2> QED
    BY <1>3, <2>1, <2>2
<1>7. b > 0 /\ b - 1 \in Nat
  <2>1. PICK x \in T : TRUE
    BY <1>6
  <2>2. x \in 1..b
    BY <1>3, <2>1
  <2> QED
    BY <1>4, <2>2
<1>8. b \in T
  <2> SUFFICES ASSUME b \notin T PROVE FALSE
    OBVIOUS
  <2>1. T \in SUBSET (1..(b - 1))
    BY <1>4, <1>7
  <2>2. b - 1 \in bad
    BY <1>3, <1>7, <2>1
  <2>3. b <= b - 1
    BY <1>2, <2>2
  <2> QED
    BY <1>4, <2>3
<1> DEFINE R == T \ {b}
           c == Cardinality(R)
<1>9. Cardinality(R) = Cardinality(T) - 1 /\ IsFiniteSet(R)
  BY <1>5, <1>8, FS_RemoveElement, Zenon
<1>10. c \in Nat /\ Cardinality(T) = c + 1
  BY <1>5, <1>9, FS_CardinalityType
<1>11. R \in SUBSET (1..(b - 1))
  BY <1>4, <1>7
<1>12. Listed(R)
  <2> SUFFICES ASSUME ~Listed(R) PROVE FALSE
    OBVIOUS
  <2> HIDE DEF Listed, R
  <2>1. b - 1 \in bad
    BY <1>7, <1>11
  <2> QED
    <3>1. b <= b - 1
      BY <1>2, <2>1
    <3> QED
      BY <1>4, <3>1
<1>13. PICK s \in [1..c -> R] : Increasing(s)
  BY <1>12
<1> HIDE DEF c
<1> DEFINE z == [i \in 1..(c + 1) |-> IF i = c + 1 THEN b ELSE s[i]]
<1>14. z \in [1..(c + 1) -> T]
  <2> SUFFICES ASSUME NEW i \in 1..(c + 1), i # c + 1 PROVE s[i] \in T
    BY <1>8
  <2>1. i \in 1..c
    BY <1>10
  <2> QED
    BY <1>13, <2>1
<1>15. \A i, j \in 1..(c + 1) : i < j => z[i] < z[j]
  <2> SUFFICES ASSUME NEW i \in 1..(c + 1), NEW j \in 1..(c + 1), i < j
               PROVE  z[i] < z[j]
    OBVIOUS
  <2>1. i \in 1..c /\ z[i] = s[i] /\ s[i] \in R
    BY <1>10, <1>13
  <2>2. CASE j = c + 1
    <3>1. z[j] = b /\ s[i] \in Nat /\ s[i] <= b - 1
      <4>1. s[i] \in 1..(b - 1)
        BY <1>11, <2>1
      <4> QED
        BY <1>4, <2>2, <4>1
    <3> QED
      BY <1>4, <2>1, <3>1
  <2>3. CASE j # c + 1
    <3>1. j \in 1..c /\ z[j] = s[j]
      BY <1>10, <2>3
    <3> QED
      BY <1>13, <2>1, <3>1 DEF Increasing
  <2> QED
    BY <2>2, <2>3
<1>16. Increasing(z)
  BY <1>15 DEF Increasing
<1> QED
  BY <1>3, <1>10, <1>14, <1>16

(* InOrder lists every member of its set once.                             *)
LEMMA InOrderLists ==
  ASSUME NEW n \in Nat, NEW S \in SUBSET (1..n)
  PROVE  /\ Cardinality(S) \in Nat
         /\ InOrder(S) \in [1..Cardinality(S) -> S]
         /\ \A i, j \in 1..Cardinality(S) : InOrder(S)[i] = InOrder(S)[j] => i = j
         /\ \A x \in S : \E i \in 1..Cardinality(S) : InOrder(S)[i] = x
<1> DEFINE s == InOrder(S)
           c == Cardinality(S)
<1>1. IsFiniteSet(S) /\ c \in Nat
  <2>1. IsFiniteSet(1..n)
    BY FS_Interval
  <2> QED
    BY <2>1, FS_Subset, FS_CardinalityType, Zenon
<1>2. s \in [1..c -> S] /\ \A i, j \in DOMAIN s : i < j => s[i] < s[j]
  BY Listing DEF InOrder, Increasing
<1> HIDE DEF s, c
<1>3. \A i, j \in 1..c : s[i] = s[j] => i = j
  <2> SUFFICES ASSUME NEW i \in 1..c, NEW j \in 1..c, s[i] = s[j], i # j PROVE FALSE
    OBVIOUS
  <2>1. s[i] \in Nat /\ s[j] \in Nat
    <3>1. s[i] \in S /\ s[j] \in S /\ S \subseteq 1..n
      BY <1>2, Zenon
    <3>2. 1..n \subseteq Nat
      OBVIOUS
    <3> QED
      BY <3>1, <3>2, Zenon
  <2>2. i < j \/ j < i
    BY <1>1
  <2> QED
    BY <1>2, <2>1, <2>2
<1>4. Cardinality(1..c) = c
  <2>1. c \in Int /\ 1 \in Int
    BY <1>1
  <2>2. Cardinality(1..c) = IF 1 > c THEN 0 ELSE c - 1 + 1
    BY <2>1, FS_Interval, Zenon
  <2> QED
    BY <1>1, <2>2
<1>5. s \in Injection(1..c, S)
  BY <1>2, <1>3 DEF Injection, IsInjective
<1>6. s \in Surjection(1..c, S)
  BY <1>1, <1>4, <1>5, FS_Injection, Zenon DEF c
<1>7. \A x \in S : \E i \in 1..c : s[i] = x
  BY <1>6 DEF Surjection
<1> QED
  BY <1>1, <1>2, <1>3, <1>7 DEF s, c

(* What is behind the end of a list.                                       *)
LEMMA SeqJoined ==
  ASSUME NEW S, NEW s \in Seq(S), NEW t \in Seq(S)
  PROVE  /\ s \o t \in Seq(S)
         /\ Len(s) \in Nat /\ Len(t) \in Nat /\ Len(s \o t) = Len(s) + Len(t)
         /\ Grows(s, s \o t)
         /\ \A i \in 1..Len(t) : (s \o t)[Len(s) + i] = t[i]
<1>1. /\ s \o t \in Seq(S) /\ Len(s \o t) = Len(s) + Len(t)
      /\ \A i \in 1..(Len(s) + Len(t)) : (s \o t)[i] = IF i <= Len(s) THEN s[i] ELSE t[i - Len(s)]
      /\ Len(s) \in Nat /\ Len(t) \in Nat
  BY ConcatProperties, LenProperties
<1>2. \A i \in 1..Len(s) : (s \o t)[i] = s[i]
  BY <1>1
<1>3. \A i \in 1..Len(t) : Len(s) + i \in 1..(Len(s) + Len(t)) /\ ~(Len(s) + i <= Len(s))
                           /\ Len(s) + i - Len(s) = i
  BY <1>1
<1>4. \A i \in 1..Len(t) : (s \o t)[Len(s) + i] = t[i]
  BY <1>1, <1>3
<1> QED
  BY <1>1, <1>2, <1>4 DEF Grows

-----------------------------------------------------------------------------
(* Transcripts.                                                            *)

(* What the places of a transcript hold.                                   *)
LEMMA MessageFacts ==
  ASSUME NEW h \in Seq(Message)
  PROVE  /\ Len(h) \in Nat /\ DOMAIN h = 1..Len(h)
         /\ \A i \in 1..Len(h) : /\ h[i] \in Message /\ h[i].role \in Roles /\ h[i].id \in Ids
                                 /\ h[i].id[1] \in Nat /\ h[i].id[2] \in Nat
                                 /\ h[i].calls \in Seq(Tools)
         /\ Assistants(h) = {p \in 1..Len(h) : h[p].role = "assistant"}
         /\ Results(h) = {q \in 1..Len(h) : h[q].role = "tool"}
<1>1. Len(h) \in Nat /\ DOMAIN h = 1..Len(h) /\ \A i \in 1..Len(h) : h[i] \in Message
  OBVIOUS
<1>2. \A m \in Message : /\ m.role \in Roles /\ m.id \in Ids /\ m.calls \in Seq(Tools)
                         /\ m.id[1] \in Nat /\ m.id[2] \in Nat
  BY DEF Message, Ids
<1> QED
  BY <1>1, <1>2 DEF Assistants, Results

(* What is said stays said: a longer transcript keeps what was there.      *)
LEMMA GrowsKeeps ==
  ASSUME NEW h \in Seq(Message), NEW n \in Seq(Message), Grows(h, n)
  PROVE  /\ Assistants(h) = Assistants(n) \cap 1..Len(h)
         /\ Results(h) = Results(n) \cap 1..Len(h)
         /\ \A t : StoppedIn(h, t) => StoppedIn(n, t)
         /\ \A p \in Assistants(h) : ResultsAt(h, p) \subseteq ResultsAt(n, p)
         /\ \A p \in Assistants(h) : AllAnswered(h, p) => AllAnswered(n, p)
         /\ \A p \in Assistants(h), q \in Results(h) : Owns(h, p, q) => Owns(n, p, q)
         /\ \A q \in Results(h) : ResultAttached(h, q) => ResultAttached(n, q)
<1>1. /\ Len(h) \in Nat /\ Len(n) \in Nat /\ Len(h) <= Len(n)
      /\ \A i \in 1..Len(h) : n[i] = h[i] /\ i \in 1..Len(n)
  BY MessageFacts DEF Grows
<1>2. /\ Assistants(h) = {p \in 1..Len(h) : h[p].role = "assistant"}
      /\ Assistants(n) = {p \in 1..Len(n) : n[p].role = "assistant"}
      /\ Results(h) = {p \in 1..Len(h) : h[p].role = "tool"}
      /\ Results(n) = {p \in 1..Len(n) : n[p].role = "tool"}
  BY MessageFacts
<1>3. Assistants(h) = Assistants(n) \cap 1..Len(h) /\ Results(h) = Results(n) \cap 1..Len(h)
  BY <1>1, <1>2
<1>4. \A t : StoppedIn(h, t) => StoppedIn(n, t)
  BY <1>1, <1>2, <1>3 DEF StoppedIn
<1>5. ASSUME NEW p \in Assistants(h), NEW q \in ResultsAt(h, p)
      PROVE  q \in ResultsAt(n, p)
  <2>1. p \in 1..Len(h) /\ q \in (p + 1)..Len(h) /\ \A j \in (p + 1)..q : h[j].role = "tool"
    BY <1>2, <1>5 DEF ResultsAt
  <2>2. q \in (p + 1)..Len(n) /\ \A j \in (p + 1)..q : j \in 1..Len(h)
    BY <1>1, <2>1
  <2>3. \A j \in (p + 1)..q : n[j].role = "tool"
    BY <1>1, <2>1, <2>2
  <2> QED
    BY <2>2, <2>3 DEF ResultsAt
<1>6. \A p \in Assistants(h) : \A q \in ResultsAt(h, p) : q \in 1..Len(h)
  BY <1>1, <1>2 DEF ResultsAt
<1>7. \A p \in Assistants(h) : AllAnswered(h, p) => AllAnswered(n, p)
  BY <1>1, <1>2, <1>5, <1>6 DEF AllAnswered
<1>8. ASSUME NEW p \in Assistants(h), NEW q \in Results(h), Owns(h, p, q)
      PROVE  Owns(n, p, q)
  <2>1. p \in 1..Len(h) /\ q \in 1..Len(h) /\ \A j \in (p + 1)..q : j \in 1..Len(h)
    BY <1>1, <1>2
  <2> QED
    BY <1>1, <1>8, <2>1 DEF Owns
<1>9. \A q \in Results(h) : ResultAttached(h, q) => ResultAttached(n, q)
  BY <1>3, <1>5 DEF ResultAttached
<1> QED
  BY <1>3, <1>4, <1>5, <1>7, <1>8, <1>9

(* With no new assistant message, calls that were answered still are.      *)
LEMMA StillComplete ==
  ASSUME NEW h \in Seq(Message), NEW n \in Seq(Message), Grows(h, n), NEW u, Complete(h, u),
         Assistants(n) = Assistants(h)
  PROVE  Complete(n, u)
<1>1. \A p \in Assistants(h) : n[p] = h[p]
  BY MessageFacts DEF Grows
<1> QED
  BY <1>1, GrowsKeeps DEF Complete

(* The transcript goes on with one more message.                           *)
Adds(h, n, m) == Grows(h, n) /\ Len(n) = Len(h) + 1 /\ n[Len(h) + 1] = m

(* The places that one more message adds.                                  *)
LEMMA AddedFacts ==
  ASSUME NEW h \in Seq(Message), NEW n \in Seq(Message), NEW m, Adds(h, n, m)
  PROVE  /\ Len(h) \in Nat /\ 1..Len(n) = 1..Len(h) \cup {Len(h) + 1}
         /\ Assistants(n) = Assistants(h) \cup (IF m.role = "assistant" THEN {Len(h) + 1} ELSE {})
         /\ Results(n) = Results(h) \cup (IF m.role = "tool" THEN {Len(h) + 1} ELSE {})
<1>1. Len(h) \in Nat /\ 1..Len(n) = 1..Len(h) \cup {Len(h) + 1} /\ Grows(h, n)
  BY MessageFacts DEF Adds
<1>2. /\ Assistants(h) = Assistants(n) \cap 1..Len(h) /\ Results(h) = Results(n) \cap 1..Len(h)
      /\ Assistants(n) = {p \in 1..Len(n) : n[p].role = "assistant"}
      /\ Results(n) = {p \in 1..Len(n) : n[p].role = "tool"}
  BY <1>1, GrowsKeeps, MessageFacts
<1>3. n[Len(h) + 1] = m
  BY DEF Adds
<1> QED
  BY <1>1, <1>2, <1>3

(* A user message: nothing changes for the turns.                          *)
LEMMA AddUser ==
  ASSUME NEW h, NEW n \in Seq(Message), NEW t \in Nat, NEW u, NEW m,
         Transcript(h, t), Complete(h, u), Adds(h, n, m), m.role = "user"
  PROVE  Transcript(n, t) /\ Complete(n, u)
<1>1. h \in Seq(Message) /\ Grows(h, n)
  BY DEF Transcript, Adds
<1>2. /\ Len(h) \in Nat /\ 1..Len(n) = 1..Len(h) \cup {Len(h) + 1}
      /\ Assistants(n) = Assistants(h) /\ Results(n) = Results(h)
  BY <1>1, AddedFacts, ZenonT(60)
<1>3. /\ \A p \in Assistants(h) \cup Results(h) : p \in 1..Len(h) /\ n[p] = h[p]
  BY <1>1, MessageFacts DEF Grows
<1>4. Complete(n, u)
  BY <1>1, <1>2, StillComplete
<1>5. Len(n) > 0 => n[1].role = "user"
  BY <1>1, <1>2 DEF Transcript, Adds, Grows
<1>6. Numbered(n, t) /\ Once(n)
  BY <1>2, <1>3 DEF Transcript, Numbered, Once
<1>7. Owned(n)
  BY <1>1, <1>2, GrowsKeeps DEF Transcript, Owned
<1>8. Attached(n)
  BY <1>1, <1>2, <1>3, GrowsKeeps DEF Transcript, Attached
<1> QED
  BY <1>4, <1>5, <1>6, <1>7, <1>8 DEF Transcript

(* The assistant message of the next turn.                                 *)
LEMMA AddAssistant ==
  ASSUME NEW h, NEW n \in Seq(Message), NEW t \in Nat, NEW m,
         Transcript(h, t), Complete(h, 0), Adds(h, n, m), Len(h) > 0,
         m.role = "assistant", m.id[1] = t + 1
  PROVE  /\ Transcript(n, t + 1) /\ Complete(n, t + 1)
         /\ m.calls = <<>> => Complete(n, 0)
<1>1. h \in Seq(Message) /\ Grows(h, n) /\ n[Len(h) + 1] = m
  BY DEF Transcript, Adds
<1>2. /\ Len(h) \in Nat /\ 1..Len(n) = 1..Len(h) \cup {Len(h) + 1}
      /\ Assistants(n) = Assistants(h) \cup {Len(h) + 1} /\ Results(n) = Results(h)
  BY <1>1, AddedFacts, ZenonT(60)
<1>3. \A p \in Assistants(h) \cup Results(h) : p \in 1..Len(h) /\ n[p] = h[p]
  BY <1>1, MessageFacts DEF Grows
<1>4. \A p \in Assistants(h) : h[p].id[1] \in 1..t
  BY DEF Transcript, Numbered
<1>5. \A p \in Assistants(h) : StoppedIn(n, n[p].id[1]) \/ AllAnswered(n, p)
  <2> TAKE p \in Assistants(h)
  <2>1. h[p].id[1] # 0
    BY <1>4
  <2>2. StoppedIn(h, h[p].id[1]) \/ AllAnswered(h, p)
    BY <2>1 DEF Complete
  <2> QED
    BY <1>1, <1>3, <2>2, GrowsKeeps
<1>6. Complete(n, t + 1)
  BY <1>1, <1>2, <1>5 DEF Complete
<1>7. m.calls = <<>> => Complete(n, 0)
  <2> SUFFICES ASSUME m.calls = <<>> PROVE Complete(n, 0)
    OBVIOUS
  <2>1. AllAnswered(n, Len(h) + 1)
    BY <1>1 DEF AllAnswered
  <2> QED
    BY <1>2, <1>5, <2>1 DEF Complete
<1>8. Len(n) > 0 => n[1].role = "user"
  BY <1>1, <1>2 DEF Transcript, Grows
<1>9. Numbered(n, t + 1)
  <2>1. \A p \in Assistants(n) : n[p].id[1] \in 1..(t + 1)
    BY <1>1, <1>2, <1>3, <1>4
  <2>2. ASSUME NEW p \in Assistants(n), NEW q \in Assistants(n), p < q
        PROVE  n[p].id[1] < n[q].id[1]
    <3>1. p \in Assistants(h)
      <4>1. q \in Nat /\ q <= Len(h) + 1
        BY <1>2, <1>3
      <4>2. p # Len(h) + 1
        BY <1>2, <2>2, <4>1
      <4> QED
        BY <1>2, <4>2
    <3>2. CASE q \in Assistants(h)
      BY <1>3, <2>2, <3>1, <3>2 DEF Transcript, Numbered
    <3>3. CASE q = Len(h) + 1
      <4>1. n[p] = h[p] /\ h[p].id[1] \in 1..t /\ n[q].id[1] = t + 1
        BY <1>1, <1>3, <1>4, <3>1, <3>3
      <4>2. \A x \in 1..t : x < t + 1
        OBVIOUS
      <4> QED
        BY <4>1, <4>2
    <3> QED
      BY <1>2, <3>2, <3>3
  <2> QED
    BY <2>1, <2>2 DEF Numbered
<1>10. Once(n)
  BY <1>2, <1>3 DEF Transcript, Once
<1>11. Owned(n)
  BY <1>1, <1>2, GrowsKeeps DEF Transcript, Owned
<1>12. Attached(n)
  BY <1>1, <1>2, <1>3, GrowsKeeps DEF Transcript, Attached
<1> QED
  BY <1>6, <1>7, <1>8, <1>9, <1>10, <1>11, <1>12 DEF Transcript

(* Results of the last assistant message, which had none of these calls    *)
(* answered: right behind it and the results there are, unless the turn    *)
(* was abandoned.                                                          *)
LEMMA AddResults ==
  ASSUME NEW h, NEW n \in Seq(Message), NEW t \in Nat, NEW p \in Assistants(h),
         Transcript(h, t), Grows(h, n), Assistants(n) = Assistants(h),
         \A j \in (p + 1)..Len(h) : h[j].role # "assistant",
         \A q \in (Len(h) + 1)..Len(n) :
           /\ n[q].role = "tool"
           /\ n[q].id[1] = h[p].id[1] /\ n[q].id[2] \in DOMAIN h[p].calls
           /\ ~Answered(h, p, n[q].id),
         \A q, r \in (Len(h) + 1)..Len(n) : n[q].id = n[r].id => q = r,
         \/ StoppedIn(n, h[p].id[1])
         \/ \A j \in (p + 1)..Len(h) : h[j].role = "tool"
  PROVE  Transcript(n, t)
<1>1. h \in Seq(Message)
  BY DEF Transcript
<1>2. /\ Len(h) \in Nat /\ Len(n) \in Nat /\ Len(h) <= Len(n) /\ p \in 1..Len(h)
      /\ \A i \in 1..Len(h) : n[i] = h[i]
  BY <1>1, MessageFacts DEF Grows
<1>3. Results(h) \subseteq 1..Len(h) /\ Assistants(h) \subseteq 1..Len(h)
  BY <1>1, MessageFacts
<1>4. Results(n) = Results(h) \cup (Len(h) + 1)..Len(n)
  <2>1. Results(n) = {q \in 1..Len(n) : n[q].role = "tool"}
    BY MessageFacts
  <2>2. Results(h) = Results(n) \cap 1..Len(h)
    BY <1>1, GrowsKeeps
  <2>3. 1..Len(n) = 1..Len(h) \cup (Len(h) + 1)..Len(n)
    BY <1>2
  <2> QED
    BY <2>1, <2>2, <2>3
<1>5. Len(n) > 0 => n[1].role = "user"
  BY <1>2 DEF Transcript
<1>6. Numbered(n, t)
  BY <1>2, <1>3 DEF Transcript, Numbered
<1>7. Owned(n)
  <2>1. \A q \in Results(h) : \E a \in Assistants(n) : Owns(n, a, q)
    BY <1>1, GrowsKeeps DEF Transcript, Owned
  <2>2. ASSUME NEW q \in (Len(h) + 1)..Len(n)
        PROVE  Owns(n, p, q)
    <3>1. p < q /\ n[p] = h[p]
      BY <1>2, <2>2
    <3>2. ASSUME NEW j \in (p + 1)..q
          PROVE  n[j].role # "assistant"
      <4>1. CASE j \in (p + 1)..Len(h)
        <5>1. j \in 1..Len(h)
          BY <1>2, <4>1
        <5> QED
          BY <1>2, <4>1, <5>1
      <4>2. CASE j \in (Len(h) + 1)..Len(n)
        BY <4>2
      <4>3. j \in (p + 1)..Len(h) \/ j \in (Len(h) + 1)..Len(n)
        BY <1>2, <2>2, <3>2
      <4> QED
        BY <4>1, <4>2, <4>3
    <3> QED
      BY <3>1, <3>2 DEF Owns
  <2> QED
    BY <1>4, <2>1, <2>2 DEF Owned
<1>8. ASSUME NEW r \in Results(h), NEW q \in (Len(h) + 1)..Len(n)
      PROVE  n[r].id # n[q].id
  <2> SUFFICES ASSUME h[r].id = n[q].id PROVE FALSE
    BY <1>2, <1>3
  <2>1. PICK a \in Assistants(h) : Owns(h, a, r)
    BY DEF Transcript, Owned
  <2>2. h[a].id[1] = h[p].id[1] /\ a < r
    BY <2>1 DEF Owns
  <2>3. a = p
    <3>1. a \in 1..Len(h) /\ p \in 1..Len(h)
      BY <1>2, <1>3
    <3>2. a < p \/ p < a \/ a = p
      BY <3>1
    <3>3. h[a].id[1] \in 1..t /\ h[p].id[1] \in 1..t
      BY DEF Transcript, Numbered
    <3>4. ~(a < p) /\ ~(p < a)
      BY <2>2, <3>3 DEF Transcript, Numbered
    <3> QED
      BY <3>2, <3>4
  <2>4. r \in (p + 1)..Len(h) /\ h[r].role = "tool"
    <3>1. r \in 1..Len(h) /\ h[r].role = "tool"
      BY <1>1, MessageFacts
    <3> QED
      BY <1>2, <2>2, <2>3, <3>1
  <2> QED
    BY <2>4 DEF Answered
<1>9. Once(n)
  <2>1. \A q, r \in Results(h) : n[q].id = n[r].id => q = r
    BY <1>2, <1>3 DEF Transcript, Once
  <2> QED
    BY <1>4, <1>8, <2>1 DEF Once
<1>10. ASSUME NEW q \in (Len(h) + 1)..Len(n), ~StoppedIn(n, h[p].id[1])
       PROVE  ResultAttached(n, q)
  <2>1. \A j \in (p + 1)..Len(h) : h[j].role = "tool"
    BY <1>10
  <2>2. ASSUME NEW j \in (p + 1)..q
        PROVE  n[j].role = "tool"
    <3>1. CASE j \in (p + 1)..Len(h)
      <4>1. j \in 1..Len(h)
        BY <1>2, <3>1
      <4> QED
        BY <1>2, <2>1, <3>1, <4>1
    <3>2. CASE j \in (Len(h) + 1)..Len(n)
      BY <3>2
    <3>3. j \in (p + 1)..Len(h) \/ j \in (Len(h) + 1)..Len(n)
      BY <1>2, <1>10, <2>2
    <3> QED
      BY <3>1, <3>2, <3>3
  <2>3. q \in (p + 1)..Len(n)
    BY <1>2, <1>10
  <2> QED
    BY <2>2, <2>3 DEF ResultAttached, ResultsAt
<1>11. Attached(n)
  <2>1. \A q \in Results(h) : StoppedIn(n, n[q].id[1]) \/ ResultAttached(n, q)
    BY <1>1, <1>2, <1>3, GrowsKeeps DEF Transcript, Attached
  <2> QED
    BY <1>4, <1>10, <2>1 DEF Attached
<1> QED
  BY <1>5, <1>6, <1>7, <1>9, <1>11 DEF Transcript

-----------------------------------------------------------------------------
(* What is sent and what was said end alike: from k on, m is h moved by d  *)
(* places, and has only user messages before.                              *)
Ends(m, h, k, d) ==
  /\ k \in 1..(Len(h) + 1) /\ d \in Int /\ k - d >= 1
  /\ Len(m) = Len(h) - d
  /\ \A j \in k..Len(h) : m[j - d] = h[j]
  /\ \A i \in 1..(k - d - 1) : m[i].role = "user"

(* Assistant messages and results from k on are at places moved by d.      *)
LEMMA EndsAlike ==
  ASSUME NEW m \in Seq(Message), NEW h \in Seq(Message), NEW k, NEW d, Ends(m, h, k, d)
  PROVE  /\ \A p \in 1..Len(h) : p >= k => (p \in Assistants(h) <=> p - d \in Assistants(m))
         /\ \A q \in 1..Len(h) : q >= k => (q \in Results(h) <=> q - d \in Results(m))
         /\ \A i \in Assistants(m) \cup Results(m) : i + d \in k..Len(h)
<1>1. /\ Len(m) \in Nat /\ Len(h) \in Nat /\ Len(m) = Len(h) - d
      /\ k \in Int /\ d \in Int /\ k >= 1 /\ k - d >= 1 /\ k <= Len(h) + 1
  BY MessageFacts DEF Ends
<1>2. \A j \in k..Len(h) : j - d \in 1..Len(m) /\ m[j - d] = h[j] /\ j \in 1..Len(h)
  BY <1>1 DEF Ends
<1>3. \A i \in 1..Len(m) : i + d \in k..Len(h) \/ i \in 1..(k - d - 1)
  BY <1>1
<1>4. \A i \in 1..(k - d - 1) : m[i].role = "user"
  BY DEF Ends
<1>5. /\ Assistants(m) = {p \in 1..Len(m) : m[p].role = "assistant"}
      /\ Results(m) = {p \in 1..Len(m) : m[p].role = "tool"}
      /\ Assistants(h) = {p \in 1..Len(h) : h[p].role = "assistant"}
      /\ Results(h) = {p \in 1..Len(h) : h[p].role = "tool"}
  BY MessageFacts
<1>6. \A p \in 1..Len(h) : p >= k => p \in k..Len(h)
  BY <1>1
<1>7. \A i \in Assistants(m) \cup Results(m) : i + d \in k..Len(h)
  BY <1>3, <1>4, <1>5
<1> QED
  BY <1>2, <1>5, <1>6, <1>7

(* The calls that are open, and the results behind an assistant message,   *)
(* are the same.                                                           *)
LEMMA SameResults ==
  ASSUME NEW m \in Seq(Message), NEW h \in Seq(Message), NEW k, NEW d, Ends(m, h, k, d),
         NEW p \in Assistants(h), p >= k
  PROVE  /\ m[p - d] = h[p]
         /\ OpenCalls(m, p - d) = OpenCalls(h, p)
         /\ \A q \in Int : q \in ResultsAt(h, p) <=> q - d \in ResultsAt(m, p - d)
<1>1. /\ Len(m) \in Nat /\ Len(h) \in Nat /\ Len(m) = Len(h) - d
      /\ k \in Int /\ d \in Int /\ k >= 1 /\ k - d >= 1 /\ k <= Len(h) + 1 /\ p \in 1..Len(h)
  BY MessageFacts DEF Ends
<1>2. \A j \in k..Len(h) : m[j - d] = h[j]
  BY DEF Ends
<1>3. m[p - d] = h[p]
  BY <1>1, <1>2
<1>4. \A q \in Int : q \in (p + 1)..Len(h) <=> q - d \in (p - d + 1)..Len(m)
  BY <1>1
<1>5. \A q \in (p + 1)..Len(h) : q \in k..Len(h) /\ m[q - d] = h[q]
  BY <1>1, <1>2
<1>6. ASSUME NEW id
      PROVE  Answered(m, p - d, id) <=> Answered(h, p, id)
  <2>1. ASSUME Answered(h, p, id) PROVE Answered(m, p - d, id)
    <3>1. PICK q \in (p + 1)..Len(h) : h[q].role = "tool" /\ h[q].id = id
      BY <2>1 DEF Answered
    <3>2. q \in Int /\ q - d \in (p - d + 1)..Len(m) /\ m[q - d] = h[q]
      BY <1>4, <1>5, <3>1
    <3> QED
      BY <3>1, <3>2 DEF Answered
  <2>2. ASSUME Answered(m, p - d, id) PROVE Answered(h, p, id)
    <3>1. PICK r \in (p - d + 1)..Len(m) : m[r].role = "tool" /\ m[r].id = id
      BY <2>2 DEF Answered
    <3>2. r + d \in Int /\ (r + d) - d = r
      BY <1>1, <3>1
    <3>3. r + d \in (p + 1)..Len(h)
      BY <1>4, <3>1, <3>2
    <3>4. m[r] = h[r + d]
      BY <1>5, <3>2, <3>3
    <3> QED
      BY <3>1, <3>3, <3>4 DEF Answered
  <2> QED
    BY <2>1, <2>2
<1>7. OpenCalls(m, p - d) = OpenCalls(h, p)
  BY <1>3, <1>6 DEF OpenCalls
<1>8. ASSUME NEW q \in Int
      PROVE  q \in ResultsAt(h, p) <=> q - d \in ResultsAt(m, p - d)
  <2>1. CASE q \notin (p + 1)..Len(h)
    <3>1. q \notin ResultsAt(h, p) /\ q - d \notin ResultsAt(m, p - d)
      BY <1>4, <2>1 DEF ResultsAt
    <3> QED
      BY <3>1
  <2>2. CASE q \in (p + 1)..Len(h)
    <3>1. q - d \in (p - d + 1)..Len(m)
      BY <1>4, <2>2
    <3>2. ASSUME \A j \in (p + 1)..q : h[j].role = "tool"
          PROVE  \A i \in (p - d + 1)..(q - d) : m[i].role = "tool"
      <4> TAKE i \in (p - d + 1)..(q - d)
      <4>1. i + d \in (p + 1)..q /\ i + d \in (p + 1)..Len(h) /\ (i + d) - d = i
        BY <1>1, <2>2
      <4> QED
        BY <1>5, <3>2, <4>1
    <3>3. ASSUME \A i \in (p - d + 1)..(q - d) : m[i].role = "tool"
          PROVE  \A j \in (p + 1)..q : h[j].role = "tool"
      <4> TAKE j \in (p + 1)..q
      <4>1. j - d \in (p - d + 1)..(q - d) /\ j \in (p + 1)..Len(h)
        BY <1>1, <2>2
      <4> QED
        BY <1>5, <3>3, <4>1
    <3> QED
      BY <2>2, <3>1, <3>2, <3>3 DEF ResultsAt
  <2> QED
    BY <2>1, <2>2
<1> QED
  BY <1>3, <1>7, <1>8

(* The last assistant message.                                             *)
LEMMA Latest ==
  ASSUME NEW m \in Seq(Message), Assistants(m) # {}
  PROVE  /\ LatestAssistant(m) \in Assistants(m)
         /\ \A q \in Assistants(m) : q <= LatestAssistant(m)
         /\ \A j \in (LatestAssistant(m) + 1)..Len(m) : m[j].role # "assistant"
<1>1. Len(m) \in Nat /\ Assistants(m) = {p \in 1..Len(m) : m[p].role = "assistant"}
  BY MessageFacts
<1>2. Assistants(m) \in SUBSET (1..Len(m))
  BY <1>1
<1>3. \E p \in Assistants(m) : \A q \in Assistants(m) : q <= p
  BY <1>1, <1>2, GreatestNumber
<1>4. /\ LatestAssistant(m) \in Assistants(m)
      /\ \A q \in Assistants(m) : q <= LatestAssistant(m)
  BY <1>3 DEF LatestAssistant
<1>5. ASSUME NEW j \in (LatestAssistant(m) + 1)..Len(m)
      PROVE  m[j].role # "assistant"
  <2>1. LatestAssistant(m) \in 1..Len(m)
    BY <1>1, <1>4
  <2>2. j \in 1..Len(m) /\ ~(j <= LatestAssistant(m))
    BY <1>1, <1>5, <2>1
  <2> QED
    BY <1>1, <1>4, <2>2
<1> QED
  BY <1>4, <1>5

(* The repairs of a list are results of the open calls of its last         *)
(* assistant message, one for each.                                        *)
LEMMA RepairsClose ==
  ASSUME NEW m \in Seq(Message), Assistants(m) # {}
  PROVE  LET p == LatestAssistant(m)
             r == Repairs(m)
         IN  /\ r \in Seq(Message)
             /\ \A i \in 1..Len(r) :
                  \E c \in OpenCalls(m, p) : r[i] = ToolMessage(<<m[p].id[1], c>>, "interrupted")
             /\ \A i, j \in 1..Len(r) : r[i].id = r[j].id => i = j
             /\ \A c \in OpenCalls(m, p) : \E i \in 1..Len(r) : r[i].id = <<m[p].id[1], c>>
<1> DEFINE p == LatestAssistant(m)
           r == Repairs(m)
           S == OpenCalls(m, p)
           c == Cardinality(S)
           s == InOrder(S)
           t == m[p].id[1]
<1>1. p \in 1..Len(m) /\ t \in Nat /\ m[p].calls \in Seq(Tools)
  BY Latest, MessageFacts
<1>2. Len(m[p].calls) \in Nat /\ S \in SUBSET (1..Len(m[p].calls))
  BY <1>1 DEF OpenCalls
<1> HIDE DEF S
<1>3. /\ c \in Nat /\ s \in [1..c -> S]
      /\ \A i, j \in 1..c : s[i] = s[j] => i = j
      /\ \A x \in S : \E i \in 1..c : s[i] = x
  BY <1>2, InOrderLists
<1> HIDE DEF c, s
<1>4. Unanswered(m) = [i \in 1..c |-> <<t, s[i]>>]
  BY <1>3 DEF Unanswered, S, s
<1>5. r = [i \in 1..c |-> ToolMessage(<<t, s[i]>>, "interrupted")]
  BY <1>4 DEF Repairs
<1>6. \A i \in 1..c : s[i] \in S /\ s[i] \in Nat
  <2>1. \A i \in 1..c : s[i] \in S
    BY <1>3
  <2>2. S \subseteq Nat
    BY <1>2
  <2> QED
    BY <2>1, <2>2
<1>7. \A i \in 1..c : ToolMessage(<<t, s[i]>>, "interrupted") \in Message
  BY <1>1, <1>6 DEF ToolMessage, Message, Roles, Ids, Texts
<1> HIDE DEF r, t
<1>8. r \in Seq(Message) /\ Len(r) = c
  BY <1>3, <1>5, <1>7
<1>9. \A i \in 1..c : r[i] = ToolMessage(<<t, s[i]>>, "interrupted") /\ r[i].id = <<t, s[i]>>
  BY <1>5 DEF ToolMessage
<1>10. \A i \in 1..Len(r) : \E x \in S : r[i] = ToolMessage(<<t, x>>, "interrupted")
  BY <1>6, <1>8, <1>9
<1>11. \A i, j \in 1..Len(r) : r[i].id = r[j].id => i = j
  <2> SUFFICES ASSUME NEW i \in 1..c, NEW j \in 1..c, r[i].id = r[j].id PROVE i = j
    BY <1>8, Zenon
  <2>1. <<t, s[i]>> = <<t, s[j]>>
    BY <1>9, Zenon
  <2>2. s[i] = s[j]
    BY <2>1
  <2> QED
    BY <1>3, <2>2, Zenon
<1>12. \A x \in S : \E i \in 1..Len(r) : r[i].id = <<t, x>>
  <2> TAKE x \in S
  <2>1. PICK i \in 1..c : s[i] = x
    BY <1>3, Zenon
  <2>2. r[i].id = <<t, x>>
    BY <1>9, <2>1, Zenon
  <2>3. i \in 1..Len(r)
    BY <1>8, <2>1, Zenon
  <2> QED
    BY <2>2, <2>3, Zenon
<1> QED
  BY <1>8, <1>10, <1>11, <1>12 DEF r, S, t

(* Without an assistant message there is nothing to repair, ...            *)
LEMMA NoRepairs ==
  ASSUME NEW m, Assistants(m) = {}
  PROVE  Repairs(m) = <<>>
<1>1. Unanswered(m) = <<>> /\ DOMAIN <<>> = {}
  BY DEF Unanswered
<1> QED
  BY <1>1 DEF Repairs

(* ... and otherwise both lists need the same repairs.                     *)
LEMMA SameRepairs ==
  ASSUME NEW m \in Seq(Message), NEW h \in Seq(Message), NEW k, NEW d, Ends(m, h, k, d),
         Assistants(m) # {}
  PROVE  /\ Assistants(h) # {} /\ LatestAssistant(h) >= k
         /\ Repairs(m) = Repairs(h)
<1> DEFINE a == LatestAssistant(m)
           p == LatestAssistant(h)
<1>1. /\ Len(m) \in Nat /\ Len(h) \in Nat /\ k \in Int /\ d \in Int /\ k >= 1 /\ k - d >= 1
      /\ Assistants(m) \subseteq 1..Len(m) /\ Assistants(h) \subseteq 1..Len(h)
  BY MessageFacts DEF Ends
<1>2. a \in Assistants(m) /\ \A q \in Assistants(m) : q <= a
  BY Latest
<1>3. a + d \in k..Len(h) /\ (a + d) - d = a /\ a \in Int
  BY <1>1, <1>2, EndsAlike
<1>4. a + d \in Assistants(h)
  <2>1. a + d \in 1..Len(h) /\ a + d >= k
    BY <1>1, <1>3
  <2> QED
    BY <1>2, <1>3, <2>1, EndsAlike
<1>5. p \in Assistants(h) /\ \A q \in Assistants(h) : q <= p
  BY <1>4, Latest
<1> HIDE DEF a, p
<1>6. p >= k /\ p \in 1..Len(h)
  <2>1. a + d <= p /\ p \in 1..Len(h)
    BY <1>1, <1>4, <1>5
  <2> QED
    BY <1>1, <1>3, <2>1
<1>7. p - d = a
  <2>1. p - d \in Assistants(m)
    BY <1>5, <1>6, EndsAlike
  <2>2. p - d <= a /\ a + d <= p
    BY <1>2, <1>4, <1>5, <2>1
  <2> QED
    BY <1>1, <1>3, <1>6, <2>2
<1>8. m[a] = h[p] /\ OpenCalls(m, a) = OpenCalls(h, p)
  BY <1>5, <1>6, <1>7, SameResults
<1>9. Unanswered(m) = Unanswered(h)
  BY <1>4, <1>8 DEF Unanswered, a, p
<1> QED
  BY <1>4, <1>6, <1>9 DEF Repairs, p

-----------------------------------------------------------------------------
(* Compacted lists, message by message.                                    *)
View(m, h, k) ==
  /\ Len(m) = Len(h) - k + 3
  /\ m[1] = h[1] /\ m[2] = UserMessage("summary")
  /\ \A j \in k..Len(h) : m[j - k + 3] = h[j]

HeadAndTail(h, k) == <<h[1], UserMessage("summary")>> \o SubSeq(h, k, Len(h))

(* A head, a note and a tail, place by place, ...                          *)
LEMMA CutIsView ==
  ASSUME NEW h \in Seq(Message), Len(h) > 0, NEW k \in 2..(Len(h) + 1)
  PROVE  HeadAndTail(h, k) \in Seq(Message) /\ View(HeadAndTail(h, k), h, k)
<1> DEFINE s == <<h[1], UserMessage("summary")>>
           t == SubSeq(h, k, Len(h))
           m == s \o t
<1>1. Len(h) \in Nat /\ k \in Nat /\ k >= 2 /\ k <= Len(h) + 1 /\ \A i \in 1..Len(h) : h[i] \in Message
  BY MessageFacts
<1>2. UserMessage("summary") \in Message
  BY DEF UserMessage, Message, Roles, Ids, Texts
<1>3. s \in Seq(Message) /\ Len(s) = 2 /\ s[1] = h[1] /\ s[2] = UserMessage("summary")
  BY <1>1, <1>2
<1>4. /\ t \in Seq(Message) /\ Len(t) = Len(h) - k + 1
      /\ \A i \in 1..(Len(h) - k + 1) : t[i] = h[k + i - 1]
  <2>1. k \in Int /\ Len(h) \in Int /\ \A i \in k..Len(h) : h[i] \in Message
    BY <1>1
  <2>2. /\ t \in Seq(Message) /\ Len(t) = IF k <= Len(h) THEN Len(h) - k + 1 ELSE 0
        /\ \A i \in 1..(Len(h) - k + 1) : t[i] = h[k + i - 1]
    BY <2>1, SubSeqProperties
  <2>3. Len(t) = Len(h) - k + 1
    BY <1>1, <2>2
  <2> QED
    BY <2>2, <2>3
<1> HIDE DEF s, t
<1>5. /\ m \in Seq(Message) /\ Len(m) = Len(s) + Len(t) /\ Grows(s, m)
      /\ \A i \in 1..Len(t) : m[Len(s) + i] = t[i]
  <2>1. s \in Seq(Message) /\ t \in Seq(Message)
    BY <1>3, <1>4
  <2> QED
    BY <2>1, SeqJoined, Zenon
<1> HIDE DEF m
<1>6. Len(m) = Len(h) - k + 3 /\ m[1] = h[1] /\ m[2] = UserMessage("summary")
  <2>1. Len(m) = 2 + (Len(h) - k + 1)
    BY <1>3, <1>4, <1>5
  <2>2. m[1] = s[1] /\ m[2] = s[2]
    BY <1>3, <1>5 DEF Grows
  <2> QED
    BY <1>1, <1>3, <2>1, <2>2
<1>7. ASSUME NEW j \in k..Len(h)
      PROVE  m[j - k + 3] = h[j]
  <2> DEFINE i == j - k + 1
  <2>1. i \in 1..(Len(h) - k + 1) /\ 2 + i = j - k + 3 /\ k + i - 1 = j
    BY <1>1
  <2> HIDE DEF i
  <2>2. m[2 + i] = t[i] /\ t[i] = h[k + i - 1]
    BY <1>3, <1>4, <1>5, <2>1
  <2> QED
    BY <2>1, <2>2
<1>8. m = HeadAndTail(h, k)
  BY DEF m, s, t, HeadAndTail
<1> QED
  BY <1>5, <1>6, <1>7, <1>8 DEF View

(* ... and a list with these at its places is that list.                   *)
LEMMA ViewIsCut ==
  ASSUME NEW h \in Seq(Message), Len(h) > 0, NEW k \in 2..(Len(h) + 1),
         NEW m \in Seq(Message), View(m, h, k)
  PROVE  m = HeadAndTail(h, k)
<1> DEFINE c == HeadAndTail(h, k)
<1>1. c \in Seq(Message) /\ View(c, h, k)
  BY CutIsView
<1> HIDE DEF c
<1>2. Len(h) \in Nat /\ k \in Nat /\ k >= 2
  BY MessageFacts
<1>3. Len(m) = Len(c) /\ Len(m) \in Nat /\ Len(m) = Len(h) - k + 3
  BY <1>1, MessageFacts DEF View
<1>4. ASSUME NEW i \in 1..Len(m)
      PROVE  m[i] = c[i]
  <2>1. CASE i \in {1, 2}
    BY <1>1, <2>1 DEF View
  <2>2. CASE i \notin {1, 2}
    <3>1. i + k - 3 \in k..Len(h) /\ (i + k - 3) - k + 3 = i
      BY <1>2, <1>3, <2>2
    <3>2. m[(i + k - 3) - k + 3] = h[i + k - 3] /\ c[(i + k - 3) - k + 3] = h[i + k - 3]
      BY <1>1, <3>1 DEF View
    <3> QED
      BY <3>1, <3>2
  <2> QED
    BY <2>1, <2>2
<1>5. m = c
  BY <1>1, <1>3, <1>4, SeqEqual, Zenon
<1> QED
  BY <1>5 DEF c

(* Both kinds of lists end like the transcript.                            *)
LEMMA SentEnds ==
  ASSUME ControlOK, HistoryOK, SentOK
  PROVE  /\ messages \in Seq(Message)
         /\ \E k, d : /\ Ends(messages, history, k, d)
                      /\ k <= Len(history) => history[k].role # "tool"
                      /\ Executing => k <= Len(history) - current + 1
<1>1. /\ history \in Seq(Message) /\ Len(history) \in Nat
      /\ Len(history) > 0 => history[1].role = "user"
  BY MessageFacts DEF HistoryOK, Transcript
<1>2. current \in Nat /\ (Executing => current > 0)
  BY SessionConstants DEF ControlOK
<1>3. CASE messages = history
  <2>1. Ends(messages, history, 1, 0)
    BY <1>1, <1>3 DEF Ends
  <2>2. 1 <= Len(history) => history[1].role # "tool"
    BY <1>1
  <2>3. ASSUME Executing PROVE 1 <= Len(history) - current + 1
    <3>1. PICK p \in 1..Len(history) : CurrentAt(p)
      BY <2>3 DEF HistoryOK
    <3>2. Len(history) = p + current - 1
      BY <3>1 DEF CurrentAt
    <3> QED
      BY <1>1, <1>2, <3>1, <3>2
  <2> QED
    BY <1>1, <1>3, <2>1, <2>2, <2>3
<1>4. ASSUME Len(history) > 0, NEW k \in 2..(Len(history) + 1), CutAt(k)
      PROVE  /\ messages \in Seq(Message)
             /\ Ends(messages, history, k, k - 3)
             /\ k <= Len(history) => history[k].role # "tool"
             /\ Executing => k <= Len(history) - current + 1
  <2>1. messages = HeadAndTail(history, k)
    BY <1>4 DEF CutAt, HeadAndTail
  <2>2. messages \in Seq(Message) /\ View(messages, history, k)
    BY <1>1, <1>4, <2>1, CutIsView
  <2>3. k \in 1..(Len(history) + 1) /\ k - 3 \in Int /\ k - (k - 3) >= 1
    BY <1>1, <1>4
  <2>4. Len(messages) = Len(history) - (k - 3)
    BY <1>1, <1>4, <2>2 DEF View
  <2>5. \A j \in k..Len(history) : messages[j - (k - 3)] = history[j]
    <3> TAKE j \in k..Len(history)
    <3>1. j - (k - 3) = j - k + 3
      BY <1>1, <1>4
    <3> QED
      BY <2>2, <3>1 DEF View
  <2>6. \A i \in 1..(k - (k - 3) - 1) : messages[i].role = "user"
    <3>1. \A i \in 1..(k - (k - 3) - 1) : i = 1 \/ i = 2
      BY <1>1, <1>4
    <3>2. messages[1].role = "user" /\ messages[2].role = "user"
      BY <1>1, <1>4, <2>2 DEF View, UserMessage
    <3> QED
      BY <3>1, <3>2
  <2>7. Ends(messages, history, k, k - 3)
    BY <2>3, <2>4, <2>5, <2>6 DEF Ends
  <2> QED
    BY <1>4, <2>2, <2>7 DEF CutAt
<1> QED
  BY <1>3, <1>4 DEF SentOK

(* What is said goes to both lists.                                        *)
LEMMA SentSays ==
  ASSUME ControlOK, HistoryOK, SentOK, NEW ms \in Seq(Message), Say(ms),
         Len(ms) > 0 /\ ms[1].role = "tool" => Executing \/ Assistants(messages) # {},
         current' \in Nat,
         Executing' => (Executing /\ current' = current + Len(ms)) \/ current' = Len(ms)
  PROVE  SentOK'
<1>1. /\ history \in Seq(Message) /\ Len(history) \in Nat /\ current \in Nat
      /\ Executing => current > 0
  BY MessageFacts, SessionConstants DEF HistoryOK, Transcript, ControlOK
<1>2. messages' = messages \o ms /\ history' = history \o ms
  BY DEF Say
<1>3. CASE messages = history
  BY <1>2, <1>3 DEF SentOK
<1>4. ASSUME Len(history) > 0, NEW k \in 2..(Len(history) + 1), CutAt(k)
      PROVE  SentOK'
  <2>1. messages = HeadAndTail(history, k) /\ messages \in Seq(Message)
        /\ View(messages, history, k)
    BY <1>1, <1>4, CutIsView DEF CutAt, HeadAndTail
  <2> DEFINE m == messages \o ms
             h == history \o ms
  <2>2. /\ m \in Seq(Message) /\ Len(m) = Len(messages) + Len(ms) /\ Grows(messages, m)
        /\ \A i \in 1..Len(ms) : m[Len(messages) + i] = ms[i]
        /\ Len(messages) \in Nat /\ Len(ms) \in Nat
    BY <2>1, SeqJoined
  <2>3. /\ h \in Seq(Message) /\ Len(h) = Len(history) + Len(ms) /\ Grows(history, h)
        /\ \A i \in 1..Len(ms) : h[Len(history) + i] = ms[i]
    BY <1>1, SeqJoined
  <2>4. messages' = m /\ history' = h
    BY <1>2
  <2> HIDE DEF m, h
  <2>5. /\ Len(messages) = Len(history) - k + 3 /\ k \in Nat /\ k >= 2 /\ k <= Len(history) + 1
        /\ Len(messages) >= 2
    BY <1>1, <1>4, <2>1 DEF View
  <2>6. Len(m) = Len(h) - k + 3
    BY <1>1, <2>2, <2>3, <2>5
  <2>7. m[1] = h[1] /\ m[2] = UserMessage("summary")
    <3>1. m[1] = messages[1] /\ m[2] = messages[2] /\ h[1] = history[1]
      BY <1>1, <1>4, <2>2, <2>3, <2>5 DEF Grows
    <3> QED
      BY <2>1, <3>1 DEF View
  <2>8. ASSUME NEW j \in k..Len(h)
        PROVE  m[j - k + 3] = h[j]
    <3>1. CASE j <= Len(history)
      <4>1. j \in k..Len(history) /\ j \in 1..Len(history) /\ j - k + 3 \in 1..Len(messages)
        BY <1>1, <2>5, <3>1
      <4> QED
        BY <2>1, <2>2, <2>3, <4>1 DEF View, Grows
    <3>2. CASE j > Len(history)
      <4> DEFINE i == j - Len(history)
      <4>1. i \in 1..Len(ms) /\ j = Len(history) + i /\ j - k + 3 = Len(messages) + i
        BY <1>1, <2>2, <2>3, <2>5, <3>2
      <4> HIDE DEF i
      <4> QED
        BY <2>2, <2>3, <4>1
    <3> QED
      BY <1>1, <2>5, <3>1, <3>2
  <2>9. View(m, h, k) /\ k \in 2..(Len(h) + 1) /\ Len(h) > 0
    BY <1>1, <1>4, <2>2, <2>3, <2>5, <2>6, <2>7, <2>8 DEF View
  <2>10. messages' = HeadAndTail(history', k)
    BY <2>2, <2>3, <2>4, <2>9, ViewIsCut
  <2>11. ASSUME k <= Len(h) PROVE h[k].role # "tool"
    <3>1. CASE k <= Len(history)
      <4>1. h[k] = history[k]
        BY <1>1, <2>3, <2>5, <3>1 DEF Grows
      <4> QED
        BY <1>4, <3>1, <4>1 DEF CutAt
    <3>2. CASE k = Len(history) + 1
      <4>1. Len(ms) > 0 /\ h[k] = ms[1]
        <5>1. Len(ms) > 0 /\ 1 \in 1..Len(ms)
          BY <1>1, <2>2, <2>3, <2>11, <3>2
        <5> QED
          BY <2>3, <3>2, <5>1
      <4>2. ~Executing
        BY <1>1, <1>4, <3>2 DEF CutAt
      <4>3. Assistants(messages) = {}
        <5> SUFFICES ASSUME NEW a \in Assistants(messages) PROVE FALSE
          OBVIOUS
        <5>1. /\ Assistants(messages) = {p \in 1..Len(messages) : messages[p].role = "assistant"}
          BY <2>1, MessageFacts
        <5>2. Len(messages) = 2
          BY <1>1, <2>5, <3>2
        <5>3. a = 1 \/ a = 2
          BY <5>1, <5>2
        <5>4. history[1].role = "user" /\ messages[1] = history[1]
          BY <1>4, <2>1 DEF View, HistoryOK, Transcript
        <5>5. messages[2].role = "user"
          BY <2>1 DEF View, UserMessage
        <5> QED
          BY <5>1, <5>3, <5>4, <5>5
      <4> QED
        BY <4>1, <4>2, <4>3
    <3> QED
      BY <1>1, <2>5, <3>1, <3>2
  <2>12. ASSUME Executing' PROVE k <= Len(h) - current' + 1
    <3>1. CASE Executing /\ current' = current + Len(ms)
      <4>1. k <= Len(history) - current + 1
        BY <1>4, <3>1 DEF CutAt
      <4> QED
        BY <1>1, <2>2, <2>3, <2>5, <3>1, <4>1
    <3>2. CASE current' = Len(ms)
      BY <1>1, <2>2, <2>3, <2>5, <3>2
    <3> QED
      BY <2>12, <3>1, <3>2
  <2>13. CutAt(k)'
    BY <2>4, <2>10, <2>11, <2>12 DEF CutAt, HeadAndTail
  <2> QED
    BY <2>4, <2>9, <2>13 DEF SentOK
<1> QED
  BY <1>3, <1>4 DEF SentOK

(* The first message that compaction keeps of the tail exists, and is no   *)
(* result.                                                                 *)
LEMMA FirstKeptFacts ==
  ASSUME NEW m \in Seq(Message), Len(m) > TailCount
  PROVE  /\ FirstKept(m) \in 2..(Len(m) + 1)
         /\ FirstKept(m) <= Len(m) => m[FirstKept(m)].role # "tool"
<1> DEFINE a == TailStart(m)
           Fits(i) == /\ \A j \in a..(i - 1) : m[j].role = "tool"
                      /\ i <= Len(m) => m[i].role # "tool"
           S == {i \in a..(Len(m) + 1) : i <= Len(m) => m[i].role # "tool"}
<1>1. Len(m) \in Nat /\ TailCount \in Nat /\ TailCount > 0
  BY MessageFacts, SessionConstants
<1>2. a \in Nat /\ a >= 2 /\ a <= Len(m)
  BY <1>1 DEF TailStart
<1> HIDE DEF a
<1>3. S \in SUBSET Nat /\ Len(m) + 1 \in S
  BY <1>1, <1>2
<1>4. PICK i \in S : \A j \in S : i <= j
  BY <1>3, LeastNumber
<1>5. \A j \in a..(i - 1) : m[j].role = "tool"
  <2> TAKE j \in a..(i - 1)
  <2>1. i \in Nat /\ i <= Len(m) + 1
    BY <1>1, <1>2, <1>4
  <2>2. j \in a..(Len(m) + 1) /\ j < i /\ j \in Nat
    BY <1>1, <1>2, <2>1
  <2>3. j \notin S
    BY <1>4, <2>1, <2>2
  <2> QED
    BY <2>2, <2>3
<1>6. \E k \in a..(Len(m) + 1) : Fits(k)
  BY <1>4, <1>5
<1>7. FirstKept(m) = CHOOSE k \in a..(Len(m) + 1) : Fits(k)
  BY DEF FirstKept, a
<1>8. FirstKept(m) \in a..(Len(m) + 1) /\ Fits(FirstKept(m))
  BY <1>6, <1>7
<1> HIDE DEF Fits
<1>9. FirstKept(m) \in 2..(Len(m) + 1)
  BY <1>1, <1>2, <1>8
<1> QED
  BY <1>8, <1>9 DEF Fits

(* A compacted list is compacted again to the head and a shorter tail.     *)
LEMMA CompactedView ==
  ASSUME NEW m \in Seq(Message), NEW h \in Seq(Message), Len(h) > 0, Len(m) > MinMessages,
         Dropped(m) > 0,
         m = h \/ \E k \in 2..(Len(h) + 1) : View(m, h, k)
  PROVE  \E k \in 2..(Len(h) + 1) :
           /\ Compacted(m) = HeadAndTail(h, k)
           /\ k <= Len(h) => h[k].role # "tool"
<1> DEFINE f == FirstKept(m)
<1>1. Len(m) \in Nat /\ Len(h) \in Nat /\ TailCount \in Nat /\ Len(m) > TailCount
  BY MessageFacts, SessionConstants
<1>2. f \in 2..(Len(m) + 1) /\ (f <= Len(m) => m[f].role # "tool")
  BY <1>1, FirstKeptFacts
<1>3. Compacted(m) = HeadAndTail(m, f)
  BY DEF Compacted, KeptTail, HeadAndTail
<1>4. CASE m = h
  BY <1>2, <1>3, <1>4
<1>5. ASSUME NEW k \in 2..(Len(h) + 1), View(m, h, k)
      PROVE  \E l \in 2..(Len(h) + 1) :
               /\ Compacted(m) = HeadAndTail(h, l)
               /\ l <= Len(h) => h[l].role # "tool"
  <2>1. f >= 3 /\ f \in Nat
    <3>1. KeptTail(m) = SubSeq(m, f, Len(m)) /\ f \in Int /\ Len(m) \in Int
          /\ \A i \in f..Len(m) : m[i] \in Message
      BY <1>1, <1>2, MessageFacts DEF KeptTail
    <3>2. Len(KeptTail(m)) = IF f <= Len(m) THEN Len(m) - f + 1 ELSE 0
      BY <3>1, SubSeqProperties
    <3>3. Len(m) - 1 - Len(KeptTail(m)) > 0
      BY DEF Dropped
    <3> HIDE DEF f
    <3>4. f \in Nat /\ f >= 2
      BY <1>1, <1>2
    <3>5. f # 2
      <4> SUFFICES ASSUME f = 2 PROVE FALSE
        OBVIOUS
      <4>1. 2 <= Len(m)
        BY <1>1, SessionConstants
      <4>2. Len(KeptTail(m)) = Len(m) - 2 + 1
        BY <3>2, <4>1
      <4>3. Len(m) - 1 - (Len(m) - 2 + 1) > 0
        BY <3>3, <4>2
      <4> QED
        BY <1>1, <4>3
    <3> QED
      BY <3>4, <3>5
  <2> DEFINE l == k + f - 3
             c == Compacted(m)
  <2> HIDE DEF f
  <2>2. Len(m) = Len(h) - k + 3 /\ m[1] = h[1] /\ k \in Nat /\ k >= 2 /\ k <= Len(h) + 1
    BY <1>1, <1>5 DEF View
  <2>3. l \in 2..(Len(h) + 1)
    BY <1>1, <1>2, <2>1, <2>2
  <2>4. c \in Seq(Message) /\ View(c, m, f)
    BY <1>1, <1>2, <1>3, <2>2, CutIsView
  <2> HIDE DEF c
  <2>5. Len(c) = Len(h) - l + 3 /\ c[1] = h[1] /\ c[2] = UserMessage("summary")
    BY <1>1, <1>2, <2>1, <2>2, <2>4 DEF View
  <2>6. ASSUME NEW j \in l..Len(h)
        PROVE  c[j - l + 3] = h[j]
    <3> DEFINE i == j - k + 3
    <3>1. i \in f..Len(m) /\ i - f + 3 = j - l + 3 /\ j \in k..Len(h)
      <4>1. j \in Int /\ j >= l /\ j <= Len(h)
        BY <1>1, <2>1, <2>2, <2>6
      <4>2. i \in Int /\ i >= f /\ i <= Len(m)
        BY <1>1, <2>1, <2>2, <4>1
      <4>3. i - f + 3 = j - l + 3
        BY <2>1, <2>2, <4>1
      <4>4. j >= k
        BY <2>1, <2>2, <4>1
      <4> QED
        BY <1>1, <2>1, <2>2, <4>1, <4>2, <4>3, <4>4
    <3>2. m[i] = h[j]
      BY <1>5, <3>1 DEF View
    <3> HIDE DEF i
    <3>3. c[i - f + 3] = m[i]
      BY <2>4, <3>1 DEF View
    <3> QED
      BY <3>1, <3>2, <3>3
  <2>7. View(c, h, l)
    BY <2>5, <2>6 DEF View
  <2>8. c = HeadAndTail(h, l)
    BY <1>1, <2>3, <2>4, <2>7, ViewIsCut
  <2>9. ASSUME l <= Len(h) PROVE h[l].role # "tool"
    <3>1. f <= Len(m) /\ l \in k..Len(h) /\ l - k + 3 = f
      BY <1>1, <2>1, <2>2, <2>3, <2>9
    <3>2. m[f] = h[l]
      BY <1>5, <3>1 DEF View
    <3> QED
      BY <1>2, <3>1, <3>2
  <2> QED
    BY <2>3, <2>8, <2>9 DEF c
<1> QED
  BY <1>4, <1>5

-----------------------------------------------------------------------------
(* Parts of the invariant under steps that leave most of it alone.         *)

(* The lists stay, and no execution begins.                                *)
LEMMA SentStays ==
  ASSUME SentOK, UNCHANGED <<messages, history>>,
         Executing' => Executing /\ current' = current
  PROVE  SentOK'
<1>1. CASE messages = history
  BY <1>1 DEF SentOK
<1>2. ASSUME Len(history) > 0, NEW k \in 2..(Len(history) + 1), CutAt(k)
      PROVE  SentOK'
  <2>1. CutAt(k)'
    BY <1>2 DEF CutAt
  <2> QED
    BY <1>2, <2>1 DEF SentOK
<1> QED
  BY <1>1, <1>2 DEF SentOK

(* Turns are only counted up, so a transcript stays one.                   *)
LEMMA LaterTurns ==
  ASSUME NEW h, NEW t \in Nat, NEW u \in Nat, t <= u, Transcript(h, t)
  PROVE  Transcript(h, u)
<1>1. \A x \in 1..t : x \in 1..u
  OBVIOUS
<1> QED
  BY <1>1 DEF Transcript, Numbered

(* The file stays part of a transcript that goes on.                       *)
LEMMA SavedStays ==
  ASSUME SavedOK, HistoryOK, turns \in Nat, turns' \in Nat, turns <= turns', saved' = saved,
         history' \in Seq(Message), Grows(history, history')
  PROVE  SavedOK'
<1>1. Transcript(saved, turns')
  BY LaterTurns DEF SavedOK
<1>2. saved \in Seq(Message) /\ history \in Seq(Message) /\ Grows(saved, history)
  BY DEF SavedOK, HistoryOK, Transcript
<1>3. /\ Len(saved) \in Nat /\ Len(history) \in Nat /\ Len(saved) <= Len(history)
      /\ Len(history') \in Nat /\ Len(history) <= Len(history')
  BY <1>2, MessageFacts DEF Grows
<1>4. \A i \in 1..Len(saved) : i \in 1..Len(history)
  BY <1>3
<1>5. Grows(saved, history')
  BY <1>2, <1>3, <1>4 DEF Grows
<1> QED
  BY <1>1, <1>5 DEF SavedOK

-----------------------------------------------------------------------------
(* The invariant holds when the first process starts.                      *)
LEMMA InitIInv == Init => IInv
<1> SUFFICES ASSUME Init PROVE IInv
  OBVIOUS
<1>1. ControlOK /\ ~Executing
  <2>1. {MaxCalls, MaxAsks, MaxTurns, MaxSteps} \subseteq Nat
    BY SessionConstants
  <2>2. calls = <<>> /\ <<>> \in Seq(Tools) /\ Len(<<>>) = 0
    BY DEF Init
  <2>3. failures \in [Tools -> Nat] /\ edited \in BOOLEAN
    BY DEF Init
  <2>4. ~Executing
    BY DEF Init, Executing
  <2> QED
    BY <2>1, <2>2, <2>3, <2>4 DEF Init, ControlOK
<1>2. /\ history = <<>> /\ saved = <<>> /\ messages = <<>> /\ workers = {} /\ ran = {}
      /\ turns = 0 /\ pc = "prompt" /\ <<>> \in Seq(Message) /\ Len(<<>>) = 0
  BY DEF Init
<1>3. Assistants(<<>>) = {} /\ Results(<<>>) = {}
  BY DEF Assistants, Results
<1>4. Transcript(<<>>, 0) /\ Complete(<<>>, 0) /\ Grows(<<>>, <<>>)
  BY <1>2, <1>3 DEF Transcript, Numbered, Owned, Once, Attached, Complete, Grows
<1>5. HistoryOK /\ SavedOK /\ SentOK
  BY <1>1, <1>2, <1>4 DEF HistoryOK, SavedOK, SentOK
<1>6. ThreadsOK /\ DeclinedNeverRuns
  BY <1>2 DEF ThreadsOK, DeclinedNeverRuns
<1> QED
  BY <1>1, <1>5, <1>6 DEF IInv

(* Facts that every step uses.                                             *)
LEMMA StateFacts ==
  ASSUME IInv
  PROVE  /\ history \in Seq(Message) /\ Len(history) \in Nat
         /\ saved \in Seq(Message) /\ messages \in Seq(Message)
         /\ turns \in Nat /\ current \in Nat /\ calls \in Seq(Tools) /\ Len(calls) \in Nat
         /\ Executing => current \in 1..Len(calls)
         /\ MaxCalls \in Nat /\ MaxTurns \in Nat /\ MaxSteps \in Nat /\ MaxAsks \in Nat
<1>1. history \in Seq(Message) /\ saved \in Seq(Message)
  BY DEF IInv, HistoryOK, SavedOK, Transcript
<1>2. messages \in Seq(Message)
  BY SentEnds DEF IInv
<1>3. MaxCalls \in Nat /\ MaxTurns \in Nat /\ MaxSteps \in Nat /\ MaxAsks \in Nat
  BY SessionConstants
<1> QED
  BY <1>1, <1>2, <1>3, MessageFacts DEF IInv, ControlOK

(* One message is said.                                                    *)
LEMMA SayOne ==
  ASSUME NEW h \in Seq(Message), NEW m \in Message
  PROVE  /\ <<m>> \in Seq(Message) /\ Len(<<m>>) = 1 /\ <<m>>[1] = m
         /\ h \o <<m>> \in Seq(Message) /\ Adds(h, h \o <<m>>, m)
<1> DEFINE s == <<m>>
<1>1. s \in Seq(Message) /\ Len(s) = 1 /\ s[1] = m
  OBVIOUS
<1> HIDE DEF s
<1>2. s \in Seq(Message)
  BY <1>1
<1>3. /\ h \o s \in Seq(Message) /\ Len(h \o s) = Len(h) + Len(s)
      /\ Grows(h, h \o s) /\ \A i \in 1..Len(s) : (h \o s)[Len(h) + i] = s[i]
  BY <1>2, SeqJoined, Zenon
<1> QED
  BY <1>1, <1>3 DEF Adds, s

(* The turn's current assistant message is the only one of its turn.       *)
LEMMA OneOfTheTurn ==
  ASSUME NEW h, NEW t, Transcript(h, t), NEW p \in Assistants(h), NEW a \in Assistants(h),
         h[a].id[1] = h[p].id[1]
  PROVE  a = p
<1>1. h \in Seq(Message)
  BY DEF Transcript
<1>2. a \in 1..Len(h) /\ p \in 1..Len(h) /\ Len(h) \in Nat /\ h[p].id[1] \in Nat
  BY <1>1, MessageFacts
<1>3. ~(a < p) /\ ~(p < a)
  BY <1>2 DEF Transcript, Numbered
<1> QED
  BY <1>2, <1>3

(* The result of the current call is said.                                 *)
LEMMA SayResult ==
  ASSUME IInv, Executing, NEW text \in Texts, Say(<<ToolMessage(CallId, text)>>)
  PROVE  LET n == history'
             m == ToolMessage(CallId, text)
         IN  /\ m \in Message /\ m.role = "tool" /\ m.id = CallId /\ m.text = text
             /\ n \in Seq(Message) /\ Adds(history, n, m)
             /\ Transcript(n, turns) /\ Complete(n, turns)
             /\ \E p \in 1..Len(n) :
                  /\ p \in Assistants(n) /\ n[p].id[1] = turns /\ n[p].calls = calls
                  /\ Len(n) = p + current
                  /\ \A q \in (p + 1)..Len(n) : n[q].role = "tool" /\ n[q].id = <<turns, q - p>>
             /\ current = Len(calls) => Complete(n, 0)
             /\ text \in {"not_asked", "gave_up"} => Complete(n, 0)
<1> DEFINE n == history'
           m == ToolMessage(CallId, text)
           h == history
<1>1. /\ h \in Seq(Message) /\ Len(h) \in Nat /\ turns \in Nat /\ current \in Nat
      /\ current \in 1..Len(calls) /\ Len(calls) \in Nat /\ calls \in Seq(Tools)
  BY StateFacts
<1>2. m \in Message /\ m.role = "tool" /\ m.id = CallId /\ m.text = text /\ CallId = <<turns, current>>
  BY <1>1 DEF ToolMessage, Message, Roles, Ids, CallId
<1> HIDE DEF m
<1>3. n = h \o <<m>>
  BY DEF Say, m
<1>4. n \in Seq(Message) /\ Adds(h, n, m)
  BY <1>1, <1>2, <1>3, SayOne
<1> HIDE DEF n
<1>5. PICK p \in 1..Len(h) : CurrentAt(p)
  BY DEF IInv, HistoryOK
<1>6. /\ p \in Assistants(h) /\ h[p].id[1] = turns /\ h[p].calls = calls
      /\ Len(h) = p + current - 1
      /\ \A q \in (p + 1)..Len(h) : h[q].role = "tool" /\ h[q].id = <<turns, q - p>>
  BY <1>5 DEF CurrentAt
<1>7. /\ Grows(h, n) /\ Len(n) = Len(h) + 1 /\ n[Len(h) + 1] = m
      /\ \A i \in 1..Len(h) : n[i] = h[i]
  BY <1>4 DEF Adds, Grows
<1>8. Assistants(n) = Assistants(h) /\ Results(n) = Results(h) \cup {Len(h) + 1}
  BY <1>1, <1>2, <1>4, AddedFacts, ZenonT(60)
<1>9. /\ p \in 1..Len(n) /\ n[p] = h[p] /\ Len(n) = p + current
  BY <1>1, <1>5, <1>6, <1>7
<1>10. \A q \in (p + 1)..Len(n) : n[q].role = "tool" /\ n[q].id = <<turns, q - p>>
  <2> TAKE q \in (p + 1)..Len(n)
  <2>1. CASE q \in (p + 1)..Len(h)
    <3>1. q \in 1..Len(h)
      BY <1>1, <1>5, <2>1
    <3> QED
      BY <1>6, <1>7, <2>1, <3>1
  <2>2. CASE q = Len(h) + 1
    <3>1. q - p = current
      BY <1>1, <1>5, <1>6, <2>2
    <3> QED
      BY <1>2, <1>7, <2>2, <3>1
  <2> QED
    BY <1>1, <1>5, <1>7, <2>1, <2>2
<1>11. ~Answered(h, p, CallId)
  <2> SUFFICES ASSUME NEW q \in (p + 1)..Len(h), h[q].id = CallId PROVE FALSE
    BY DEF Answered
  <2>1. <<turns, q - p>> = <<turns, current>>
    BY <1>2, <1>6
  <2>2. q - p = current
    BY <2>1
  <2> QED
    BY <1>1, <1>5, <1>6, <2>2
<1>12. Transcript(h, turns) /\ Complete(h, turns)
  BY DEF IInv, HistoryOK
<1>13. Transcript(n, turns)
  <2>1. \A q \in (Len(h) + 1)..Len(n) : q = Len(h) + 1
    BY <1>1, <1>7
  <2>2. \A q \in (Len(h) + 1)..Len(n) :
           /\ n[q].role = "tool" /\ n[q].id[1] = h[p].id[1] /\ n[q].id[2] \in DOMAIN h[p].calls
           /\ ~Answered(h, p, n[q].id)
    <3>1. m.id[1] = turns /\ m.id[2] = current
      BY <1>2
    <3>2. DOMAIN h[p].calls = 1..Len(calls)
      BY <1>1, <1>6
    <3>3. n[Len(h) + 1] = m /\ ~Answered(h, p, m.id)
      BY <1>2, <1>7, <1>11
    <3> QED
      BY <1>1, <1>2, <1>6, <2>1, <3>1, <3>2, <3>3
  <2>3. \A j \in (p + 1)..Len(h) : h[j].role # "assistant"
    BY <1>6
  <2>4. \A q, r \in (Len(h) + 1)..Len(n) : n[q].id = n[r].id => q = r
    BY <2>1
  <2> QED
    BY <1>1, <1>4, <1>6, <1>7, <1>8, <1>12, <2>2, <2>3, <2>4, AddResults
<1>14. Complete(n, turns)
  BY <1>1, <1>4, <1>7, <1>8, <1>12, StillComplete
<1>15. ASSUME StoppedIn(n, turns) \/ AllAnswered(n, p)
       PROVE  Complete(n, 0)
  <2> SUFFICES ASSUME NEW a \in Assistants(n)
               PROVE  StoppedIn(n, n[a].id[1]) \/ AllAnswered(n, a)
    BY DEF Complete
  <2>1. CASE n[a].id[1] = turns
    <3>1. a = p
      BY <1>6, <1>8, <1>9, <1>13, <2>1, OneOfTheTurn
    <3> QED
      BY <1>15, <2>1, <3>1
  <2>2. CASE n[a].id[1] # turns
    BY <1>14, <2>2 DEF Complete
  <2> QED
    BY <2>1, <2>2
<1>16. ASSUME current = Len(calls) PROVE AllAnswered(n, p)
  <2> SUFFICES ASSUME NEW i \in 1..Len(calls)
               PROVE  \E q \in ResultsAt(n, p) : n[q].id = <<turns, i>>
    <3>1. n[p].id[1] = turns /\ DOMAIN n[p].calls = 1..Len(calls)
      BY <1>1, <1>6, <1>9
    <3> QED
      BY <3>1, Zenon DEF AllAnswered
  <2>1. p + i \in (p + 1)..Len(n) /\ (p + i) - p = i
    BY <1>1, <1>5, <1>9, <1>16
  <2>2. \A j \in (p + 1)..(p + i) : j \in (p + 1)..Len(n)
    BY <1>1, <1>5, <1>9, <2>1
  <2>3. p + i \in ResultsAt(n, p)
    BY <1>10, <2>1, <2>2 DEF ResultsAt
  <2> QED
    BY <1>10, <2>1, <2>3
<1>17. ASSUME text \in {"not_asked", "gave_up"} PROVE StoppedIn(n, turns)
  <2>1. n[Len(h) + 1].id[1] = turns /\ n[Len(h) + 1].text = text
    BY <1>2, <1>7
  <2> QED
    BY <1>8, <1>17, <2>1 DEF StoppedIn
<1> QED
  BY <1>2, <1>4, <1>6, <1>8, <1>9, <1>10, <1>13, <1>14, <1>15, <1>16, <1>17 DEF n, m

(* The result of the current call is said, and the turn goes on to the     *)
(* next call, back to the loop, or is abandoned.                           *)
LEMMA ResultStep ==
  ASSUME IInv, Executing, NEW text \in Texts, Say(<<ToolMessage(CallId, text)>>),
         text \in {"declined", "not_asked"} => pc = "executing",
         failures' \in [Tools -> Nat],
         UNCHANGED <<saved, calls, step, threads, asks, turns>>,
         \/ NextCall
         \/ pc' = "finished" /\ current' = current /\ text \in {"not_asked", "gave_up"}
  PROVE  IInv'
<1> DEFINE m == ToolMessage(CallId, text)
<1>1. /\ m \in Message /\ m.role = "tool" /\ m.id = CallId /\ m.text = text
      /\ history' \in Seq(Message) /\ Adds(history, history', m)
      /\ Transcript(history', turns) /\ Complete(history', turns)
      /\ \E p \in 1..Len(history') :
           /\ p \in Assistants(history') /\ history'[p].id[1] = turns
           /\ history'[p].calls = calls /\ Len(history') = p + current
           /\ \A q \in (p + 1)..Len(history') :
                history'[q].role = "tool" /\ history'[q].id = <<turns, q - p>>
      /\ current = Len(calls) => Complete(history', 0)
      /\ text \in {"not_asked", "gave_up"} => Complete(history', 0)
  BY SayResult
<1>2. Say(<<m>>) /\ <<m>> \in Seq(Message) /\ Len(<<m>>) = 1 /\ <<m>>[1] = m
  BY <1>1
<1> HIDE DEF m
<1>3. /\ history \in Seq(Message) /\ Len(history) \in Nat /\ turns \in Nat /\ current \in Nat
      /\ Len(calls) \in Nat /\ current \in 1..Len(calls) /\ calls \in Seq(Tools)
      /\ MaxCalls \in Nat
  BY StateFacts
<1>4. \/ pc' = "executing" /\ current' = current + 1 /\ current < Len(calls) /\ Executing'
      \/ /\ pc' \in {"loop", "finished"} /\ current' \in {0, current} /\ ~Executing'
         /\ Complete(history', 0)
  <2>1. CASE NextCall
    BY <1>1, <1>3, <2>1 DEF NextCall, Executing
  <2>2. CASE pc' = "finished" /\ current' = current /\ text \in {"not_asked", "gave_up"}
    BY <1>1, <2>2 DEF Executing
  <2> QED
    BY <2>1, <2>2
<1>5. UNCHANGED <<saved, calls, step, workers, ran, edited, asks, turns>>
  BY DEF threads
<1>6. ControlOK'
  <2>1. /\ calls \in Seq(Tools) /\ Len(calls) <= MaxCalls /\ current \in 0..MaxCalls
        /\ step \in 0..MaxSteps /\ asks \in 0..MaxAsks /\ turns \in 0..MaxTurns
        /\ edited \in BOOLEAN
    BY DEF IInv, ControlOK
  <2>2. current' \in 0..MaxCalls /\ (Executing' => current' \in 1..Len(calls))
    BY <1>3, <1>4, <2>1
  <2>3. pc' \in {"executing", "loop", "finished"}
    BY <1>4
  <2> QED
    BY <1>5, <2>1, <2>2, <2>3 DEF ControlOK
<1>7. Grows(history, history') /\ Len(history') = Len(history) + 1 /\ history'[Len(history) + 1] = m
  BY <1>1 DEF Adds
<1>8. HistoryOK'
  <2>1. Complete(history', IF Executing' THEN turns ELSE 0)
    BY <1>1, <1>4
  <2>2. Executing' => \E p \in 1..Len(history') : CurrentAt(p)'
    <3> SUFFICES ASSUME Executing' PROVE \E p \in 1..Len(history') : CurrentAt(p)'
      OBVIOUS
    <3>1. current' = current + 1
      BY <1>4
    <3>2. PICK p \in 1..Len(history') :
           /\ p \in Assistants(history') /\ history'[p].id[1] = turns
           /\ history'[p].calls = calls /\ Len(history') = p + current
           /\ \A q \in (p + 1)..Len(history') :
                history'[q].role = "tool" /\ history'[q].id = <<turns, q - p>>
      BY <1>1
    <3>3. Len(history') = p + current' - 1
      BY <1>3, <3>1, <3>2
    <3>4. CurrentAt(p)'
      BY <1>5, <3>2, <3>3 DEF CurrentAt
    <3> QED
      BY <3>4
  <2>3. Len(history') > 0
    BY <1>3, <1>7
  <2> QED
    BY <1>1, <1>5, <2>1, <2>2, <2>3 DEF HistoryOK
<1>9. SavedOK'
  BY <1>1, <1>3, <1>5, <1>7, SavedStays DEF IInv
<1>10. SentOK'
  <2>1. current' \in Nat /\ (Executing' => Executing /\ current' = current + Len(<<m>>))
    BY <1>2, <1>3, <1>4
  <2> QED
    BY <1>2, <2>1, SentSays DEF IInv
<1>11. ThreadsOK'
  <2> SUFFICES ASSUME NEW id \in workers \cup ran
               PROVE  /\ id \in Ids /\ id[1] <= turns
                      /\ id[1] = turns /\ pc' = "executing" => id[2] < current'
                      /\ id[1] = turns /\ pc' = "running" => id[2] <= current'
    BY <1>5 DEF ThreadsOK
  <2>1. /\ id \in Ids /\ id[1] <= turns
        /\ id[1] = turns /\ pc = "executing" => id[2] < current
        /\ id[1] = turns /\ pc = "running" => id[2] <= current
    BY DEF IInv, ThreadsOK
  <2>2. id[2] \in Nat /\ (id[1] = turns => id[2] <= current)
    BY <1>3, <2>1 DEF Executing, Ids
  <2> QED
    BY <1>3, <1>4, <2>1, <2>2
<1>12. DeclinedNeverRuns'
  <2> SUFFICES ASSUME NEW q \in Results(history'),
                      history'[q].text \in {"declined", "not_asked"}
               PROVE  history'[q].id \notin workers \cup ran
    BY <1>5 DEF DeclinedNeverRuns
  <2>1. CASE q = Len(history) + 1
    <3>1. pc = "executing" /\ history'[q].id = <<turns, current>>
      BY <1>1, <1>7, <2>1 DEF CallId
    <3> SUFFICES ASSUME <<turns, current>> \in workers \cup ran PROVE FALSE
      BY <3>1
    <3>2. <<turns, current>>[2] < current
      BY <3>1 DEF IInv, ThreadsOK
    <3> QED
      BY <1>3, <3>2
  <2>2. CASE q # Len(history) + 1
    <3>1. q \in Results(history)
      BY <1>1, <1>3, <2>2, AddedFacts
    <3>2. history'[q] = history[q]
      BY <1>3, <1>7, <3>1, MessageFacts DEF Grows
    <3> QED
      BY <3>1, <3>2 DEF IInv, DeclinedNeverRuns
  <2> QED
    BY <2>1, <2>2
<1> QED
  BY <1>6, <1>8, <1>9, <1>10, <1>11, <1>12 DEF IInv

(* Messages are said that refuse nothing, and no thread starts: what is    *)
(* left to show of a step that says them.                                  *)
LEMMA SaidStep ==
  ASSUME IInv, NEW ms \in Seq(Message), Say(ms),
         \A i \in 1..Len(ms) : ms[i].text \notin {"declined", "not_asked"},
         Len(ms) > 0 /\ ms[1].role = "tool" => Executing \/ Assistants(messages) # {},
         Executing' => current' = Len(ms),
         ControlOK', turns <= turns', saved' = saved,
         Transcript(history', turns'),
         Complete(history', IF Executing' THEN turns' ELSE 0),
         Executing' => \E p \in 1..Len(history') : CurrentAt(p)',
         Len(history') > 0,
         ThreadsOK', workers' \subseteq workers, ran' = ran
  PROVE  IInv'
<1>1. history \in Seq(Message) /\ Len(history) \in Nat /\ turns \in Nat /\ MaxTurns \in Nat
      /\ MaxCalls \in Nat
  BY StateFacts
<1>2. turns' \in Nat /\ current' \in Nat
  BY <1>1, SessionConstants DEF ControlOK
<1>3. history' = history \o ms
  BY DEF Say
<1>4. /\ history' \in Seq(Message) /\ Grows(history, history') /\ Len(ms) \in Nat
      /\ Len(history') = Len(history) + Len(ms)
      /\ \A i \in 1..Len(ms) : history'[Len(history) + i] = ms[i]
  BY <1>1, <1>3, SeqJoined
<1>5. HistoryOK'
  BY DEF HistoryOK
<1>6. SavedOK'
  BY <1>1, <1>2, <1>4, SavedStays DEF IInv
<1>7. SentOK'
  BY <1>2, SentSays DEF IInv
<1>8. DeclinedNeverRuns'
  <2> SUFFICES ASSUME NEW q \in Results(history'),
                      history'[q].text \in {"declined", "not_asked"}
               PROVE  history'[q].id \notin workers \cup ran
    BY DEF DeclinedNeverRuns
  <2>1. q \in 1..Len(history') /\ Results(history) = Results(history') \cap 1..Len(history)
    BY <1>1, <1>4, MessageFacts, GrowsKeeps
  <2>2. q \in 1..Len(history)
    <3> SUFFICES ASSUME q \notin 1..Len(history) PROVE FALSE
      OBVIOUS
    <3>1. q - Len(history) \in 1..Len(ms) /\ Len(history) + (q - Len(history)) = q
      BY <1>1, <1>4, <2>1
    <3>2. history'[q] = ms[q - Len(history)]
      BY <1>4, <3>1
    <3> QED
      BY <3>1, <3>2
  <2>3. q \in Results(history) /\ history'[q] = history[q]
    BY <1>4, <2>1, <2>2 DEF Grows
  <2> QED
    BY <2>3 DEF IInv, DeclinedNeverRuns
<1> QED
  BY <1>5, <1>6, <1>7, <1>8 DEF IInv

(* The user's message, a turn with calls, and a turn without.              *)
LEMMA AskStep == IInv /\ Ask => IInv'
<1> SUFFICES ASSUME IInv, Ask PROVE IInv'
  OBVIOUS
<1> DEFINE m == UserMessage("ask")
<1>1. m \in Message /\ m.role = "user" /\ m.text = "ask"
  BY DEF UserMessage, Message, Roles, Ids, Texts
<1>2. Say(<<m>>)
  BY DEF Ask
<1> HIDE DEF m
<1>3. history \in Seq(Message) /\ Len(history) \in Nat /\ turns \in Nat
  BY StateFacts
<1>4. history' = history \o <<m>>
  BY <1>2 DEF Say
<1>5. /\ <<m>> \in Seq(Message) /\ Len(<<m>>) = 1 /\ <<m>>[1] = m
      /\ history' \in Seq(Message) /\ Adds(history, history', m)
  BY <1>1, <1>3, <1>4, SayOne
<1>6. /\ pc = "prompt" /\ pc' = "loop" /\ asks < MaxAsks /\ asks' = asks + 1 /\ step' = 0
      /\ UNCHANGED <<saved, calls, current, failures, workers, ran, edited, turns>>
  BY DEF Ask, threads
<1>7. ~Executing /\ ~Executing'
  BY <1>6 DEF Executing
<1>8. ControlOK'
  BY <1>6, <1>7, StateFacts DEF IInv, ControlOK
<1>9. Transcript(history, turns) /\ Complete(history, 0)
  BY <1>7 DEF IInv, HistoryOK
<1>10. Transcript(history', turns) /\ Complete(history', 0)
  BY <1>1, <1>3, <1>5, <1>9, AddUser
<1>11. Len(history') > 0
  BY <1>3, <1>5 DEF Adds
<1>12. ThreadsOK'
  BY <1>6 DEF IInv, ThreadsOK
<1>13. \A i \in 1..Len(<<m>>) : <<m>>[i] = m
  BY <1>5
<1>14. turns <= turns'
  BY <1>3, <1>6
<1> QED
  BY <1>1, <1>2, <1>5, <1>6, <1>7, <1>8, <1>10, <1>11, <1>12, <1>13, <1>14, SaidStep

(* A turn arrives with calls, and the first is about to be executed.       *)
LEMMA CallsStep ==
  ASSUME IInv, NEW cs \in CallLists, TurnWithCalls(cs)
  PROVE  IInv'
<1> DEFINE m == AssistantMessage(turns + 1, cs)
<1>1. cs \in Seq(Tools) /\ Len(cs) \in Nat /\ Len(cs) >= 1 /\ Len(cs) <= MaxCalls
  <2>1. PICK k \in 1..MaxCalls : cs \in [1..k -> Tools]
    BY DEF CallLists
  <2>2. k \in Nat /\ MaxCalls \in Nat /\ k >= 1 /\ k <= MaxCalls
    BY <2>1, SessionConstants
  <2>3. cs \in Seq(Tools) /\ Len(cs) = k
    BY <2>1, <2>2
  <2> QED
    BY <2>2, <2>3
<1>2. history \in Seq(Message) /\ Len(history) \in Nat /\ turns \in Nat /\ MaxTurns \in Nat
      /\ MaxCalls \in Nat
  BY StateFacts
<1>3. m \in Message /\ m.role = "assistant" /\ m.text = "reply" /\ m.id[1] = turns + 1 /\ m.calls = cs
  BY <1>1, <1>2 DEF AssistantMessage, Message, Roles, Ids, Texts
<1>4. Say(<<m>>)
  BY DEF TurnWithCalls
<1> HIDE DEF m
<1>5. history' = history \o <<m>>
  BY <1>4 DEF Say
<1>6. /\ <<m>> \in Seq(Message) /\ Len(<<m>>) = 1 /\ <<m>>[1] = m
      /\ history' \in Seq(Message) /\ Adds(history, history', m)
  BY <1>2, <1>3, <1>5, SayOne
<1>7. /\ pc = "thinking" /\ pc' = "executing" /\ calls' = cs /\ current' = 1
      /\ turns < MaxTurns /\ turns' = turns + 1
      /\ UNCHANGED <<saved, step, failures, workers, ran, edited, asks>>
  BY DEF TurnWithCalls, threads
<1>8. ~Executing /\ Executing'
  BY <1>7 DEF Executing
<1>9. ControlOK'
  <2>1. /\ step \in 0..MaxSteps /\ asks \in 0..MaxAsks /\ turns \in 0..MaxTurns
        /\ edited \in BOOLEAN /\ failures \in [Tools -> Nat]
    BY DEF IInv, ControlOK
  <2>2. turns' \in 0..MaxTurns /\ current' \in 0..MaxCalls /\ current' \in 1..Len(cs)
    BY <1>1, <1>2, <1>7, <2>1
  <2> QED
    BY <1>1, <1>7, <2>1, <2>2 DEF ControlOK
<1>10. Transcript(history, turns) /\ Complete(history, 0) /\ Len(history) > 0
  BY <1>7, <1>8 DEF IInv, HistoryOK
<1>11. Transcript(history', turns') /\ Complete(history', turns')
  BY <1>2, <1>3, <1>6, <1>7, <1>10, AddAssistant
<1>12. Len(history') = Len(history) + 1 /\ history'[Len(history) + 1] = m
  BY <1>6 DEF Adds
<1>13. \E p \in 1..Len(history') : CurrentAt(p)'
  <2>0. PICK p \in Nat : p = Len(history) + 1
    BY <1>2
  <2>1. p \in Assistants(history')
    BY <1>2, <1>3, <1>6, <2>0, AddedFacts
  <2>2. /\ p \in 1..Len(history') /\ Len(history') = p + current' - 1
        /\ (p + 1)..Len(history') = {}
    BY <1>2, <1>7, <1>12, <2>0
  <2>3. history'[p].id[1] = turns' /\ history'[p].calls = calls'
    BY <1>3, <1>7, <1>12, <2>0
  <2>4. CurrentAt(p)'
    BY <2>1, <2>2, <2>3 DEF CurrentAt
  <2> QED
    BY <2>2, <2>4
<1>14. ThreadsOK'
  <2> SUFFICES ASSUME NEW id \in workers \cup ran
               PROVE  id \in Ids /\ id[1] <= turns' /\ id[1] # turns'
    BY <1>7 DEF ThreadsOK
  <2>1. id \in Ids /\ id[1] <= turns
    BY DEF IInv, ThreadsOK
  <2>2. id[1] \in Nat
    BY <2>1 DEF Ids
  <2> QED
    BY <1>2, <1>7, <2>1, <2>2
<1>15. \A i \in 1..Len(<<m>>) : <<m>>[i] = m
  BY <1>6
<1>16. turns <= turns' /\ Len(history') > 0
  BY <1>2, <1>7, <1>12
<1> QED
  BY <1>3, <1>4, <1>6, <1>7, <1>8, <1>9, <1>11, <1>13, <1>14, <1>15, <1>16, SaidStep

(* A turn arrives without calls, with a retry asked for or not.            *)
LEMMA AnswerStep ==
  ASSUME IInv, NEW retried \in BOOLEAN, TurnWithoutCalls(retried)
  PROVE  IInv'
<1> DEFINE m == AssistantMessage(turns + 1, <<>>)
           u == UserMessage("retry")
           ms == IF retried THEN <<m, u>> ELSE <<m>>
           h == history \o <<m>>
<1>1. history \in Seq(Message) /\ Len(history) \in Nat /\ turns \in Nat /\ MaxTurns \in Nat
  BY StateFacts
<1>2. /\ m \in Message /\ m.role = "assistant" /\ m.text = "reply" /\ m.id[1] = turns + 1
      /\ m.calls = <<>>
  BY <1>1 DEF AssistantMessage, Message, Roles, Ids, Texts
<1>3. u \in Message /\ u.role = "user" /\ u.text = "retry"
  BY DEF UserMessage, Message, Roles, Ids, Texts
<1>4. Say(ms)
  BY DEF TurnWithoutCalls
<1> HIDE DEF m, u
<1>5. /\ pc = "thinking" /\ pc' \in {"loop", "finished"}
      /\ turns < MaxTurns /\ turns' = turns + 1
      /\ UNCHANGED <<saved, calls, current, step, failures, workers, ran, edited, asks>>
  BY DEF TurnWithoutCalls, threads
<1>6. ~Executing /\ ~Executing'
  BY <1>5 DEF Executing
<1>7. ControlOK'
  <2>1. turns' \in 0..MaxTurns
    BY <1>1, <1>5
  <2> QED
    BY <1>5, <1>6, <2>1 DEF IInv, ControlOK
<1>8. Transcript(history, turns) /\ Complete(history, 0) /\ Len(history) > 0
  BY <1>5, <1>6 DEF IInv, HistoryOK
<1>9. h \in Seq(Message) /\ Adds(history, h, m)
  BY <1>1, <1>2, SayOne
<1> HIDE DEF h
<1>10. Transcript(h, turns') /\ Complete(h, 0) /\ Len(h) > 0
  BY <1>1, <1>2, <1>5, <1>8, <1>9, AddAssistant DEF Adds
<1>11. /\ ms \in Seq(Message) /\ \A i \in 1..Len(ms) : ms[i].text \in {"reply", "retry"}
       /\ ms[1].role = "assistant" /\ Len(ms) \in Nat
       /\ Transcript(history', turns') /\ Complete(history', 0) /\ Len(history') > 0
  <2>1. CASE ~retried
    <3>1. ms = <<m>> /\ history' = h
      BY <1>4, <2>1 DEF Say, h
    <3>2. ms \in Seq(Message) /\ Len(ms) = 1 /\ ms[1] = m
      BY <1>2, <3>1
    <3>3. \A i \in 1..Len(ms) : ms[i] = m
      BY <3>2
    <3> QED
      BY <1>2, <1>10, <3>1, <3>2, <3>3
  <2>2. CASE retried
    <3>1. ms = <<m, u>> /\ history' = history \o <<m, u>>
      BY <1>4, <2>2 DEF Say
    <3>2. ms \in Seq(Message) /\ Len(ms) = 2 /\ ms[1] = m /\ ms[2] = u
      BY <1>2, <1>3, <3>1
    <3>3. \A i \in 1..Len(ms) : ms[i] = m \/ ms[i] = u
      BY <3>2
    <3>4. <<m, u>> = <<m>> \o <<u>> /\ <<m>> \in Seq(Message) /\ <<u>> \in Seq(Message)
      <4>1. <<m>> \in Seq(Message) /\ <<u>> \in Seq(Message)
        BY <1>2, <1>3
      <4>2. <<m, u>> = Append(<<m>>, u)
        BY <1>2, <1>3
      <4>3. Append(<<m>>, u) = <<m>> \o <<u>>
        BY <1>3, <4>1, AppendIsConcat, Zenon
      <4> QED
        BY <4>1, <4>2, <4>3, Zenon
    <3>5. history' = h \o <<u>>
      <4> DEFINE a == <<m>>
                 b == <<u>>
      <4>1. a \in Seq(Message) /\ b \in Seq(Message) /\ history' = history \o (a \o b)
            /\ h = history \o a /\ b = <<u>>
        BY <3>1, <3>4, Zenon DEF h
      <4> HIDE DEF a, b
      <4>2. history \in Seq(Message) /\ a \in Seq(Message) /\ b \in Seq(Message)
        BY <1>1, <4>1, Zenon
      <4>3. (history \o a) \o b = history \o (a \o b)
        BY <4>2, ConcatAssociative
      <4> QED
        BY <4>1, <4>3, Zenon
    <3>6. history' \in Seq(Message) /\ Adds(h, history', u)
      BY <1>3, <1>9, <3>5, SayOne
    <3>7. Transcript(history', turns') /\ Complete(history', 0)
      BY <1>1, <1>3, <1>5, <1>10, <3>6, AddUser
    <3>8. Len(h) \in Nat /\ Len(history') = Len(h) + 1
      BY <1>9, <3>6, MessageFacts DEF Adds
    <3> QED
      BY <1>2, <1>3, <3>2, <3>3, <3>7, <3>8
  <2> QED
    BY <2>1, <2>2
<1> HIDE DEF ms
<1>12. ThreadsOK'
  <2> SUFFICES ASSUME NEW id \in workers \cup ran
               PROVE  id \in Ids /\ id[1] <= turns'
    BY <1>5 DEF ThreadsOK
  <2>1. id \in Ids /\ id[1] <= turns
    BY DEF IInv, ThreadsOK
  <2>2. id[1] \in Nat
    BY <2>1 DEF Ids
  <2> QED
    BY <1>1, <1>5, <2>1, <2>2
<1>13. turns <= turns'
  BY <1>1, <1>5
<1> QED
  BY <1>4, <1>5, <1>6, <1>7, <1>11, <1>12, <1>13, SaidStep

(* An interrupted turn is closed: the repairs keep the transcript one, and *)
(* answer whatever the turn had left open.                                 *)
LEMMA Repaired ==
  ASSUME NEW h, NEW t \in Nat, Transcript(h, t), Assistants(h) # {},
         \/ StoppedIn(h, h[LatestAssistant(h)].id[1])
         \/ OpenCalls(h, LatestAssistant(h)) = {}
         \/ \A j \in (LatestAssistant(h) + 1)..Len(h) : h[j].role = "tool"
  PROVE  LET p == LatestAssistant(h)
             r == Repairs(h)
             n == h \o r
         IN  /\ r \in Seq(Message) /\ n \in Seq(Message) /\ Grows(h, n)
             /\ Assistants(n) = Assistants(h)
             /\ \A i \in 1..Len(r) : r[i].text = "interrupted"
             /\ Transcript(n, t)
             /\ (\A j \in (p + 1)..Len(h) : h[j].role = "tool") => AllAnswered(n, p)
<1> DEFINE p == LatestAssistant(h)
           r == Repairs(h)
           n == h \o r
<1>1. h \in Seq(Message)
  BY DEF Transcript
<1>2. /\ p \in Assistants(h)
      /\ \A j \in (p + 1)..Len(h) : h[j].role # "assistant"
  BY <1>1, Latest
<1>3. /\ r \in Seq(Message)
      /\ \A i \in 1..Len(r) :
           \E c \in OpenCalls(h, p) : r[i] = ToolMessage(<<h[p].id[1], c>>, "interrupted")
      /\ \A i, j \in 1..Len(r) : r[i].id = r[j].id => i = j
      /\ \A c \in OpenCalls(h, p) : \E i \in 1..Len(r) : r[i].id = <<h[p].id[1], c>>
  BY <1>1, RepairsClose
<1> HIDE DEF p, r
<1>4. r \in Seq(Message)
  BY <1>3
<1>5. /\ n \in Seq(Message) /\ Len(h) \in Nat /\ Len(r) \in Nat /\ Len(n) = Len(h) + Len(r)
      /\ Grows(h, n)
      /\ \A i \in 1..Len(r) : n[Len(h) + i] = r[i]
  <2>1. h \in Seq(Message) /\ r \in Seq(Message)
    BY <1>1, <1>4
  <2> QED
    BY <2>1, SeqJoined, Zenon
<1> HIDE DEF n
<1>6. \A i \in 1..Len(r) : \E c \in OpenCalls(h, p) :
        r[i].role = "tool" /\ r[i].id = <<h[p].id[1], c>> /\ r[i].text = "interrupted"
  <2>1. \A x : LET m == ToolMessage(x, "interrupted")
              IN  m.role = "tool" /\ m.id = x /\ m.text = "interrupted"
    BY DEF ToolMessage
  <2> TAKE i \in 1..Len(r)
  <2>2. PICK c \in OpenCalls(h, p) : r[i] = ToolMessage(<<h[p].id[1], c>>, "interrupted")
    BY <1>3, Zenon
  <2>3. r[i].role = "tool" /\ r[i].id = <<h[p].id[1], c>> /\ r[i].text = "interrupted"
    BY <2>1, <2>2, Zenon
  <2> QED
    BY <2>2, <2>3
<1>7. p \in 1..Len(h) /\ n[p] = h[p] /\ Len(n) \in Nat /\ DOMAIN n = 1..Len(n)
  BY <1>1, <1>2, <1>5, MessageFacts DEF Grows
<1>8. \A q \in (Len(h) + 1)..Len(n) : q - Len(h) \in 1..Len(r) /\ n[q] = r[q - Len(h)]
  <2> TAKE q \in (Len(h) + 1)..Len(n)
  <2>1. q - Len(h) \in 1..Len(r) /\ Len(h) + (q - Len(h)) = q
    BY <1>5
  <2> QED
    BY <1>5, <2>1
<1>9. Assistants(n) = Assistants(h)
  <2>1. Assistants(h) = Assistants(n) \cap 1..Len(h)
    BY <1>1, <1>5, GrowsKeeps
  <2>2. ASSUME NEW a \in Assistants(n) PROVE a \in 1..Len(h)
    <3>1. a \in 1..Len(n) /\ n[a].role = "assistant"
      BY <1>5, <2>2, MessageFacts
    <3> SUFFICES ASSUME a \notin 1..Len(h) PROVE FALSE
      OBVIOUS
    <3>2. a \in (Len(h) + 1)..Len(n)
      BY <1>5, <3>1
    <3> QED
      BY <1>6, <1>8, <3>1, <3>2
  <2> QED
    BY <2>1, <2>2
<1>10. Transcript(n, t)
  <2>1. CASE OpenCalls(h, p) = {}
    <3>1. ~(1 \in 1..Len(r))
      BY <1>6, <2>1
    <3>2. Len(n) = Len(h)
      BY <1>5, <3>1
    <3>3. n = h
      BY <1>1, <1>5, <3>2, SeqEqual DEF Grows
    <3> QED
      BY <3>3
  <2>2. CASE \/ StoppedIn(h, h[p].id[1])
             \/ \A j \in (p + 1)..Len(h) : h[j].role = "tool"
    <3>1. ASSUME NEW q \in (Len(h) + 1)..Len(n)
          PROVE  /\ n[q].role = "tool"
                 /\ n[q].id[1] = h[p].id[1] /\ n[q].id[2] \in DOMAIN h[p].calls
                 /\ ~Answered(h, p, n[q].id)
      <4>1. PICK c \in OpenCalls(h, p) :
               n[q].role = "tool" /\ n[q].id = <<h[p].id[1], c>>
        BY <1>6, <1>8
      <4>2. c \in DOMAIN h[p].calls /\ ~Answered(h, p, <<h[p].id[1], c>>)
        BY <4>1 DEF OpenCalls
      <4> QED
        BY <4>1, <4>2
    <3>2. ASSUME NEW q \in (Len(h) + 1)..Len(n), NEW s \in (Len(h) + 1)..Len(n),
                 n[q].id = n[s].id
          PROVE  q = s
      <4>1. q - Len(h) = s - Len(h)
        <5>1. /\ q - Len(h) \in 1..Len(r) /\ s - Len(h) \in 1..Len(r)
              /\ r[q - Len(h)].id = r[s - Len(h)].id
          BY <1>8, <3>2
        <5> QED
          BY <1>3, <5>1, Zenon
      <4>2. q \in Int /\ s \in Int
        OBVIOUS
      <4> QED
        BY <1>5, <4>1, <4>2
    <3>3. \/ StoppedIn(n, h[p].id[1])
          \/ \A j \in (p + 1)..Len(h) : h[j].role = "tool"
      BY <1>1, <1>5, <2>2, GrowsKeeps
    <3> QED
      BY <1>1, <1>2, <1>5, <1>9, <3>1, <3>2, <3>3, AddResults
  <2> QED
    BY <2>1, <2>2 DEF p
<1>11. ASSUME \A j \in (p + 1)..Len(h) : h[j].role = "tool" PROVE AllAnswered(n, p)
  <2>1. \A j \in (p + 1)..Len(n) : n[j].role = "tool"
    <3> TAKE j \in (p + 1)..Len(n)
    <3>1. CASE j <= Len(h)
      <4>1. j \in (p + 1)..Len(h) /\ j \in 1..Len(h)
        BY <1>5, <1>7, <3>1
      <4> QED
        BY <1>5, <1>11, <4>1 DEF Grows
    <3>2. CASE ~(j <= Len(h))
      <4>1. j \in (Len(h) + 1)..Len(n)
        BY <1>5, <1>7, <3>2
      <4> QED
        BY <1>6, <1>8, <4>1
    <3> QED
      BY <3>1, <3>2
  <2>2. ASSUME NEW q \in (p + 1)..Len(n) PROVE q \in ResultsAt(n, p)
    <3>1. \A j \in (p + 1)..q : j \in (p + 1)..Len(n)
      BY <1>7
    <3> QED
      BY <2>1, <3>1 DEF ResultsAt
  <2> SUFFICES ASSUME NEW c \in DOMAIN h[p].calls
               PROVE  \E q \in (p + 1)..Len(n) : n[q].id = <<h[p].id[1], c>>
    BY <1>7, <2>2 DEF AllAnswered
  <2>3. CASE c \in OpenCalls(h, p)
    <3>1. PICK i \in 1..Len(r) : r[i].id = <<h[p].id[1], c>>
      BY <1>3, <2>3
    <3>2. Len(h) + i \in (p + 1)..Len(n) /\ n[Len(h) + i] = r[i]
      BY <1>5, <1>7
    <3> QED
      BY <3>1, <3>2
  <2>4. CASE c \notin OpenCalls(h, p)
    <3>1. PICK q \in (p + 1)..Len(h) : h[q].id = <<h[p].id[1], c>>
      BY <2>4 DEF OpenCalls, Answered
    <3>2. q \in 1..Len(h) /\ q \in (p + 1)..Len(n)
      BY <1>5, <1>7
    <3> QED
      BY <1>5, <3>1, <3>2 DEF Grows
  <2> QED
    BY <2>3, <2>4
<1>12. \A i \in 1..Len(r) : r[i].text = "interrupted"
  BY <1>6
<1> QED
  BY <1>4, <1>5, <1>9, <1>10, <1>11, <1>12 DEF n, r, p

(* Ctrl-C.  What is sent may lack the head of the transcript, but never    *)
(* the turn that is interrupted, so the repairs are those of the history.  *)
LEMMA CancelStep ==
  ASSUME IInv, NEW queued \in BOOLEAN, Cancel(queued)
  PROVE  IInv'
<1> DEFINE r == Repairs(messages)
<1>1. /\ history \in Seq(Message) /\ Len(history) \in Nat /\ messages \in Seq(Message)
      /\ turns \in Nat /\ current \in Nat /\ Len(calls) \in Nat
      /\ (Executing => current \in 1..Len(calls))
  BY StateFacts
<1>2. /\ pc \in {"thinking", "running"} /\ pc' = "finished" /\ workers' \subseteq workers
      /\ Say(r)
      /\ UNCHANGED <<saved, calls, current, step, failures, ran, edited, asks, turns>>
  BY DEF Cancel
<1>3. Executing \equiv pc = "running"
  BY <1>2 DEF Executing
<1>4. ~Executing'
  BY <1>2 DEF Executing
<1>5. ControlOK' /\ turns <= turns' /\ saved' = saved /\ ran' = ran
  BY <1>1, <1>2, <1>4 DEF IInv, ControlOK
<1>6. ThreadsOK' /\ workers' \subseteq workers
  BY <1>2 DEF IInv, ThreadsOK
<1>7. /\ Transcript(history, turns) /\ Complete(history, IF Executing THEN turns ELSE 0)
      /\ Len(history) > 0
  BY <1>2 DEF IInv, HistoryOK
<1>8. PICK k, d : /\ Ends(messages, history, k, d)
                  /\ Executing => k <= Len(history) - current + 1
  BY SentEnds DEF IInv
<1>9. ASSUME Executing
      PROVE  \E p \in Assistants(history) :
               /\ p >= k /\ p \in 1..Len(history) /\ history[p].id[1] = turns
               /\ \A q \in (p + 1)..Len(history) : history[q].role = "tool"
  <2>1. PICK p \in 1..Len(history) : CurrentAt(p)
    BY <1>9 DEF IInv, HistoryOK
  <2>2. /\ p \in Assistants(history) /\ history[p].id[1] = turns
        /\ Len(history) = p + current - 1
        /\ \A q \in (p + 1)..Len(history) : history[q].role = "tool"
    BY <2>1 DEF CurrentAt
  <2>3. Len(history) - current + 1 = p
    BY <1>1, <2>1, <2>2
  <2>4. p >= k
    BY <1>8, <1>9, <2>1, <2>3 DEF Ends
  <2> QED
    BY <2>1, <2>2, <2>4
<1>10. ASSUME Assistants(messages) = {}
       PROVE  IInv'
  <2>1. ~Executing
    BY <1>1, <1>8, <1>9, <1>10, EndsAlike
  <2>2. r = <<>>
    BY <1>10, NoRepairs
  <2>3. r \in Seq(Message) /\ Len(r) = 0 /\ history' = history
    BY <1>1, <1>2, <2>2, ConcatSimplifications DEF Say
  <2> HIDE DEF r
  <2> QED
    <3>1. /\ \A i \in 1..Len(r) : r[i].text \notin {"declined", "not_asked"}
          /\ ~(Len(r) > 0)
      BY <2>3
    <3>2. Transcript(history', turns') /\ Complete(history', 0) /\ Len(history') > 0
      BY <1>2, <1>7, <2>1, <2>3
    <3> QED
      BY <1>2, <1>4, <1>5, <1>6, <2>3, <3>1, <3>2, SaidStep
<1>11. ASSUME Assistants(messages) # {}
       PROVE  IInv'
  <2> DEFINE a == LatestAssistant(history)
  <2>1. /\ Assistants(history) # {} /\ a >= k /\ r = Repairs(history)
    BY <1>1, <1>8, <1>11, SameRepairs
  <2>2. /\ a \in Assistants(history)
        /\ \A q \in Assistants(history) : q <= a
    BY <1>1, <2>1, Latest
  <2>3. history[a].id[1] # 0 /\ a \in 1..Len(history)
    BY <1>1, <1>7, <2>2, MessageFacts DEF Transcript, Numbered
  <2> HIDE DEF a
  <2>4. CASE Executing
    <3>1. PICK p \in Assistants(history) :
               /\ p \in 1..Len(history) /\ history[p].id[1] = turns
               /\ \A q \in (p + 1)..Len(history) : history[q].role = "tool"
      BY <1>9, <2>4
    <3>2. a = p
      <4>1. history[a].role = "assistant" /\ p <= a
        BY <1>1, <2>2, <3>1, MessageFacts
      <4>2. a \notin (p + 1)..Len(history)
        BY <3>1, <4>1
      <4> QED
        BY <1>1, <2>3, <3>1, <4>1, <4>2
    <3>3. /\ r \in Seq(Message) /\ history \o r \in Seq(Message) /\ Grows(history, history \o r)
          /\ Assistants(history \o r) = Assistants(history)
          /\ \A i \in 1..Len(r) : r[i].text = "interrupted"
          /\ Transcript(history \o r, turns)
          /\ AllAnswered(history \o r, p)
      BY <1>1, <1>7, <2>1, <3>1, <3>2, Repaired DEF a
    <3>4. history' = history \o r
      BY <1>2 DEF Say
    <3> HIDE DEF r
    <3>5. Complete(history', turns)
      BY <1>1, <1>7, <2>4, <3>3, <3>4, StillComplete
    <3>6. Len(history') > 0 /\ history'[p] = history[p]
      BY <1>1, <1>7, <3>1, <3>3, <3>4, MessageFacts DEF Grows
    <3>7. Complete(history', 0)
      <4> SUFFICES ASSUME NEW b \in Assistants(history')
                   PROVE  StoppedIn(history', history'[b].id[1]) \/ AllAnswered(history', b)
        BY DEF Complete
      <4>1. CASE history'[b].id[1] = turns
        <5>1. b = p
          BY <3>1, <3>3, <3>4, <3>6, <4>1, OneOfTheTurn
        <5> QED
          BY <3>3, <3>4, <5>1
      <4>2. CASE history'[b].id[1] # turns
        BY <3>5, <4>2 DEF Complete
      <4> QED
        BY <4>1, <4>2
    <3> QED
      <4>1. \A i \in 1..Len(r) : r[i].text \notin {"declined", "not_asked"}
        BY <3>3
      <4>2. Transcript(history', turns') /\ Complete(history', 0) /\ Len(history') > 0
        BY <1>2, <3>3, <3>4, <3>6, <3>7
      <4> QED
        BY <1>2, <1>4, <1>5, <1>6, <1>11, <3>3, <4>1, <4>2, SaidStep
  <2>5. CASE ~Executing
    <3>1. StoppedIn(history, history[a].id[1]) \/ AllAnswered(history, a)
      BY <1>7, <2>2, <2>3, <2>5 DEF Complete
    <3>2. AllAnswered(history, a) => OpenCalls(history, a) = {}
      <4> SUFFICES ASSUME AllAnswered(history, a), NEW c \in OpenCalls(history, a) PROVE FALSE
        OBVIOUS
      <4>1. PICK q \in ResultsAt(history, a) : history[q].id = <<history[a].id[1], c>>
        BY DEF OpenCalls, AllAnswered
      <4>2. q \in (a + 1)..Len(history) /\ \A j \in (a + 1)..q : history[j].role = "tool"
        BY <4>1 DEF ResultsAt
      <4>3. q \in (a + 1)..q
        BY <1>1, <2>3, <4>2
      <4>4. Answered(history, a, <<history[a].id[1], c>>)
        BY <4>1, <4>2, <4>3 DEF Answered
      <4> QED
        BY <4>4 DEF OpenCalls
    <3>3. /\ r \in Seq(Message) /\ history \o r \in Seq(Message) /\ Grows(history, history \o r)
          /\ Assistants(history \o r) = Assistants(history)
          /\ \A i \in 1..Len(r) : r[i].text = "interrupted"
          /\ Transcript(history \o r, turns)
      BY <1>1, <1>7, <2>1, <3>1, <3>2, Repaired DEF a
    <3>4. history' = history \o r
      BY <1>2 DEF Say
    <3> HIDE DEF r
    <3>5. Complete(history', 0)
      BY <1>1, <1>7, <2>5, <3>3, <3>4, StillComplete
    <3>6. Len(history') > 0
      BY <1>1, <1>7, <3>3, <3>4, MessageFacts DEF Grows
    <3> QED
      <4>1. \A i \in 1..Len(r) : r[i].text \notin {"declined", "not_asked"}
        BY <3>3
      <4>2. Transcript(history', turns') /\ Complete(history', 0) /\ Len(history') > 0
        BY <1>2, <3>3, <3>4, <3>6, <3>5
      <4> QED
        BY <1>2, <1>4, <1>5, <1>6, <1>11, <3>3, <4>1, <4>2, SaidStep
  <2> QED
    BY <2>4, <2>5
<1> QED
  BY <1>10, <1>11

(* Nothing is said and no call is being executed.                          *)
LEMMA SilentStep ==
  ASSUME IInv, ~Executing, ~Executing', UNCHANGED <<history, saved, turns, workers, ran>>,
         ControlOK', SentOK', pc = "prompt" => pc' = "prompt"
  PROVE  IInv'
<1>1. HistoryOK'
  BY DEF IInv, HistoryOK
<1>2. SavedOK'
  BY DEF IInv, SavedOK
<1>3. ThreadsOK'
  BY DEF IInv, ThreadsOK, Executing
<1>4. DeclinedNeverRuns'
  BY DEF IInv, DeclinedNeverRuns
<1> QED
  BY <1>1, <1>2, <1>3, <1>4 DEF IInv

(* The steps of the loop that leave the lists alone.                       *)
LEMMA LoopSteps ==
  ASSUME IInv, NEW editing \in BOOLEAN,
         \/ Send \/ CompactionRaises(editing) \/ OutOfSteps
         \/ TurnFails \/ StreamBreaks \/ KeepFails
  PROVE  IInv'
<1>1. /\ pc \in {"loop", "thinking", "finished"}
      /\ pc' \in {"thinking", "crashed", "finished", "prompt"}
      /\ step' = step \/ (step' = step + 1 /\ step < MaxSteps)
      /\ UNCHANGED <<messages, history, saved, calls, current, failures, workers, ran, edited,
                     asks, turns>>
  BY DEF Send, CompactionRaises, OutOfSteps, TurnFails, StreamBreaks, KeepFails, threads
<1>2. ~Executing /\ ~Executing'
  BY <1>1 DEF Executing
<1>3. step' \in 0..MaxSteps
  BY <1>1, StateFacts DEF IInv, ControlOK
<1>4. ControlOK'
  BY <1>1, <1>2, <1>3 DEF IInv, ControlOK
<1>5. SentOK'
  BY <1>1, <1>2, SentStays DEF IInv
<1> QED
  BY <1>1, <1>2, <1>4, <1>5, SilentStep

(* The list that is sent is compacted.                                     *)
LEMMA CompactStep ==
  ASSUME IInv, NEW editing \in BOOLEAN, SendCompacted(editing)
  PROVE  IInv'
<1>1. /\ pc = "loop" /\ pc' = "thinking" /\ step' = step + 1 /\ step < MaxSteps
      /\ Len(messages) > MinMessages
      /\ messages' = IF Dropped(messages) > 0 THEN Compacted(messages) ELSE messages
      /\ UNCHANGED <<history, saved, calls, current, failures, workers, ran, edited, asks, turns>>
  BY DEF SendCompacted, threads
<1>2. ~Executing /\ ~Executing'
  BY <1>1 DEF Executing
<1>3. step' \in 0..MaxSteps
  BY <1>1, StateFacts DEF IInv, ControlOK
<1>4. ControlOK'
  BY <1>1, <1>2, <1>3 DEF IInv, ControlOK
<1>5. SentOK'
  <2>1. CASE ~(Dropped(messages) > 0)
    BY <1>1, <1>2, <2>1, SentStays DEF IInv
  <2>2. CASE Dropped(messages) > 0
    <3>1. history \in Seq(Message) /\ messages \in Seq(Message) /\ Len(history) > 0
      BY <1>1, StateFacts DEF IInv, HistoryOK
    <3>2. messages = history \/ \E k \in 2..(Len(history) + 1) : View(messages, history, k)
      <4> SUFFICES ASSUME NEW k \in 2..(Len(history) + 1), CutAt(k)
                   PROVE  View(messages, history, k)
        BY DEF IInv, SentOK
      <4>1. messages = HeadAndTail(history, k)
        BY DEF CutAt, HeadAndTail
      <4> QED
        BY <3>1, <4>1, CutIsView
    <3>3. PICK k \in 2..(Len(history) + 1) :
               /\ Compacted(messages) = HeadAndTail(history, k)
               /\ k <= Len(history) => history[k].role # "tool"
      BY <1>1, <2>2, <3>1, <3>2, CompactedView
    <3>4. CutAt(k)'
      BY <1>1, <1>2, <2>2, <3>3 DEF CutAt, HeadAndTail
    <3> QED
      BY <1>1, <3>1, <3>4 DEF SentOK
  <2> QED
    BY <2>1, <2>2
<1> QED
  BY <1>1, <1>2, <1>4, <1>5, SilentStep

(* The transcript is saved: it is complete, as nothing is being executed.  *)
LEMMA KeepStep == IInv /\ Keep => IInv'
<1> SUFFICES ASSUME IInv, Keep PROVE IInv'
  OBVIOUS
<1>1. /\ pc = "finished" /\ pc' = "prompt" /\ saved' = history
      /\ UNCHANGED <<messages, history, calls, current, step, failures, workers, ran, edited,
                     asks, turns>>
  BY DEF Keep, threads
<1>2. ~Executing /\ ~Executing'
  BY <1>1 DEF Executing
<1>3. ControlOK'
  BY <1>1, <1>2 DEF IInv, ControlOK
<1>4. SentOK'
  BY <1>1, <1>2, SentStays DEF IInv
<1>5. HistoryOK'
  BY <1>1, <1>2 DEF IInv, HistoryOK
<1>6. Grows(history, history)
  BY StateFacts DEF Grows
<1>7. SavedOK'
  BY <1>1, <1>2, <1>6 DEF IInv, HistoryOK, SavedOK
<1>8. ThreadsOK' /\ DeclinedNeverRuns'
  BY <1>1 DEF IInv, ThreadsOK, DeclinedNeverRuns
<1> QED
  BY <1>3, <1>4, <1>5, <1>7, <1>8 DEF IInv

(* The saved session is resumed: what was not saved is forgotten, and what *)
(* was refused in the saved part still never ran.                          *)
LEMMA ResumeStep == IInv /\ Resume => IInv'
<1> SUFFICES ASSUME IInv, Resume PROVE IInv'
  OBVIOUS
<1>1. /\ pc \in {"crashed", "prompt"} /\ pc' = "prompt" /\ messages' = saved /\ history' = saved
      /\ failures' = [s \in Tools |-> 0] /\ edited' = FALSE
      /\ UNCHANGED <<saved, calls, current, step, workers, ran, asks, turns>>
  BY DEF Resume
<1>2. ~Executing /\ ~Executing'
  BY <1>1 DEF Executing
<1>3. ControlOK'
  <2>1. failures' \in [Tools -> Nat] /\ edited' \in BOOLEAN
    BY <1>1
  <2> QED
    BY <1>1, <1>2, <2>1 DEF IInv, ControlOK
<1>4. HistoryOK' /\ SentOK'
  BY <1>1, <1>2 DEF IInv, SavedOK, HistoryOK, SentOK
<1>5. saved \in Seq(Message) /\ history \in Seq(Message) /\ Grows(saved, history)
  BY StateFacts DEF IInv, SavedOK
<1>6. Grows(saved, saved)
  BY <1>5, MessageFacts DEF Grows
<1>7. SavedOK'
  BY <1>1, <1>6 DEF IInv, SavedOK
<1>8. ThreadsOK'
  BY <1>1 DEF IInv, ThreadsOK
<1>9. DeclinedNeverRuns'
  <2> SUFFICES ASSUME NEW q \in Results(saved), saved[q].text \in {"declined", "not_asked"}
               PROVE  saved[q].id \notin workers \cup ran
    BY <1>1 DEF DeclinedNeverRuns
  <2>1. q \in Results(history) /\ q \in 1..Len(saved)
    BY <1>5, GrowsKeeps
  <2>2. history[q] = saved[q]
    BY <1>5, <2>1 DEF Grows
  <2> QED
    BY <2>1, <2>2 DEF IInv, DeclinedNeverRuns
<1> QED
  BY <1>3, <1>4, <1>7, <1>8, <1>9 DEF IInv

(* A thread starts for the current call, which has no result yet.          *)
LEMMA StartStep == IInv /\ Start => IInv'
<1> SUFFICES ASSUME IInv, Start PROVE IInv'
  OBVIOUS
<1>1. /\ pc = "executing" /\ pc' = "running" /\ workers' = workers \cup {CallId}
      /\ UNCHANGED <<messages, history, saved, calls, current, step, failures, ran, edited,
                     asks, turns>>
  BY DEF Start
<1>2. Executing /\ Executing'
  BY <1>1 DEF Executing
<1>3. ControlOK'
  BY <1>1, <1>2 DEF IInv, ControlOK
<1>4. SentOK'
  BY <1>1, <1>2, SentStays DEF IInv
<1>5. HistoryOK'
  <2>1. PICK p \in 1..Len(history) : CurrentAt(p)
    BY <1>2 DEF IInv, HistoryOK
  <2>2. CurrentAt(p)'
    BY <1>1, <2>1 DEF CurrentAt
  <2> QED
    BY <1>1, <1>2, <2>2 DEF IInv, HistoryOK
<1>6. SavedOK'
  BY <1>1 DEF IInv, SavedOK
<1>7. /\ turns \in Nat /\ current \in Nat /\ Len(history) \in Nat /\ history \in Seq(Message)
      /\ CallId = <<turns, current>> /\ CallId \in Ids /\ CallId[1] = turns /\ CallId[2] = current
  BY StateFacts DEF CallId, Ids
<1>8. ThreadsOK'
  <2> SUFFICES ASSUME NEW id \in workers \cup {CallId} \cup ran
               PROVE  /\ id \in Ids /\ id[1] <= turns
                      /\ id[1] = turns => id[2] <= current
    BY <1>1 DEF ThreadsOK
  <2>1. CASE id = CallId
    BY <1>7, <2>1
  <2>2. CASE id \in workers \cup ran
    <3>1. id \in Ids /\ id[1] <= turns /\ (id[1] = turns => id[2] < current)
      BY <1>1, <2>2 DEF IInv, ThreadsOK
    <3>2. id[2] \in Nat
      BY <3>1 DEF Ids
    <3> QED
      BY <1>7, <3>1, <3>2
  <2> QED
    BY <2>1, <2>2
<1>9. DeclinedNeverRuns'
  <2> SUFFICES ASSUME NEW q \in Results(history), history[q].id = CallId
               PROVE  FALSE
    BY <1>1 DEF IInv, DeclinedNeverRuns
  <2>1. PICK p \in 1..Len(history) : CurrentAt(p)
    BY <1>2 DEF IInv, HistoryOK
  <2>2. /\ p \in Assistants(history) /\ history[p].id[1] = turns
        /\ Len(history) = p + current - 1
        /\ \A j \in (p + 1)..Len(history) :
             history[j].role = "tool" /\ history[j].id = <<turns, j - p>>
    BY <2>1 DEF CurrentAt
  <2>3. Transcript(history, turns)
    BY DEF IInv, HistoryOK
  <2>4. PICK a \in Assistants(history) : Owns(history, a, q)
    BY <2>3 DEF Transcript, Owned
  <2>5. a < q /\ history[a].id[1] = turns
    BY <1>7, <2>4 DEF Owns
  <2>6. a = p
    BY <2>2, <2>3, <2>5, OneOfTheTurn
  <2>7. q \in 1..Len(history) /\ q \in (p + 1)..Len(history)
    BY <1>7, <2>1, <2>5, <2>6, MessageFacts
  <2>8. <<turns, q - p>> = <<turns, current>>
    BY <1>7, <2>2, <2>7
  <2>9. q - p = current
    BY <2>8
  <2> QED
    BY <1>7, <2>1, <2>2, <2>7, <2>9
<1> QED
  BY <1>3, <1>4, <1>5, <1>6, <1>8, <1>9 DEF IInv

(* A thread ends: it is counted with those that ran.                       *)
LEMMA WorkerStep ==
  ASSUME IInv, NEW id \in workers, WorkerEnds(id)
  PROVE  IInv'
<1>1. /\ workers' \cup ran' = workers \cup ran /\ edited' = (edited \/ Edits(id))
      /\ UNCHANGED <<messages, history, saved, pc, calls, current, step, failures, asks, turns>>
  BY DEF WorkerEnds, control
<1>2. edited' \in BOOLEAN
  BY <1>1, Zenon
<1>3. Executing' = Executing
  BY <1>1 DEF Executing
<1>4. ControlOK'
  BY <1>1, <1>2, <1>3 DEF IInv, ControlOK
<1>5. SentOK'
  BY <1>1, <1>3, SentStays DEF IInv
<1>6. HistoryOK'
  <2>1. \A p : CurrentAt(p) => CurrentAt(p)'
    BY <1>1 DEF CurrentAt
  <2> QED
    BY <1>1, <1>3, <2>1 DEF IInv, HistoryOK
<1>7. SavedOK'
  BY <1>1 DEF IInv, SavedOK
<1>8. ThreadsOK' /\ DeclinedNeverRuns'
  BY <1>1 DEF IInv, ThreadsOK, DeclinedNeverRuns
<1> QED
  BY <1>4, <1>5, <1>6, <1>7, <1>8 DEF IInv

(* A failed call is counted, and too many end the turn.                    *)
LEMMA FailureStep == IInv /\ RecordFailure => IInv'
<1> SUFFICES ASSUME IInv, RecordFailure PROVE IInv'
  OBVIOUS
<1> DEFINE tool == calls[current]
           text == IF failures[tool] + 1 >= RepeatAbort THEN "gave_up" ELSE "error"
<1>1. /\ pc = "running" /\ failures' = [failures EXCEPT ![tool] = @ + 1]
      /\ Say(<<ToolMessage(CallId, text)>>)
      /\ (pc' = "finished" /\ current' = current /\ text = "gave_up") \/ NextCall
      /\ UNCHANGED <<saved, calls, step, threads, asks, turns>>
  BY DEF RecordFailure
<1>2. Executing
  BY <1>1 DEF Executing
<1>3. failures' \in [Tools -> Nat]
  <2>1. failures \in [Tools -> Nat] /\ tool \in Tools
    BY <1>2, StateFacts DEF IInv, ControlOK
  <2>2. failures[tool] \in Nat
    BY <2>1
  <2> QED
    BY <1>1, <2>1, <2>2
<1>4. text \in {"gave_up", "error"} /\ text \in Texts
  BY DEF Texts
<1> HIDE DEF text
<1> QED
  BY <1>1, <1>2, <1>3, <1>4, ResultStep

(* Every step keeps the invariant.                                         *)
LEMMA NextIInv == IInv /\ [Next]_vars => IInv'
<1> SUFFICES ASSUME IInv, [Next]_vars PROVE IInv'
  OBVIOUS
<1>1. CASE Ask
  BY <1>1, AskStep
<1>2. CASE Send \/ OutOfSteps \/ TurnFails \/ StreamBreaks \/ KeepFails
  BY <1>2, LoopSteps
<1>3. ASSUME NEW editing \in BOOLEAN, SendCompacted(editing) \/ CompactionRaises(editing)
      PROVE  IInv'
  BY <1>3, LoopSteps, CompactStep
<1>4. ASSUME NEW cs \in CallLists, TurnWithCalls(cs) PROVE IInv'
  BY <1>4, CallsStep
<1>5. ASSUME NEW retried \in BOOLEAN, TurnWithoutCalls(retried) PROVE IInv'
  BY <1>5, AnswerStep
<1>6. failures \in [Tools -> Nat]
  BY DEF IInv, ControlOK
<1>7. CASE Decline
  <2>1. /\ Executing /\ pc = "executing" /\ Say(<<ToolMessage(CallId, "declined")>>) /\ NextCall
        /\ failures' = failures
        /\ UNCHANGED <<saved, calls, step, threads, asks, turns>>
    BY <1>7 DEF Decline, Executing
  <2>2. "declined" \in Texts
    BY DEF Texts
  <2> QED
    BY <1>6, <2>1, <2>2, ResultStep
<1>8. CASE CannotAsk
  <2>1. /\ Executing /\ pc = "executing" /\ Say(<<ToolMessage(CallId, "not_asked")>>)
        /\ pc' = "finished" /\ current' = current /\ failures' = failures
        /\ UNCHANGED <<saved, calls, step, threads, asks, turns>>
    BY <1>8 DEF CannotAsk, Executing
  <2>2. "not_asked" \in Texts
    BY DEF Texts
  <2> QED
    BY <1>6, <2>1, <2>2, ResultStep
<1>9. CASE RecordSuccess
  <2>1. /\ Executing /\ Say(<<ToolMessage(CallId, "ok")>>) /\ NextCall
        /\ failures' = failures
        /\ UNCHANGED <<saved, calls, step, threads, asks, turns>>
    BY <1>9 DEF RecordSuccess, Executing
  <2>2. "ok" \in Texts
    BY DEF Texts
  <2> QED
    BY <1>6, <2>1, <2>2, ResultStep
<1>10. CASE RecordFailure
  BY <1>10, FailureStep
<1>11. CASE Start
  BY <1>11, StartStep
<1>12. CASE Keep
  BY <1>12, KeepStep
<1>13. CASE Resume
  BY <1>13, ResumeStep
<1>14. ASSUME NEW queued \in BOOLEAN, Cancel(queued) PROVE IInv'
  BY <1>14, CancelStep
<1>15. ASSUME NEW id \in workers, WorkerEnds(id) PROVE IInv'
  BY <1>15, WorkerStep
<1>16. CASE UNCHANGED vars
  <2>1. UNCHANGED <<messages, history, saved, pc, calls, current, step, failures,
                    workers, ran, edited, asks, turns>>
    BY <1>16 DEF vars, control, threads
  <2>2. Executing' = Executing /\ \A p : CurrentAt(p)' = CurrentAt(p)
    BY <2>1 DEF Executing, CurrentAt
  <2>3. ControlOK' /\ HistoryOK' /\ SavedOK' /\ ThreadsOK' /\ DeclinedNeverRuns'
    BY <2>1, <2>2 DEF IInv, ControlOK, HistoryOK, SavedOK, ThreadsOK, DeclinedNeverRuns
  <2>4. SentOK'
    BY <2>1, <2>2, SentStays DEF IInv
  <2> QED
    BY <2>3, <2>4 DEF IInv
<1> QED
  BY <1>1, <1>2, <1>3, <1>4, <1>5, <1>7, <1>8, <1>9, <1>10, <1>11, <1>12, <1>13, <1>14, <1>15,
     <1>16 DEF Next, Turn

(* The invariant holds in every reachable state.                           *)
LEMMA InductiveInvariant == Spec => []IInv
  BY InitIInv, NextIInv, PTL DEF Spec

-----------------------------------------------------------------------------
(* Every variable stays in its type and the turn within its bounds: the    *)
(* call being executed is one of the turn's, and no loop passes its limit. *)
THEOREM TypeCorrect == Spec => []TypeOK
<1>1. IInv => TypeOK
  <2> SUFFICES ASSUME IInv PROVE TypeOK
    OBVIOUS
  <2>1. history \in Seq(Message) /\ saved \in Seq(Message) /\ messages \in Seq(Message)
        /\ calls \in Seq(Tools)
    BY StateFacts
  <2>2. workers \subseteq Ids /\ ran \subseteq Ids
    BY DEF IInv, ThreadsOK
  <2>3. pc \in {"executing", "running"} => current \in DOMAIN calls
    BY StateFacts DEF Executing
  <2> QED
    BY <2>1, <2>2, <2>3 DEF IInv, ControlOK, TypeOK
<1> QED
  BY <1>1, InductiveInvariant, PTL

(* A complete transcript whose end is sent with no result at its head: in  *)
(* what is sent, every call of a turn that was not abandoned has its one   *)
(* result right behind it.                                                 *)
LEMMA SentIsAnswered ==
  ASSUME NEW h, NEW t, Transcript(h, t), Complete(h, 0),
         NEW m \in Seq(Message), NEW k, NEW d, Ends(m, h, k, d),
         k <= Len(h) => h[k].role # "tool"
  PROVE  /\ \A p \in Assistants(m) : StoppedIn(h, m[p].id[1]) \/ CallsAnswered(m, p)
         /\ \A q \in Results(m) : StoppedIn(h, m[q].id[1]) \/ ResultAttached(m, q)
<1>1. h \in Seq(Message)
  BY DEF Transcript
<1>2. /\ Len(m) \in Nat /\ Len(h) \in Nat /\ Len(m) = Len(h) - d
      /\ k \in Int /\ d \in Int /\ k >= 1 /\ k - d >= 1 /\ k <= Len(h) + 1
  BY <1>1, MessageFacts DEF Ends
<1>3. /\ \A p \in 1..Len(h) : p >= k => (p \in Assistants(h) <=> p - d \in Assistants(m))
      /\ \A q \in 1..Len(h) : q >= k => (q \in Results(h) <=> q - d \in Results(m))
      /\ \A i \in Assistants(m) \cup Results(m) : i + d \in k..Len(h)
  BY <1>1, EndsAlike
<1>4. \A i \in Assistants(m) \cup Results(m) :
        i \in Int /\ i + d \in 1..Len(h) /\ i + d >= k /\ (i + d) - d = i
  <2> TAKE i \in Assistants(m) \cup Results(m)
  <2>1. i \in Int
    BY <1>2, MessageFacts
  <2> QED
    BY <1>2, <1>3, <2>1
<1>5. \A q \in 1..Len(h) : q >= k => m[q - d] = h[q]
  <2> TAKE q \in 1..Len(h)
  <2> HAVE q >= k
  <2>1. q \in k..Len(h)
    BY <1>2
  <2> QED
    BY <2>1 DEF Ends
<1>6. ASSUME NEW p \in Assistants(m), ~StoppedIn(h, m[p].id[1])
      PROVE  CallsAnswered(m, p)
  <2> DEFINE a == p + d
  <2>1. a \in 1..Len(h) /\ a >= k /\ a - d = p /\ p \in Int
    BY <1>4, <1>6
  <2> HIDE DEF a
  <2>2. a \in Assistants(h)
    BY <1>3, <1>6, <2>1
  <2>3. /\ m[p] = h[a]
        /\ \A q \in Int : q \in ResultsAt(h, a) <=> q - d \in ResultsAt(m, p)
    BY <1>1, <2>1, <2>2, SameResults
  <2>4. AllAnswered(h, a)
    <3>1. h[a].id[1] # 0
      BY <2>2 DEF Transcript, Numbered
    <3> QED
      BY <1>6, <2>2, <2>3, <3>1 DEF Complete
  <2>5. ASSUME NEW q \in ResultsAt(m, p)
        PROVE  /\ q + d \in ResultsAt(h, a) /\ m[q] = h[q + d] /\ q + d \in Results(h)
               /\ q \in Int
    <3>1. q \in (p + 1)..Len(m)
      BY DEF ResultsAt
    <3>2. q \in Int /\ q + d \in Int /\ (q + d) - d = q
      BY <1>2, <2>1, <3>1
    <3>3. q + d \in ResultsAt(h, a)
      BY <2>3, <2>5, <3>2
    <3>4. q + d \in (a + 1)..Len(h) /\ \A j \in (a + 1)..(q + d) : h[j].role = "tool"
      BY <3>3 DEF ResultsAt
    <3>5. q + d \in (a + 1)..(q + d) /\ q + d \in 1..Len(h) /\ q + d >= k
      BY <1>2, <2>1, <3>2, <3>4
    <3>6. m[(q + d) - d] = h[q + d]
      BY <1>5, <3>5
    <3>7. q + d \in Results(h)
      BY <1>1, <3>4, <3>5, MessageFacts
    <3> QED
      BY <3>2, <3>3, <3>6, <3>7
  <2>6. ASSUME NEW i \in DOMAIN m[p].calls
        PROVE  Cardinality({q \in ResultsAt(m, p) : m[q].id = <<m[p].id[1], i>>}) = 1
    <3>1. PICK r \in ResultsAt(h, a) : h[r].id = <<h[a].id[1], i>>
      BY <2>3, <2>4, <2>6 DEF AllAnswered
    <3>2. r \in (a + 1)..Len(h) /\ \A j \in (a + 1)..r : h[j].role = "tool"
      BY <3>1 DEF ResultsAt
    <3>3. r \in Int /\ r \in 1..Len(h) /\ r >= k /\ (r - d) + d = r
      BY <1>2, <2>1, <3>2
    <3>4. r - d \in ResultsAt(m, p) /\ m[r - d] = h[r]
      BY <1>5, <2>3, <3>1, <3>3
    <3>5. r \in Results(h)
      <4>1. r - d \in ResultsAt(m, p) => (r - d) + d \in Results(h)
        BY <2>5
      <4> QED
        BY <3>3, <3>4, <4>1
    <3>6. ASSUME NEW q \in ResultsAt(m, p), m[q].id = <<m[p].id[1], i>>
          PROVE  q = r - d
      <4>1. q + d \in Results(h) /\ h[q + d].id = h[r].id /\ q \in Int
        BY <2>3, <2>5, <3>1, <3>6
      <4>2. q + d = r
        BY <3>5, <4>1 DEF Transcript, Once
      <4> QED
        BY <1>2, <3>3, <4>1, <4>2
    <3>7. {q \in ResultsAt(m, p) : m[q].id = <<m[p].id[1], i>>} = {r - d}
      BY <2>3, <3>1, <3>4, <3>6
    <3> QED
      BY <3>7, FS_Singleton, Zenon
  <2>7. ASSUME NEW q \in ResultsAt(m, p)
        PROVE  m[q].id[1] = m[p].id[1] /\ m[q].id[2] \in DOMAIN m[p].calls
    <3>1. /\ q + d \in ResultsAt(h, a) /\ m[q] = h[q + d] /\ q + d \in Results(h)
      BY <2>5
    <3>2. q + d \in (a + 1)..Len(h) /\ \A j \in (a + 1)..(q + d) : h[j].role = "tool"
      BY <3>1 DEF ResultsAt
    <3>3. PICK b \in Assistants(h) : Owns(h, b, q + d)
      BY <3>1 DEF Transcript, Owned
    <3>4. /\ b < q + d /\ h[q + d].id[1] = h[b].id[1] /\ h[q + d].id[2] \in DOMAIN h[b].calls
          /\ \A j \in (b + 1)..(q + d) : h[j].role # "assistant"
      BY <3>3 DEF Owns
    <3>5. b \in 1..Len(h) /\ h[b].role = "assistant" /\ h[a].role = "assistant"
      BY <1>1, <2>2, <3>3, MessageFacts
    <3>6. b \notin (a + 1)..(q + d) /\ a \notin (b + 1)..(q + d)
      BY <3>2, <3>4, <3>5
    <3>7. a = b
      <4>1. q + d \in Int /\ a <= q + d
        BY <1>2, <2>1, <3>2
      <4>2. \A x \in Int : a \in Int /\ b \in Int /\ x \in Int /\ a <= x /\ b < x
              /\ b \notin (a + 1)..x /\ a \notin (b + 1)..x => a = b
        OBVIOUS
      <4> QED
        BY <2>1, <3>4, <3>5, <3>6, <4>1, <4>2
    <3> QED
      BY <2>3, <3>1, <3>4, <3>7
  <2> QED
    BY <2>6, <2>7 DEF CallsAnswered
<1>7. ASSUME NEW q \in Results(m), ~StoppedIn(h, m[q].id[1])
      PROVE  ResultAttached(m, q)
  <2> DEFINE r == q + d
  <2>1. r \in 1..Len(h) /\ r >= k /\ r - d = q /\ q \in Int
    BY <1>4, <1>7
  <2> HIDE DEF r
  <2>2. r \in Results(h) /\ m[q] = h[r]
    BY <1>3, <1>5, <1>7, <2>1
  <2>3. PICK a \in Assistants(h) : r \in ResultsAt(h, a)
    BY <1>7, <2>2 DEF Transcript, Attached, ResultAttached
  <2>4. /\ a \in 1..Len(h) /\ r \in (a + 1)..Len(h)
        /\ \A j \in (a + 1)..r : h[j].role = "tool"
    BY <1>1, <2>3, MessageFacts DEF ResultsAt
  <2>5. a >= k
    <3> SUFFICES ASSUME ~(a >= k) PROVE FALSE
      OBVIOUS
    <3>1. k \in (a + 1)..r /\ k <= Len(h)
      BY <1>2, <2>1, <2>4
    <3> QED
      BY <2>4, <3>1
  <2>6. a - d \in Assistants(m)
    BY <1>3, <2>3, <2>4, <2>5
  <2>7. q \in ResultsAt(m, a - d)
    <3>1. \A x \in Int : x \in ResultsAt(h, a) <=> x - d \in ResultsAt(m, a - d)
      BY <1>1, <2>3, <2>5, SameResults
    <3> QED
      BY <2>1, <2>3, <3>1
  <2> QED
    BY <2>6, <2>7 DEF ResultAttached
<1> QED
  BY <1>6, <1>7

(* Every request the agent sends answers each call of each turn once,      *)
(* right behind it, whatever was interrupted, declined, compacted, lost in *)
(* a crash or resumed before; only a turn that _execute abandoned may be   *)
(* left open.                                                              *)
THEOREM RequestsAreWellFormed == Spec => []OnlyStoppedTurnsAreOpen
<1>1. IInv => OnlyStoppedTurnsAreOpen
  <2> SUFFICES ASSUME IInv, pc = "thinking"
               PROVE  /\ \A p \in Assistants(messages) :
                           Stopped(messages[p].id[1]) \/ CallsAnswered(messages, p)
                      /\ \A q \in Results(messages) :
                           Stopped(messages[q].id[1]) \/ ResultAttached(messages, q)
    BY DEF OnlyStoppedTurnsAreOpen
  <2>1. Transcript(history, turns) /\ Complete(history, 0)
    BY DEF IInv, HistoryOK, Executing
  <2>2. messages \in Seq(Message)
    BY StateFacts
  <2>3. PICK k, d : Ends(messages, history, k, d) /\ (k <= Len(history) => history[k].role # "tool")
    BY SentEnds DEF IInv
  <2>4. \A x : StoppedIn(history, x) <=> Stopped(x)
    BY DEF StoppedIn, Stopped
  <2>5. /\ \A p \in Assistants(messages) :
             StoppedIn(history, messages[p].id[1]) \/ CallsAnswered(messages, p)
        /\ \A q \in Results(messages) :
             StoppedIn(history, messages[q].id[1]) \/ ResultAttached(messages, q)
    BY <2>1, <2>2, <2>3, SentIsAnswered
  <2> QED
    BY <2>4, <2>5
<1> QED
  BY <1>1, InductiveInvariant, PTL

(* No call is answered twice, however often a turn was interrupted and its *)
(* open calls closed by repair_after_cancel.                               *)
THEOREM NoSecondAnswer == Spec => []OneResultPerCall
<1>1. IInv => OneResultPerCall
  BY DEF IInv, HistoryOK, Transcript, Once, OneResultPerCall
<1> QED
  BY <1>1, InductiveInvariant, PTL

(* What is sent is all that was said, or its first message, one note and   *)
(* its end: compacting again does not pile up notes or lose the head.      *)
THEOREM SentFromHistory == Spec => []SentIsHeadAndTail
<1>1. IInv => SentIsHeadAndTail
  BY DEF IInv, SentOK, CutAt, SentIsHeadAndTail
<1> QED
  BY <1>1, InductiveInvariant, PTL

(* What the user declined, or could not be asked about, has no thread and  *)
(* never had one.                                                          *)
THEOREM RefusalHolds == Spec => []DeclinedNeverRuns
<1>1. IInv => DeclinedNeverRuns
  BY DEF IInv
<1> QED
  BY <1>1, InductiveInvariant, PTL

(* The session file only ever grows: no save takes back what an earlier    *)
(* one kept, though the list that is sent is trimmed.                      *)
THEOREM SavesOnlyAdd == Spec => SavedOnlyGrows
<1> DEFINE Step == /\ Len(saved) <= Len(saved')
                   /\ SubSeq(saved', 1, Len(saved)) = saved
<1>1. ASSUME IInv, [Next]_vars PROVE [Step]_vars
  <2>1. saved \in Seq(Message) /\ history \in Seq(Message) /\ Grows(saved, history)
    BY <1>1, StateFacts DEF IInv, SavedOK
  <2>2. saved' = saved \/ saved' = history
    BY <1>1 DEF Next, Turn, vars, Ask, Send, SendCompacted, CompactionRaises, OutOfSteps,
         TurnWithCalls, TurnWithoutCalls, TurnFails, StreamBreaks, Decline, CannotAsk, Start,
         RecordSuccess, RecordFailure, Keep, KeepFails, Resume, Cancel, WorkerEnds
  <2>3. Len(saved) \in Nat
    BY <2>1
  <2>4. saved' \in Seq(Message) /\ Grows(saved, saved')
    BY <2>1, <2>2, <2>3 DEF Grows
  <2> DEFINE s == SubSeq(saved', 1, Len(saved))
  <2>5. s \in Seq(Message) /\ Len(s) = Len(saved) /\ \A i \in 1..Len(saved) : s[i] = saved[i]
    <3>1. \A i \in 1..Len(saved) : i \in 1..Len(saved') /\ saved'[i] \in Message
      BY <2>3, <2>4, MessageFacts DEF Grows
    <3>2. /\ s \in Seq(Message)
          /\ Len(s) = IF 1 <= Len(saved) THEN Len(saved) - 1 + 1 ELSE 0
          /\ \A i \in 1..(Len(saved) - 1 + 1) : s[i] = saved'[1 + i - 1]
      BY <2>3, <3>1, SubSeqProperties
    <3>3. Len(s) = Len(saved)
      BY <2>3, <3>2
    <3>4. \A i \in 1..Len(saved) : i \in 1..(Len(saved) - 1 + 1) /\ 1 + i - 1 = i
      BY <2>3
    <3>5. \A i \in 1..Len(saved) : s[i] = saved'[i]
      BY <3>2, <3>4
    <3> QED
      BY <2>4, <3>2, <3>3, <3>5 DEF Grows
  <2> HIDE DEF s
  <2>6. s = saved
    BY <2>1, <2>5, SeqEqual
  <2> QED
    BY <2>4, <2>6 DEF Grows, s
<1>2. IInv /\ [Next]_vars => [Step]_vars
  BY <1>1
<1> QED
  BY <1>2, InductiveInvariant, PTL DEF Spec, SavedOnlyGrows

(***************************************************************************)
(* Where the calls come from: the client's streamed turn, ToolCallStream,  *)
(* for any reply of any number of calls in any number of pieces, any       *)
(* interleaving and any end.                                               *)
(***************************************************************************)

(* Text in pieces, and what has been put together at one index.            *)
Pieced == Seq(Nat \X Nat)

Partials == [id : {None} \cup ({"id"} \X Nat), name : Pieced, arguments : Pieced]

StreamTypes ==
  /\ StreamShape
  /\ reply \in Seq(Calls)
  /\ sent \in [DOMAIN reply -> Nat]
  /\ partials \in [DOMAIN partials -> Partials]
  /\ \A k \in DOMAIN partials : k \in Nat /\ k + 1 \in DOMAIN reply

(* An id comes with the first piece of its call, and so to one index.      *)
IdsOK ==
  /\ \A k \in DOMAIN partials : \/ partials[k].id = None
                                \/ \E i \in DOMAIN reply : partials[k].id = <<"id", i>> /\ sent[i] > 0
  /\ \A j, k \in DOMAIN partials : partials[j].id = partials[k].id => j = k \/ partials[k].id = None

(* Of an isolated call, what there is at its index is what was sent.       *)
Upto(n, m) == IF n <= m THEN n ELSE m

InStep(i) ==
  /\ i - 1 \in DOMAIN partials <=> sent[i] > 0
  /\ sent[i] > 0 =>
       /\ partials[i - 1].name = Text(i, 1, Upto(sent[i], reply[i].name))
       /\ partials[i - 1].arguments = Text(i, reply[i].name + 1, sent[i])

(* Only pieces that lost their index are at another call's.                *)
Placed ==
  \A k \in DOMAIN partials : \A n \in DOMAIN partials[k].name :
    /\ partials[k].name[n][1] \in DOMAIN reply
    /\ partials[k].name[n][1] = k + 1 \/ reply[partials[k].name[n][1]].faulty

(* What _finalise makes of the indexes.                                    *)
Good == {k \in DOMAIN partials : Defect(k, parsed[k]) = None}

Bad == {k \in DOMAIN partials : Defect(k, parsed[k]) # None}

Runs == [j \in DOMAIN sorted(Good) |->
           [id |-> IdAt(sorted(Good)[j]),
            name |-> partials[sorted(Good)[j]].name,
            arguments |-> partials[sorted(Good)[j]].arguments]]

Notes == [j \in DOMAIN sorted(Bad) |->
            <<sorted(Bad)[j], Defect(sorted(Bad)[j], parsed[sorted(Bad)[j]])>>]

(* The inductive invariant: the stream so far, and what came of it.        *)
StreamInv ==
  /\ StreamTypes
  /\ IdsOK
  /\ Placed
  /\ \A i \in DOMAIN reply : Isolated(i) => InStep(i)
  /\ finish = "tool_calls" => \A i \in DOMAIN reply : sent[i] = Pieces(i)
  /\ \A i \in DOMAIN reply : sent[i] <= Pieces(i)
  /\ stage \in {"streaming", "done"}
  /\ stage = "streaming" => tool_calls = <<>>
  /\ stage = "done" =>
       /\ \A k \in DOMAIN partials : parsed[k] \in Readings(partials[k].arguments)
       /\ tool_calls = Runs
       /\ malformed \in {Notes, Notes \o <<<<-1, "leaked">>>>}

(* The pieces from one place to another: their type and number, ...        *)
LEMMA TextFacts ==
  ASSUME NEW i \in Nat, NEW from \in Nat, NEW to \in Nat, from > 0
  PROVE  /\ Text(i, from, to) \in Pieced
         /\ to < from => Text(i, from, to) = <<>>
         /\ from <= to + 1 => Len(Text(i, from, to)) = to - from + 1
         /\ from <= to + 1 => Text(i, from, to) \o <<<<i, to + 1>>>> = Text(i, from, to + 1)
<1> DEFINE t == Text(i, from, to)
           u == Text(i, from, to + 1)
           n == IF from <= to + 1 THEN to - from + 1 ELSE 0
<1>1. n \in Nat /\ t = [k \in 1..n |-> <<i, from + k - 1>>]
  <2>1. 1..(to - from + 1) = 1..n
    OBVIOUS
  <2> QED
    BY <2>1 DEF Text
<1>2. t \in Pieced /\ Len(t) = n
  <2>1. \A k \in 1..n : <<i, from + k - 1>> \in Nat \X Nat
    BY <1>1
  <2> HIDE DEF n, t
  <2> QED
    BY <1>1, <2>1 DEF Pieced
<1>3. to < from => t = <<>>
  <2> SUFFICES ASSUME to < from PROVE t = <<>>
    OBVIOUS
  <2>1. Len(t) = 0
    BY <1>2
  <2> HIDE DEF t
  <2> QED
    BY <1>2, <2>1, EmptySeq DEF Pieced
<1>4. from <= to + 1 => t \o <<<<i, to + 1>>>> = u
  <2> SUFFICES ASSUME from <= to + 1 PROVE t \o <<<<i, to + 1>>>> = u
    OBVIOUS
  <2>1. n = to - from + 1 /\ u = [k \in 1..(n + 1) |-> <<i, from + k - 1>>]
    BY DEF Text
  <2> HIDE DEF n, t, u
  <2>2. <<i, to + 1>> = <<i, from + (n + 1) - 1>>
    BY <2>1, <1>1
  <2>3. Append(t, <<i, to + 1>>) = u
    BY <1>1, <1>2, <2>1, <2>2 DEF Pieced
  <2>4. <<i, to + 1>> \in Nat \X Nat
    OBVIOUS
  <2> QED
    BY <1>2, <2>3, <2>4, AppendIsConcat DEF Pieced
<1> QED
  BY <1>1, <1>2, <1>3, <1>4

(* ... that there are none, and ...                                        *)
LEMMA NoText ==
  ASSUME NEW i \in Nat, NEW from \in Nat, NEW to \in Nat, to < from
  PROVE  Text(i, from, to) = <<>>
<1>1. from > 0
  OBVIOUS
<1> QED
  BY <1>1, TextFacts, Zenon

(* ... the one that comes next.                                            *)
LEMMA MoreText ==
  ASSUME NEW i \in Nat, NEW from \in Nat, NEW to \in Nat, from > 0, from <= to + 1
  PROVE  Text(i, from, to) \o <<<<i, to + 1>>>> = Text(i, from, to + 1)
BY TextFacts, Zenon

-----------------------------------------------------------------------------
(* Lists in order.                                                         *)

IsListing(s, S) == s \in [1..Cardinality(S) -> S] /\ Increasing(s)

(* s has every member of S once, in order.                                 *)
HasEach(s, S) ==
  /\ Cardinality(S) \in Nat
  /\ \A i \in 1..Cardinality(S) : s[i] \in S /\ s[i] \in Nat
  /\ \A i, j \in 1..Cardinality(S) : i < j => s[i] < s[j]
  /\ \A i, j \in 1..Cardinality(S) : s[i] = s[j] => i = j
  /\ \A x \in S : \E i \in 1..Cardinality(S) : s[i] = x

(* A listing does: it is an injection between sets of one size.            *)
LEMMA ListingReaches ==
  ASSUME NEW n \in Nat, NEW S \in SUBSET (0..n), NEW s, IsListing(s, S)
  PROVE  HasEach(s, S)
<1> DEFINE c == Cardinality(S)
<1>1. IsFiniteSet(S) /\ c \in Nat
  <2>1. IsFiniteSet(0..n)
    BY FS_Interval
  <2> QED
    BY <2>1, FS_Subset, FS_CardinalityType, Zenon
<1>2. s \in [1..c -> S] /\ \A i, j \in 1..c : i < j => s[i] < s[j]
  BY DEF IsListing, Increasing
<1> HIDE DEF c
<1>3. \A i \in 1..c : s[i] \in S /\ s[i] \in Nat
  <2>1. 0..n \subseteq Nat
    OBVIOUS
  <2> QED
    BY <1>2, <2>1, Zenon
<1>4. \A i, j \in 1..c : s[i] = s[j] => i = j
  <2> SUFFICES ASSUME NEW i \in 1..c, NEW j \in 1..c, s[i] = s[j], i # j PROVE FALSE
    OBVIOUS
  <2>1. i < j \/ j < i
    BY <1>1
  <2> QED
    BY <1>2, <1>3, <2>1
<1>5. Cardinality(1..c) = c
  <2>1. Cardinality(1..c) = IF 1 > c THEN 0 ELSE c - 1 + 1
    BY <1>1, FS_Interval
  <2> QED
    BY <1>1, <2>1
<1>6. s \in Injection(1..c, S)
  BY <1>2, <1>4 DEF Injection, IsInjective
<1>7. s \in Surjection(1..c, S)
  BY <1>1, <1>5, <1>6, FS_Injection, Zenon DEF c
<1>8. \A x \in S : \E i \in 1..c : s[i] = x
  BY <1>7 DEF Surjection
<1> QED
  BY <1>1, <1>2, <1>3, <1>4, <1>8 DEF c, HasEach

(* So where two listings first differ, what the smaller one has there is   *)
(* nowhere in the other: there is one listing.                             *)
LEMMA OneListing ==
  ASSUME NEW n \in Nat, NEW S \in SUBSET (0..n),
         NEW s, IsListing(s, S), NEW t, IsListing(t, S)
  PROVE  s = t
<1> DEFINE c == Cardinality(S)
           apart == {i \in 1..c : s[i] # t[i]}
<1>1. /\ c \in Nat
      /\ \A i \in 1..c : s[i] \in Nat /\ t[i] \in Nat /\ s[i] \in S /\ t[i] \in S
      /\ \A i, j \in 1..c : i < j => s[i] < s[j] /\ t[i] < t[j]
      /\ \A x \in S : (\E i \in 1..c : s[i] = x) /\ (\E i \in 1..c : t[i] = x)
  <2>1. HasEach(s, S) /\ HasEach(t, S)
    BY ListingReaches, Zenon
  <2> QED
    BY <2>1 DEF HasEach
<1>2. s \in [1..c -> S] /\ t \in [1..c -> S]
  BY DEF IsListing
<1> HIDE DEF c
<1>3. apart = {}
  <2> SUFFICES ASSUME apart # {} PROVE FALSE
    OBVIOUS
  <2>1. PICK i \in apart : \A j \in apart : i <= j
    <3>1. apart \in SUBSET Nat
      BY <1>1
    <3> QED
      BY <3>1, LeastNumber
  <2>2. i \in 1..c /\ s[i] # t[i] /\ \A j \in 1..c : j < i => s[j] = t[j]
    BY <1>1, <2>1
  <2>3. CASE s[i] < t[i]
    <3>1. PICK j \in 1..c : t[j] = s[i]
      BY <1>1, <2>2
    <3>2. j < i \/ i = j \/ i < j
      BY <1>1, <2>2, <3>1
    <3> QED
      BY <1>1, <2>2, <2>3, <3>1, <3>2
  <2>4. CASE t[i] < s[i]
    <3>1. PICK j \in 1..c : s[j] = t[i]
      BY <1>1, <2>2
    <3>2. j < i \/ i = j \/ i < j
      BY <1>1, <2>2, <3>1
    <3> QED
      BY <1>1, <2>2, <2>4, <3>1, <3>2
  <2>5. s[i] < t[i] \/ t[i] < s[i]
    BY <1>1, <2>2
  <2> QED
    BY <2>3, <2>4, <2>5
<1>4. \A i \in 1..c : s[i] = t[i]
  BY <1>3
<1>5. s = [i \in 1..c |-> s[i]] /\ t = [i \in 1..c |-> t[i]]
  BY <1>2, Zenon
<1>6. [i \in 1..c |-> s[i]] = [i \in 1..c |-> t[i]]
  BY <1>4, Zenon
<1> QED
  BY <1>5, <1>6, Zenon

(* The indexes of the partial calls are their places in the reply, less 1. *)
LEMMA ShiftedListing ==
  ASSUME NEW n \in Nat, NEW S \in SUBSET (0..n)
  PROVE  /\ IsFiniteSet(S)
         /\ IsListing(Enumerated(S), S)
         /\ Enumerated({k + 1 : k \in S})
              = [j \in 1..Cardinality(S) |-> Enumerated(S)[j] + 1]
<1> DEFINE T == {k + 1 : k \in S}
           c == Cardinality(S)
<1>1. S \subseteq Nat /\ T \in SUBSET (1..(n + 1)) /\ T \in SUBSET (0..(n + 1)) /\ n + 1 \in Nat
  OBVIOUS
<1>2. IsFiniteSet(S) /\ IsFiniteSet(T) /\ c \in Nat
  <2>1. IsFiniteSet(0..n) /\ IsFiniteSet(1..(n + 1))
    BY FS_Interval
  <2> QED
    BY <1>1, <2>1, FS_Subset, FS_CardinalityType, Zenon
<1>3. Cardinality(T) = c
  <2> DEFINE f == [k \in S |-> k + 1]
  <2>1. f \in Bijection(S, T)
    BY <1>1 DEF Bijection, Injection, Surjection, IsInjective
  <2>2. ExistsBijection(S, T)
    BY <2>1 DEF ExistsBijection
  <2> HIDE DEF T
  <2> QED
    BY <1>2, <2>2, FS_Bijection, FS_CardinalityType
<1> HIDE DEF c
<1>4. PICK t \in [1..c -> T] : Increasing(t)
  BY <1>1, <1>3, Listing
<1>5. \A i \in 1..c : t[i] \in Nat /\ t[i] - 1 \in S /\ t[i] = (t[i] - 1) + 1
  <2> SUFFICES ASSUME NEW i \in 1..c
               PROVE  t[i] \in Nat /\ t[i] - 1 \in S /\ t[i] = (t[i] - 1) + 1
    OBVIOUS
  <2>1. PICK k \in S : t[i] = k + 1
    BY <1>4
  <2> QED
    BY <1>1, <2>1
<1> DEFINE u == [i \in 1..c |-> t[i] - 1]
<1>6. IsListing(u, S)
  <2>1. u \in [1..c -> S]
    BY <1>5
  <2>2. \A i, j \in 1..c : i < j => u[i] < u[j]
    BY <1>4, <1>5 DEF Increasing
  <2> QED
    BY <2>1, <2>2 DEF IsListing, Increasing, c
<1> DEFINE s == Enumerated(S)
           r == Enumerated(T)
           z == [j \in 1..c |-> s[j] + 1]
<1>7. IsListing(s, S)
  <2>1. s = CHOOSE q \in [1..Cardinality(S) -> S] : Increasing(q)
    BY Zenon DEF Enumerated, Increasing
  <2>2. \E q \in [1..Cardinality(S) -> S] : Increasing(q)
    BY <1>6 DEF IsListing
  <2> QED
    BY <2>1, <2>2, Zenon DEF IsListing
<1>8. IsListing(r, T)
  <2>1. r = CHOOSE q \in [1..Cardinality(T) -> T] : Increasing(q)
    BY Zenon DEF Enumerated, Increasing
  <2>2. \E q \in [1..Cardinality(T) -> T] : Increasing(q)
    BY <1>1, Listing
  <2> QED
    BY <2>1, <2>2, Zenon DEF IsListing
<1>9. \A i \in 1..c : s[i] \in S /\ s[i] \in Nat
  <2> HIDE DEF s
  <2>1. HasEach(s, S)
    BY <1>7, ListingReaches, Zenon
  <2> QED
    BY <2>1 DEF c, HasEach
<1>10. IsListing(z, T)
  <2> HIDE DEF s
  <2>1. z \in [1..c -> T]
    BY <1>9
  <2>2. \A i, j \in 1..c : i < j => s[i] < s[j]
    BY <1>7 DEF IsListing, Increasing, c
  <2>3. \A i, j \in 1..c : i < j => z[i] < z[j]
    BY <2>2, <1>9
  <2> QED
    BY <1>3, <2>1, <2>3 DEF IsListing, Increasing
<1> HIDE DEF T, s, r, z
<1>11. r = z
  BY <1>1, <1>8, <1>10, OneListing
<1> QED
  BY <1>2, <1>7, <1>11 DEF T, s, r, z, c

-----------------------------------------------------------------------------
(* Every step of the stream preserves StreamInv.                           *)

(* Before the first event nothing is put together.                         *)
LEMMA StreamStarts == StreamShape /\ StreamInit => StreamInv
<1> SUFFICES ASSUME StreamShape, StreamInit PROVE StreamInv
  OBVIOUS
<1>1. reply \in Seq(Calls)
  BY DEF StreamInit, StreamShape
<1>2. DOMAIN partials = {} /\ partials = [k \in {} |-> Empty]
  BY DEF StreamInit
<1>3. StreamTypes
  BY <1>1, <1>2 DEF StreamTypes, StreamInit
<1>31. IdsOK /\ Placed
  BY <1>2 DEF IdsOK, Placed
<1>4. \A i \in DOMAIN reply : sent[i] = 0 /\ Pieces(i) \in Nat
  <2>1. \A i \in DOMAIN reply : reply[i] \in Calls
    BY <1>1
  <2> QED
    BY <2>1 DEF StreamInit, Pieces, Calls
<1>5. \A i \in DOMAIN reply : InStep(i)
  BY <1>2, <1>4 DEF InStep
<1>6. finish # "tool_calls" /\ stage = "streaming" /\ tool_calls = <<>>
  BY DEF StreamInit, StreamShape
<1> QED
  BY <1>3, <1>31, <1>4, <1>5, <1>6 DEF StreamInv

(* The calls of a reply, and how far they have been sent.                  *)
LEMMA ReplyFacts ==
  ASSUME StreamInv
  PROVE  /\ reply \in Seq(Calls) /\ Len(reply) \in Nat /\ DOMAIN reply = 1..Len(reply)
         /\ sent \in [DOMAIN reply -> Nat]
         /\ \A i \in DOMAIN reply :
              /\ i \in Nat \ {0} /\ reply[i] \in Calls
              /\ reply[i].name \in Nat \ {0} /\ reply[i].arguments \in Nat
              /\ Pieces(i) = reply[i].name + reply[i].arguments
              /\ Pieces(i) \in Nat
              /\ sent[i] \in Nat /\ sent[i] <= Pieces(i)
<1>1. /\ reply \in Seq(Calls) /\ sent \in [DOMAIN reply -> Nat]
      /\ \A i \in DOMAIN reply : sent[i] <= Pieces(i)
  BY DEF StreamInv, StreamTypes
<1>2. Len(reply) \in Nat /\ DOMAIN reply = 1..Len(reply)
  BY <1>1
<1>3. \A i \in DOMAIN reply : i \in Nat \ {0} /\ reply[i] \in Calls
  BY <1>1, <1>2
<1> QED
  BY <1>1, <1>2, <1>3 DEF Pieces, Calls

(* A fragment is added to what there is at its index, or to nothing.       *)
LEMMA FragmentStep ==
  ASSUME StreamInv, NEW i \in DOMAIN reply, NEW index \in Nat, index + 1 \in DOMAIN reply,
         NEW id \in {None, <<"id", i>>}, id # None => sent[i] = 0,
         index = i - 1 \/ (index = 0 /\ reply[i].faulty),
         Fragment(i, index, id)
  PROVE  StreamInv'
<1> DEFINE n == sent[i] + 1
           named == n <= reply[i].name
           p == setdefault(index)
           a == IF named THEN <<<<i, n>>>> ELSE <<>>
           b == IF named THEN <<>> ELSE <<<<i, n>>>>
           q == Joined(p, id, a, b)
<1>1. /\ stage = "streaming" /\ finish = None
      /\ n <= Pieces(i)
      /\ sent' = [sent EXCEPT ![i] = n]
      /\ partials' = Put(index, q)
      /\ reply' = reply /\ finish' = finish /\ stage' = stage /\ tool_calls' = tool_calls
  BY DEF Fragment
<1>2. /\ Len(reply) \in Nat /\ DOMAIN reply = 1..Len(reply) /\ sent \in [DOMAIN reply -> Nat]
      /\ \A j \in DOMAIN reply : /\ j \in Nat \ {0}
                                  /\ reply[j].name \in Nat \ {0} /\ reply[j].arguments \in Nat
                                  /\ sent[j] \in Nat /\ sent[j] <= Pieces(j)
                                  /\ Pieces(j) \in Nat
  BY ReplyFacts
<1>3. StreamTypes
  BY DEF StreamInv
<1>4. a \in Pieced /\ b \in Pieced /\ n \in Nat
  <2>1. <<i, n>> \in Nat \X Nat /\ n \in Nat
    BY <1>2
  <2> HIDE DEF n
  <2>2. <<>> \in Pieced /\ <<<<i, n>>>> \in Pieced
    BY <2>1 DEF Pieced
  <2> QED
    BY <2>1, <2>2
<1>5. /\ p \in Partials
      /\ index \notin DOMAIN partials => p.id = None
      /\ index \in DOMAIN partials => p = partials[index]
      /\ index \notin DOMAIN partials => p.name = <<>> /\ p.arguments = <<>>
  <2>1. Empty \in Partials
    <3>1. <<>> \in Pieced
      BY DEF Pieced
    <3> QED
      BY <3>1 DEF Empty, Partials
  <2>2. index \in DOMAIN partials => partials[index] \in Partials
    BY <1>3 DEF StreamTypes
  <2> QED
    BY <2>1, <2>2 DEF setdefault, Empty
<1>6. id \in {None} \cup ({"id"} \X Nat)
  BY <1>2
<1> HIDE DEF p, a, b
<1>7. /\ q \in Partials
      /\ q.id = IF id = None THEN p.id ELSE id
      /\ q.name = p.name \o a /\ q.arguments = p.arguments \o b
  <2>1. /\ p.name \in Pieced /\ p.arguments \in Pieced /\ p.id \in {None} \cup ({"id"} \X Nat)
    BY <1>5 DEF Partials
  <2>2. p.name \o a \in Pieced /\ p.arguments \o b \in Pieced
    BY <1>4, <2>1, ConcatProperties DEF Pieced
  <2>3. (IF id = None THEN p.id ELSE id) \in {None} \cup ({"id"} \X Nat)
    BY <1>6, <2>1
  <2> QED
    BY <1>5, <2>2, <2>3 DEF Joined, Partials
<1> HIDE DEF q
<1>8. /\ DOMAIN partials' = DOMAIN partials \cup {index}
      /\ partials'[index] = q
      /\ \A k \in DOMAIN partials : k # index => partials'[k] = partials[k]
      /\ partials' \in [DOMAIN partials' -> Partials]
  BY <1>1, <1>3, <1>7 DEF Put, StreamTypes
<1>9. /\ sent' \in [DOMAIN reply -> Nat] /\ sent'[i] = n
      /\ \A j \in DOMAIN reply : j # i => sent'[j] = sent[j]
  BY <1>1, <1>2, <1>4
<1>10. StreamTypes'
  <2>1. \A k \in DOMAIN partials' : k \in Nat /\ k + 1 \in DOMAIN reply
    BY <1>3, <1>7, <1>8 DEF StreamTypes
  <2>2. StreamShape' = StreamShape
    OBVIOUS
  <2> QED
    BY <1>1, <1>3, <1>8, <1>9, <2>1, <2>2 DEF StreamTypes
<1>101. IdsOK'
  <2>1. /\ \A k \in DOMAIN partials : \/ partials[k].id = None
                                      \/ \E h \in DOMAIN reply : /\ partials[k].id = <<"id", h>>
                                                                /\ sent[h] > 0
        /\ \A j, k \in DOMAIN partials :
             partials[j].id = partials[k].id => j = k \/ partials[k].id = None
    BY DEF StreamInv, IdsOK
  <2>2. id # None => \A k \in DOMAIN partials : partials[k].id # id
    <3> SUFFICES ASSUME id # None, NEW k \in DOMAIN partials, partials[k].id = id PROVE FALSE
      OBVIOUS
    <3>1. id = <<"id", i>> /\ sent[i] = 0
      OBVIOUS
    <3>2. PICK h \in DOMAIN reply : partials[k].id = <<"id", h>> /\ sent[h] > 0
      BY <2>1
    <3>3. h = i
      BY <3>1, <3>2
    <3> QED
      BY <3>1, <3>2, <3>3
  <2>3. \A h \in DOMAIN reply : sent[h] > 0 => sent'[h] > 0
    BY <1>2, <1>9
  <2>4. sent'[i] > 0
    BY <1>2, <1>9
  <2>5. q.id = None \/ \E h \in DOMAIN reply : q.id = <<"id", h>> /\ sent'[h] > 0
    BY <1>5, <1>7, <2>1, <2>3, <2>4
  <2>6. \A k \in DOMAIN partials' : \/ partials'[k].id = None
                                    \/ \E h \in DOMAIN reply : /\ partials'[k].id = <<"id", h>>
                                                              /\ sent'[h] > 0
    BY <1>8, <2>1, <2>3, <2>5
  <2>7. \A k \in DOMAIN partials : k # index /\ partials[k].id = q.id => q.id = None
    BY <1>5, <1>7, <2>1, <2>2
  <2>8. \A j, k \in DOMAIN partials' :
          partials'[j].id = partials'[k].id => j = k \/ partials'[k].id = None
    BY <1>8, <2>1, <2>7
  <2> QED
    BY <1>1, <2>6, <2>8 DEF IdsOK
<1>102. Placed'
  <2> DEFINE Fits(t, k) ==
               \A m \in DOMAIN t :
                 /\ t[m][1] \in DOMAIN reply
                 /\ t[m][1] = k + 1 \/ reply[t[m][1]].faulty
  <2>1. Fits(p.name, index)
    <3>1. CASE index \in DOMAIN partials
      BY <1>5, <3>1 DEF StreamInv, Placed
    <3>2. CASE index \notin DOMAIN partials
      BY <1>5, <3>2
    <3> QED
      BY <3>1, <3>2
  <2>2. Fits(a, index)
    <3>1. i = index + 1 \/ reply[i].faulty
      BY <1>2
    <3>2. Fits(<<<<i, n>>>>, index)
      <4> HIDE DEF n
      <4> QED
        BY <3>1
    <3>3. Fits(<<>>, index)
      OBVIOUS
    <3> QED
      BY <3>2, <3>3 DEF a
  <2>3. Fits(q.name, index)
    <3>1. p.name \in Pieced /\ a \in Pieced
      BY <1>4, <1>5 DEF Partials
    <3>2. \A m \in DOMAIN (p.name \o a) :
            \/ m \in DOMAIN p.name /\ (p.name \o a)[m] = p.name[m]
            \/ m - Len(p.name) \in DOMAIN a /\ (p.name \o a)[m] = a[m - Len(p.name)]
      BY <3>1 DEF Pieced
    <3> QED
      BY <1>7, <2>1, <2>2, <3>2
  <2>4. \A k \in DOMAIN partials : Fits(partials[k].name, k)
    BY DEF StreamInv, Placed
  <2> HIDE DEF Fits
  <2>5. \A k \in DOMAIN partials' : Fits(partials'[k].name, k)
    BY <1>8, <2>3, <2>4
  <2> QED
    BY <1>1, <2>5 DEF Placed, Fits
<1>11. ASSUME NEW j \in DOMAIN reply, Isolated(j)'
       PROVE  InStep(j)'
  <2>1. Isolated(j) /\ InStep(j)
    <3>1. Isolated(j)
      BY <1>1, <1>11 DEF Isolated, Orderly
    <3> QED
      BY <1>11, <3>1 DEF StreamInv
  <2>2. CASE j # i
    <3>1. j - 1 # index
      <4>1. CASE index = i - 1
        BY <1>2, <2>2, <4>1
      <4>2. CASE index = 0 /\ reply[i].faulty
        BY <1>2, <2>1, <4>2 DEF Isolated, Orderly
      <4> QED
        BY <4>1, <4>2
    <3>2. (j - 1 \in DOMAIN partials' <=> j - 1 \in DOMAIN partials)
      BY <1>8, <3>1
    <3>3. sent'[j] = sent[j]
      BY <1>9, <2>2
    <3>4. sent[j] > 0 => partials'[j - 1] = partials[j - 1]
      BY <1>8, <2>1, <3>1 DEF InStep
    <3> QED
      BY <1>1, <2>1, <3>2, <3>3, <3>4 DEF InStep, Upto, Text
  <2>3. CASE j = i
    <3> DEFINE m == sent[i]
               w == reply[i].name
    <3>1. m \in Nat /\ n = m + 1 /\ w \in Nat \ {0} /\ i \in Nat
      BY <1>2
    <3>2. i - 1 \in DOMAIN partials' /\ partials'[i - 1] = q /\ n > 0 /\ index = i - 1
      <4>1. index = i - 1
        BY <2>1, <2>3 DEF Isolated
      <4> QED
        BY <1>8, <3>1, <4>1
    <3>21. InStep(i)
      BY <2>1, <2>3
    <3>3. p.name = Text(i, 1, Upto(m, w)) /\ p.arguments = Text(i, w + 1, m)
      <4>1. CASE m > 0
        BY <1>5, <3>2, <3>21, <4>1 DEF InStep
      <4>2. CASE m = 0
        <5>1. p.name = <<>> /\ p.arguments = <<>>
          BY <1>5, <3>2, <3>21, <4>2 DEF InStep
        <5>2. Upto(m, w) = 0
          BY <3>1, <4>2 DEF Upto
        <5>3. Text(i, 1, 0) = <<>> /\ Text(i, w + 1, 0) = <<>>
          BY <3>1, NoText
        <5> QED
          BY <4>2, <5>1, <5>2, <5>3
      <4> QED
        BY <3>1, <4>1, <4>2
    <3> HIDE DEF n, m, w
    <3>4. /\ Text(i, 1, Upto(n, w)) = p.name \o a
          /\ Text(i, w + 1, n) = p.arguments \o b
      <4>1. p.name \in Pieced /\ p.arguments \in Pieced
        BY <1>5 DEF Partials
      <4>2. p.name \o <<>> = p.name /\ p.arguments \o <<>> = p.arguments
        BY <4>1, ConcatEmptySeq DEF Pieced
      <4>3. CASE n <= w
        <5>1. a = <<<<i, n>>>> /\ b = <<>>
          BY <4>3 DEF a, b, named, w
        <5>2. Upto(n, w) = m + 1 /\ Upto(m, w) = m
          BY <3>1, <4>3 DEF Upto
        <5>3. Text(i, 1, m) \o <<<<i, m + 1>>>> = Text(i, 1, m + 1)
          <6>1. 1 \in Nat /\ 1 > 0 /\ 1 <= m + 1
            BY <3>1
          <6> QED
            BY <3>1, <6>1, MoreText, Zenon
        <5>4. Text(i, w + 1, n) = <<>> /\ Text(i, w + 1, m) = <<>>
          BY <3>1, <4>3, NoText
        <5> QED
          BY <3>1, <3>3, <4>2, <5>1, <5>2, <5>3, <5>4
      <4>4. CASE ~(n <= w)
        <5>1. a = <<>> /\ b = <<<<i, n>>>>
          BY <4>4 DEF a, b, named, w
        <5>2. Upto(n, w) = w /\ Upto(m, w) = w
          BY <3>1, <4>4 DEF Upto
        <5>3. Text(i, w + 1, m) \o <<<<i, m + 1>>>> = Text(i, w + 1, m + 1)
          <6>1. w + 1 \in Nat /\ w + 1 > 0 /\ w + 1 <= m + 1
            BY <3>1, <4>4
          <6> QED
            BY <3>1, <6>1, MoreText, Zenon
        <5> QED
          BY <3>1, <3>3, <4>2, <5>1, <5>2, <5>3
      <4> QED
        BY <4>3, <4>4
    <3>5. /\ q.name = Text(i, 1, Upto(n, w)) /\ q.arguments = Text(i, w + 1, n)
      BY <1>7, <3>4
    <3>6. reply' = reply /\ sent'[i] = n /\ w = reply[i].name
      BY <1>1, <1>9 DEF w
    <3> QED
      BY <2>3, <3>2, <3>5, <3>6 DEF InStep, Upto, Text
  <2> QED
    BY <2>2, <2>3
<1>12. \A j \in DOMAIN reply : sent'[j] <= Pieces(j)'
  <2>1. \A j : Pieces(j)' = Pieces(j)
    BY <1>1 DEF Pieces
  <2> QED
    BY <1>1, <1>2, <1>9, <2>1
<1>13. stage' = "streaming" /\ tool_calls' = <<>> /\ finish' # "tool_calls"
  BY <1>1, <1>3 DEF StreamInv, StreamTypes, StreamShape
<1> QED
  BY <1>1, <1>10, <1>101, <1>102, <1>11, <1>12, <1>13 DEF StreamInv

(* Only a faulty call loses a fragment.                                    *)
LEMMA SkippedStep ==
  ASSUME StreamInv, NEW i \in DOMAIN reply, reply[i].faulty, Skipped(i)
  PROVE  StreamInv'
<1>1. /\ stage = "streaming" /\ finish = None
      /\ sent[i] < Pieces(i)
      /\ sent' = [sent EXCEPT ![i] = sent[i] + 1]
      /\ reply' = reply /\ partials' = partials /\ finish' = finish /\ stage' = stage
      /\ tool_calls' = tool_calls
  BY DEF Skipped
<1>2. /\ sent \in [DOMAIN reply -> Nat]
      /\ \A j \in DOMAIN reply : /\ sent[j] \in Nat /\ sent[j] <= Pieces(j)
                                  /\ Pieces(j) \in Nat
  BY ReplyFacts
<1>3. StreamTypes
  BY DEF StreamInv
<1>4. /\ sent' \in [DOMAIN reply -> Nat] /\ sent'[i] = sent[i] + 1
      /\ \A j \in DOMAIN reply : j # i => sent'[j] = sent[j]
  BY <1>1, <1>2
<1>5. StreamTypes'
  BY <1>1, <1>3, <1>4 DEF StreamTypes, StreamShape
<1>51. IdsOK' /\ Placed'
  BY <1>1, <1>2, <1>4 DEF StreamInv, IdsOK, Placed
<1>6. ASSUME NEW j \in DOMAIN reply, Isolated(j)'
      PROVE  InStep(j)'
  <2>1. Isolated(j) /\ j # i
    BY <1>1, <1>6 DEF Isolated, Orderly
  <2>2. InStep(j) /\ sent'[j] = sent[j]
    BY <1>4, <1>6, <2>1 DEF StreamInv
  <2> QED
    BY <1>1, <2>2 DEF InStep, Upto, Text
<1>7. \A j \in DOMAIN reply : sent'[j] <= Pieces(j)'
  <2>1. \A j : Pieces(j)' = Pieces(j)
    BY <1>1 DEF Pieces
  <2> QED
    BY <1>1, <1>2, <1>4, <2>1
<1>8. stage' = "streaming" /\ tool_calls' = <<>> /\ finish' # "tool_calls"
  BY <1>1, <1>3 DEF StreamInv, StreamTypes, StreamShape
<1> QED
  BY <1>1, <1>5, <1>51, <1>6, <1>7, <1>8 DEF StreamInv

(* A server says that it is done when it is.                               *)
LEMMA FinishStep ==
  ASSUME StreamInv, NEW reason \in {"tool_calls", "length"}, Finish(reason)
  PROVE  StreamInv'
<1>1. /\ stage = "streaming" /\ finish' = reason
      /\ reason = "tool_calls" => \A i \in DOMAIN reply : sent[i] = Pieces(i)
      /\ reply' = reply /\ sent' = sent /\ partials' = partials /\ stage' = stage
      /\ tool_calls' = tool_calls
  BY DEF Finish
<1>2. StreamTypes'
  BY <1>1 DEF StreamInv, StreamTypes, StreamShape
<1>3. IdsOK' /\ Placed' /\ \A i \in DOMAIN reply : Isolated(i)' => InStep(i)'
  BY <1>1 DEF StreamInv, IdsOK, Placed, Isolated, Orderly, InStep, Upto, Text
<1>4. \A i : Pieces(i)' = Pieces(i)
  BY <1>1 DEF Pieces
<1>5. stage' = "streaming" /\ tool_calls' = <<>>
  BY <1>1 DEF StreamInv
<1> QED
  BY <1>1, <1>2, <1>3, <1>4, <1>5 DEF StreamInv

(* What StreamInv says of the stream itself depends on these alone.        *)
LEMMA SameStream ==
  ASSUME StreamInv, UNCHANGED <<reply, sent, partials, finish>>
  PROVE  /\ StreamTypes' /\ IdsOK' /\ Placed'
         /\ \A i \in DOMAIN reply' : Isolated(i)' => InStep(i)'
         /\ finish' = "tool_calls" => \A i \in DOMAIN reply' : sent'[i] = Pieces(i)'
         /\ \A i \in DOMAIN reply' : sent'[i] <= Pieces(i)'
         /\ \A text : Readings(text)' = Readings(text)
         /\ \A k, v : Defect(k, v)' = Defect(k, v) /\ IdAt(k)' = IdAt(k)
<1>1. reply' = reply /\ sent' = sent /\ partials' = partials /\ finish' = finish
  OBVIOUS
<1>2. StreamTypes'
  BY <1>1 DEF StreamInv, StreamTypes, StreamShape
<1>3. IdsOK' /\ Placed' /\ \A i \in DOMAIN reply : Isolated(i)' => InStep(i)'
  BY <1>1 DEF StreamInv, IdsOK, Placed, Isolated, Orderly, InStep, Upto, Text
<1>4. \A i : Pieces(i)' = Pieces(i)
  BY <1>1 DEF Pieces
<1>5. \A k, v : Defect(k, v)' = Defect(k, v) /\ IdAt(k)' = IdAt(k)
  BY <1>1 DEF Defect, IdAt
<1>6. \A text : Readings(text)' = Readings(text)
  BY <1>1 DEF Readings, Arguments, Text, Pieces
<1> QED
  BY <1>1, <1>2, <1>3, <1>4, <1>5, <1>6 DEF StreamInv

(* Content, and nothing at all, leave these alone.                         *)
LEMMA SilentStreamStep ==
  ASSUME StreamInv,
         UNCHANGED <<reply, sent, partials, finish, stage, parsed, tool_calls, malformed>>
  PROVE  StreamInv'
<1>1. partials' = partials /\ parsed' = parsed /\ UNCHANGED <<reply, sent, partials, finish>>
  OBVIOUS
<1>2. Runs' = Runs /\ Notes' = Notes
  <2>1. Good' = Good /\ Bad' = Bad
    BY <1>1, SameStream DEF Good, Bad
  <2>2. \A S : sorted(S)' = sorted(S)
    BY DEF sorted, Enumerated
  <2> QED
    BY <1>1, <2>1, <2>2, SameStream DEF Runs, Notes
<1> QED
  BY <1>1, <1>2, SameStream DEF StreamInv

(* _finalise only sorts what is there into its two lists.                  *)
LEMMA FinaliseStep == StreamInv /\ _finalise => StreamInv'
<1> SUFFICES ASSUME StreamInv, _finalise PROVE StreamInv'
  OBVIOUS
<1>1. UNCHANGED <<reply, sent, partials, finish>> /\ partials' = partials /\ stage' = "done"
  BY DEF _finalise
<1>2. (\A k \in DOMAIN partials : parsed[k] \in Readings(partials[k].arguments))'
  <2>1. \A k \in DOMAIN partials : parsed'[k] \in Readings(partials[k].arguments)
    BY DEF _finalise
  <2> QED
    BY <1>1, <2>1, SameStream
<1>3. /\ Good' = {k \in DOMAIN partials : Defect(k, parsed'[k]) = None}
      /\ Bad' = {k \in DOMAIN partials : Defect(k, parsed'[k]) # None}
  BY <1>1, SameStream DEF Good, Bad
<1>4. \A S : sorted(S)' = sorted(S)
  BY DEF sorted, Enumerated
<1>5. /\ tool_calls' = Runs'
      /\ malformed' \in {Notes', Notes' \o <<<<-1, "leaked">>>>}
  <2>1. Runs' = [j \in DOMAIN sorted(Good') |->
                   [id |-> IdAt(sorted(Good')[j]), name |-> partials[sorted(Good')[j]].name,
                    arguments |-> partials[sorted(Good')[j]].arguments]]
    BY <1>1, <1>4, SameStream DEF Runs
  <2>2. Notes' = [j \in DOMAIN sorted(Bad') |->
                    <<sorted(Bad')[j], Defect(sorted(Bad')[j], parsed'[sorted(Bad')[j]])>>]
    BY <1>1, <1>4, SameStream DEF Notes
  <2> QED
    BY <1>3, <2>1, <2>2 DEF _finalise
<1> QED
  <2>1. /\ StreamTypes' /\ IdsOK' /\ Placed'
        /\ \A i \in DOMAIN reply' : Isolated(i)' => InStep(i)'
        /\ finish' = "tool_calls" => \A i \in DOMAIN reply' : sent'[i] = Pieces(i)'
        /\ \A i \in DOMAIN reply' : sent'[i] <= Pieces(i)'
    BY <1>1, SameStream
  <2> QED
    BY <1>1, <1>2, <1>5, <2>1 DEF StreamInv

(* So every step does, ...                                                 *)
LEMMA StreamSteps == StreamInv /\ [StreamNext]_streamVars => StreamInv'
<1> SUFFICES ASSUME StreamInv, [StreamNext]_streamVars PROVE StreamInv'
  OBVIOUS
<1>1. ASSUME NEW i \in DOMAIN reply, NEW id \in {None, <<"id", i>>}, NEW index \in {i - 1, 0},
             index = i - 1 \/ reply[i].faulty,
             Fragment(i, index, IF sent[i] = 0 THEN id ELSE None)
      PROVE  StreamInv'
  <2> DEFINE d == IF sent[i] = 0 THEN id ELSE None
  <2>1. i \in Nat \ {0} /\ Len(reply) \in Nat /\ DOMAIN reply = 1..Len(reply)
    BY ReplyFacts
  <2>2. index \in Nat /\ index + 1 \in DOMAIN reply
    BY <2>1
  <2>3. d \in {None, <<"id", i>>} /\ (d # None => sent[i] = 0)
    OBVIOUS
  <2>4. index = i - 1 \/ (index = 0 /\ reply[i].faulty)
    BY <1>1
  <2>5. Fragment(i, index, d)
    BY <1>1
  <2> HIDE DEF d
  <2> QED
    BY <2>2, <2>3, <2>4, <2>5, FragmentStep
<1>3. ASSUME NEW i \in DOMAIN reply, reply[i].faulty, Skipped(i)
      PROVE  StreamInv'
  BY <1>3, SkippedStep
<1>4. ASSUME NEW m \in Markers, Content(m) PROVE StreamInv'
  <2>1. UNCHANGED <<reply, sent, partials, finish, stage, parsed, tool_calls, malformed>>
    BY <1>4 DEF Content
  <2> QED
    BY <2>1, SilentStreamStep
<1>5. ASSUME NEW reason \in {"tool_calls", "length"}, Finish(reason) PROVE StreamInv'
  BY <1>5, FinishStep
<1>6. CASE _finalise
  BY <1>6, FinaliseStep
<1>7. CASE UNCHANGED streamVars
  <2>1. UNCHANGED <<reply, sent, partials, finish, stage, parsed, tool_calls, malformed>>
    BY <1>7 DEF streamVars
  <2> QED
    BY <2>1, SilentStreamStep
<1> QED
  BY <1>1, <1>3, <1>4, <1>5, <1>6, <1>7 DEF StreamNext

(* ... and StreamInv holds throughout.                                     *)
LEMMA StreamInductive == StreamSpec => []StreamInv
<1>1. StreamInit => StreamInv
  BY StreamStarts, StreamConstants
<1> QED
  BY <1>1, StreamSteps, PTL DEF StreamSpec

-----------------------------------------------------------------------------
(* What the finished turn holds.                                           *)

(* Good and bad indexes are the indexes.                                   *)
LEMMA IndexFacts ==
  ASSUME StreamInv
  PROVE  /\ Good \in SUBSET (0..Len(reply)) /\ Bad \in SUBSET (0..Len(reply))
         /\ Len(reply) \in Nat
         /\ DOMAIN partials = Good \cup Bad /\ Good \cap Bad = {}
<1>1. Len(reply) \in Nat /\ DOMAIN reply = 1..Len(reply)
  BY ReplyFacts
<1>2. \A k \in DOMAIN partials : k \in Nat /\ k + 1 \in DOMAIN reply
  BY DEF StreamInv, StreamTypes
<1>3. \A k \in DOMAIN partials : k \in 0..Len(reply)
  BY <1>1, <1>2
<1> QED
  BY <1>1, <1>3 DEF Good, Bad

(* What is without a defect.                                               *)
LEMMA GoodFacts ==
  ASSUME StreamInv, stage = "done", NEW k \in DOMAIN partials
  PROVE  /\ Defect(k, parsed[k]) = None <=> partials[k].name # <<>> /\ parsed[k] = "object"
         /\ partials[k].arguments = <<>> => parsed[k] = "object"
         /\ \A i \in DOMAIN reply :
              partials[k].arguments # <<>> /\ IsPrefix(partials[k].arguments, Arguments(i)) =>
                IF partials[k].arguments = Arguments(i) THEN parsed[k] = "object" <=> reply[i].object
                                                        ELSE reply[i].object => parsed[k] = "error"
<1>1. None \notin {"no_name", "cut_off", "not_json", "no_object"}
  BY DEF StreamInv, StreamTypes, StreamShape
<1>2. parsed[k] \in Readings(partials[k].arguments)
  BY DEF StreamInv
<1>3. parsed[k] \in {"object", "value", "error"}
  BY <1>2 DEF Readings
<1>4. Defect(k, parsed[k]) = None <=> partials[k].name # <<>> /\ parsed[k] = "object"
  BY <1>1, <1>3 DEF Defect
<1> QED
  BY <1>2, <1>4 DEF Readings

(* A text that breaks off is a start of the whole one.                     *)
LEMMA StartOfText ==
  ASSUME NEW i \in Nat, NEW w \in Nat, NEW n \in Nat, NEW m \in Nat, w <= n, n <= m
  PROVE  /\ IsPrefix(Text(i, w + 1, n), Text(i, w + 1, m))
         /\ Text(i, w + 1, n) = Text(i, w + 1, m) => n = m
<1>1. n - (w + 1) + 1 = n - w /\ m - (w + 1) + 1 = m - w /\ \A k \in Int : w + 1 + k - 1 = w + k
  OBVIOUS
<1> DEFINE a == n - w
           b == m - w
           s == [j \in 1..a |-> <<i, w + j>>]
           t == [j \in 1..b |-> <<i, w + j>>]
<1>2. Text(i, w + 1, n) = s /\ Text(i, w + 1, m) = t
  BY <1>1 DEF Text
<1>3. a \in Nat /\ b \in Nat /\ a <= b
  OBVIOUS
<1> HIDE DEF a, b
<1>4. \A j \in 1..b : <<i, w + j>> \in Nat \X Nat
  BY <1>3
<1>5. s \in Seq(Nat \X Nat) /\ t \in Seq(Nat \X Nat) /\ Len(s) = a /\ Len(t) = b
  BY <1>3, <1>4
<1>6. SubSeq(s, 1, a) = s /\ SubSeq(t, 1, a) = s
  BY <1>3, <1>5
<1>7. IsPrefix(s, t)
  BY <1>3, <1>5, <1>6 DEF IsPrefix
<1>8. s = t => a = b
  BY <1>5
<1> QED
  BY <1>2, <1>7, <1>8 DEF a, b

(* What is run at the index of an isolated call is that call.              *)
LEMMA RunIsACall ==
  ASSUME StreamInv, stage = "done", NEW k \in Good, Isolated(k + 1)
  PROVE  \/ /\ partials[k].name = Name(k + 1)
            /\ partials[k].arguments = Arguments(k + 1)
            /\ reply[k + 1].object
         \/ IsPrefix(partials[k].name, Name(k + 1)) /\ partials[k].arguments = <<>>
         \/ /\ partials[k].name = Name(k + 1) /\ ~reply[k + 1].object
            /\ IsPrefix(partials[k].arguments, Arguments(k + 1))
            /\ partials[k].arguments # Arguments(k + 1)
<1> DEFINE i == k + 1
           n == sent[i]
           w == reply[i].name
           A == partials[k].arguments
<1>1. k \in DOMAIN partials /\ k \in Nat /\ i \in DOMAIN reply /\ i - 1 = k
  BY DEF Good, StreamInv, StreamTypes
<1>2. /\ i \in Nat \ {0} /\ n \in Nat /\ w \in Nat \ {0} /\ n <= Pieces(i)
      /\ Pieces(i) \in Nat
  BY <1>1, ReplyFacts
<1>3. /\ n > 0
      /\ partials[k].name = Text(i, 1, Upto(n, w))
      /\ A = Text(i, w + 1, n)
  BY <1>1 DEF StreamInv, InStep
<1>4. /\ parsed[k] = "object"
      /\ A # <<>> /\ IsPrefix(A, Arguments(i)) =>
           IF A = Arguments(i) THEN parsed[k] = "object" <=> reply[i].object
                               ELSE reply[i].object => parsed[k] = "error"
  BY <1>1, GoodFacts DEF Good
<1>5. Name(i) = Text(i, 1, w) /\ Arguments(i) = Text(i, w + 1, Pieces(i))
  BY DEF Name, Arguments
<1> HIDE DEF i, n, w, A
<1>6. CASE n <= w
  <2>1. A = <<>>
    <3>1. i \in Nat /\ w + 1 \in Nat /\ n < w + 1
      BY <1>2, <1>6
    <3> QED
      BY <1>2, <1>3, <3>1, NoText, Zenon
  <2>2. Upto(n, w) = n
    BY <1>6 DEF Upto
  <2>3. IsPrefix(Text(i, 1, n), Text(i, 1, w))
    <3>1. 0 + 1 = 1 /\ 0 \in Nat /\ 0 <= n /\ i \in Nat /\ w \in Nat
      BY <1>2
    <3>2. IsPrefix(Text(i, 0 + 1, n), Text(i, 0 + 1, w))
      BY <1>2, <1>6, <3>1, StartOfText, Zenon
    <3> QED
      BY <3>1, <3>2
  <2> QED
    BY <1>3, <1>5, <2>1, <2>2, <2>3 DEF i, A
<1>7. CASE w < n
  <2>1. Upto(n, w) = w
    BY <1>2, <1>7 DEF Upto
  <2>2. A # <<>>
    <3>1. Len(Text(i, w + 1, n)) > 0
      <4>1. w + 1 \in Nat /\ w + 1 > 0 /\ w + 1 <= n + 1 /\ n - (w + 1) + 1 > 0 /\ i \in Nat
        BY <1>2, <1>7
      <4>2. Len(Text(i, w + 1, n)) = n - (w + 1) + 1
        BY <1>2, <4>1, TextFacts, Zenon
      <4> QED
        BY <4>1, <4>2
    <3> QED
      BY <1>3, <3>1
  <2>3. IsPrefix(A, Arguments(i))
    <3>1. i \in Nat /\ w \in Nat /\ w <= n
      BY <1>2, <1>7
    <3> QED
      <4>1. IsPrefix(Text(i, w + 1, n), Text(i, w + 1, Pieces(i)))
        BY <1>2, <3>1, StartOfText, Zenon
      <4> QED
        BY <1>3, <1>5, <4>1
  <2>4. partials[k].name = Name(i)
    BY <1>3, <1>5, <2>1
  <2>5. CASE A = Arguments(i)
    BY <1>4, <2>2, <2>3, <2>4, <2>5 DEF i, A
  <2>6. CASE A # Arguments(i)
    BY <1>4, <2>2, <2>3, <2>4, <2>6 DEF i, A
  <2> QED
    BY <2>5, <2>6
<1> QED
  BY <1>2, <1>6, <1>7

(* What is run, one by one.                                                *)
LEMMA RunFacts ==
  ASSUME StreamInv, stage = "done"
  PROVE  /\ HasEach(sorted(Good), Good)
         /\ DOMAIN sorted(Good) = 1..Cardinality(Good)
         /\ tool_calls = [j \in 1..Cardinality(Good) |->
              [id |-> IdAt(sorted(Good)[j]),
               name |-> partials[sorted(Good)[j]].name,
               arguments |-> partials[sorted(Good)[j]].arguments]]
<1>1. IsListing(sorted(Good), Good)
  BY IndexFacts, ShiftedListing, Zenon DEF sorted
<1>2. HasEach(sorted(Good), Good)
  BY <1>1, IndexFacts, ListingReaches, Zenon
<1>3. DOMAIN sorted(Good) = 1..Cardinality(Good)
  BY <1>1 DEF IsListing
<1> QED
  BY <1>2, <1>3 DEF StreamInv, Runs

(* Of a turn in a state of StreamInv, only whole calls are run, ...        *)
LEMMA WholeCallsOnly ==
  ASSUME StreamInv
  PROVE  RunsOnlyWholeCalls
<1>1. CASE stage # "done"
  BY <1>1 DEF StreamInv, RunsOnlyWholeCalls
<1>2. CASE stage = "done"
  <2> DEFINE g == sorted(Good)
             c == Cardinality(Good)
  <2>1. /\ HasEach(g, Good)
        /\ DOMAIN tool_calls = 1..c
        /\ \A j \in 1..c : /\ tool_calls[j].name = partials[g[j]].name
                            /\ tool_calls[j].arguments = partials[g[j]].arguments
    BY <1>2, RunFacts
  <2> HIDE DEF g
  <2>2. ASSUME NEW j \in 1..c
        PROVE  g[j] \in Good /\ g[j] \in DOMAIN partials
    BY <2>1 DEF HasEach, Good
  <2>3. ASSUME NEW j \in 1..c
        PROVE  LET i == tool_calls[j].name[1][1]
               IN  Isolated(i) => i = g[j] + 1
    <3> DEFINE name == partials[g[j]].name
    <3>1. name # <<>> /\ name \in Pieced
      BY <1>2, <2>2, GoodFacts DEF Good, StreamInv, StreamTypes, Partials
    <3>2. 1 \in DOMAIN name
      <4> HIDE DEF name
      <4> QED
        BY <3>1, EmptySeq DEF Pieced
    <3>3. name[1][1] = g[j] + 1 \/ reply[name[1][1]].faulty
      BY <2>2, <3>2 DEF StreamInv, Placed
    <3> QED
      BY <2>1, <3>3 DEF Isolated
  <2>4. ASSUME NEW j \in 1..c, Isolated(g[j] + 1)
        PROVE  LET c1 == tool_calls[j]
                   i == g[j] + 1
               IN  \/ c1.name = Name(i) /\ c1.arguments = Arguments(i) /\ reply[i].object
                   \/ IsPrefix(c1.name, Name(i)) /\ c1.arguments = <<>>
                   \/ /\ c1.name = Name(i) /\ ~reply[i].object
                      /\ IsPrefix(c1.arguments, Arguments(i)) /\ c1.arguments # Arguments(i)
    BY <1>2, <2>1, <2>2, <2>4, RunIsACall
  <2> QED
    BY <2>1, <2>3, <2>4 DEF RunsOnlyWholeCalls
<1> QED
  BY <1>1, <1>2

(* For every reply, interleaving and end of the stream: what _finalise     *)
(* runs under the name of a call whose own fragments were in order, though *)
(* others lose theirs, is that call, whole.  One that is cut off runs only *)
(* when nothing of its arguments had come, or they were broken anyway.     *)
THEOREM NoHalfCalls == StreamSpec => []RunsOnlyWholeCalls
BY StreamInductive, WholeCallsOnly, PTL

(* The entries of malformed with an index are those of the bad indexes.    *)
LEMMA NoteCount ==
  ASSUME StreamInv, stage = "done"
  PROVE  Cardinality({k \in DOMAIN malformed : malformed[k][1] >= 0}) = Cardinality(Bad)
<1> DEFINE b == sorted(Bad)
           c == Cardinality(Bad)
           d(j) == Defect(b[j], parsed[b[j]])
           leak == <<<<-1, "leaked">>>>
           D == {<<b[j], d(j)>> : j \in 1..c} \cup {<<-1, "leaked">>}
<1>1. IsListing(b, Bad)
  BY IndexFacts, ShiftedListing, Zenon DEF sorted
<1>2. HasEach(b, Bad)
  BY <1>1, IndexFacts, ListingReaches, Zenon
<1>3. DOMAIN b = 1..c /\ c \in Nat /\ \A j \in 1..c : b[j] \in Nat
  BY <1>1, <1>2 DEF IsListing, HasEach
<1>4. Notes = [j \in 1..c |-> <<b[j], d(j)>>]
  BY <1>3 DEF Notes
<1> HIDE DEF b, c, d
<1>5. Notes \in Seq(D) /\ Len(Notes) = c /\ DOMAIN Notes = 1..c
  <2>1. \A j \in 1..c : <<b[j], d(j)>> \in D
    OBVIOUS
  <2> HIDE DEF D
  <2> QED
    BY <1>3, <1>4, <2>1
<1>6. \A j \in 1..c : Notes[j][1] >= 0
  BY <1>3, <1>4
<1>7. leak \in Seq(D) /\ Len(leak) = 1 /\ leak[1] = <<-1, "leaked">>
  <2>1. <<-1, "leaked">> \in D
    OBVIOUS
  <2> HIDE DEF D
  <2> QED
    BY <2>1
<1>8. {k \in DOMAIN malformed : malformed[k][1] >= 0} = 1..c
  <2>1. CASE malformed = Notes
    BY <1>5, <1>6, <2>1
  <2>2. CASE malformed = Notes \o leak
    <3> HIDE DEF D, leak
    <3>1. /\ malformed \in Seq(D) /\ Len(malformed) = c + 1
          /\ \A k \in 1..(c + 1) : malformed[k] = IF k <= c THEN Notes[k] ELSE leak[k - c]
      <4>1. /\ Notes \o leak \in Seq(D) /\ Len(Notes \o leak) = Len(Notes) + Len(leak)
            /\ \A k \in 1..(Len(Notes) + Len(leak)) :
                 (Notes \o leak)[k] = IF k <= Len(Notes) THEN Notes[k] ELSE leak[k - Len(Notes)]
        BY <1>5, <1>7, ConcatProperties
      <4> QED
        BY <1>3, <1>5, <1>7, <2>2, <4>1, Zenon
    <3>2. DOMAIN malformed = 1..(c + 1)
      BY <3>1
    <3>3. \A k \in 1..c : k \in 1..(c + 1) /\ malformed[k] = Notes[k]
      BY <1>3, <3>1
    <3>4. malformed[c + 1] = <<-1, "leaked">>
      BY <1>3, <1>7, <3>1
    <3>5. ~(malformed[c + 1][1] >= 0)
      BY <3>4
    <3>6. \A k \in 1..(c + 1) : k \in 1..c \/ k = c + 1
      BY <1>3
    <3> QED
      BY <1>3, <1>6, <3>2, <3>3, <3>5, <3>6
  <2> QED
    BY <2>1, <2>2 DEF StreamInv
<1>9. Cardinality(1..c) = c
  <2>1. Cardinality(1..c) = IF 1 > c THEN 0 ELSE c - 1 + 1
    BY <1>3, FS_Interval
  <2> QED
    BY <1>3, <2>1
<1> QED
  BY <1>8, <1>9 DEF c

(* The made-up ids and the given ones are all different.                   *)
LEMMA IdsDiffer ==
  ASSUME StreamInv, NEW j \in DOMAIN partials, NEW k \in DOMAIN partials,
         IdAt(j) = IdAt(k)
  PROVE  j = k
<1> DEFINE x == partials[j].id
           y == partials[k].id
<1>1. /\ x = None \/ \E i \in DOMAIN reply : x = <<"id", i>>
      /\ y = None \/ \E i \in DOMAIN reply : y = <<"id", i>>
      /\ x = y => j = k \/ y = None
  BY DEF StreamInv, IdsOK
<1>2. IdAt(j) = (IF x = None THEN <<"call", j>> ELSE x) /\ IdAt(k) = (IF y = None THEN <<"call", k>> ELSE y)
  BY DEF IdAt
<1> HIDE DEF x, y
<1>3. \A i, h : <<"call", h>> # <<"id", i>>
  OBVIOUS
<1>4. CASE x = None
  <2>1. y = None
    BY <1>1, <1>2, <1>3, <1>4
  <2>2. <<"call", j>> = <<"call", k>>
    BY <1>2, <1>4, <2>1
  <2> QED
    BY <2>2
<1>5. CASE x # None
  <2>1. y # None
    BY <1>1, <1>2, <1>3, <1>5
  <2> QED
    BY <1>1, <1>2, <1>5, <2>1
<1> QED
  BY <1>4, <1>5

(* When an orderly server has finished, what is run are the calls that     *)
(* have no arguments or an object.                                         *)
LEMMA FinishedCalls ==
  ASSUME StreamInv, stage = "done", Orderly, finish = "tool_calls"
  PROVE  /\ {k + 1 : k \in Good} = {i \in DOMAIN reply : reply[i].object \/ reply[i].arguments = 0}
         /\ \A k \in Good : partials[k].name = Name(k + 1)
<1>1. ASSUME NEW i \in DOMAIN reply
      PROVE  /\ i \in Nat \ {0} /\ i - 1 \in DOMAIN partials
             /\ partials[i - 1].name = Name(i)
             /\ partials[i - 1].name # <<>>
             /\ partials[i - 1].arguments = Arguments(i)
  <2> DEFINE w == reply[i].name
  <2>1. /\ i \in Nat \ {0} /\ w \in Nat \ {0} /\ reply[i].arguments \in Nat
        /\ Pieces(i) = w + reply[i].arguments /\ Pieces(i) \in Nat
        /\ sent[i] = Pieces(i)
    BY ReplyFacts DEF StreamInv
  <2>2. sent[i] > 0 /\ InStep(i)
    BY <2>1 DEF StreamInv, Isolated, Orderly
  <2>3. Upto(sent[i], w) = w
    BY <2>1 DEF Upto
  <2>4. Name(i) # <<>>
    <3>1. 1 \in Nat /\ 1 > 0 /\ 1 <= w + 1 /\ w - 1 + 1 = w /\ w \in Nat /\ w # 0 /\ i \in Nat
      BY <2>1
    <3>2. Len(Text(i, 1, w)) = w - 1 + 1
      BY <3>1, TextFacts, Zenon
    <3> QED
      BY <3>1, <3>2 DEF Name
  <2> QED
    BY <2>1, <2>2, <2>3, <2>4 DEF InStep, Name, Arguments
<1>2. ASSUME NEW i \in DOMAIN reply
      PROVE  i - 1 \in Good <=> reply[i].object \/ reply[i].arguments = 0
  <2> DEFINE w == reply[i].name
  <2>1. /\ i \in Nat \ {0} /\ w \in Nat \ {0} /\ reply[i].arguments \in Nat
        /\ Pieces(i) = w + reply[i].arguments /\ Pieces(i) \in Nat
    BY ReplyFacts
  <2>2. /\ i - 1 \in Good <=> parsed[i - 1] = "object"
        /\ Arguments(i) = <<>> => parsed[i - 1] = "object"
        /\ Arguments(i) # <<>> /\ IsPrefix(Arguments(i), Arguments(i)) =>
             (parsed[i - 1] = "object" <=> reply[i].object)
    BY <1>1, GoodFacts DEF Good
  <2>3. CASE reply[i].arguments = 0
    <3>1. i \in Nat /\ w + 1 \in Nat /\ Pieces(i) < w + 1
      BY <2>1, <2>3
    <3>2. Text(i, w + 1, Pieces(i)) = <<>>
      BY <2>1, <3>1, NoText, Zenon
    <3> QED
      BY <2>2, <2>3, <3>2 DEF Arguments
  <2>4. CASE reply[i].arguments # 0
    <3>1. w < Pieces(i) /\ Pieces(i) <= Pieces(i)
      BY <2>1, <2>4
    <3>2. Arguments(i) # <<>>
      <4>1. /\ w + 1 \in Nat /\ w + 1 > 0 /\ w + 1 <= Pieces(i) + 1 /\ i \in Nat
            /\ Pieces(i) - (w + 1) + 1 > 0
        BY <2>1, <3>1
      <4>2. Len(Text(i, w + 1, Pieces(i))) = Pieces(i) - (w + 1) + 1
        BY <2>1, <4>1, TextFacts, Zenon
      <4> QED
        BY <4>1, <4>2 DEF Arguments
    <3>3. IsPrefix(Arguments(i), Arguments(i))
      <4>1. i \in Nat /\ w \in Nat /\ w <= Pieces(i)
        BY <2>1, <3>1
      <4> QED
        BY <2>1, <3>1, <4>1, StartOfText, Zenon DEF Arguments
    <3> QED
      BY <2>2, <2>4, <3>2, <3>3
  <2> QED
    BY <2>3, <2>4
<1>3. \A k \in Good : k \in Nat /\ k + 1 \in DOMAIN reply /\ (k + 1) - 1 = k
  BY DEF Good, StreamInv, StreamTypes
<1>4. \A i \in DOMAIN reply : (i - 1) + 1 = i
  BY <1>1
<1> QED
  BY <1>1, <1>2, <1>3, <1>4

(* ... and every index is run or complained about.                         *)
LEMMA NothingIsLost ==
  ASSUME StreamInv
  PROVE  EveryCallIsAccountedFor
<1> SUFFICES ASSUME stage = "done" PROVE EveryCallIsAccountedFor
  BY DEF EveryCallIsAccountedFor
<1> DEFINE g == sorted(Good)
           c == Cardinality(Good)
<1>1. /\ HasEach(g, Good)
      /\ tool_calls = [j \in 1..c |-> [id |-> IdAt(g[j]), name |-> partials[g[j]].name,
                                       arguments |-> partials[g[j]].arguments]]
  BY RunFacts
<1> HIDE DEF g
<1>2. /\ DOMAIN tool_calls = 1..c
      /\ \A j \in 1..c : /\ tool_calls[j].id = IdAt(g[j])
                          /\ tool_calls[j].name = partials[g[j]].name
  BY <1>1
<1>3. c \in Nat /\ \A j \in 1..c : g[j] \in Good /\ g[j] \in DOMAIN partials
  BY <1>1 DEF HasEach, Good
<1>4. Len(tool_calls) + Cardinality({k \in DOMAIN malformed : malformed[k][1] >= 0})
        = Cardinality(DOMAIN partials)
  <2>1. Len(tool_calls) = c
    BY <1>1, <1>3
  <2>2. IsFiniteSet(Good) /\ IsFiniteSet(Bad)
    BY IndexFacts, ShiftedListing, Zenon
  <2>3. Cardinality(Good \cup Bad) = Cardinality(Good) + Cardinality(Bad) - Cardinality(Good \cap Bad)
    BY <2>2, FS_Union, Zenon
  <2>4. Cardinality(Good \cap Bad) = 0 /\ DOMAIN partials = Good \cup Bad
    BY IndexFacts, FS_EmptySet
  <2>5. Cardinality(Bad) \in Nat
    BY <2>2, FS_CardinalityType
  <2> QED
    BY <1>3, <2>1, <2>3, <2>4, <2>5, NoteCount
<1>5. \A j, k \in 1..c : tool_calls[j].id = tool_calls[k].id => j = k
  <2> SUFFICES ASSUME NEW j \in 1..c, NEW k \in 1..c, tool_calls[j].id = tool_calls[k].id
               PROVE  j = k
    OBVIOUS
  <2>1. g[j] = g[k]
    BY <1>2, <1>3, IdsDiffer
  <2> QED
    BY <1>1, <2>1 DEF HasEach
<1>6. ASSUME Orderly, finish = "tool_calls"
      PROVE  [j \in DOMAIN tool_calls |-> tool_calls[j].name]
               = LET run == Enumerated({i \in DOMAIN reply :
                                              reply[i].object \/ reply[i].arguments = 0})
                 IN  [j \in DOMAIN run |-> Name(run[j])]
  <2> DEFINE run == Enumerated({i \in DOMAIN reply : reply[i].object \/ reply[i].arguments = 0})
             R == {k + 1 : k \in Good}
  <2>1. /\ R = {i \in DOMAIN reply : reply[i].object \/ reply[i].arguments = 0}
        /\ \A k \in Good : partials[k].name = Name(k + 1)
    BY <1>6, FinishedCalls
  <2>2. Enumerated(R) = [j \in 1..c |-> g[j] + 1]
    BY IndexFacts, ShiftedListing, Zenon DEF g, sorted
  <2>3. run = [j \in 1..c |-> g[j] + 1]
    BY <2>1, <2>2
  <2> HIDE DEF run
  <2>4. \A j \in 1..c : tool_calls[j].name = Name(run[j])
    BY <1>2, <1>3, <2>1, <2>3
  <2>5. DOMAIN run = 1..c
    BY <2>3
  <2>6. [j \in DOMAIN tool_calls |-> tool_calls[j].name] = [j \in DOMAIN run |-> Name(run[j])]
    BY <1>2, <2>4, <2>5, Zenon
  <2> QED
    BY <2>6 DEF run
<1> QED
  BY <1>2, <1>4, <1>5, <1>6 DEF EveryCallIsAccountedFor

(* Every index that a fragment named is in tool_calls or in malformed,     *)
(* once; the ids of the calls differ; and a finished reply of an orderly   *)
(* server is run in full and in its order, but for calls that are no       *)
(* objects.                                                                *)
THEOREM EveryIndexIsAnswered == StreamSpec => []EveryCallIsAccountedFor
BY StreamInductive, NothingIsLost, PTL

=============================================================================
