-------------------------- MODULE RateLimiterProofs --------------------------
(***************************************************************************)
(* Proofs about RateLimiter, for any threads, keys, limits and windows:    *)
(* every variable stays in its type; a client that waits as long as it was *)
(* told, and a second more, is let through; and no window is overfilled,   *)
(* its length being the horizon less the longest wait for the lock.        *)
(***************************************************************************)
EXTENDS RateLimiter, SequenceTheorems, FiniteSetTheorems, WellFoundedInduction, TLAPS

(* Every nonempty set of natural numbers has a least element.  The choices *)
(* of the model rest on it: the first entry that a pruning leaves exists.  *)
LEMMA LeastNumber ==
  ASSUME NEW S \in SUBSET Nat, S # {}
  PROVE  \E n \in S : \A m \in S : n <= m
<1>1. IsWellFoundedOn(OpToRel(<, Nat), Nat)
  BY NatLessThanWellFounded, Zenon
<1>2. PICK n \in S : \A m \in S : ~(<<m, n>> \in OpToRel(<, Nat))
  BY <1>1, WFMin, Zenon
<1>3. \A m \in S : ~(m < n)
  BY <1>2 DEF OpToRel
<1> QED
  BY <1>3

-----------------------------------------------------------------------------
(* What a pruning does.                                                    *)

(* The number of entries at the head of q that are not later than cutoff.  *)
Popped(q, cutoff) == FirstLive(q, cutoff) - 1

(* Pruning drops a run of entries at the head, all of them not later than  *)
(* the cutoff, and stops at the first one that is later.                   *)
LEMMA Pruning ==
  ASSUME NEW q \in Seq(Nat), NEW cutoff \in Int
  PROVE  /\ Popped(q, cutoff) \in 0..Len(q)
         /\ \A j \in 1..Popped(q, cutoff) : q[j] <= cutoff
         /\ Popped(q, cutoff) < Len(q) => q[Popped(q, cutoff) + 1] > cutoff
         /\ Expire(q, cutoff) \in Seq(Nat)
         /\ Len(Expire(q, cutoff)) = Len(q) - Popped(q, cutoff)
         /\ \A i \in 1..(Len(q) - Popped(q, cutoff)) :
              Expire(q, cutoff)[i] = q[i + Popped(q, cutoff)]
<1> DEFINE First(i) == /\ \A j \in 1..(i - 1) : q[j] <= cutoff
                       /\ i <= Len(q) => q[i] > cutoff
           live == {i \in 1..(Len(q) + 1) : i <= Len(q) => q[i] > cutoff}
           f == FirstLive(q, cutoff)
<1>1. Len(q) \in Nat /\ \A j \in 1..Len(q) : q[j] \in Nat
  OBVIOUS
<1>2. \E i \in 1..(Len(q) + 1) : First(i)
  <2>1. live \in SUBSET Nat /\ Len(q) + 1 \in live
    BY <1>1
  <2>2. PICK i \in live : \A m \in live : i <= m
    BY <2>1, LeastNumber
  <2>3. \A j \in 1..(i - 1) : j \in 1..(Len(q) + 1) /\ j \notin live
    BY <1>1, <2>1, <2>2
  <2>4. \A j \in 1..(i - 1) : q[j] <= cutoff
    BY <1>1, <2>3
  <2> QED
    BY <2>2, <2>4
<1>3. f \in 1..(Len(q) + 1) /\ First(f)
  BY <1>2 DEF FirstLive
<1>4. f \in Int /\ Popped(q, cutoff) = f - 1
  BY <1>1, <1>3 DEF Popped
<1>5. Expire(q, cutoff) = SubSeq(q, f, Len(q))
  BY DEF Expire
<1> HIDE DEF f
<1>6. /\ SubSeq(q, f, Len(q)) \in Seq(Nat)
      /\ Len(SubSeq(q, f, Len(q))) = Len(q) - f + 1
      /\ \A i \in 1..(Len(q) - f + 1) : SubSeq(q, f, Len(q))[i] = q[f + i - 1]
  BY <1>1, <1>3
<1>7. \A i \in 1..(Len(q) - f + 1) : f + i - 1 = i + (f - 1)
  BY <1>1, <1>3
<1>8. Len(q) - f + 1 = Len(q) - (f - 1)
  BY <1>1, <1>3
<1> QED
  BY <1>1, <1>3, <1>4, <1>5, <1>6, <1>7, <1>8

(* Pruning keeps a deque or makes it shorter.                              *)
LEMMA PruningShrinks ==
  ASSUME NEW q \in Seq(Nat), NEW cutoff \in Int
  PROVE  Expire(q, cutoff) = q \/ Len(Expire(q, cutoff)) < Len(q)
<1>1. CASE Popped(q, cutoff) = 0
  <2> DEFINE e == Expire(q, cutoff)
  <2>1. /\ e \in Seq(Nat) /\ Len(e) = Len(q) - 0
        /\ \A i \in 1..(Len(q) - 0) : e[i] = q[i + 0]
    BY <1>1, Pruning
  <2> HIDE DEF e
  <2>2. e \in Seq(Nat) /\ Len(e) = Len(q) /\ \A i \in 1..Len(q) : e[i] = q[i]
    BY <2>1
  <2>3. \A i \in 1..Len(e) : e[i] = q[i]
    BY <2>2
  <2>4. e = q
    BY <2>2, <2>3, SeqEqual, Zenon
  <2> QED
    BY <2>4 DEF e
<1>2. CASE Popped(q, cutoff) # 0
  <2>1. Popped(q, cutoff) \in 0..Len(q) /\ Len(Expire(q, cutoff)) = Len(q) - Popped(q, cutoff)
    BY Pruning
  <2> QED
    BY <1>2, <2>1
<1> QED
  BY <1>1, <1>2

-----------------------------------------------------------------------------
(* Types, and the time a throttled client was told.                        *)

(* Whoever was told to come back finds the deque short of its limit then,  *)
(* or its head out of the window, a second after that time.                *)
RetryOK ==
  \A k \in Keys :
    retry_at[k] # None =>
      \/ Len(requests[k]) < Limit[k]
      \/ requests[k][1] + Window[k] < retry_at[k] + Second

(* No thread is both deciding and answering.                               *)
ThreadsOK == checking \cap throttled = {}

Inv == TypeOK /\ RetryOK /\ ThreadsOK

(* Constants as the proofs use them.                                       *)
LEMMA Constants ==
  /\ \A k \in Keys : Limit[k] \in Nat /\ Limit[k] > 0 /\ Window[k] \in Nat /\ Window[k] > 0
  /\ GlobalWindow \in Nat /\ GlobalWindow > 0 /\ Second \in Nat /\ Second > 0
  /\ CleanupInterval \in Nat /\ MaxStall \in Nat /\ MaxTime \in Nat
BY LimiterConstants

(* A cleanup leaves every deque as it is, or empties it.                   *)
LEMMA CleanedType ==
  ASSUME TypeOK, NEW now \in Nat
  PROVE  /\ Cleaned(now) \in [Keys -> Seq(Nat)]
         /\ \A k \in Keys : Cleaned(now)[k] = requests[k] \/ Cleaned(now)[k] = <<>>
         /\ \A k \in Keys : Len(Cleaned(now)[k]) <= Len(requests[k])
<1>1. requests \in [Keys -> Seq(Nat)] /\ <<>> \in Seq(Nat)
  BY DEF TypeOK
<1>2. \A k \in Keys : Len(requests[k]) \in Nat /\ Len(<<>>) = 0
  BY <1>1
<1> QED
  BY <1>1, <1>2 DEF Cleaned

(* What is_allowed() finds is a deque no longer than the one there was.    *)
LEMMA PendingType ==
  ASSUME TypeOK, NEW c \in Call
  PROVE  /\ Pending(c) \in Seq(Nat)
         /\ Len(Pending(c)) <= Len(requests[c.key])
         /\ Pending(c) = requests[c.key] \/ Len(Pending(c)) < Limit[c.key]
<1>1. c.key \in Keys /\ c.now \in Nat /\ c.now - Window[c.key] \in Int
  BY Constants DEF Call
<1> DEFINE q == Cleaned(c.now)[c.key]
<1>2. /\ q \in Seq(Nat) /\ (q = requests[c.key] \/ q = <<>>)
      /\ Len(q) <= Len(requests[c.key])
  BY <1>1, CleanedType
<1>3. Len(requests[c.key]) \in Nat /\ Len(requests[c.key]) <= Limit[c.key]
  BY <1>1 DEF TypeOK
<1>4. Pending(c) = Expire(q, c.now - Window[c.key])
  BY DEF Pending
<1> HIDE DEF q
<1>5. /\ Expire(q, c.now - Window[c.key]) \in Seq(Nat)
      /\ Expire(q, c.now - Window[c.key]) = q
         \/ Len(Expire(q, c.now - Window[c.key])) < Len(q)
  BY <1>1, <1>2, Pruning, PruningShrinks
<1>6. Len(q) \in Nat /\ Len(Pending(c)) \in Nat /\ Limit[c.key] \in Nat /\ Limit[c.key] > 0
  BY <1>1, <1>2, <1>4, <1>5, Constants
<1>7. CASE Pending(c) = q
  <2>1. CASE q = requests[c.key]
    BY <1>2, <1>4, <1>5, <1>7, <2>1
  <2>2. CASE q = <<>>
    BY <1>2, <1>4, <1>5, <1>6, <1>7, <2>2
  <2> QED
    BY <1>2, <2>1, <2>2
<1>8. CASE Len(Pending(c)) < Len(q)
  BY <1>2, <1>3, <1>4, <1>5, <1>6, <1>8
<1> QED
  BY <1>4, <1>5, <1>7, <1>8

(* The initial state.                                                      *)
LEMMA InitInv == Init => Inv
<1> SUFFICES ASSUME Init PROVE Inv
  OBVIOUS
<1>1. TypeOK
  BY Constants DEF Init, TypeOK, None
<1>2. RetryOK /\ ThreadsOK
  BY DEF Init, RetryOK, ThreadsOK
<1> QED
  BY <1>1, <1>2 DEF Inv

(* How long a client is told to wait, in ticks, is within a second of the  *)
(* time until the head of the deque leaves the window.                     *)
LEMMA Rounding ==
  ASSUME NEW wait \in Int, NEW told \in Int,
         told = IF wait < Second THEN 1 ELSE wait \div Second
  PROVE  told \in Nat /\ told > 0 /\ wait < told * Second + Second
<1>1. Second \in Nat /\ Second > 0
  BY Constants
<1>2. CASE wait < Second
  BY <1>1, <1>2
<1>3. CASE wait >= Second
  <2>1. told = wait \div Second
    BY <1>1, <1>3
  <2>2. told * Second <= wait /\ wait < told * Second + Second
    BY <1>1, <2>1
  <2>3. told > 0
    BY <1>1, <1>3, <2>2
  <2> QED
    BY <2>2, <2>3
<1> QED
  BY <1>1, <1>2, <1>3

(* A thread decides: the deque of its key gains an entry and the client's  *)
(* return is forgotten, or nothing is gained.                              *)
LEMMA CheckInv ==
  ASSUME Inv, NEW c \in checking, Check(c)
  PROVE  Inv'
<1> DEFINE k == c.key
           q == IF is_allowed(c) THEN Append(Pending(c), c.now) ELSE Pending(c)
<1>1. c \in Call /\ k \in Keys /\ c.now \in Nat
  BY DEF Inv, TypeOK, Call
<1>2. TypeOK
  BY DEF Inv
<1>3. /\ Cleaned(c.now) \in [Keys -> Seq(Nat)]
      /\ \A l \in Keys : Cleaned(c.now)[l] = requests[l] \/ Cleaned(c.now)[l] = <<>>
      /\ \A l \in Keys : Len(Cleaned(c.now)[l]) <= Len(requests[l])
  BY <1>1, <1>2, CleanedType
<1>4. /\ Pending(c) \in Seq(Nat) /\ Len(Pending(c)) <= Len(requests[k])
      /\ Pending(c) = requests[k] \/ Len(Pending(c)) < Limit[k]
  BY <1>1, <1>2, PendingType
<1>5. /\ Len(requests[k]) \in Nat /\ Len(requests[k]) <= Limit[k] /\ Len(Pending(c)) \in Nat
      /\ Limit[k] \in Nat
  BY <1>1, <1>2, <1>4, Constants DEF TypeOK
<1>6. q \in Seq(Nat) /\ Len(q) <= Limit[k]
  BY <1>1, <1>4, <1>5 DEF is_allowed
<1>7. requests' = [Cleaned(c.now) EXCEPT ![k] = q]
  BY DEF Check
<1> HIDE DEF q
<1>8. /\ requests' \in [Keys -> Seq(Nat)] /\ requests'[k] = q
      /\ \A l \in Keys \ {k} : requests'[l] = Cleaned(c.now)[l]
  BY <1>1, <1>3, <1>6, <1>7
<1>9. \A l \in Keys : Len(requests'[l]) <= Limit[l]
  <2>1. \A l \in Keys : Len(Cleaned(c.now)[l]) \in Nat /\ Len(requests[l]) \in Nat
                        /\ Len(requests[l]) <= Limit[l] /\ Limit[l] \in Nat
    BY <1>2, <1>3, Constants DEF TypeOK
  <2>2. \A l \in Keys : Len(Cleaned(c.now)[l]) <= Limit[l]
    BY <1>3, <2>1
  <2>3. \A l \in Keys : l = k \/ l \in Keys \ {k}
    OBVIOUS
  <2> QED
    BY <1>6, <1>8, <2>2, <2>3, Zenon
<1>10. TypeOK'
  <2>1. last_cleanup' \in Nat /\ clock' \in Nat
    BY <1>1, <1>2 DEF Check, TypeOK
  <2>2. checking' \subseteq Call /\ throttled' \subseteq Call
    BY <1>1, <1>2 DEF Check, TypeOK
  <2>3. granted' \in [Keys -> Seq(Nat)] /\ retry_at' \in [Keys -> Nat \cup {None}]
    <3>1. granted[k] \in Seq(Nat) /\ Append(granted[k], clock) \in Seq(Nat)
      BY <1>1, <1>2 DEF TypeOK
    <3>2. CASE is_allowed(c)
      BY <1>1, <1>2, <3>1, <3>2 DEF Check, TypeOK
    <3>3. CASE ~is_allowed(c)
      BY <1>2, <3>3 DEF Check, TypeOK
    <3> QED
      BY <3>2, <3>3
  <2> QED
    BY <1>8, <1>9, <2>1, <2>2, <2>3 DEF TypeOK
<1>11. ThreadsOK'
  BY DEF Inv, ThreadsOK, Check
<1>12. ASSUME NEW l \in Keys, retry_at'[l] # None
       PROVE  \/ Len(requests'[l]) < Limit[l]
              \/ requests'[l][1] + Window[l] < retry_at'[l] + Second
  <2>1. retry_at \in [Keys -> Nat \cup {None}]
    BY <1>2 DEF TypeOK
  <2>2. retry_at'[l] = retry_at[l] /\ (l = k => ~is_allowed(c))
    BY <1>1, <1>12, <2>1 DEF Check
  <2>3. \/ Len(requests[l]) < Limit[l]
        \/ requests[l][1] + Window[l] < retry_at[l] + Second
    BY <1>12, <2>2 DEF Inv, RetryOK
  <2>4. CASE l = k
    <3>1. Pending(c) = requests[k] /\ q = Pending(c)
      BY <1>4, <1>5, <2>2, <2>4 DEF is_allowed, q
    <3> QED
      BY <1>8, <2>2, <2>3, <2>4, <3>1
  <2>5. CASE l # k /\ Cleaned(c.now)[l] = requests[l]
    BY <1>8, <2>2, <2>3, <2>5
  <2>6. CASE l # k /\ Cleaned(c.now)[l] = <<>>
    BY <1>8, <2>6, Constants
  <2> QED
    BY <1>3, <2>4, <2>5, <2>6
<1>13. RetryOK'
  BY <1>12 DEF RetryOK
<1> QED
  BY <1>10, <1>11, <1>13 DEF Inv

(* A throttled client is told when to come back.                           *)
LEMMA ThrottleInv ==
  ASSUME Inv, NEW c \in throttled, Throttle(c)
  PROVE  Inv'
<1> DEFINE k == c.key
           wait == get_reset_time(k) - clock
           told == RetryAfter(k)
<1>1. c \in Call /\ k \in Keys /\ TypeOK
  BY DEF Inv, TypeOK, Call
<1>2. /\ requests[k] \in Seq(Nat) /\ clock \in Nat /\ Window[k] \in Nat /\ Second \in Nat
      /\ Second > 0 /\ Limit[k] \in Nat /\ Limit[k] > 0 /\ retry_at \in [Keys -> Nat \cup {None}]
  BY <1>1, Constants DEF TypeOK
<1>3. requests[k] # <<>> => requests[k][1] \in Nat /\ get_reset_time(k) = requests[k][1] + Window[k]
  BY <1>2 DEF get_reset_time
<1>4. get_reset_time(k) \in Nat
  BY <1>2, <1>3 DEF get_reset_time
<1>5. wait \in Int /\ told = IF wait < Second THEN 1 ELSE wait \div Second
  BY <1>2, <1>4 DEF RetryAfter
<1>6. told \in Int
  BY <1>2, <1>5
<1> HIDE DEF wait, told
<1>7. told \in Nat /\ told > 0 /\ wait < told * Second + Second
  BY <1>5, <1>6, Rounding
<1>8. told * Second \in Nat
  BY <1>2, <1>7
<1>9. retry_at' = [retry_at EXCEPT ![k] = clock + told * Second]
  BY DEF Throttle, told
<1>10. /\ retry_at' \in [Keys -> Nat \cup {None}] /\ retry_at'[k] = clock + told * Second
       /\ \A l \in Keys \ {k} : retry_at'[l] = retry_at[l]
  BY <1>1, <1>2, <1>8, <1>9
<1>11. TypeOK'
  BY <1>1, <1>10 DEF TypeOK, Throttle
<1>12. ThreadsOK'
  BY DEF Inv, ThreadsOK, Throttle
<1>13. \/ Len(requests[k]) < Limit[k]
       \/ requests[k][1] + Window[k] < retry_at'[k] + Second
  <2>1. CASE requests[k] = <<>>
    BY <1>2, <2>1
  <2>2. CASE requests[k] # <<>>
    BY <1>2, <1>3, <1>7, <1>8, <1>10, <2>2 DEF wait
  <2> QED
    BY <2>1, <2>2
<1>14. RetryOK'
  BY <1>10, <1>13 DEF RetryOK, Inv, Throttle
<1> QED
  BY <1>11, <1>12, <1>14 DEF Inv

(* Types and returns are kept by every step.                               *)
LEMMA NextInv == Inv /\ [Next]_vars => Inv'
<1> SUFFICES ASSUME Inv, [Next]_vars PROVE Inv'
  OBVIOUS
<1>1. ASSUME NEW t \in Threads, NEW k \in Keys, Begin(t, k)
      PROVE  Inv'
  <2>1. [thread |-> t, key |-> k, now |-> clock] \in Call
    BY DEF Inv, TypeOK, Call
  <2>2. TypeOK'
    BY <1>1, <2>1 DEF Inv, TypeOK, Begin
  <2>3. ThreadsOK'
    BY <1>1 DEF Inv, ThreadsOK, Begin, Idle
  <2> QED
    BY <1>1, <2>2, <2>3 DEF Inv, RetryOK, Begin
<1>2. ASSUME NEW k \in Keys, Remaining(k)
      PROVE  Inv'
  <2> DEFINE q == Expire(requests[k], clock - Window[k])
  <2>1. requests \in [Keys -> Seq(Nat)] /\ requests[k] \in Seq(Nat) /\ clock - Window[k] \in Int
    BY Constants DEF Inv, TypeOK
  <2>2. q \in Seq(Nat) /\ (q = requests[k] \/ Len(q) < Len(requests[k]))
    BY <2>1, Pruning, PruningShrinks
  <2>3. requests' = [requests EXCEPT ![k] = q]
    BY <1>2 DEF Remaining
  <2> HIDE DEF q
  <2>4. /\ requests' \in [Keys -> Seq(Nat)] /\ requests'[k] = q
        /\ \A l \in Keys \ {k} : requests'[l] = requests[l]
    BY <2>1, <2>2, <2>3
  <2>5. Len(q) \in Nat /\ Len(requests[k]) \in Nat /\ Limit[k] \in Nat
        /\ Len(requests[k]) <= Limit[k]
    BY <2>1, <2>2, Constants DEF Inv, TypeOK
  <2>6. \A l \in Keys : Len(requests'[l]) <= Limit[l]
    <3>1. Len(q) <= Limit[k]
      BY <2>2, <2>5
    <3>2. \A l \in Keys : Len(requests[l]) <= Limit[l]
      BY DEF Inv, TypeOK
    <3> QED
      BY <2>4, <3>1, <3>2, Zenon
  <2>7. TypeOK'
    BY <1>2, <2>4, <2>6 DEF Inv, TypeOK, Remaining
  <2>8. RetryOK'
    BY <1>2, <2>2, <2>4, <2>5 DEF Inv, RetryOK, Remaining
  <2> QED
    BY <1>2, <2>7, <2>8 DEF Inv, ThreadsOK, Remaining
<1>3. CASE Tick
  BY <1>3 DEF Inv, TypeOK, RetryOK, ThreadsOK, Tick
<1>4. CASE UNCHANGED vars
  BY <1>4 DEF Inv, TypeOK, RetryOK, ThreadsOK, vars
<1> QED
  BY <1>1, <1>2, <1>3, <1>4, CheckInv, ThrottleInv DEF Next

(* Every variable stays in its type, however threads interleave, and no    *)
(* deque outgrows its limit.                                               *)
THEOREM TypeCorrect == Spec => []TypeOK
<1>1. Inv => TypeOK
  BY DEF Inv
<1> QED
  BY <1>1, InitInv, NextInv, PTL DEF Spec

(* Whoever waits as long as Retry-After said, and a second more, is let    *)
(* through, whatever was throttled, pruned or cleaned up meanwhile, and    *)
(* however long threads wait for the lock.                                 *)
THEOREM RetryIsHonest == Spec => RetryAfterASecondMore
<1> DEFINE Lets == \A c \in checking :
                     /\ c \notin checking'
                     /\ retry_at[c.key] # None
                     /\ c.now >= retry_at[c.key] + Second
                     => c \notin throttled'
<1>1. ASSUME Inv, [Next]_vars PROVE [Lets]_vars
  <2> SUFFICES ASSUME NEW c \in checking, c \notin checking', retry_at[c.key] # None,
                      c.now >= retry_at[c.key] + Second
               PROVE  c \notin throttled'
    OBVIOUS
  <2> DEFINE k == c.key
             q == Cleaned(c.now)[k]
             cutoff == c.now - Window[k]
  <2>1. Check(c)
    BY <1>1 DEF Next, vars, Begin, Check, Throttle, Remaining, Tick
  <2>2. c \in Call /\ k \in Keys /\ c.now \in Nat /\ TypeOK /\ c \notin throttled
    BY <1>1 DEF Inv, TypeOK, Call, ThreadsOK
  <2>3. /\ Window[k] \in Nat /\ Limit[k] \in Nat /\ Limit[k] > 0 /\ Second \in Nat
        /\ cutoff \in Int /\ retry_at[k] \in Nat
    BY <2>2, Constants, SMTT(30) DEF TypeOK
  <2>4. q \in Seq(Nat) /\ (q = requests[k] \/ q = <<>>)
    BY <2>2, CleanedType
  <2>5. requests[k] \in Seq(Nat) /\ Len(requests[k]) <= Limit[k]
    BY <2>2 DEF TypeOK
  <2>6. \/ Len(requests[k]) < Limit[k]
        \/ requests[k][1] + Window[k] < retry_at[k] + Second
    BY <1>1, <2>2 DEF Inv, RetryOK
  <2>7. Pending(c) = Expire(q, cutoff)
    BY DEF Pending
  <2> HIDE DEF q
  <2>8. /\ Popped(q, cutoff) \in 0..Len(q) /\ Len(Expire(q, cutoff)) = Len(q) - Popped(q, cutoff)
        /\ Popped(q, cutoff) < Len(q) => q[Popped(q, cutoff) + 1] > cutoff
    BY <2>3, <2>4, Pruning
  <2>9. Len(Pending(c)) < Limit[k]
    <3>1. CASE q = <<>>
      BY <2>3, <2>7, <2>8, <3>1
    <3>2. CASE q = requests[k] /\ Len(q) < Limit[k]
      BY <2>3, <2>4, <2>7, <2>8, <3>2
    <3>3. CASE q = requests[k] /\ Len(q) = Limit[k]
      <4>1. q[1] \in Nat /\ q[1] + Window[k] < retry_at[k] + Second
        BY <2>3, <2>4, <2>6, <3>3
      <4>2. q[1] <= cutoff
        BY <2>2, <2>3, <4>1
      <4>3. Popped(q, cutoff) # 0
        BY <2>3, <2>4, <2>8, <3>3, <4>1, <4>2
      <4> QED
        BY <2>3, <2>4, <2>7, <2>8, <3>3, <4>3
    <3> QED
      BY <2>3, <2>4, <2>5, <3>1, <3>2, <3>3
  <2> QED
    BY <2>1, <2>2, <2>9 DEF Check, is_allowed
<1> QED
  BY <1>1, InitInv, NextInv, PTL DEF Spec, RetryAfterASecondMore

-----------------------------------------------------------------------------
(* No window is overfilled.  The argument is about one key at a time: q is *)
(* its deque, g the times it let through, L its limit, t the time, and H   *)
(* its horizon less the longest stall.  The deque is what is left of g     *)
(* once requests that were let through at least H ago are dropped at its   *)
(* head, each with the time its thread had read, a stall earlier at most;  *)
(* so a grant that finds a place in it is at least H later than the one    *)
(* that is L places before it.                                             *)

Sorted(g) == \A i, j \in 1..Len(g) : i <= j => g[i] <= g[j]

Dated(g, t) == \A i \in 1..Len(g) : g[i] <= t

Gone(q, g) == Len(g) - Len(q)

Remembers(q, g, H, t) ==
  /\ Gone(q, g) \in Nat
  /\ \A i \in 1..Len(q) : g[i + Gone(q, g)] <= q[i] + MaxStall
  /\ \A i \in 1..Gone(q, g) : g[i] <= t - H

Spaced(g, L, H) == \A i \in 1..Len(g) : i + L <= Len(g) => g[i + L] >= g[i] + H

KeyOK(q, g, L, H, t) == Sorted(g) /\ Dated(g, t) /\ Remembers(q, g, H, t) /\ Spaced(g, L, H)

(* Time passes.                                                            *)
LEMMA KeyLater ==
  ASSUME NEW q \in Seq(Nat), NEW g \in Seq(Nat), NEW L \in Nat, NEW H \in Int,
         NEW t \in Nat, NEW u \in Nat, t <= u, KeyOK(q, g, L, H, t)
  PROVE  KeyOK(q, g, L, H, u)
<1>1. Len(q) \in Nat /\ Len(g) \in Nat /\ \A i \in 1..Len(g) : g[i] \in Nat
  OBVIOUS
<1>2. Gone(q, g) <= Len(g) /\ Gone(q, g) \in Nat
  BY <1>1 DEF Gone, KeyOK, Remembers
<1>3. Dated(g, u)
  BY <1>1 DEF KeyOK, Dated
<1>4. Remembers(q, g, H, u)
  BY <1>1, <1>2 DEF KeyOK, Remembers
<1> QED
  BY <1>3, <1>4 DEF KeyOK

(* A run of entries that are old enough is dropped at the head.            *)
LEMMA KeyShrinks ==
  ASSUME NEW q \in Seq(Nat), NEW g \in Seq(Nat), NEW L \in Nat, NEW H \in Int,
         NEW t \in Nat, KeyOK(q, g, L, H, t),
         NEW p \in Seq(Nat), NEW d \in 0..Len(q), Len(p) = Len(q) - d,
         \A i \in 1..Len(p) : p[i] = q[i + d],
         \A i \in 1..d : g[i + Gone(q, g)] <= t - H
  PROVE  KeyOK(p, g, L, H, t)
<1>1. /\ Len(q) \in Nat /\ Len(g) \in Nat /\ Len(p) \in Nat /\ d \in Nat
      /\ \A i \in 1..Len(g) : g[i] \in Nat
  OBVIOUS
<1> DEFINE o == Gone(q, g)
           n == Gone(p, g)
<1>2. o \in Nat /\ n = o + d /\ n \in Nat /\ o + Len(q) = Len(g)
  BY <1>1 DEF Gone, KeyOK, Remembers
<1>3. /\ \A i \in 1..Len(q) : g[i + o] <= q[i] + MaxStall
      /\ \A i \in 1..o : g[i] <= t - H
      /\ \A i \in 1..d : g[i + o] <= t - H
  BY DEF KeyOK, Remembers
<1> HIDE DEF o, n
<1>4. \A i \in 1..Len(p) : g[i + n] <= p[i] + MaxStall
  <2> TAKE i \in 1..Len(p)
  <2>1. i + d \in 1..Len(q) /\ (i + d) + o = i + n
    BY <1>1, <1>2
  <2>2. p[i] = q[i + d] /\ g[(i + d) + o] <= q[i + d] + MaxStall
    BY <1>3, <2>1
  <2> QED
    BY <2>1, <2>2
<1>5. \A i \in 1..n : g[i] <= t - H
  <2> TAKE i \in 1..n
  <2>1. CASE i \in 1..o
    BY <1>3, <2>1
  <2>2. CASE i \notin 1..o
    <3>1. i - o \in 1..d /\ i - o \in 1..Len(q) /\ (i - o) + o = i
      BY <1>1, <1>2, <2>2
    <3>2. g[(i - o) + o] <= t - H
      BY <1>3, <3>1
    <3> QED
      BY <3>1, <3>2
  <2> QED
    BY <2>1, <2>2
<1>6. Remembers(p, g, H, t)
  BY <1>2, <1>4, <1>5 DEF Remembers, n
<1> QED
  BY <1>6 DEF KeyOK

(* A request is let through at a time when the deque has a place; its      *)
(* thread read the clock earlier, by a stall at most.                      *)
LEMMA KeyGrants ==
  ASSUME NEW q \in Seq(Nat), NEW g \in Seq(Nat), NEW L \in Nat, NEW H \in Int,
         NEW t \in Nat, KeyOK(q, g, L, H, t), Len(q) < L,
         NEW now \in Nat, t <= now + MaxStall
  PROVE  KeyOK(Append(q, now), Append(g, t), L, H, t)
<1> DEFINE p == Append(q, now)
           h == Append(g, t)
<1>1. /\ Len(q) \in Nat /\ Len(g) \in Nat /\ Len(p) = Len(q) + 1 /\ Len(h) = Len(g) + 1
      /\ \A i \in 1..Len(g) : g[i] \in Nat /\ h[i] = g[i]
      /\ \A i \in 1..Len(q) : p[i] = q[i]
      /\ p[Len(q) + 1] = now /\ h[Len(g) + 1] = t
  OBVIOUS
<1> HIDE DEF p, h
<1> DEFINE o == Gone(q, g)
<1>2. o \in Nat /\ o + Len(q) = Len(g) /\ Gone(p, h) = o
  BY <1>1 DEF Gone, KeyOK, Remembers
<1>3. /\ \A i \in 1..Len(q) : g[i + o] <= q[i] + MaxStall
      /\ \A i \in 1..o : g[i] <= t - H
  BY DEF KeyOK, Remembers
<1> HIDE DEF o
<1>4. \A i \in 1..Len(h) : h[i] \in Nat /\ h[i] <= t
  <2>1. \A i \in 1..Len(h) : i \in 1..Len(g) \/ i = Len(g) + 1
    <3>1. Len(g) \in Nat /\ Len(h) = Len(g) + 1
      BY <1>1
    <3> QED
      BY <3>1
  <2>2. \A i \in 1..Len(g) : g[i] <= t
    BY DEF KeyOK, Dated
  <2>3. \A i \in 1..Len(g) : h[i] \in Nat /\ h[i] <= t
    BY <1>1, <2>2
  <2>4. h[Len(g) + 1] \in Nat /\ h[Len(g) + 1] <= t
    BY <1>1
  <2> QED
    BY <2>1, <2>3, <2>4
<1>5. Sorted(h)
  <2> SUFFICES ASSUME NEW i \in 1..Len(h), NEW j \in 1..Len(h), i <= j
               PROVE  h[i] <= h[j]
    BY DEF Sorted
  <2>1. Len(g) \in Nat /\ Len(h) = Len(g) + 1
    BY <1>1
  <2>2. CASE j = Len(g) + 1
    BY <1>1, <1>4, <2>2
  <2>3. CASE j # Len(g) + 1
    <3>1. i \in 1..Len(g) /\ j \in 1..Len(g)
      BY <2>1, <2>3
    <3>2. g[i] <= g[j]
      BY <3>1 DEF KeyOK, Sorted
    <3> QED
      BY <1>1, <3>1, <3>2
  <2> QED
    BY <2>2, <2>3
<1>6. Remembers(p, h, H, t)
  <2>1. \A i \in 1..Len(p) : h[i + o] <= p[i] + MaxStall
    <3> TAKE i \in 1..Len(p)
    <3>1. CASE i \in 1..Len(q)
      <4>1. i + o \in 1..Len(g)
        BY <1>1, <1>2, <3>1
      <4> QED
        BY <1>1, <1>3, <3>1, <4>1
    <3>2. CASE i \notin 1..Len(q)
      <4>1. Len(q) \in Nat /\ Len(p) = Len(q) + 1
        BY <1>1
      <4>2. i = Len(q) + 1
        BY <3>2, <4>1
      <4>3. i + o = Len(g) + 1
        <5>1. o \in Nat /\ o + Len(q) = Len(g) /\ Len(g) \in Nat
          BY <1>1, <1>2
        <5> QED
          BY <4>1, <4>2, <5>1
      <4> QED
        BY <1>1, <4>2, <4>3
    <3> QED
      BY <3>1, <3>2
  <2>2. \A i \in 1..o : i \in 1..Len(g) /\ h[i] <= t - H
    BY <1>1, <1>2, <1>3, SMTT(30)
  <2> QED
    BY <1>2, <2>1, <2>2 DEF Remembers
<1>7. Spaced(h, L, H)
  <2> SUFFICES ASSUME NEW i \in 1..Len(h), i + L <= Len(h)
               PROVE  h[i + L] >= h[i] + H
    BY DEF Spaced
  <2>1. CASE i + L <= Len(g)
    <3>1. i \in 1..Len(g) /\ i + L \in 1..Len(g)
      BY <1>1, <2>1
    <3>2. g[i + L] >= g[i] + H
      BY <2>1, <3>1 DEF KeyOK, Spaced
    <3> QED
      BY <1>1, <3>1, <3>2
  <2>2. CASE i + L > Len(g)
    <3>1. Len(g) \in Nat /\ Len(q) \in Nat /\ Len(h) = Len(g) + 1
      BY <1>1
    <3>2. i + L = Len(g) + 1 /\ i \in 1..o /\ i \in 1..Len(g)
      <4>1. o \in Nat /\ o + Len(q) = Len(g)
        BY <1>2
      <4>2. i \in Nat /\ i > 0 /\ i + L <= Len(g) + 1
        BY <3>1
      <4>3. i + L = Len(g) + 1
        <5>1. \A a, b, n \in Nat : a + b > n /\ a + b <= n + 1 => a + b = n + 1
          OBVIOUS
        <5> QED
          BY <2>2, <3>1, <4>2, <5>1
      <4>4. i <= o /\ i <= Len(g)
        BY <3>1, <4>1, <4>2, <4>3
      <4> QED
        BY <3>1, <4>1, <4>2, <4>3, <4>4
    <3>3. h[i + L] = t /\ h[i] = g[i] /\ g[i] \in Nat /\ g[i] <= t - H
      BY <1>1, <1>3, <3>2
    <3> QED
      BY <3>3
  <2> QED
    BY <1>1, <2>1, <2>2
<1>8. Dated(h, t)
  BY <1>4 DEF Dated
<1> QED
  BY <1>5, <1>6, <1>7, <1>8 DEF KeyOK, p, h

(* Times that are spaced like that leave no stretch of length H with more  *)
(* than L of them.                                                         *)
LEMMA SpacedFits ==
  ASSUME NEW g \in Seq(Nat), NEW L \in Nat, L > 0, NEW H \in Int, NEW end \in Nat,
         Sorted(g), Spaced(g, L, H)
  PROVE  Cardinality({i \in DOMAIN g : end - H < g[i] /\ g[i] <= end}) <= L
<1> DEFINE W == {i \in DOMAIN g : end - H < g[i] /\ g[i] <= end}
<1>1. Len(g) \in Nat /\ DOMAIN g = 1..Len(g) /\ \A i \in 1..Len(g) : g[i] \in Nat
  OBVIOUS
<1>2. CASE W = {}
  <2>1. Cardinality(W) = 0
    BY <1>2, FS_EmptySet, Zenon
  <2> QED
    BY <2>1
<1>3. CASE W # {}
  <2>1. W \in SUBSET Nat
    BY <1>1
  <2>2. PICK a \in W : \A m \in W : a <= m
    BY <1>3, <2>1, LeastNumber
  <2>3. W \subseteq a..(a + L - 1)
    <3> SUFFICES ASSUME NEW m \in W, m > a + L - 1
                 PROVE  FALSE
      BY <1>1, <2>2
    <3>1. m \in 1..Len(g) /\ a \in 1..Len(g) /\ a + L \in 1..Len(g) /\ a + L <= m
      BY <1>1, <2>2, SMTT(30)
    <3>2. g[a + L] >= g[a] + H
      BY <3>1, SMTT(30) DEF Spaced
    <3>3. g[m] >= g[a + L]
      BY <3>1 DEF Sorted
    <3>4. end - H < g[a] /\ g[m] <= end
      BY <2>2
    <3> QED
      BY <1>1, <3>1, <3>2, <3>3, <3>4, SMTT(30)
  <2>4. a \in Int /\ a + L - 1 \in Int /\ a \in Nat
    BY <2>1, <2>2
  <2>5. /\ IsFiniteSet(a..(a + L - 1))
        /\ Cardinality(a..(a + L - 1)) = IF a > a + L - 1 THEN 0 ELSE (a + L - 1) - a + 1
    BY <2>4, FS_Interval
  <2>6. Cardinality(W) <= Cardinality(a..(a + L - 1))
    BY <2>3, <2>5, FS_Subset, Zenon
  <2>7. Cardinality(a..(a + L - 1)) = L
    BY <2>4, <2>5
  <2> QED
    BY <2>6, <2>7
<1> QED
  BY <1>2, <1>3

-----------------------------------------------------------------------------
(* The invariant behind SlidingWindow: a thread that is about to decide    *)
(* read the clock at most a stall ago, and every key is in order.          *)
NowOK == \A c \in checking : c.now <= clock /\ clock <= c.now + MaxStall

(* The length of the window that a key keeps to.                           *)
Sure(k) == Horizon(k) - MaxStall

KeysOK == \A k \in Keys : KeyOK(requests[k], granted[k], Limit[k], Sure(k), clock)

WInv == Inv /\ NowOK /\ KeysOK

(* The time for which a grant of a key is sure to be remembered.           *)
LEMMA SureType ==
  ASSUME NEW k \in Keys
  PROVE  /\ Sure(k) \in Int /\ MaxStall \in Nat
         /\ Sure(k) + MaxStall <= Window[k] /\ Sure(k) + MaxStall <= GlobalWindow
BY Constants DEF Sure, Horizon

(* Both hold when nothing was granted yet.                                 *)
LEMMA InitWInv == Init => WInv
<1> SUFFICES ASSUME Init PROVE WInv
  OBVIOUS
<1>1. Inv /\ NowOK
  BY InitInv DEF Init, NowOK
<1>2. ASSUME NEW k \in Keys
      PROVE  KeyOK(requests[k], granted[k], Limit[k], Sure(k), clock)
  <2>1. requests[k] = <<>> /\ granted[k] = <<>> /\ Len(<<>>) = 0
    BY <1>2 DEF Init
  <2> QED
    BY <2>1 DEF KeyOK, Sorted, Dated, Remembers, Gone, Spaced
<1> QED
  BY <1>1, <1>2 DEF WInv, KeysOK

(* A pruning by a time that is past keeps a key in order, ...              *)
LEMMA PruneKey ==
  ASSUME NEW k \in Keys, NEW q \in Seq(Nat), NEW g \in Seq(Nat), NEW t \in Nat,
         NEW now \in Nat, now <= t, KeyOK(q, g, Limit[k], Sure(k), t)
  PROVE  KeyOK(Expire(q, now - Window[k]), g, Limit[k], Sure(k), t)
<1> DEFINE cutoff == now - Window[k]
           d == Popped(q, cutoff)
           p == Expire(q, cutoff)
           o == Gone(q, g)
<1>1. /\ cutoff \in Int /\ cutoff + MaxStall <= t - Sure(k)
      /\ Limit[k] \in Nat /\ Sure(k) \in Int /\ MaxStall \in Nat
  BY Constants, SureType
<1>2. /\ d \in 0..Len(q) /\ p \in Seq(Nat) /\ Len(p) = Len(q) - d
      /\ \A j \in 1..d : q[j] <= cutoff
      /\ \A i \in 1..(Len(q) - d) : p[i] = q[i + d]
  BY <1>1, Pruning
<1>3. \A j \in 1..Len(q) : j + o \in 1..Len(g) /\ g[j + o] <= q[j] + MaxStall
  BY DEF KeyOK, Remembers, Gone
<1> HIDE DEF cutoff, d, p, o
<1>4. \A j \in 1..d : g[j + o] <= t - Sure(k)
  <2> TAKE j \in 1..d
  <2>1. j \in 1..Len(q) /\ q[j] \in Nat /\ q[j] <= cutoff
    BY <1>2
  <2>2. g[j + o] \in Nat /\ g[j + o] <= q[j] + MaxStall
    BY <1>3, <2>1
  <2> QED
    BY <1>1, <2>1, <2>2
<1>5. KeyOK(p, g, Limit[k], Sure(k), t)
  BY <1>1, <1>2, <1>4, KeyShrinks DEF o
<1> QED
  BY <1>5 DEF p, cutoff

(* ... and so does a cleanup: the newest entry of a deque that it drops is *)
(* older than the global window, and its request was let through a stall   *)
(* later at most, and all the others before it.                            *)
LEMMA CleanKey ==
  ASSUME WInv, NEW k \in Keys, NEW now \in Nat, now <= clock
  PROVE  KeyOK(Cleaned(now)[k], granted[k], Limit[k], Sure(k), clock)
<1> DEFINE q == requests[k]
           g == granted[k]
<1>1. /\ q \in Seq(Nat) /\ g \in Seq(Nat) /\ clock \in Nat /\ TypeOK
      /\ KeyOK(q, g, Limit[k], Sure(k), clock)
  BY DEF WInv, Inv, TypeOK, KeysOK
<1>2. /\ Sure(k) \in Int /\ MaxStall \in Nat /\ Sure(k) + MaxStall <= GlobalWindow
      /\ GlobalWindow \in Nat /\ Limit[k] \in Nat
  BY SureType, Constants
<1>3. Cleaned(now)[k] = q \/ (Cleaned(now)[k] = <<>> /\ Stale(q, now))
  BY DEF Cleaned
<1>4. ASSUME Stale(q, now)
      PROVE  KeyOK(<<>>, g, Limit[k], Sure(k), clock)
  <2> HIDE DEF q, g
  <2> DEFINE d == Len(q)
             o == Gone(q, g)
  <2>1. d \in Nat /\ d \in 0..Len(q) /\ Len(<<>>) = d - d /\ <<>> \in Seq(Nat) /\ Len(g) \in Nat
    BY <1>1
  <2>2. ASSUME NEW i \in 1..d
        PROVE  g[i + o] <= clock - Sure(k)
    <3>1. q # <<>> /\ q[d] < now - GlobalWindow
      BY <1>1, <1>4, <2>1, <2>2 DEF Stale
    <3>2. o \in Nat /\ o + d = Len(g) /\ g[d + o] <= q[d] + MaxStall
      BY <1>1, <2>1, <2>2 DEF KeyOK, Remembers, Gone
    <3>3. i + o \in 1..Len(g) /\ d + o \in 1..Len(g) /\ i + o <= d + o
      BY <2>1, <2>2, <3>2
    <3>4. g[i + o] <= g[d + o]
      BY <1>1, <3>3 DEF KeyOK, Sorted
    <3>5. g[i + o] \in Nat /\ g[d + o] \in Nat /\ q[d] \in Nat
      BY <1>1, <2>1, <2>2, <3>3
    <3>6. \A a, b, e, u, w \in Nat, y \in Int :
            /\ a <= b /\ b <= e + MaxStall /\ e < u - GlobalWindow /\ u <= w
            /\ y + MaxStall <= GlobalWindow
            => a <= w - y
      BY <1>2
    <3> HIDE DEF d, o
    <3> QED
      BY <1>1, <1>2, <3>1, <3>2, <3>4, <3>5, <3>6
  <2>3. \A i \in 1..Len(<<>>) : <<>>[i] = q[i + d]
    BY <2>1
  <2> HIDE DEF d
  <2> QED
    BY <1>1, <1>2, <2>1, <2>2, <2>3, KeyShrinks DEF d
<1> QED
  BY <1>1, <1>3, <1>4

(* Every step keeps them so.                                               *)
LEMMA NextWInv == ASSUME WInv, [Next]_vars PROVE WInv'
<1>1. Inv'
  BY NextInv DEF WInv
<1>2. TypeOK /\ TypeOK' /\ clock \in Nat
  BY <1>1 DEF WInv, Inv, TypeOK
<1>3. ASSUME NEW c \in checking, Check(c)
      PROVE  NowOK' /\ KeysOK'
  <2> DEFINE k == c.key
  <2>1. /\ k \in Keys /\ c \in Call /\ c.now \in Nat /\ clock' = clock
        /\ c.now <= clock /\ clock <= c.now + MaxStall
    BY <1>2, <1>3 DEF TypeOK, Call, WInv, NowOK, Check
  <2>2. NowOK'
    BY <1>3, <2>1 DEF WInv, NowOK, Check
  <2>3. Cleaned(c.now) \in [Keys -> Seq(Nat)] /\ granted \in [Keys -> Seq(Nat)]
    BY <1>2, <2>1, CleanedType DEF TypeOK
  <2>4. Pending(c) \in Seq(Nat) /\ Pending(c) = Expire(Cleaned(c.now)[k], c.now - Window[k])
    BY <1>2, <2>1, PendingType DEF Pending
  <2>5. KeyOK(Pending(c), granted[k], Limit[k], Sure(k), clock)
    BY <1>2, <2>1, <2>3, <2>4, CleanKey, PruneKey
  <2>6. ASSUME NEW l \in Keys
        PROVE  KeyOK(requests'[l], granted'[l], Limit[l], Sure(l), clock')
    <3>1. CASE l # k
      <4>1. requests'[l] = Cleaned(c.now)[l] /\ granted'[l] = granted[l]
        BY <1>3, <2>1, <2>3, <2>6, <3>1 DEF Check
      <4> QED
        BY <2>1, <4>1, CleanKey
    <3>2. CASE l = k /\ ~is_allowed(c)
      <4>1. requests'[l] = Pending(c) /\ granted'[l] = granted[k]
        BY <1>3, <2>1, <2>3, <3>2 DEF Check
      <4> QED
        BY <2>1, <2>5, <3>2, <4>1
    <3>3. CASE l = k /\ is_allowed(c)
      <4>1. requests'[l] = Append(Pending(c), c.now) /\ granted'[l] = Append(granted[k], clock)
        BY <1>3, <2>1, <2>3, <3>3 DEF Check
      <4>2. Len(Pending(c)) < Limit[k] /\ Limit[k] \in Nat /\ Sure(k) \in Int
        BY <2>1, <3>3, Constants, SureType DEF is_allowed
      <4>3. granted[k] \in Seq(Nat)
        BY <2>1, <2>3
      <4>4. KeyOK(Append(Pending(c), c.now), Append(granted[k], clock), Limit[k], Sure(k), clock)
        BY <1>2, <2>1, <2>4, <2>5, <4>2, <4>3, KeyGrants
      <4> QED
        BY <2>1, <3>3, <4>1, <4>4
    <3> QED
      BY <3>1, <3>2, <3>3
  <2> QED
    BY <2>2, <2>6 DEF KeysOK
<1>4. ASSUME NEW k \in Keys, Remaining(k)
      PROVE  NowOK' /\ KeysOK'
  <2>1. NowOK' /\ clock' = clock /\ granted' = granted
    BY <1>4 DEF WInv, NowOK, Remaining
  <2>2. requests \in [Keys -> Seq(Nat)] /\ granted \in [Keys -> Seq(Nat)]
    BY <1>2 DEF TypeOK
  <2>3. KeyOK(Expire(requests[k], clock - Window[k]), granted[k], Limit[k], Sure(k), clock)
    BY <1>2, <1>4, <2>2, PruneKey DEF WInv, KeysOK
  <2>4. ASSUME NEW l \in Keys
        PROVE  KeyOK(requests'[l], granted'[l], Limit[l], Sure(l), clock')
    <3>1. CASE l = k
      <4>1. requests'[l] = Expire(requests[k], clock - Window[k])
        BY <1>4, <2>2, <3>1 DEF Remaining
      <4> QED
        BY <2>1, <2>3, <3>1, <4>1
    <3>2. CASE l # k
      <4>1. requests'[l] = requests[l]
        BY <1>4, <2>2, <2>4, <3>2 DEF Remaining
      <4> QED
        BY <2>1, <2>4, <4>1 DEF WInv, KeysOK
    <3> QED
      BY <3>1, <3>2
  <2> QED
    BY <2>1, <2>4 DEF KeysOK
<1>5. ASSUME Tick
      PROVE  NowOK' /\ KeysOK'
  <2>1. /\ clock' = clock + 1 /\ clock' \in Nat /\ clock <= clock'
        /\ UNCHANGED <<requests, granted, checking>>
    BY <1>2, <1>5 DEF Tick
  <2>2. \A c \in checking : c.now \in Nat /\ c.now <= clock /\ clock + 1 - c.now <= MaxStall
    BY <1>2, <1>5 DEF Tick, WInv, NowOK, TypeOK, Call
  <2>3. \A c \in checking : c.now <= clock' /\ clock' <= c.now + MaxStall
    BY <1>2, <2>1, <2>2, Constants
  <2>4. NowOK'
    BY <2>1, <2>3 DEF NowOK
  <2>5. ASSUME NEW l \in Keys
        PROVE  KeyOK(requests[l], granted[l], Limit[l], Sure(l), clock')
    <3>1. /\ requests[l] \in Seq(Nat) /\ granted[l] \in Seq(Nat) /\ Limit[l] \in Nat
          /\ Sure(l) \in Int /\ KeyOK(requests[l], granted[l], Limit[l], Sure(l), clock)
      BY <1>2, <2>5, Constants, SureType DEF TypeOK, WInv, KeysOK
    <3> QED
      BY <1>2, <2>1, <3>1, KeyLater
  <2>6. \A l \in Keys : KeyOK(requests'[l], granted'[l], Limit[l], Sure(l), clock')
    BY <2>1, <2>5
  <2> QED
    BY <2>4, <2>6 DEF KeysOK
<1>6. ASSUME UNCHANGED <<requests, granted, clock>>
      PROVE  KeysOK'
  <2>1. \A l \in Keys : KeyOK(requests'[l], granted'[l], Limit[l], Sure(l), clock')
    BY <1>6 DEF WInv, KeysOK
  <2> QED
    BY <2>1 DEF KeysOK
<1>7. ASSUME NEW t \in Threads, NEW k \in Keys, Begin(t, k)
      PROVE  NowOK' /\ KeysOK'
  BY <1>2, <1>6, <1>7, Constants DEF WInv, NowOK, Begin
<1>8. ASSUME NEW c \in throttled, Throttle(c)
      PROVE  NowOK' /\ KeysOK'
  BY <1>6, <1>8 DEF WInv, NowOK, Throttle
<1>9. CASE UNCHANGED vars
  <2>1. NowOK' /\ KeysOK'
    BY <1>6, <1>9 DEF WInv, NowOK, vars
  <2> QED
    BY <1>1, <2>1 DEF WInv
<1>10. CASE Next
  <2>1. NowOK' /\ KeysOK'
    BY <1>3, <1>4, <1>5, <1>7, <1>8, <1>10 DEF Next
  <2> QED
    BY <1>1, <2>1 DEF WInv
<1> QED
  BY <1>9, <1>10

(* No key is let through more often than its limit in any stretch of time  *)
(* as long as its horizon less the longest wait for the lock, across       *)
(* pruning, cleanups and any interleaving of threads.                      *)
THEOREM NoWindowIsOverfilled == Spec => []SlidingWindow
<1>1. WInv => SlidingWindow
  <2> SUFFICES ASSUME WInv, NEW k \in Keys, NEW end \in 0..clock
               PROVE  Cardinality(GrantedIn(k, Horizon(k) - MaxStall, end)) <= Limit[k]
    BY DEF SlidingWindow, AtMostLimit
  <2>1. /\ granted[k] \in Seq(Nat) /\ Limit[k] \in Nat /\ Limit[k] > 0 /\ Sure(k) \in Int
        /\ end \in Nat
    BY Constants, SureType DEF WInv, Inv, TypeOK
  <2>2. Sorted(granted[k]) /\ Spaced(granted[k], Limit[k], Sure(k))
    BY DEF WInv, KeysOK, KeyOK
  <2>3. Cardinality(GrantedIn(k, Sure(k), end)) <= Limit[k]
    BY <2>1, <2>2, SpacedFits DEF GrantedIn
  <2> QED
    BY <2>3 DEF Sure
<1>2. WInv /\ [Next]_vars => WInv'
  BY NextWInv
<1> QED
  BY <1>1, <1>2, InitWInv, PTL DEF Spec
=============================================================================
