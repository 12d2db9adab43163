--------------------------- MODULE RateLimitProofs ------------------------
(***************************************************************************)
(* Proofs about RateLimit, for any rate, window, quota and delay that fit  *)
(* together as RateLimitAssumption says.                                   *)
(***************************************************************************)
EXTENDS RateLimit, Induction, FiniteSetTheorems

-----------------------------------------------------------------------------
(* The slots.                                                              *)

TypeInv ==
  /\ now \in Nat
  /\ slots \in Seq(Nat)
  /\ sent \in Seq(Nat \cup {Unsent})
  /\ Len(sent) = Len(slots)

\* SlotsApart, and what keeps it: who is not sent yet can still be in time.
Inv ==
  /\ TypeInv
  /\ SlotsApart
  /\ \A k \in DOMAIN sent : sent[k] = Unsent => now <= slots[k] + Slack

LEMMA OneMore ==
  ASSUME NEW i \in Nat, NEW n \in Nat, NEW d \in Int, (n - i) * Interval <= d
  PROVE  (n + 1 - i) * Interval <= d + Interval
<1>1. (n + 1 - i) * Interval = (n - i) * Interval + Interval
  BY RateLimitAssumption
<1> QED
  BY <1>1, RateLimitAssumption

LEMMA InvWait == Inv /\ Wait => Inv'
<1> SUFFICES ASSUME Inv, Wait PROVE Inv'
  OBVIOUS
<1> DEFINE n == Len(slots)
<1>1. /\ now \in Nat /\ slots \in Seq(Nat) /\ sent \in Seq(Nat \cup {Unsent})
      /\ Len(sent) = n /\ n \in Nat
      /\ slots' = Append(slots, NextSlot) /\ sent' = Append(sent, Unsent) /\ now' = now
  BY DEF Inv, TypeInv, Wait
<1>2. n > 0 => slots[n] \in Nat
  BY <1>1
<1>3. NextSlot \in Nat /\ now <= NextSlot
      /\ (n > 0 => NextSlot - slots[n] >= Interval)
  BY <1>1, <1>2, RateLimitAssumption DEF NextSlot
<1>4. TypeInv'
  BY <1>1, <1>3 DEF TypeInv
<1>5. /\ \A k \in 1..n : slots'[k] = slots[k] /\ sent'[k] = sent[k]
      /\ slots'[n + 1] = NextSlot /\ sent'[n + 1] = Unsent
      /\ DOMAIN slots = 1..n /\ DOMAIN sent = 1..n
      /\ DOMAIN slots' = 1..(n + 1) /\ DOMAIN sent' = 1..(n + 1)
  BY <1>1, <1>3
<1>6. ASSUME NEW i \in DOMAIN slots', NEW j \in DOMAIN slots', i < j
      PROVE  (j - i) * Interval <= slots'[j] - slots'[i]
  <2>1. CASE j <= n
    BY <1>1, <1>5, <1>6, <2>1 DEF Inv, SlotsApart
  <2>2. CASE j = n + 1
    <3>1. i \in 1..n /\ n > 0 /\ slots[i] \in Nat /\ slots[n] \in Nat
      BY <1>1, <1>5, <1>6, <2>2
    <3>2. (n - i) * Interval <= slots[n] - slots[i]
      <4>1. CASE i = n
        BY <3>1, <4>1, RateLimitAssumption
      <4>2. CASE i < n
        BY <1>5, <3>1, <4>2 DEF Inv, SlotsApart
      <4> QED
        BY <3>1, <4>1, <4>2
    <3>3. (n + 1 - i) * Interval <= slots[n] - slots[i] + Interval
      <4> DEFINE d == slots[n] - slots[i]
      <4>1. i \in Nat /\ n \in Nat /\ d \in Int
        BY <1>1, <3>1
      <4>2. (n - i) * Interval <= d
        BY <3>2
      <4> HIDE DEF d, n
      <4>3. (n + 1 - i) * Interval <= d + Interval
        BY <4>1, <4>2, OneMore
      <4> QED
        BY <4>3 DEF d
    <3>4. slots[n] - slots[i] + Interval <= slots'[j] - slots'[i]
      BY <1>3, <1>5, <2>2, <3>1, RateLimitAssumption
    <3>5. slots'[j] - slots'[i] \in Int /\ slots[n] - slots[i] + Interval \in Int
      BY <1>3, <1>5, <2>2, <3>1, RateLimitAssumption
    <3>6. (n + 1 - i) * Interval \in Int /\ (j - i) * Interval = (n + 1 - i) * Interval
      BY <1>1, <2>2, <3>1, RateLimitAssumption
    <3> HIDE DEF n
    <3> QED
      BY <3>3, <3>4, <3>5, <3>6
  <2> QED
    BY <1>1, <1>5, <2>1, <2>2
<1>7. \A k \in DOMAIN sent' : sent'[k] # Unsent =>
        slots'[k] <= sent'[k] /\ sent'[k] <= slots'[k] + Slack
  BY <1>1, <1>5 DEF Inv, SlotsApart
<1>8. \A k \in DOMAIN sent' : sent'[k] = Unsent => now' <= slots'[k] + Slack
  BY <1>1, <1>3, <1>5, RateLimitAssumption DEF Inv
<1> QED
  BY <1>4, <1>6, <1>7, <1>8 DEF Inv, SlotsApart

LEMMA InvRoundTrip == ASSUME Inv, NEW k \in DOMAIN sent, RoundTrip(k) PROVE Inv'
<1>1. /\ now \in Nat /\ slots \in Seq(Nat) /\ sent \in Seq(Nat \cup {Unsent})
      /\ Len(sent) = Len(slots) /\ now' = now /\ slots' = slots
      /\ sent' = [sent EXCEPT ![k] = now]
  BY DEF Inv, TypeInv, RoundTrip
<1>2. TypeInv'
  BY <1>1 DEF TypeInv
<1>3. slots[k] <= now /\ now <= slots[k] + Slack
  BY DEF Inv, RoundTrip
<1>4. /\ \A l \in DOMAIN sent : sent'[l] = IF l = k THEN now ELSE sent[l]
      /\ DOMAIN sent' = DOMAIN sent
  BY <1>1
<1> QED
  BY <1>1, <1>2, <1>3, <1>4, RateLimitAssumption DEF Inv, SlotsApart

LEMMA InvTick == Inv /\ Tick => Inv'
<1> SUFFICES ASSUME Inv, Tick PROVE Inv'
  OBVIOUS
<1>1. now \in Nat /\ now' = now + 1 /\ slots' = slots /\ sent' = sent
      /\ slots \in Seq(Nat) /\ Len(sent) = Len(slots) /\ sent \in Seq(Nat \cup {Unsent})
  BY DEF Inv, TypeInv, Tick
<1>2. \A k \in DOMAIN sent : sent[k] = Unsent => now + 1 <= slots[k] + Slack
  <2>1. \A k \in DOMAIN sent : slots[k] \in Nat
    BY <1>1
  <2> QED
    BY <1>1, <2>1, RateLimitAssumption DEF Tick
<1> QED
  BY <1>1, <1>2 DEF Inv, TypeInv, SlotsApart

LEMMA InvAlways == Spec => []Inv
<1>1. Init => Inv
  BY DEF Init, Inv, TypeInv, SlotsApart
<1>2. Inv /\ [Next]_vars => Inv'
  <2> SUFFICES ASSUME Inv, [Next]_vars PROVE Inv'
    OBVIOUS
  <2>1. CASE UNCHANGED vars
    BY <2>1 DEF vars, Inv, TypeInv, SlotsApart
  <2> QED
    BY <2>1, InvWait, InvRoundTrip, InvTick DEF Next
<1> QED
  BY <1>1, <1>2, PTL DEF Spec

\* Any two requests are as many intervals apart as there are between them,
\* and each is sent in time after its slot.
THEOREM SlotsStayApart == Spec => []SlotsApart
<1>1. Inv => SlotsApart
  BY DEF Inv
<1> QED
  BY <1>1, InvAlways, PTL

-----------------------------------------------------------------------------
(* The quota.                                                              *)

LEMMA Greatest ==
  ASSUME NEW n \in Nat, NEW S \in SUBSET (1..n), S # {}
  PROVE  \E x \in S : \A y \in S : y <= x
<1> DEFINE Away == {n - y : y \in S}
<1>1. Away \in SUBSET Nat /\ Away # {}
  <2>1. \A y \in S : n - y \in Nat
    OBVIOUS
  <2>2. PICK y \in S : TRUE
    OBVIOUS
  <2>3. n - y \in Away
    BY <2>2
  <2> QED
    BY <2>1, <2>3
<1>2. PICK a \in Away : \A b \in Away : a <= b
  <2> HIDE DEF Away
  <2> QED
    BY <1>1, Least
<1>3. PICK x \in S : a = n - x
  BY <1>2
<1>4. \A y \in S : n - x <= n - y
  BY <1>2, <1>3
<1> QED
  BY <1>3, <1>4

LEMMA FewIntervals ==
  ASSUME NEW d \in Nat, d * Interval < Quota * Interval
  PROVE  d < Quota
<1> SUFFICES ASSUME d >= Quota PROVE FALSE
  BY RateLimitAssumption
<1>1. (d - Quota) * Interval >= 0
  BY RateLimitAssumption
<1>2. (d - Quota) * Interval = d * Interval - Quota * Interval
  BY RateLimitAssumption
<1>3. d * Interval \in Int /\ Quota * Interval \in Int
  BY RateLimitAssumption
<1> QED
  BY <1>1, <1>2, <1>3

LEMMA WindowHoldsFew ==
  ASSUME Inv, NEW t \in Nat
  PROVE  Cardinality(SentIn(t)) <= Quota
<1>1. /\ slots \in Seq(Nat) /\ sent \in Seq(Nat \cup {Unsent}) /\ Len(sent) = Len(slots)
      /\ Len(slots) \in Nat
  BY DEF Inv, TypeInv
<1>2. SentIn(t) \in SUBSET (1..Len(slots))
  BY <1>1 DEF SentIn
<1>3. CASE SentIn(t) = {}
  BY <1>3, FS_EmptySet, RateLimitAssumption
<1>4. CASE SentIn(t) # {}
  <2>1. PICK lo \in SentIn(t) : \A k \in SentIn(t) : lo <= k
    BY <1>2, <1>4, Least
  <2>2. PICK hi \in SentIn(t) : \A k \in SentIn(t) : k <= hi
    BY <1>1, <1>2, <1>4, Greatest
  <2>3. lo \in 1..Len(slots) /\ hi \in 1..Len(slots) /\ lo <= hi
    BY <1>2, <2>1, <2>2
  <2>4. \A k \in SentIn(t) : /\ slots[k] \in Nat /\ sent[k] \in Nat
                             /\ slots[k] <= sent[k] /\ sent[k] <= slots[k] + Slack
                             /\ t <= sent[k] /\ sent[k] < t + Window
    BY <1>1, RateLimitAssumption DEF Inv, SlotsApart, SentIn
  <2>5. slots[hi] - slots[lo] <= Window - 1 + Slack
    BY <2>1, <2>2, <2>4, RateLimitAssumption
  <2>6. (hi - lo) * Interval <= slots[hi] - slots[lo]
    <3>1. CASE lo = hi
      <4>1. (hi - lo) * Interval = 0
        BY <2>3, <3>1, RateLimitAssumption
      <4> QED
        BY <2>4, <3>1, <4>1
    <3>2. CASE lo < hi
      <4>1. \A i, j \in DOMAIN slots :
              i < j => (j - i) * Interval <= slots[j] - slots[i]
        BY DEF Inv, SlotsApart
      <4>2. lo \in DOMAIN slots /\ hi \in DOMAIN slots
        BY <1>1, <2>3
      <4> QED
        BY <3>2, <4>1, <4>2
    <3> QED
      BY <2>3, <3>1, <3>2
  <2>7. hi - lo < Quota
    <3>1. hi - lo \in Nat /\ (hi - lo) * Interval \in Int /\ Quota * Interval \in Int
      BY <2>3, RateLimitAssumption
    <3>2. slots[hi] - slots[lo] \in Int
      BY <2>4
    <3>3. (hi - lo) * Interval < Quota * Interval
      BY <2>5, <2>6, <3>1, <3>2, RateLimitAssumption
    <3> QED
      BY <3>1, <3>3, FewIntervals
  <2>8. SentIn(t) \in SUBSET (lo..hi)
    BY <1>2, <2>1, <2>2, <2>3
  <2>9. IsFiniteSet(lo..hi) /\ Cardinality(lo..hi) = hi - lo + 1
    BY <2>3, FS_Interval
  <2>10. Cardinality(SentIn(t)) <= Cardinality(lo..hi) /\ IsFiniteSet(SentIn(t))
    BY <2>8, <2>9, FS_Subset
  <2>11. Cardinality(SentIn(t)) \in Nat
    BY <2>10, FS_CardinalityType
  <2> QED
    BY <2>3, <2>7, <2>9, <2>10, <2>11, RateLimitAssumption
<1> QED
  BY <1>3, <1>4

\* No window holds more requests than the registry allows, however many
\* goroutines there are and however they wake up within Slack.
THEOREM QuotaIsKept == Spec => []BelowQuota
<1>1. Inv => BelowQuota
  BY WindowHoldsFew DEF Inv, TypeInv, BelowQuota
<1> QED
  BY <1>1, InvAlways, PTL
=============================================================================
