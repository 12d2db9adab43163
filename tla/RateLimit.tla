----------------------------- MODULE RateLimit ----------------------------
(***************************************************************************)
(* The registry calls of a geranos run, made by many goroutines, go        *)
(* through one RateLimitRoundTripper: Wait gives each a slot, and the      *)
(* request is sent when the goroutine gets to run after it.                *)
(***************************************************************************)
EXTENDS FiniteSets, Integers, Sequences

CONSTANTS
    Interval,   \* time units between slots: 1, of an 80th of a second
    Window,     \* units the registry counts over: a minute, 4800
    Quota,      \* requests it allows in it: 5000
    Slack,      \* the longest a goroutine may take from its slot to the send
    Unsent,
    MaxRequests, MaxTime    \* bounds

VARIABLES
    now,
    slots,  \* slots[k]: when the limiter lets request k go
    sent    \* sent[k]: when it is sent, or Unsent

vars == <<now, slots, sent>>

ASSUME RateLimitAssumption ==
    /\ Interval \in Nat \ {0} /\ Window \in Nat \ {0}
    /\ Quota \in Nat /\ Slack \in Nat
    /\ Unsent \notin Nat
    /\ MaxRequests \in Nat /\ MaxTime \in Nat
    /\ Window - 1 + Slack < Quota * Interval    \* main.go has room for 200

Init == now = 0 /\ slots = <<>> /\ sent = <<>>

\* Mutant: a burst of two: the slot before the last is what counts.
NextSlotBurst ==
    IF Len(slots) < 2 \/ slots[Len(slots) - 1] + 2 * Interval <= now THEN now
    ELSE slots[Len(slots) - 1] + 2 * Interval

\* rate.Limiter with a burst of 1: a slot is as far from the one before as
\* the limit says, or now.
NextSlot ==
    IF slots = <<>> \/ slots[Len(slots)] + Interval <= now THEN now
    ELSE slots[Len(slots)] + Interval

\* rateLimiter.Wait: a goroutine gets its slot, and sleeps until then.  With
\* context.Background() it does not give up.
Wait ==
    /\ Len(slots) < MaxRequests
    /\ slots' = Append(slots, NextSlot)
    /\ sent' = Append(sent, Unsent)
    /\ UNCHANGED now

\* Mutant: the request does not wait for its slot.
RoundTripAtOnce(k) ==
    /\ sent[k] = Unsent
    /\ sent' = [sent EXCEPT ![k] = now]
    /\ UNCHANGED <<now, slots>>

\* Mutant: a goroutine that wakes up late finds its slot gone.
RoundTripMissed(k) ==
    /\ sent[k] = Unsent
    /\ slots[k] = now
    /\ sent' = [sent EXCEPT ![k] = now]
    /\ UNCHANGED <<now, slots>>

\* The goroutine wakes up, and roundTripper.RoundTrip sends the request.
RoundTrip(k) ==
    /\ sent[k] = Unsent
    /\ slots[k] <= now
    /\ sent' = [sent EXCEPT ![k] = now]
    /\ UNCHANGED <<now, slots>>

Tick ==
    /\ now < MaxTime
    /\ \A k \in DOMAIN sent : sent[k] = Unsent => now < slots[k] + Slack
    /\ now' = now + 1
    /\ UNCHANGED <<slots, sent>>

Next ==
    \/ Wait
    \/ \E k \in DOMAIN sent : RoundTrip(k)
    \/ Tick

Spec == Init /\ [][Next]_vars

\* Time does not stop before a slot, and a goroutine gets to run.
Fairness ==
    WF_vars(Tick) /\ \A k \in 1..MaxRequests : WF_vars(k \in DOMAIN sent /\ RoundTrip(k))

FairSpec == Spec /\ Fairness

-----------------------------------------------------------------------------
(* Properties.                                                             *)

SentIn(t) == {k \in DOMAIN sent : sent[k] # Unsent /\ t <= sent[k] /\ sent[k] < t + Window}

\* "80*60s = 4800 RPM, below our current 5000 RPM per-user limit": no window,
\* wherever it starts, has more requests than the registry allows.  Requests
\* may be sent late, and then close together, as long as none is late by
\* more than the room between 4800 and 5000.
BelowQuota == \A t \in 0..now : Cardinality(SentIn(t)) <= Quota

\* Each goroutine has a slot of its own, and none is sent before its slot.
SlotsApart ==
    /\ \A i, j \in DOMAIN slots :
        i < j => (j - i) * Interval <= slots[j] - slots[i]
    /\ \A k \in DOMAIN sent : sent[k] # Unsent =>
        slots[k] <= sent[k] /\ sent[k] <= slots[k] + Slack

\* No request waits for ever, however many have come before it.
EverySent ==
    \A k \in 1..MaxRequests :
        k \in DOMAIN sent /\ slots[k] <= MaxTime
            ~> k \in DOMAIN sent /\ sent[k] # Unsent
=============================================================================
