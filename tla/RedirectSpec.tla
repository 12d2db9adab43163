--------------------------- MODULE RedirectSpec ----------------------------
(***************************************************************************)
(* What archeio promises, with no cache, HEAD or timeout: a request is     *)
(* answered as it is routed, or, if it is for an object of the buckets,    *)
(* with a redirect to that very object, and then only if the service has   *)
(* seen the object in its bucket since it started.  Nothing it has         *)
(* redirected a client to is forgotten before a restart; what it has seen  *)
(* and not used yet may be.                                                *)
(***************************************************************************)
CONSTANTS
    Handlers, Requests, NoRequest,
    Objects,    \* the objects of the buckets
    Deletable,  \* the ones that may be removed
    Routed,     \* Routed[q]: the reply to request q that needs no object
    ObjectOf,   \* ObjectOf[q]: the object of q, for the requests that have one
    RedirectTo  \* RedirectTo[o]: the reply that sends the client to object o

VARIABLES
    request,    \* what each handler serves
    reply,      \* what it answered
    vouched,    \* the objects the service knows to have been there
    objects     \* the objects that are

vars == <<request, reply, vouched, objects>>

Init ==
    /\ request = [h \in Handlers |-> NoRequest]
    /\ reply = [h \in Handlers |-> NoRequest]
    /\ vouched = {}
    /\ objects \in SUBSET Objects

Pending(h) == request[h] # NoRequest /\ reply[h] = NoRequest

\* What needs no look at a bucket is answered at once.
Receive(h, q) ==
    /\ request[h] = NoRequest
    /\ request' = [request EXCEPT ![h] = q]
    /\ reply' = IF q \in DOMAIN ObjectOf THEN reply
                ELSE [reply EXCEPT ![h] = Routed[q]]
    /\ UNCHANGED <<vouched, objects>>

\* The service sees the object of a pending request in its bucket.
Learn(h) ==
    /\ Pending(h)
    /\ ObjectOf[request[h]] \in objects
    /\ vouched' = vouched \cup {ObjectOf[request[h]]}
    /\ UNCHANGED <<request, reply, objects>>

SendToBucket(h) ==
    /\ Pending(h)
    /\ ObjectOf[request[h]] \in vouched
    /\ reply' = [reply EXCEPT ![h] = RedirectTo[ObjectOf[request[h]]]]
    /\ UNCHANGED <<request, vouched, objects>>

\* Giving up on the bucket is always allowed, and forgets at most what this
\* request has seen.
SendUpstream(h) ==
    /\ Pending(h)
    /\ reply' = [reply EXCEPT ![h] = Routed[request[h]]]
    /\ vouched' \in {vouched, vouched \ {ObjectOf[request[h]]}}
    /\ UNCHANGED <<request, objects>>

End(h) ==
    /\ reply[h] # NoRequest
    /\ request' = [request EXCEPT ![h] = NoRequest]
    /\ reply' = [reply EXCEPT ![h] = NoRequest]
    /\ UNCHANGED <<vouched, objects>>

Change ==
    /\ \/ \E o \in Objects : objects' = objects \cup {o}
       \/ \E o \in Deletable : objects' = objects \ {o}
    /\ UNCHANGED <<request, reply, vouched>>

Restart ==
    /\ request' = [h \in Handlers |-> NoRequest]
    /\ reply' = [h \in Handlers |-> NoRequest]
    /\ vouched' = {}
    /\ UNCHANGED objects

Answer(h) == SendToBucket(h) \/ SendUpstream(h)

Next ==
    \/ \E h \in Handlers, q \in Requests : Receive(h, q)
    \/ \E h \in Handlers : Learn(h) \/ Answer(h) \/ End(h)
    \/ Change
    \/ Restart

Safe == Init /\ [][Next]_vars

\* Every request is answered, and the handler is then free again.
Spec == Safe /\ \A h \in Handlers : WF_vars(Answer(h)) /\ WF_vars(End(h))
=============================================================================
