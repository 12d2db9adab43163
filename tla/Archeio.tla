------------------------------ MODULE Archeio ------------------------------
(***************************************************************************)
(* One archeio process: the goroutines that serve requests, the existence  *)
(* cache they share (blobCache, a sync.Map) and the buckets they ask by    *)
(* HTTP HEAD.  A step is what one goroutine does between two points where  *)
(* another can run or the network can answer: a request is taken and       *)
(* routed, the cache is read, the HEAD is answered, the cache is written   *)
(* and the reply sent.  The cache is read before the HEAD and written      *)
(* after it with nothing held in between, and nothing is ever removed.     *)
(*                                                                         *)
(* The buckets are filled by other programs and may lose objects (Delete). *)
(***************************************************************************)
EXTENDS Routing

CONSTANTS
    Handlers,   \* the goroutines of net/http, one request each at a time
    Requests,   \* the requests clients send
    RC,         \* the RegistryConfig: sig, path, bucket
    Deletable,  \* the objects that may be removed from their bucket
    NoRequest   \* stands for no request, no answer and no reply

\* The requests that are about an object of a bucket, and those objects.
BlobRequests == {q \in Requests : NeedsBlobCheck(q)}
Objects == {BlobURL(RC, q) : q \in BlobRequests}

\* Final statuses of a HEAD, after the redirects the client follows: an
\* object that is there is 200 or a server's trouble, one that is not is
\* never 200.
Statuses == {200, 404, 503}

ASSUME ArcheioAssumption ==
    /\ NoRequest \notin Requests /\ NoRequest \notin Statuses
    /\ \A q \in Requests : NoRequest # Reply(RC, q)
    /\ \A o \in Objects : NoRequest # S3Redirect(o)

VARIABLES
    pc,         \* where each handler is
    request,    \* the request it serves
    head,       \* the answer on its way to its HEAD
    reply,      \* the reply it sent
    cache,      \* blobCache.m, the URLs it holds
    objects     \* the objects in the buckets

vars == <<pc, request, head, reply, cache, objects>>

URL(h) == BlobURL(RC, request[h])

Init ==
    /\ pc = [h \in Handlers |-> "idle"]
    /\ request = [h \in Handlers |-> NoRequest]
    /\ head = [h \in Handlers |-> NoRequest]
    /\ reply = [h \in Handlers |-> NoRequest]
    /\ cache = {}
    /\ objects \in SUBSET Objects

\* The response is written; what BlobExists knew of the HEAD is gone.
Send(h, response) ==
    /\ reply' = [reply EXCEPT ![h] = response]
    /\ pc' = [pc EXCEPT ![h] = "replied"]
    /\ head' = [head EXCEPT ![h] = NoRequest]
    /\ UNCHANGED objects

-----------------------------------------------------------------------------
(* The handler.                                                            *)

\* net/http starts a goroutine with the request, and the handlers run up to
\* BlobExists or to their reply.
Receive(h, q) ==
    /\ pc[h] = "idle"
    /\ request' = [request EXCEPT ![h] = q]
    /\ IF NeedsBlobCheck(q)
       THEN /\ pc' = [pc EXCEPT ![h] = "lookup"]
            /\ UNCHANGED <<reply, head, objects>>
       ELSE Send(h, Reply(RC, q))
    /\ UNCHANGED cache

\* Mutant: the client is sent to the default bucket.
CacheHitDefaultBucket(h) ==
    /\ pc[h] = "lookup"
    /\ URL(h) \in cache
    /\ Send(h, S3Redirect(<<RC.bucket, URL(h)[2]>>))
    /\ UNCHANGED <<request, cache>>

\* Mutant: the cache is keyed by digest alone.
CacheHitAnyBucket(h) ==
    /\ pc[h] = "lookup"
    /\ \E object \in cache : object[2] = URL(h)[2]
    /\ Send(h, S3Redirect(URL(h)))
    /\ UNCHANGED <<request, cache>>

\* BlobExists finds the URL in the cache.
CacheHit(h) ==
    /\ pc[h] = "lookup"
    /\ URL(h) \in cache
    /\ Send(h, S3Redirect(URL(h)))
    /\ UNCHANGED <<request, cache>>

\* BlobExists does not find it and sends a HEAD to the bucket.
CacheMiss(h) ==
    /\ pc[h] = "lookup"
    /\ URL(h) \notin cache
    /\ pc' = [pc EXCEPT ![h] = "asking"]
    /\ UNCHANGED <<request, head, reply, cache, objects>>

\* The bucket answers the HEAD.  It is no step of the handler: the answer
\* is as old as the time it takes to get back.
BucketAnswers(h, status) ==
    /\ pc[h] = "asking"
    /\ head[h] = NoRequest
    /\ status = 200 => URL(h) \in objects
    /\ status = 404 => URL(h) \notin objects
    /\ head' = [head EXCEPT ![h] = status]
    /\ UNCHANGED <<pc, request, reply, cache, objects>>

\* Mutant: any answer will do.
HeadReturnsAnyStatus(h) ==
    /\ pc[h] = "asking"
    /\ head[h] # NoRequest
    /\ cache' = cache \cup {URL(h)}
    /\ Send(h, S3Redirect(URL(h)))
    /\ UNCHANGED request

\* Mutant: the Put is left out.
HeadReturnsNoPut(h) ==
    /\ pc[h] = "asking"
    /\ head[h] # NoRequest
    /\ Send(h, IF head[h] = 200 THEN S3Redirect(URL(h)) ELSE Reply(RC, request[h]))
    /\ UNCHANGED <<request, cache>>

\* Mutant: a server's error is tried again for as long as it lasts.
HeadReturnsRetry(h) ==
    /\ pc[h] = "asking"
    /\ head[h] # NoRequest
    /\ IF head[h] = 503
       THEN /\ head' = [head EXCEPT ![h] = NoRequest]
            /\ UNCHANGED <<pc, reply, cache, objects>>
       ELSE /\ Send(h, IF head[h] = 200 THEN S3Redirect(URL(h))
                       ELSE Reply(RC, request[h]))
            /\ cache' = cache \cup (IF head[h] = 200 THEN {URL(h)} ELSE {})
    /\ UNCHANGED request

\* client.Head returns a response.
HeadReturns(h) ==
    /\ pc[h] = "asking"
    /\ head[h] # NoRequest
    /\ IF head[h] = 200
       THEN /\ cache' = cache \cup {URL(h)}
            /\ Send(h, S3Redirect(URL(h)))
       ELSE /\ Send(h, Reply(RC, request[h]))
            /\ UNCHANGED cache
    /\ UNCHANGED request

\* Mutant: a client with no timeout.
HeadFailsNoTimeout(h) ==
    /\ pc[h] = "asking"
    /\ head[h] # NoRequest
    /\ Send(h, Reply(RC, request[h]))
    /\ UNCHANGED <<request, cache>>

\* Mutant: a failed look takes the entry out of the cache.
HeadFailsEvicts(h) ==
    /\ pc[h] = "asking"
    /\ Send(h, Reply(RC, request[h]))
    /\ cache' = cache \ {URL(h)}
    /\ UNCHANGED request

\* client.Head returns an error: no connection, or the client's five
\* seconds are over, with an answer on its way or not.
HeadFails(h) ==
    /\ pc[h] = "asking"
    /\ Send(h, Reply(RC, request[h]))
    /\ UNCHANGED <<request, cache>>

\* The handler has returned and its goroutine is done with.
End(h) ==
    /\ pc[h] = "replied"
    /\ pc' = [pc EXCEPT ![h] = "idle"]
    /\ request' = [request EXCEPT ![h] = NoRequest]
    /\ reply' = [reply EXCEPT ![h] = NoRequest]
    /\ UNCHANGED <<head, cache, objects>>

-----------------------------------------------------------------------------
(* The rest of the world.                                                  *)

\* geranos or a sync between buckets adds an object.
Upload(object) ==
    /\ object \notin objects
    /\ objects' = objects \cup {object}
    /\ UNCHANGED <<pc, request, head, reply, cache>>

\* Someone removes one.  Nothing tells archeio.
Delete(object) ==
    /\ object \in objects
    /\ objects' = objects \ {object}
    /\ UNCHANGED <<pc, request, head, reply, cache>>

\* The instance is replaced: its requests and its cache are gone.
Restart ==
    /\ pc' = [h \in Handlers |-> "idle"]
    /\ request' = [h \in Handlers |-> NoRequest]
    /\ head' = [h \in Handlers |-> NoRequest]
    /\ reply' = [h \in Handlers |-> NoRequest]
    /\ cache' = {}
    /\ UNCHANGED objects

Handle(h) ==
    \/ CacheHit(h)
    \/ CacheMiss(h)
    \/ HeadReturns(h)
    \/ HeadFails(h)
    \/ End(h)

\* Everything but the end of the process.
Run ==
    \/ \E h \in Handlers, q \in Requests : Receive(h, q)
    \/ \E h \in Handlers : Handle(h)
    \/ \E h \in Handlers, status \in Statuses : BucketAnswers(h, status)
    \/ \E object \in Objects : Upload(object)
    \/ \E object \in Deletable : Delete(object)

Next == Run \/ Restart

Spec == Init /\ [][Next]_vars

\* A goroutine that can run does, and a HEAD is over after five seconds at
\* the latest.  No one promises an answer of a bucket, a new request, an
\* upload or a restart.
Fairness == \A h \in Handlers : WF_vars(Handle(h))

FairSpec == Spec /\ Fairness

-----------------------------------------------------------------------------
(* Properties.                                                             *)

\* Every handler's state is one its function can be in: the request is there
\* from its arrival to its reply, only a blob request looks anything up, and
\* a reply is the routed one or a redirect to the request's own object.
TypeOK ==
    /\ pc \in [Handlers -> {"idle", "lookup", "asking", "replied"}]
    /\ request \in [Handlers -> Requests \cup {NoRequest}]
    /\ head \in [Handlers -> Statuses \cup {NoRequest}]
    /\ DOMAIN reply = Handlers
    /\ cache \subseteq Objects
    /\ objects \subseteq Objects
    /\ \A h \in Handlers :
        /\ pc[h] = "idle" <=> request[h] = NoRequest
        /\ pc[h] \in {"lookup", "asking"} => request[h] \in BlobRequests
        /\ head[h] # NoRequest => pc[h] = "asking"
        /\ pc[h] # "replied" => reply[h] = NoRequest
        /\ pc[h] = "replied" =>
            \/ reply[h] = Reply(RC, request[h])
            \/ /\ request[h] \in BlobRequests
               /\ reply[h] = S3Redirect(URL(h))

\* The client was sent to the bucket.
SentToBucket(h) == pc[h] = "replied" /\ reply[h].site = "s3"

\* A client is only ever sent to a bucket that has the object, whoever asked
\* the bucket and however long ago, unless the object is one of those that
\* may be removed: the "blob known to be available in AWS" of handlers.go.
RedirectBacked ==
    \A h \in Handlers : SentToBucket(h) => URL(h) \in objects \cup Deletable

\* What one client was sent to is in the cache by the time it is: the entry
\* is stored before BlobExists returns true, and under the key the next
\* request will look up.
RedirectCached == \A h \in Handlers : SentToBucket(h) => URL(h) \in cache

\* Every request is answered whatever the buckets do, unless the instance
\* goes away with it: a HEAD nobody answers is over after its timeout.
RequestAnswered ==
    \A h \in Handlers :
        pc[h] \in {"lookup", "asking"} ~> pc[h] \in {"replied", "idle"}

\* An object counts as seen from the moment a bucket answers 200 for as long
\* as its handler or the cache has that answer.
Vouched ==
    cache \cup {URL(h) : h \in {i \in Handlers : head[i] = 200}}

Service ==
    INSTANCE RedirectSpec WITH
        vouched <- Vouched,
        Routed <- [q \in Requests |-> Reply(RC, q)],
        ObjectOf <- [q \in BlobRequests |-> BlobURL(RC, q)],
        RedirectTo <- [o \in Objects |-> S3Redirect(o)]

\* The process keeps the promise of RedirectSpec, step by step.
KeepsPromise == Service!Safe

\* And its liveness, under the fairness above.
KeepsItsWord == Service!Spec
=============================================================================
