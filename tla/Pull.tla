-------------------------------- MODULE Pull ------------------------------
(***************************************************************************)
(* Clients that pull images through archeio while geranos is mirroring     *)
(* them: Archeio's cache, HEADs and restarts, the bucket as MirrorSpec     *)
(* lets any number of geranos runs fill it, and the copies of that bucket  *)
(* in other regions, which lag behind.  A client asks for the manifest and *)
(* then for each layer, and follows the redirect in its own time.          *)
(*                                                                         *)
(* Handlers stands for the clients, one request of each at a time.         *)
(***************************************************************************)
EXTENDS Archeio

CONSTANTS
    Images, LayersOf,   \* see MirrorSpec
    Home,       \* the region of geranos's bucket
    Image,      \* Image[h]: what client h pulls
    Origin,     \* Origin[h]: what its address resolves to
    MaxRestarts \* bound

VARIABLES
    stored,     \* the keys of geranos's bucket
    sent,       \* the reply each client has and has not followed yet
    got,        \* where each client found the manifest and the layers so far
    restarts

pullVars == <<vars, stored, sent, got, restarts>>

Mirror == INSTANCE MirrorSpec

\* The n-th thing client h asks for.
Wanted(h, n) ==
    [method |-> "GET", origin |-> Origin[h],
     path |-> IF n = 0 THEN <<"v2", "pause", "manifests", Image[h]>>
              ELSE <<"v2", "pause", "blobs", LayersOf[Image[h]][n]>>]

PullRequests ==
    UNION {{Wanted(h, n) : n \in 0..Len(LayersOf[Image[h]])} : h \in Handlers}

ASSUME PullAssumption ==
    /\ Requests = PullRequests
    /\ Deletable = {}
    /\ \A h \in Handlers :
        Origin[h] # BadAddr /\ Len(LayersOf[Image[h]]) \in Nat

\* blobURL names the key geranos has copied the layer to: "/containers/images/"
\* in the one, "containers/images/" in the other.
Mirrored(object) == Mirror!LayerKey(object[2]) \in stored

HomeObjects == {object \in Objects : object[1] = Home}

PullInit ==
    /\ Init /\ Mirror!Init
    /\ \A object \in objects : Mirrored(object)
    /\ \A object \in HomeObjects : Mirrored(object) => object \in objects
    /\ sent = [h \in Handlers |-> NoRequest]
    /\ got = [h \in Handlers |-> <<>>]
    /\ restarts = 0

-----------------------------------------------------------------------------
Left(h) == Len(got[h]) <= Len(LayersOf[Image[h]])

Ask(h) ==
    /\ Left(h)
    /\ sent[h] = NoRequest
    /\ Receive(h, Wanted(h, Len(got[h])))
    /\ UNCHANGED <<stored, sent, got, restarts>>

\* Archeio at work on the request, and the bucket.
Serve(h) ==
    /\ CacheHit(h) \/ CacheMiss(h) \/ HeadReturns(h) \/ HeadFails(h)
    /\ UNCHANGED <<stored, sent, got, restarts>>

Answer(h) ==
    /\ \E status \in Statuses : BucketAnswers(h, status)
    /\ UNCHANGED <<stored, sent, got, restarts>>

\* The reply is the client's, whatever becomes of the instance.
Deliver(h) ==
    /\ End(h)
    /\ sent' = [sent EXCEPT ![h] = reply[h]]
    /\ UNCHANGED <<stored, got, restarts>>

\* The client goes where it was sent, which has what it asked for or not.
\* The upstream registry has everything.
Follow(h) ==
    /\ sent[h] # NoRequest
    /\ got' = [got EXCEPT ![h] = Append(@,
                IF sent[h].site = "s3" /\ sent[h].path \notin objects
                THEN "missing" ELSE sent[h].site)]
    /\ sent' = [sent EXCEPT ![h] = NoRequest]
    /\ UNCHANGED <<vars, stored, restarts>>

\* A geranos run copies a layer or a record.
Copy ==
    /\ Mirror!Next
    /\ objects' = (objects \ HomeObjects)
                    \cup {object \in HomeObjects : Mirrored(object)'}
    /\ UNCHANGED <<pc, request, head, reply, cache, sent, got, restarts>>

\* Mutant: a sync from a bucket that has this layer and no other yet.
ReplicateSync(object) ==
    /\ Mirrored(object) /\ object \notin objects
    /\ objects' = {o \in objects : o[1] # object[1]} \cup {object}
    /\ UNCHANGED <<pc, request, head, reply, cache, stored, sent, got, restarts>>

\* A layer gets to another region.
Replicate(object) ==
    /\ Mirrored(object)
    /\ Upload(object)
    /\ UNCHANGED <<stored, sent, got, restarts>>

\* Clients in the middle of a request ask again; those that have a redirect
\* still follow it.
Replace ==
    /\ restarts < MaxRestarts
    /\ Restart
    /\ restarts' = restarts + 1
    /\ UNCHANGED <<stored, sent, got>>

PullNext ==
    \/ \E h \in Handlers : Ask(h) \/ Serve(h) \/ Answer(h) \/ Deliver(h) \/ Follow(h)
    \/ Copy
    \/ \E object \in Objects : Replicate(object)
    \/ Replace

PullSpec == PullInit /\ [][PullNext]_pullVars

\* Clients go on, and so do archeio's goroutines.  Geranos need not.
PullFairness ==
    \A h \in Handlers :
        /\ WF_pullVars(Ask(h) \/ Follow(h))
        /\ WF_pullVars(Serve(h) \/ Deliver(h))

FairPullSpec == PullSpec /\ PullFairness

-----------------------------------------------------------------------------
(* Properties.                                                             *)

\* No client follows a redirect in vain, however long it takes to follow it,
\* with the instance that gave it gone or not, and however far the mirroring
\* of its image, here or in its region, was.
NothingMissing ==
    \A h \in Handlers : \A n \in DOMAIN got[h] : got[h][n] # "missing"

\* A pull comes to its end with all its layers, whether geranos goes on with
\* the image or not and whatever the bucket answers.
PullEnds ==
    \A h \in Handlers : <>[](~Left(h))

\* The buckets, as geranos and replication fill them, are buckets as Archeio
\* takes them to be, and only grow, and handlers that go on are all its
\* fairness asks for: what is shown of Archeio holds here.
BucketsOnlyGrow == FairSpec
=============================================================================
