------------------------------ MODULE Routing ------------------------------
(***************************************************************************)
(* What archeio decides about one request, with no state: the two handlers *)
(* of cmd/archeio/internal/app/handlers.go and the bucket table of         *)
(* buckets.go.  The one thing the decision needs from elsewhere, whether a *)
(* blob is in the bucket, is left open here (NeedsBlobCheck) and settled   *)
(* in Archeio.                                                             *)
(*                                                                         *)
(* A URL path is the sequence of its segments, so that "/" is <<"">>,      *)
(* "/v2" is <<"v2">>, "/v2/" is <<"v2", "">> and "/v2/pause/blobs/d" is    *)
(* <<"v2", "pause", "blobs", d>>.  An origin is what the client's address  *)
(* resolves to: a cloud and a region, Unknown when no prefix holds it,     *)
(* BadAddr when no address can be read from the request.                   *)
(***************************************************************************)
EXTENDS Naturals, Sequences, SequencesExt

CONSTANTS
    Digests,    \* the last segments that the group of reBlob accepts
    SigTags     \* the last segments that the tail of reCosignTag accepts

\* A digest holds a ":" and a cosign tag cannot; neither is empty or a dot.
ASSUME SegmentsAssumption ==
    /\ Digests \cap SigTags = {}
    /\ (Digests \cup SigTags) \cap {"", ".", "..", "_catalog"} = {}

Unknown == [cloud |-> "", region |-> ""]
BadAddr == [cloud |-> "error", region |-> ""]

-----------------------------------------------------------------------------
(* Replies.  path is the path sent to the site; the bucket's is its URL.   *)

Plain(code) == [code |-> code, site |-> "", path |-> <<>>]
Redirect(site, path) == [code |-> 307, site |-> site, path |-> path]
S3Redirect(url) == Redirect("s3", url)

\* The first segments that strings.HasPrefix(path, "/v2") accepts and what
\* TrimPrefix leaves of them; "v2x" stands for every longer one.
V2Rest == [v2 |-> "", v2x |-> "x"]
HasV2Prefix(path) == path[1] \in DOMAIN V2Rest

\* The same for "/privacy", with "privacyx" for the longer ones.
HasPrivacyPrefix(path) == path[1] \in {"privacy", "privacyx"}

IsBlob(path) ==
    /\ Len(path) >= 4
    /\ path[1] = "v2"
    /\ path[Len(path) - 1] = "blobs"
    /\ path[Len(path)] \in Digests

IsCosignTag(path) ==
    /\ Len(path) >= 4
    /\ path[1] = "v2"
    /\ path[Len(path) - 1] = "manifests"
    /\ path[Len(path)] \in SigTags

\* path.Join: no empty or "." segment, and ".." takes back the segment
\* before it, as far as the root.
AddSegment(done, segment) ==
    IF segment \in {"", "."} THEN done
    ELSE IF segment # ".." THEN Append(done, segment)
    ELSE IF done = <<>> THEN done
    ELSE Front(done)

Join(segments) ==
    LET done[n \in 0..Len(segments)] ==
            IF n = 0 THEN <<>> ELSE AddSegment(done[n - 1], segments[n])
    IN  done[Len(segments)]

\* Mutant: the "/v2" of the request is not taken off.
BackendPathUntrimmed(rc, path) == Join(<<"v2">> \o rc.path \o path)

BackendPath(rc, path) ==
    Join(<<"v2">> \o rc.path \o <<V2Rest[path[1]]>> \o Tail(path))

Upstream(rc, path) == Redirect("upstream", BackendPath(rc, path))
Signature(rc, path) == Redirect("signature", BackendPath(rc, path))

-----------------------------------------------------------------------------
(* The buckets.  A bucket is named by the region it is in; rc.bucket is    *)
(* the configured default, which may be a bucket no region is mapped to.   *)

BucketRegions ==
    {"af-south-1", "ap-east-1", "ap-northeast-1", "ap-northeast-2",
     "ap-northeast-3", "ap-southeast-1", "ap-southeast-2", "ap-southeast-3",
     "ap-southeast-4", "ap-southeast-5", "ap-southeast-6", "ap-southeast-7",
     "ap-south-1", "ap-south-2", "ca-central-1", "ca-west-1", "eu-central-1",
     "eu-central-2", "eu-north-1", "eu-south-1", "eu-south-2", "eu-west-1",
     "eu-west-2", "eu-west-3", "il-central-1", "me-central-1",
     "mx-central-1", "sa-east-1", "us-east-1", "us-east-2", "us-west-1",
     "us-west-2"}

\* Regions with no bucket of their own that use a neighbour's.
Neighbour ==
    [r \in {"cn-northwest-1", "cn-north-1", "ap-east-2", "me-south-1"} |->
        IF r = "me-south-1" THEN "me-central-1" ELSE "ap-east-1"]

\* Mutant: only the regions with a bucket are in the table.
AWSRegionToHostNoNeighbour(region, default) ==
    IF region \in BucketRegions THEN region ELSE default

AWSRegionToHost(region, default) ==
    IF region \in BucketRegions THEN region
    ELSE IF region \in DOMAIN Neighbour THEN Neighbour[region]
    ELSE default

\* bucketURL + "/containers/images/" + digest, as the pair of the two.
BlobURL(rc, q) ==
    <<AWSRegionToHost(q.origin.region, rc.bucket), q.path[Len(q.path)]>>

-----------------------------------------------------------------------------
(* The handlers.                                                           *)

\* Mutant: clients in GCP are not kept there.
NeedsBlobCheckEveryone(q) ==
    q.method \in {"GET", "HEAD"} /\ IsBlob(q.path) /\ q.origin # BadAddr

\* The requests whose reply depends on BlobExists: the ones that get to
\* that line through every earlier return.
NeedsBlobCheck(q) ==
    /\ q.method \in {"GET", "HEAD"}
    /\ IsBlob(q.path)
    /\ q.origin # BadAddr
    /\ q.origin.cloud # "GCP"

\* The function makeV2Handler returns, for a request with no blob to check,
\* and its last three lines for one whose blob is not in the bucket.
V2Reply(rc, q) ==
    IF q.path \in {<<"v2", "">>, <<"v2">>} THEN Plain(200)
    ELSE IF q.path = <<"v2", "_catalog">> THEN Plain(404)
    ELSE IF ~IsBlob(q.path)
         THEN IF rc.sig /\ IsCosignTag(q.path)
              THEN Signature(rc, q.path)
              ELSE Upstream(rc, q.path)
    ELSE IF q.origin = BadAddr THEN Plain(400)
    ELSE Upstream(rc, q.path)

\* The function MakeHandler returns.
Reply(rc, q) ==
    IF q.method \notin {"GET", "HEAD"} THEN Plain(405)
    ELSE IF HasV2Prefix(q.path) THEN V2Reply(rc, q)
    ELSE IF q.path = <<"">> THEN Redirect("info", <<>>)
    ELSE IF HasPrivacyPrefix(q.path) THEN Redirect("privacy", <<>>)
    ELSE Plain(404)
=============================================================================
