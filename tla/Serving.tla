------------------------------ MODULE Serving -----------------------------
(***************************************************************************)
(* One request to archeio, under one configuration, and its reply: Routing *)
(* as a system of its own, with what is expected of a reply.               *)
(***************************************************************************)
EXTENDS Routing, FiniteSets

CONSTANTS
    Configurations, \* what the RegistryConfig may be
    Requests,
    OtherRegions,   \* the names of regions in clouds that are not AWS
    Unserved

VARIABLES config, request, answer

servingVars == <<config, request, answer>>

\* The AWS regions of the data that have no bucket and no neighbour's.
Bucketless == {"GLOBAL", "us-gov-east-1", "us-gov-west-1", "eusc-de-east-1"}

\* The AWS regions of the data.
AWSRegions ==
    Bucketless \cup
    {"af-south-1", "ap-east-1", "ap-east-2", "ap-northeast-1",
     "ap-northeast-2", "ap-northeast-3", "ap-south-1", "ap-south-2",
     "ap-southeast-1", "ap-southeast-2", "ap-southeast-3", "ap-southeast-4",
     "ap-southeast-5", "ap-southeast-6", "ap-southeast-7", "ca-central-1",
     "ca-west-1", "cn-north-1", "cn-northwest-1", "eu-central-1",
     "eu-central-2", "eu-north-1", "eu-south-1", "eu-south-2", "eu-west-1",
     "eu-west-2", "eu-west-3", "il-central-1", "me-central-1", "me-south-1",
     "mx-central-1", "sa-east-1", "us-east-1", "us-east-2", "us-west-1",
     "us-west-2"}

Origins ==
    {Unknown, BadAddr}
        \cup [cloud : {"AWS"}, region : AWSRegions]
        \cup [cloud : {"GCP", "Azure"}, region : OtherRegions]

\* A URL path has a first segment, and no cloud names a region as AWS does.
ASSUME ServingAssumption ==
    /\ \A r \in Requests :
        r.path \in Seq(STRING) /\ r.path # <<>> /\ r.origin \in Origins
    /\ \A c \in Configurations : c.path \in Seq(STRING)
    /\ OtherRegions \cap (AWSRegions \cup {""}) = {}

ServingInit ==
    /\ config \in Configurations
    /\ request \in Requests
    /\ answer = Unserved

\* The handlers' own reply, or the bucket's object if BlobExists says so.
Answer ==
    /\ answer = Unserved
    /\ \/ answer' = Reply(config, request)
       \/ /\ NeedsBlobCheck(request)
          /\ answer' = S3Redirect(BlobURL(config, request))
    /\ UNCHANGED <<config, request>>

ServingSpec == ServingInit /\ [][Answer]_servingVars

-----------------------------------------------------------------------------
(* Properties.                                                             *)

Served == answer # Unserved

Dotless(path) == \A i \in DOMAIN path : path[i] \notin {".", ".."}

\* The segments of a path that are not empty, and the place of one of them.
Kept(path) == {i \in DOMAIN path : path[i] # ""}
Place(path, i) == Cardinality({j \in Kept(path) : j <= i})

\* short has the segments of path that are not empty, in their order.
Lists(short, path) ==
    /\ Len(short) = Cardinality(Kept(path))
    /\ \A i \in Kept(path) : short[Place(path, i)] = path[i]

\* A path asked for, after its "/v2".
Asked(path) == [path EXCEPT ![1] = ""]

\* A redirect to a backend keeps the whole name and reference of what was
\* asked for, under /v2/ and the configured prefix, and nothing else: so
\* two requests for different things never end at one backend path.
NameSurvives ==
    /\ Served /\ answer.site \in {"upstream", "signature"}
    /\ request.path[1] = "v2" /\ Dotless(request.path) /\ Dotless(config.path)
    => Lists(answer.path, <<"v2">> \o config.path \o Asked(request.path))

\* The flow of docs/request-handling.md: the reply is that of the one line
\* that is about the request.  It says nothing of "/v2/" itself, of methods
\* or of addresses that cannot be read, and is wrong of what only starts
\* with "/v2" or "/privacy" (DocumentedNotFound).
Is(site) == answer.code = 307 /\ answer.site = site

FollowsFlow ==
    LET path == request.path
        last == path[Len(path)]
        kind == path[Len(path) - 1]
        api  == path[1] = "v2" /\ path \notin {<<"v2">>, <<"v2", "">>}
        blob == Len(path) > 3 /\ kind = "blobs" /\ last \in Digests
        tag  == Len(path) > 3 /\ kind = "manifests" /\ last \in SigTags
    IN  Served /\ request.method \in {"GET", "HEAD"} =>
        /\ path = <<"">> => Is("info")
        /\ path = <<"privacy">> => Is("privacy")
        /\ path[1] \notin {"v2", "v2x", "privacy", "privacyx"} /\ path # <<"">>
            => answer.code = 404
        /\ path = <<"v2", "_catalog">> => answer.code = 404
        /\ api /\ path # <<"v2", "_catalog">> =>
            /\ tag /\ config.sig => Is("signature")
            /\ tag /\ ~config.sig => Is("upstream")
            /\ ~tag /\ ~blob => Is("upstream")
            /\ blob /\ request.origin.cloud = "GCP" => Is("upstream")
            /\ blob /\ request.origin.cloud \notin {"GCP", "error"} =>
                Is("upstream") \/ Is("s3")

\* The table of buckets and the published ranges agree: a client is sent to
\* its own region's bucket if there is one, to a neighbour's if not, unless
\* its region is one of the few without either, and everyone else to the
\* default bucket.  Which neighbour is a choice, and not looked at.
RegionsMatchBuckets ==
    LET bucket == answer.path[1]
        region == request.origin.region
        mapped == request.origin.cloud = "AWS" /\ region \notin Bucketless
    IN  Served /\ answer.site = "s3" =>
        /\ mapped => bucket \in BucketRegions
        /\ mapped /\ region \in BucketRegions => bucket = region
        /\ ~mapped => bucket = config.bucket

\* docs/request-handling.md: "If it's not a request for `/` or `/privacy`
\* and does not start with `/v2/`: 404 error".
DocumentedNotFound ==
    /\ Served /\ request.method = "GET"
    /\ request.path \notin {<<"">>, <<"privacy">>}
    /\ request.path[1] # "v2"
    => answer.code = 404
=============================================================================
