----------------------------- MODULE MCArcheio -----------------------------
(***************************************************************************)
(* A small instance of ArcheioHistory.  The requests meet in every way     *)
(* that matters to the cache: clients of two regions that share a bucket,  *)
(* one of another region, one of an unknown address that gets the default  *)
(* bucket, one of GCP, and one that is not for a blob.                     *)
(***************************************************************************)
EXTENDS ArcheioHistory, TLC

CONSTANTS h1, h2, h3

Request(method, path, cloud, region) ==
    [method |-> method, path |-> path,
     origin |-> [cloud |-> cloud, region |-> region]]

Blob(digest) == <<"v2", "pause", "blobs", digest>>

MCRC == [sig |-> TRUE, path |-> <<"images">>, bucket |-> "us-east-1"]

MCRequests ==
    {Request("GET", Blob("sha256:a"), "AWS", "ap-east-1"),
     Request("GET", Blob("sha256:a"), "AWS", "ap-east-2"),
     Request("HEAD", Blob("sha256:a"), "", ""),
     Request("GET", Blob("sha256:b"), "AWS", "ap-east-1"),
     Request("GET", Blob("sha256:a"), "GCP", "us-central1"),
     Request("GET", <<"v2", "pause", "manifests", "3.9">>, "AWS", "ap-east-1")}

MCDeletable == {<<"ap-east-1", "sha256:a">>}

Symmetry == Permutations(Handlers)
=============================================================================
