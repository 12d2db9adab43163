----------------------------- MODULE MCRouting -----------------------------
(***************************************************************************)
(* Serving over bounded inputs.  The paths are all those of at most MaxLen *)
(* segments over a few words, the two empty ones of "/" and a trailing     *)
(* slash, "." and ".." among them.  The origins are an address that cannot *)
(* be read, one of no cloud, and every AWS region of                       *)
(* pkg/net/cloudcidrs/zz_generated_range_data.go with some of the others.  *)
(***************************************************************************)
EXTENDS Serving

CONSTANT MaxLen

Digest == "sha256:a"
CosignTag == "sha256-a.sig"

FirstWords == {"", "v2", "v2x", "privacy", "privacyx", "healthz"}
Words == {"", ".", "..", "pause", "blobs", "manifests", "_catalog",
          Digest, CosignTag}

Paths == {<<w>> \o rest : w \in FirstWords,
                          rest \in UNION {[1..n -> Words] : n \in 0..(MaxLen - 1)}}

MCOtherRegions == {"us-west1", "global", "westus2", "uksouth"}

MCRequests ==
    [method : {"GET", "HEAD", "POST"}, path : Paths,
     origin : {Unknown, BadAddr, [cloud |-> "GCP", region |-> "us-west1"]}]
    \cup
    [method : {"GET"}, path : {<<"v2", "pause", "blobs", Digest>>},
     origin : Origins]

MCConfigurations ==
    {[sig |-> TRUE, path |-> <<"k8s", "images">>, bucket |-> "default"],
     [sig |-> FALSE, path |-> <<>>, bucket |-> "default"]}
=============================================================================
