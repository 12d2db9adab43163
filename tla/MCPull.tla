------------------------------- MODULE MCPull -----------------------------
(***************************************************************************)
(* Two clients that pull two images with a layer in common, one by         *)
(* geranos's own bucket and one by the copy of it in another region.       *)
(***************************************************************************)
EXTENDS Pull

MCLayersOf == [pause |-> <<"sha256:base">>, etcd |-> <<"sha256:base", "sha256:etcd">>]

MCImage == [near |-> "pause", far |-> "etcd"]

MCOrigin ==
    [near |-> [cloud |-> "AWS", region |-> "us-east-2"],
     far |-> [cloud |-> "AWS", region |-> "cn-north-1"]]

MCRC == [sig |-> FALSE, path |-> <<"images">>, bucket |-> "us-east-1"]
=============================================================================
