----------------------------- MODULE MCLocate -----------------------------
(***************************************************************************)
(* Locate with addresses of two bits, and every table of an AWS and a GCP  *)
(* region with a range each or none: apart, nested or the same.            *)
(***************************************************************************)
EXTENDS Locate

Address(bits) == [family |-> "v4", bits |-> bits, zone |-> FALSE]

MCParsed ==
    [here |-> Address(<<0, 0>>), there |-> Address(<<0, 1>>), lb |-> Address(<<1, 0>>)]

MCInfos == {[cloud |-> "AWS", region |-> "cn-north-1"],
            [cloud |-> "GCP", region |-> "us-west1"]}

MCCidrs ==
    {[family |-> "v4", bits |-> b] :
        b \in {<<>>, <<0>>, <<1>>, <<0, 0>>, <<0, 1>>}}

MCCatalogues == [MCInfos -> {{}} \cup {{p} : p \in MCCidrs}]

MCRC == [sig |-> FALSE, path |-> <<"images">>, bucket |-> "us-east-1"]

MCBlob == <<"v2", "pause", "blobs", "sha256:a">>
=============================================================================
