---------------------------- MODULE MCRanges2Go ---------------------------
(***************************************************************************)
(* Ranges2Go with three regions, one of them excluded for AWS and one with *)
(* the empty name, and every input with up to three entries of AWS, up to  *)
(* two of GCP, or one or two tags of Azure, the other clouds having one    *)
(* entry or none.                                                          *)
(***************************************************************************)
EXTENDS Ranges2Go

CONSTANTS Three, Two    \* the prefixes tried where entries are many, and few

UpTo(n, S) == UNION {[1..k -> S] : k \in 0..n}

AWSEntries(P) == [region : {"east", "west"}, prefix : P]
GCPEntries == [region : {"", "west"}, ipv4Prefix : {None, 1}, ipv6Prefix : {None, 2, Bad}]
AzureEntries ==
    [azureCloud : {TRUE}, region : {"", "east", "west"}, addressPrefixes : UpTo(2, {1, 2})]
    \cup [azureCloud : BOOLEAN, region : {"west"}, addressPrefixes : {<<3, 1, 3>>, <<2, Bad>>}]

MCInputs ==
    [AWS : UpTo(3, AWSEntries(Three \cup {Bad})), GCP : {<<>>}, Azure : {<<>>}]
    \cup [AWS : UpTo(1, AWSEntries(Two)), GCP : UpTo(2, GCPEntries), Azure : {<<>>}]
    \cup [AWS : {<<>>}, GCP : {<<>>}, Azure : UpTo(2, AzureEntries)]

MCRegionOrder == <<"", "east", "west">>
=============================================================================
