---------------------------- MODULE MirrorSpec -----------------------------
(***************************************************************************)
(* What geranos promises about the bucket it fills, whatever runs it, in   *)
(* any number and with any failure: objects are added and never taken      *)
(* away, and the record of an image, on which later runs skip it, is added *)
(* when every layer of the image is there.                                 *)
(***************************************************************************)
EXTENDS Naturals, Sequences

CONSTANTS
    Images,     \* digests of the manifests of single images
    LayersOf    \* LayersOf[i]: the digests of i's layers, in order

VARIABLE stored \* the keys of the objects in the bucket

LayerKey(digest) == <<"containers/images/", digest>>
RecordKey(image) == <<"geranos/uploaded-images/", image>>

LayerKeys(image) ==
    {LayerKey(LayersOf[image][n]) : n \in 1..Len(LayersOf[image])}

Keys == (UNION {LayerKeys(i) : i \in Images}) \cup {RecordKey(i) : i \in Images}

\* A recorded image has all its layers in the bucket.
Complete(keys) ==
    \A i \in Images : RecordKey(i) \in keys => LayerKeys(i) \subseteq keys

Init == stored \in {keys \in SUBSET Keys : Complete(keys)}

\* Mutant: the copy of an image starts afresh.
AddLayerAfresh(i) ==
    \E key \in LayerKeys(i) : stored' = (stored \ LayerKeys(i)) \cup {key}

AddLayer(i) == \E key \in LayerKeys(i) : stored' = stored \cup {key}

AddRecord(i) ==
    /\ LayerKeys(i) \subseteq stored
    /\ stored' = stored \cup {RecordKey(i)}

Next == \E i \in Images : AddLayer(i) \/ AddRecord(i)

Spec == Init /\ [][Next]_stored
=============================================================================
