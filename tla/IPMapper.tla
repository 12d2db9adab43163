------------------------------ MODULE IPMapper -----------------------------
(***************************************************************************)
(* From an address to a cloud and region: NewIPMapper puts every range of  *)
(* the generated data into a TrieMap, and GetIP walks it.  The ranges of   *)
(* one region go in one after the other; the regions come in the order of  *)
(* a Go map, which is no order.                                            *)
(*                                                                         *)
(* An address is a family ("v4", "v6") with its bits, high to low, and     *)
(* whether it has a zone; a prefix is a family with its first bits.  A     *)
(* node of the trie is named by the way to it: the two roots are the two   *)
(* empty prefixes.                                                         *)
(***************************************************************************)
EXTENDS FiniteSets, FiniteSetsExt, Integers, Sequences

CONSTANTS
    Infos,      \* the values: a cloud with a region
    Cidrs,      \* the prefixes ranges are made of
    Addresses,  \* the addresses looked up
    Catalogues, \* what the generated data may be: from Infos to sets of prefixes
    NotFound    \* what GetIP returns with contains = false

ASSUME IPMapperAssumption ==
    /\ IsFiniteSet(Infos)
    /\ \A p \in Cidrs :
        p = [family |-> p.family, bits |-> p.bits] /\ p.bits \in Seq({0, 1})
    /\ \A addr \in Addresses : addr.bits \in Seq({0, 1})
    /\ Catalogues \subseteq [Infos -> SUBSET Cidrs]
    /\ NotFound \notin Infos

VARIABLES
    ranges,     \* regionToRanges
    left,       \* the prefixes of each region still to insert
    nodes,      \* the nodes of the two tries
    value,      \* the key at the nodes that have a value
    keyToValue, valueToKey

vars == <<ranges, left, nodes, value, keyToValue, valueToKey>>

\* The node, or prefix, after the first n bits.
Path(addr, n) == [family |-> addr.family, bits |-> SubSeq(addr.bits, 1, n)]

\* netip.Prefix.Contains: an address with a zone is in no prefix.
Matches(prefix, addr) ==
    /\ ~addr.zone
    /\ prefix.family = addr.family
    /\ Len(prefix.bits) <= Len(addr.bits)
    /\ prefix.bits = SubSeq(addr.bits, 1, Len(prefix.bits))

-----------------------------------------------------------------------------
(* Building.                                                               *)

Init ==
    /\ ranges \in Catalogues
    /\ left = ranges
    /\ nodes = {}
    /\ value = <<>>
    /\ keyToValue = <<>>
    /\ valueToKey = <<>>

\* Mutant: the last key is given out again.
KeyOfLast(info) ==
    IF info \in DOMAIN valueToKey THEN valueToKey[info]
    ELSE Cardinality(DOMAIN keyToValue) \div 2

\* The key of a value that has one, or the next: the length of the map.
KeyOf(info) ==
    IF info \in DOMAIN valueToKey THEN valueToKey[info]
    ELSE Cardinality(DOMAIN keyToValue)

With(f, x, y) == [z \in DOMAIN f \cup {x} |-> IF z = x THEN y ELSE f[z]]

\* TrieMap.Insert: every node on the way is made if it is missing, and the
\* last one gets the key, in place of any it had.
Insert(prefix, info) ==
    /\ valueToKey' = With(valueToKey, info, KeyOf(info))
    /\ keyToValue' = With(keyToValue, KeyOf(info), info)
    /\ nodes' = nodes \cup {Path(prefix, n) : n \in 0..Len(prefix.bits)}
    /\ value' = With(value, prefix, KeyOf(info))

\* The loops of NewIPMapper: a region is begun when no other is half done.
Build(info, prefix) ==
    /\ prefix \in left[info]
    /\ \A other \in Infos \ {info} : left[other] \in {{}, ranges[other]}
    /\ Insert(prefix, info)
    /\ left' = [left EXCEPT ![info] = @ \ {prefix}]
    /\ UNCHANGED ranges

Next == \E info \in Infos, prefix \in Cidrs : Build(info, prefix)

Spec == Init /\ [][Next]_vars

-----------------------------------------------------------------------------
(* Looking up.                                                             *)

\* How far down the walk along an address may get before a child is missing.
Reachable(addr) ==
    {n \in 0..Len(addr.bits) : \A m \in 0..n : Path(addr, m) \in nodes}

\* Mutant: the root has no value.
HitsBelowRoot(addr) ==
    {n \in Reachable(addr) \ {0} :
        Path(addr, n) \in DOMAIN value /\ Matches(Path(addr, n), addr)}

\* Mutant: a node with children has no value.
HitsAtLeaves(addr) ==
    {n \in Reachable(addr) :
        /\ Path(addr, n) \in DOMAIN value /\ Matches(Path(addr, n), addr)
        /\ n + 1 \notin Reachable(addr)}

\* Where on the way there is a value whose prefix contains the address.
Hits(addr) ==
    {n \in Reachable(addr) :
        Path(addr, n) \in DOMAIN value /\ Matches(Path(addr, n), addr)}

\* getIPv4 and getIPv6 return at the first such node.
GetIP(addr) ==
    IF Hits(addr) = {} THEN NotFound
    ELSE keyToValue[value[Path(addr, Min(Hits(addr)))]]

-----------------------------------------------------------------------------
(* Properties.                                                             *)

Done(info) == ranges[info] \ left[info]

\* The two tries are closed towards their roots, values are on their nodes,
\* and the keys are numbered from 0 with the two maps inverse to each other.
TypeOK ==
    /\ ranges \in Catalogues
    /\ \A info \in Infos : left[info] \subseteq ranges[info]
    /\ \A node \in nodes : \A n \in 0..Len(node.bits) : Path(node, n) \in nodes
    /\ DOMAIN value = UNION {Done(info) : info \in Infos}
    /\ DOMAIN value \subseteq nodes
    /\ DOMAIN keyToValue = 0..(Cardinality(DOMAIN valueToKey) - 1)
    /\ DOMAIN valueToKey = {info \in Infos : Done(info) # {}}
    /\ \A info \in DOMAIN valueToKey : keyToValue[valueToKey[info]] = info

\* The mapper by brute force, bruteforce.go: it answers with any region that
\* has a prefix around the address, whichever Go's map comes to first.
BruteForce(addr) ==
    {info \in Infos : \E prefix \in Done(info) : Matches(prefix, addr)}

\* At every point of the build the walk finds something exactly where brute
\* force does, and something brute force could have found.
AgreesWithBruteForce ==
    \A addr \in Addresses :
        IF BruteForce(addr) = {} THEN GetIP(addr) = NotFound
        ELSE GetIP(addr) \in BruteForce(addr)

\* The data: no prefix is listed for two regions, though one may be nested
\* in another.
Disjoint ==
    \A a, b \in Infos : a # b => ranges[a] \cap ranges[b] = {}

\* Then the order of Go's map is of no consequence: when all is inserted, an
\* address is in the region of the widest prefix around it.
OrderDoesNotMatter ==
    Disjoint /\ (\A info \in Infos : left[info] = {}) =>
        \A addr \in Addresses, info \in Infos, prefix \in Cidrs :
            /\ prefix \in ranges[info]
            /\ Matches(prefix, addr)
            /\ \A other \in UNION {ranges[i] : i \in Infos} :
                Matches(other, addr) => Len(prefix.bits) <= Len(other.bits)
            => GetIP(addr) = info
=============================================================================
