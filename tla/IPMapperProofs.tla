--------------------------- MODULE IPMapperProofs -------------------------
(***************************************************************************)
(* Proofs about IPMapper, for any finite set of regions, any prefixes and  *)
(* addresses of any width, and any catalogue.                              *)
(***************************************************************************)
EXTENDS IPMapper, FiniteSetTheorems, SequenceTheorems, WellFoundedInduction, TLAPS

-----------------------------------------------------------------------------
(* Ways down a trie.                                                       *)

Binary == Seq({0, 1})

LEMMA PathIsPrefix ==
  ASSUME NEW x, x.bits \in Binary, NEW n \in 0..Len(x.bits)
  PROVE  /\ Path(x, n).bits \in Binary /\ Len(Path(x, n).bits) = n
         /\ \A i \in 1..n : Path(x, n).bits[i] = x.bits[i]
         /\ Path(x, n).family = x.family
<1>1. SubSeq(x.bits, 1, n) \in Binary /\ Len(SubSeq(x.bits, 1, n)) = n
  BY LenProperties, SubSeqProperties DEF Binary
<1>2. \A i \in 1..n : SubSeq(x.bits, 1, n)[i] = x.bits[i]
  BY LenProperties, SubSeqProperties DEF Binary
<1> QED
  BY <1>1, <1>2 DEF Path

LEMMA PathOfPath ==
  ASSUME NEW x, x.bits \in Binary, NEW n \in 0..Len(x.bits), NEW m \in 0..n
  PROVE  Path(Path(x, n), m) = Path(x, m)
<1> DEFINE p == Path(x, n)
<1>1. p.bits \in Binary /\ Len(p.bits) = n /\ p.family = x.family
      /\ \A i \in 1..n : p.bits[i] = x.bits[i]
  BY PathIsPrefix
<1>2. m \in 0..Len(p.bits) /\ m \in 0..Len(x.bits) /\ n \in Nat
  BY <1>1, LenProperties DEF Binary
<1> HIDE DEF p
<1>3. /\ Path(p, m).bits \in Binary /\ Len(Path(p, m).bits) = m
      /\ \A i \in 1..m : Path(p, m).bits[i] = p.bits[i]
  BY <1>1, <1>2, PathIsPrefix
<1>4. /\ Path(x, m).bits \in Binary /\ Len(Path(x, m).bits) = m
      /\ \A i \in 1..m : Path(x, m).bits[i] = x.bits[i]
  BY <1>2, PathIsPrefix
<1>5. \A i \in 1..m : Path(p, m).bits[i] = Path(x, m).bits[i]
  BY <1>1, <1>2, <1>3, <1>4
<1>6. Path(p, m).bits = Path(x, m).bits
  BY <1>3, <1>4, <1>5, SeqEqual DEF Binary
<1> QED
  BY <1>1, <1>6 DEF Path, p

LEMMA PathToTheEnd ==
  ASSUME NEW x, x.bits \in Binary
  PROVE  Path(x, Len(x.bits)) = [family |-> x.family, bits |-> x.bits]
<1>1. SubSeq(x.bits, 1, Len(x.bits)) = x.bits
  BY SubSeqFull DEF Binary
<1> QED
  BY <1>1 DEF Path
-----------------------------------------------------------------------------
(* The maps.                                                               *)

\* The keys that are given out, and to whom.
KeysRight(toKey, toValue) ==
  /\ DOMAIN toKey \in SUBSET Infos
  /\ DOMAIN toValue = 0..(Cardinality(DOMAIN toKey) - 1)
  /\ \A info \in DOMAIN toKey :
        toKey[info] \in DOMAIN toValue /\ toValue[toKey[info]] = info

\* The next key is free.
LEMMA NextKey ==
  ASSUME KeysRight(valueToKey, keyToValue), NEW info \in Infos
  PROVE  /\ KeysRight(With(valueToKey, info, KeyOf(info)),
                      With(keyToValue, KeyOf(info), info))
         /\ \A other \in DOMAIN valueToKey :
              With(valueToKey, info, KeyOf(info))[other] = valueToKey[other]
<1> DEFINE toKey == With(valueToKey, info, KeyOf(info))
           toValue == With(keyToValue, KeyOf(info), info)
           n == Cardinality(DOMAIN valueToKey)
<1>1. /\ DOMAIN toKey = DOMAIN valueToKey \cup {info} /\ toKey[info] = KeyOf(info)
      /\ \A z \in DOMAIN valueToKey \ {info} : toKey[z] = valueToKey[z]
  BY DEF With
<1>2. /\ DOMAIN toValue = DOMAIN keyToValue \cup {KeyOf(info)} /\ toValue[KeyOf(info)] = info
      /\ \A z \in DOMAIN keyToValue \ {KeyOf(info)} : toValue[z] = keyToValue[z]
  BY DEF With
<1>3. /\ DOMAIN valueToKey \in SUBSET Infos /\ DOMAIN keyToValue = 0..(n - 1)
      /\ \A z \in DOMAIN valueToKey :
            valueToKey[z] \in DOMAIN keyToValue /\ keyToValue[valueToKey[z]] = z
  BY DEF KeysRight
<1>4. IsFiniteSet(DOMAIN valueToKey) /\ n \in Nat
  BY <1>3, IPMapperAssumption, FS_Subset, FS_CardinalityType
<1> HIDE DEF toKey, toValue, n
<1>5. CASE info \in DOMAIN valueToKey
  <2>1. KeyOf(info) = valueToKey[info]
    BY <1>5 DEF KeyOf
  <2>2. DOMAIN toKey = DOMAIN valueToKey
        /\ \A z \in DOMAIN valueToKey : toKey[z] = valueToKey[z]
    BY <1>1, <1>5, <2>1
  <2>3. DOMAIN toValue = DOMAIN keyToValue
        /\ \A z \in DOMAIN keyToValue : toValue[z] = keyToValue[z]
    BY <1>2, <1>3, <1>5, <2>1
  <2> QED
    BY <1>3, <2>2, <2>3 DEF KeysRight, toKey, toValue, n
<1>6. CASE info \notin DOMAIN valueToKey
  <2>1. Cardinality(DOMAIN keyToValue) = n
    BY <1>3, <1>4, FS_Interval
  <2>2. KeyOf(info) = n
    BY <1>6, <2>1 DEF KeyOf
  <2>3. Cardinality(DOMAIN toKey) = n + 1
    BY <1>1, <1>2, <1>4, <1>6, FS_AddElement DEF n
  <2>4. DOMAIN toValue = 0..n /\ n \notin DOMAIN keyToValue
    BY <1>1, <1>2, <1>3, <1>4, <2>2
  <2>5. \A z \in DOMAIN valueToKey :
          /\ toKey[z] = valueToKey[z] /\ toKey[z] \in DOMAIN toValue
          /\ toValue[toKey[z]] = z
    BY <1>1, <1>2, <1>3, <1>6, <2>2, <2>4
  <2>6. toKey[info] \in DOMAIN toValue /\ toValue[toKey[info]] = info
    BY <1>1, <1>2
  <2>7. DOMAIN toKey \in SUBSET Infos
    BY <1>1, <1>3
  <2>8. KeysRight(toKey, toValue)
    <3>1. \A z \in DOMAIN toKey :
            toKey[z] \in DOMAIN toValue /\ toValue[toKey[z]] = z
      BY <1>1, <2>5, <2>6
    <3>2. DOMAIN toValue = 0..(Cardinality(DOMAIN toKey) - 1)
      <4>1. Cardinality(DOMAIN toKey) - 1 = n
        BY <1>4, <2>3
      <4> QED
        BY <2>4, <4>1
    <3> QED
      BY <2>7, <3>1, <3>2 DEF KeysRight
  <2> QED
    BY <2>5, <2>8 DEF toKey, toValue
<1> QED
  BY <1>5, <1>6

-----------------------------------------------------------------------------
(* The build.                                                              *)

NodesRight ==
  /\ \A node \in nodes : node.bits \in Binary
  /\ \A node \in nodes : \A n \in 0..Len(node.bits) : Path(node, n) \in nodes

\* What is at a node was inserted there for a region of that key.
ValuesRight ==
  /\ DOMAIN value \in SUBSET Cidrs
  /\ DOMAIN value \in SUBSET nodes
  /\ \A p \in DOMAIN value : \E info \in DOMAIN valueToKey :
        p \in Done(info) /\ value[p] = valueToKey[info]

\* What is inserted is found at its node.
DoneRight ==
  /\ ranges \in Catalogues
  /\ left \in [Infos -> SUBSET Cidrs]
  /\ \A info \in Infos : left[info] \in SUBSET ranges[info]
  /\ \A info \in Infos : Done(info) \in SUBSET DOMAIN value
  /\ \A info \in Infos : info \in DOMAIN valueToKey <=> Done(info) # {}

Inv == KeysRight(valueToKey, keyToValue) /\ NodesRight /\ ValuesRight /\ DoneRight

LEMMA NodesStayRight ==
  ASSUME NodesRight, NEW info, NEW prefix \in Cidrs, Insert(prefix, info)
  PROVE  NodesRight' /\ prefix \in nodes'
<1> DEFINE way == {Path(prefix, n) : n \in 0..Len(prefix.bits)}
<1>1. prefix.bits \in Binary /\ nodes' = nodes \cup way
  BY IPMapperAssumption DEF Insert, Binary
<1>2. ASSUME NEW node \in way
      PROVE  node.bits \in Binary /\ \A n \in 0..Len(node.bits) : Path(node, n) \in way
  <2>1. PICK k \in 0..Len(prefix.bits) : node = Path(prefix, k)
    OBVIOUS
  <2>2. node.bits \in Binary /\ Len(node.bits) = k
    BY <1>1, <2>1, PathIsPrefix
  <2>3. ASSUME NEW n \in 0..k PROVE Path(node, n) = Path(prefix, n) /\ n \in 0..Len(prefix.bits)
    BY <1>1, <2>1, PathOfPath, LenProperties DEF Binary
  <2> QED
    BY <2>2, <2>3
<1>3. prefix = Path(prefix, Len(prefix.bits)) /\ Len(prefix.bits) \in 0..Len(prefix.bits)
  BY <1>1, PathToTheEnd, IPMapperAssumption, LenProperties DEF Binary
<1>4. prefix \in way
  BY <1>3
<1> HIDE DEF way
<1>5. NodesRight'
  BY <1>1, <1>2 DEF NodesRight
<1> QED
  BY <1>1, <1>4, <1>5

LEMMA InvBuild ==
  ASSUME Inv, NEW info \in Infos, NEW prefix \in Cidrs, Build(info, prefix)
  PROVE  Inv'
<1>1. /\ prefix \in left[info] /\ Insert(prefix, info) /\ ranges' = ranges
      /\ left' = [left EXCEPT ![info] = @ \ {prefix}]
  BY DEF Build
<1>2. KeysRight(valueToKey, keyToValue)'
  BY <1>1, NextKey DEF Inv, Insert
<1>3. NodesRight' /\ prefix \in nodes' /\ nodes \in SUBSET nodes'
  BY <1>1, NodesStayRight DEF Inv, Insert
<1>4. /\ left' \in [Infos -> SUBSET Cidrs]
      /\ left'[info] = left[info] \ {prefix}
      /\ \A other \in Infos \ {info} : left'[other] = left[other]
      /\ prefix \in ranges[info]
  BY <1>1 DEF Inv, DoneRight
<1>5. Done(info)' = Done(info) \cup {prefix}
      /\ \A other \in Infos \ {info} : Done(other)' = Done(other)
  BY <1>1, <1>4 DEF Done
<1>6. /\ DOMAIN valueToKey' = DOMAIN valueToKey \cup {info}
      /\ valueToKey'[info] = KeyOf(info)
      /\ \A other \in DOMAIN valueToKey : valueToKey'[other] = valueToKey[other]
      /\ DOMAIN value' = DOMAIN value \cup {prefix}
      /\ value'[prefix] = KeyOf(info)
      /\ \A p \in DOMAIN value \ {prefix} : value'[p] = value[p]
  <2>1. /\ valueToKey' = With(valueToKey, info, KeyOf(info))
        /\ value' = With(value, prefix, KeyOf(info))
    BY <1>1 DEF Insert
  <2>2. \A other \in DOMAIN valueToKey : valueToKey'[other] = valueToKey[other]
    BY <2>1, NextKey DEF Inv
  <2>3. DOMAIN valueToKey' = DOMAIN valueToKey \cup {info} /\ valueToKey'[info] = KeyOf(info)
    BY <2>1 DEF With
  <2>4. /\ DOMAIN value' = DOMAIN value \cup {prefix} /\ value'[prefix] = KeyOf(info)
        /\ \A p \in DOMAIN value \ {prefix} : value'[p] = value[p]
    BY <2>1 DEF With
  <2> QED
    BY <2>2, <2>3, <2>4
<1>7. ValuesRight'
  <2>1. DOMAIN value' \in SUBSET Cidrs /\ DOMAIN value' \in SUBSET nodes'
    BY <1>3, <1>6 DEF Inv, ValuesRight
  <2>2. ASSUME NEW p \in DOMAIN value'
        PROVE  \E i \in DOMAIN valueToKey' : p \in Done(i)' /\ value'[p] = valueToKey'[i]
    <3>1. CASE p = prefix
      BY <1>5, <1>6, <3>1
    <3>2. CASE p # prefix
      <4>1. p \in DOMAIN value /\ value'[p] = value[p]
        BY <1>6, <3>2
      <4>2. PICK i \in DOMAIN valueToKey : p \in Done(i) /\ value[p] = valueToKey[i]
        BY <4>1 DEF Inv, ValuesRight
      <4>3. i \in Infos /\ p \in Done(i)'
        BY <1>5, <4>2 DEF Inv, KeysRight
      <4> QED
        BY <1>6, <4>1, <4>2, <4>3
    <3> QED
      BY <3>1, <3>2
  <2> QED
    BY <2>1, <2>2 DEF ValuesRight
<1>8. DoneRight'
  <2>1. ranges' \in Catalogues /\ left' \in [Infos -> SUBSET Cidrs]
    BY <1>1, <1>4 DEF Inv, DoneRight
  <2>2. ASSUME NEW i \in Infos
        PROVE  /\ left'[i] \in SUBSET ranges'[i]
               /\ Done(i)' \in SUBSET DOMAIN value'
               /\ i \in DOMAIN valueToKey' <=> Done(i)' # {}
    <3>1. /\ left[i] \in SUBSET ranges[i] /\ Done(i) \in SUBSET DOMAIN value
          /\ i \in DOMAIN valueToKey <=> Done(i) # {}
      BY DEF Inv, DoneRight
    <3>2. CASE i = info
      BY <1>1, <1>4, <1>5, <1>6, <3>1, <3>2
    <3>3. CASE i # info
      BY <1>1, <1>4, <1>5, <1>6, <3>1, <3>3
    <3> QED
      BY <3>2, <3>3
  <2> QED
    BY <2>1, <2>2 DEF DoneRight
<1> QED
  BY <1>2, <1>3, <1>7, <1>8 DEF Inv

LEMMA InvAlways == Spec => []Inv
<1>1. Init => Inv
  <2> SUFFICES ASSUME Init PROVE Inv
    OBVIOUS
  <2>1. DOMAIN value = {} /\ DOMAIN keyToValue = {} /\ DOMAIN valueToKey = {} /\ nodes = {}
    BY DEF Init
  <2>2. ranges \in [Infos -> SUBSET Cidrs] /\ left = ranges /\ ranges \in Catalogues
    BY IPMapperAssumption DEF Init
  <2>3. \A info \in Infos : Done(info) = {}
    BY <2>2 DEF Done
  <2>4. KeysRight(valueToKey, keyToValue)
    BY <2>1, FS_EmptySet DEF KeysRight
  <2> QED
    BY <2>1, <2>2, <2>3, <2>4 DEF Inv, NodesRight, ValuesRight, DoneRight
<1>2. Inv /\ [Next]_vars => Inv'
  <2> SUFFICES ASSUME Inv, [Next]_vars PROVE Inv'
    OBVIOUS
  <2>1. CASE UNCHANGED vars
    BY <2>1 DEF vars, Inv, KeysRight, NodesRight, ValuesRight, DoneRight, Done
  <2> QED
    BY <2>1, InvBuild DEF Next
<1> QED
  BY <1>1, <1>2, PTL DEF Spec

\* The tries and the two maps are consistent after every insert.
THEOREM TypeCorrect == Spec => []TypeOK
<1>1. Inv => TypeOK
  <2> SUFFICES ASSUME Inv PROVE TypeOK
    OBVIOUS
  <2>1. DOMAIN value = UNION {Done(info) : info \in Infos}
    <3>1. \A p \in DOMAIN value : \E info \in Infos : p \in Done(info)
      BY DEF Inv, ValuesRight, KeysRight
    <3>2. \A info \in Infos : Done(info) \in SUBSET DOMAIN value
      BY DEF Inv, DoneRight
    <3> QED
      BY <3>1, <3>2
  <2>2. DOMAIN valueToKey = {info \in Infos : Done(info) # {}}
    BY DEF Inv, DoneRight, KeysRight
  <2>3. /\ ranges \in Catalogues /\ \A info \in Infos : left[info] \subseteq ranges[info]
        /\ \A node \in nodes : \A n \in 0..Len(node.bits) : Path(node, n) \in nodes
        /\ DOMAIN value \subseteq nodes
    BY DEF Inv, DoneRight, NodesRight, ValuesRight
  <2>4. /\ DOMAIN keyToValue = 0..(Cardinality(DOMAIN valueToKey) - 1)
        /\ \A info \in DOMAIN valueToKey : keyToValue[valueToKey[info]] = info
    BY DEF Inv, KeysRight
  <2> QED
    BY <2>1, <2>2, <2>3, <2>4 DEF TypeOK
<1> QED
  BY <1>1, InvAlways, PTL

-----------------------------------------------------------------------------
(* Looking up.                                                             *)

LEMMA MinOfHits ==
  ASSUME NEW S \in SUBSET Nat, NEW m \in S
  PROVE  /\ Min(S) \in S /\ \A k \in S : Min(S) <= k
         /\ (\A k \in S : m <= k) => Min(S) = m
<1>1. PICK x \in S : \A y \in S : ~(<<y, x>> \in OpToRel(<, Nat))
  BY NatLessThanWellFounded, WFMin
<1>2. \A y \in S : x <= y
  <2>1. \A y \in S : ~(y < x)
    BY <1>1 DEF OpToRel
  <2> QED
    BY <2>1
<1>3. Min(S) \in S /\ \A k \in S : Min(S) <= k
  BY <1>2 DEF Min
<1>4. ASSUME \A k \in S : m <= k PROVE Min(S) = m
  <2>1. m <= Min(S) /\ Min(S) <= m /\ m \in Nat /\ Min(S) \in Nat
    BY <1>3, <1>4
  <2> QED
    BY <2>1
<1> QED
  BY <1>3, <1>4

\* The walk passes a prefix exactly where the prefix matches.
LEMMA HitsArePrefixes ==
  ASSUME Inv, NEW addr \in Addresses, NEW n
  PROVE  n \in Hits(addr) <=>
           \E p \in DOMAIN value : Matches(p, addr) /\ Len(p.bits) = n /\ Path(addr, n) = p
<1>1. addr.bits \in Binary /\ Len(addr.bits) \in Nat
  BY IPMapperAssumption, LenProperties DEF Binary
<1>2. ASSUME n \in Hits(addr)
      PROVE  \E p \in DOMAIN value : Matches(p, addr) /\ Len(p.bits) = n /\ Path(addr, n) = p
  <2>1. n \in 0..Len(addr.bits) /\ Path(addr, n) \in DOMAIN value /\ Matches(Path(addr, n), addr)
    BY <1>2 DEF Hits, Reachable
  <2>2. Len(Path(addr, n).bits) = n
    BY <1>1, <2>1, PathIsPrefix
  <2> QED
    BY <2>1, <2>2
<1>3. ASSUME NEW p \in DOMAIN value, Matches(p, addr), Len(p.bits) = n, Path(addr, n) = p
      PROVE  n \in Hits(addr)
  <2>1. p \in nodes /\ p.bits \in Binary /\ n \in 0..Len(addr.bits)
    BY <1>1, <1>3, LenProperties DEF Inv, ValuesRight, NodesRight, Matches, Binary
  <2>2. ASSUME NEW m \in 0..n PROVE Path(addr, m) \in nodes
    <3>1. Path(p, m) \in nodes
      BY <1>3, <2>1 DEF Inv, NodesRight
    <3>2. Path(p, m) = Path(addr, m)
      BY <1>1, <1>3, <2>1, PathOfPath
    <3> QED
      BY <3>1, <3>2
  <2> QED
    BY <1>3, <2>1, <2>2 DEF Hits, Reachable
<1> QED
  BY <1>2, <1>3

\* A prefix that matches is a place on the way.
LEMMA MatchIsOnPath ==
  ASSUME NEW p \in Cidrs, NEW addr \in Addresses, Matches(p, addr)
  PROVE  Path(addr, Len(p.bits)) = p /\ Len(p.bits) \in Nat
BY IPMapperAssumption, LenProperties DEF Matches, Path

\* What GetIP answers when it answers.
LEMMA HitIsDone ==
  ASSUME Inv, NEW addr \in Addresses, Hits(addr) # {}
  PROVE  \E p \in DOMAIN value :
           /\ Matches(p, addr) /\ Len(p.bits) = Min(Hits(addr))
           /\ Path(addr, Min(Hits(addr))) = p
           /\ GetIP(addr) \in Infos /\ p \in Done(GetIP(addr))
<1>1. Hits(addr) \in SUBSET Nat
  BY IPMapperAssumption, LenProperties DEF Hits, Reachable
<1>2. Min(Hits(addr)) \in Hits(addr)
  BY <1>1, MinOfHits
<1>3. PICK p \in DOMAIN value : /\ Matches(p, addr) /\ Len(p.bits) = Min(Hits(addr))
                                /\ Path(addr, Min(Hits(addr))) = p
  BY <1>2, HitsArePrefixes
<1>4. PICK info \in DOMAIN valueToKey : p \in Done(info) /\ value[p] = valueToKey[info]
  BY DEF Inv, ValuesRight
<1>5. info \in Infos /\ keyToValue[valueToKey[info]] = info
  BY DEF Inv, KeysRight
<1>6. GetIP(addr) = info
  BY <1>3, <1>4, <1>5 DEF GetIP
<1> QED
  BY <1>3, <1>4, <1>5, <1>6

\* The walk finds something where brute force does, and what it could find.
THEOREM WalkIsRight == Spec => []AgreesWithBruteForce
<1>1. Inv => AgreesWithBruteForce
  <2> SUFFICES ASSUME Inv, NEW addr \in Addresses
               PROVE  IF BruteForce(addr) = {} THEN GetIP(addr) = NotFound
                      ELSE GetIP(addr) \in BruteForce(addr)
    BY DEF AgreesWithBruteForce
  <2>1. CASE Hits(addr) # {}
    BY <2>1, HitIsDone DEF BruteForce
  <2>2. CASE Hits(addr) = {}
    <3>1. ASSUME NEW info \in Infos, NEW p \in Done(info), Matches(p, addr) PROVE FALSE
      <4>1. p \in DOMAIN value /\ p \in Cidrs
        BY <3>1 DEF Inv, DoneRight, ValuesRight
      <4>2. Len(p.bits) \in Hits(addr)
        BY <3>1, <4>1, MatchIsOnPath, HitsArePrefixes
      <4> QED
        BY <2>2, <4>2
    <3>2. BruteForce(addr) = {}
      BY <3>1 DEF BruteForce
    <3> QED
      BY <2>2, <3>2 DEF GetIP
  <2> QED
    BY <2>1, <2>2
<1> QED
  BY <1>1, InvAlways, PTL

\* If no prefix is listed for two regions the answers depend on the data only.
THEOREM DataDecides == Spec => []OrderDoesNotMatter
<1>1. Inv => OrderDoesNotMatter
  <2> SUFFICES ASSUME Inv, Disjoint, \A info \in Infos : left[info] = {},
                      NEW addr \in Addresses, NEW info \in Infos, NEW prefix \in Cidrs,
                      prefix \in ranges[info], Matches(prefix, addr),
                      \A other \in UNION {ranges[i] : i \in Infos} :
                        Matches(other, addr) => Len(prefix.bits) <= Len(other.bits)
               PROVE  GetIP(addr) = info
    BY DEF OrderDoesNotMatter
  <2>1. \A i \in Infos : Done(i) = ranges[i]
    BY DEF Done
  <2>2. prefix \in DOMAIN value
    BY <2>1 DEF Inv, DoneRight
  <2>3. Path(addr, Len(prefix.bits)) = prefix /\ Len(prefix.bits) \in Hits(addr)
    BY <2>2, MatchIsOnPath, HitsArePrefixes
  <2>4. ASSUME NEW n \in Hits(addr) PROVE Len(prefix.bits) <= n
    <3>1. PICK p \in DOMAIN value : Matches(p, addr) /\ Len(p.bits) = n
      BY HitsArePrefixes
    <3>2. p \in UNION {ranges[i] : i \in Infos}
      BY <2>1 DEF Inv, ValuesRight, KeysRight
    <3> QED
      BY <3>1, <3>2
  <2>5. Min(Hits(addr)) = Len(prefix.bits)
    <3>1. Hits(addr) \in SUBSET Nat
      BY IPMapperAssumption, LenProperties DEF Hits, Reachable
    <3> QED
      BY <2>3, <2>4, <3>1, MinOfHits
  <2>6. GetIP(addr) \in Infos /\ prefix \in Done(GetIP(addr))
    BY <2>3, <2>5, HitIsDone
  <2> QED
    BY <2>1, <2>6 DEF Disjoint
<1> QED
  BY <1>1, InvAlways, PTL
=============================================================================
