---------------------------- MODULE LocateProofs --------------------------
(***************************************************************************)
(* Proofs about Locate and the parts it is made of: ClientIP and Routing   *)
(* here, IPMapper in IPMapperProofs.  For supplied headers and URL paths   *)
(* of any length, addresses of any width, every configuration and every    *)
(* table of ranges.                                                        *)
(***************************************************************************)
EXTENDS Locate, Serving, Induction, FiniteSetTheorems, SequenceTheorems

-----------------------------------------------------------------------------
(* ClientIP.                                                               *)

\* What the balancer makes of a header that held h.
Forwarded(h, c) ==
  (IF h = <<>> THEN <<>> ELSE Append(h, "comma")) \o <<c, "comma", LoadBalancer>>

\* The field of the client has exactly one after it, and its end is marked.
LEMMA ClientIsLastButOne ==
  ASSUME NEW g \in Seq(Pieces), NEW n \in Nat, n = Len(g),
         n = 0 \/ g[n] = "comma", NEW c \in Addresses,
         NEW f, f = g \o <<c, "comma", LoadBalancer>>
  PROVE  f # <<>> /\ Get(f, c) = c
<1>1. c \in Pieces /\ "comma" \in Pieces /\ LoadBalancer \in Pieces
  BY ClientIPAssumption DEF Pieces, Separators
<1>2. <<c, "comma", LoadBalancer>> \in Seq(Pieces)
  BY <1>1
<1>3. /\ Len(f) = n + 3 /\ DOMAIN f = 1..(n + 3)
      /\ f[n + 1] = c /\ f[n + 2] = "comma" /\ f[n + 3] = LoadBalancer
      /\ n > 0 => f[n] = "comma"
  BY <1>2
<1>4. /\ c \notin Separators /\ LoadBalancer \notin Separators
      /\ "comma" \in Separators
  BY ClientIPAssumption DEF Separators
<1>5. n + 1 \in Starts(f) /\ n + 3 \in Starts(f) /\ n + 2 \notin Starts(f)
  <2>1. n + 1 = 1 \/ f[(n + 1) - 1] \in Separators
    BY <1>3, <1>4
  <2>2. f[(n + 3) - 1] \in Separators /\ f[n + 2] \in Separators
    BY <1>3, <1>4
  <2>3. n + 1 \in DOMAIN f /\ n + 3 \in DOMAIN f
    BY <1>3
  <2> QED
    BY <1>3, <1>4, <2>1, <2>2, <2>3 DEF Starts
<1>6. \A j \in Starts(f) : j \in Nat /\ (j <= n + 1 \/ j = n + 3)
  BY <1>3, <1>5 DEF Starts
<1>7. LastButOne(f) = {n + 1}
  <2>1. n + 1 \in LastButOne(f)
    <3>1. n + 1 < n + 3
      OBVIOUS
    <3> QED
      BY <1>5, <1>6, <3>1 DEF LastButOne
  <2>2. ASSUME NEW i \in LastButOne(f) PROVE i = n + 1
    <3>1. PICK k \in Starts(f) : i < k /\ \A j \in Starts(f) : j <= i \/ j = k
      BY <2>2 DEF LastButOne
    <3>2. i \in Starts(f)
      BY <2>2 DEF LastButOne
    <3>3. i \in Nat /\ k \in Nat /\ (i <= n + 1 \/ i = n + 3)
          /\ (k <= n + 1 \/ k = n + 3)
      BY <1>6, <3>1, <3>2
    <3>4. (n + 1 <= i \/ n + 1 = k) /\ (n + 3 <= i \/ n + 3 = k)
      BY <1>5, <3>1
    <3> QED
      BY <3>1, <3>3, <3>4
  <2> QED
    BY <2>1, <2>2
<1>8. ParseField(f, n + 1) = c
  <2>1. f[(n + 1) + 1] \in Separators
    BY <1>3, <1>4
  <2> QED
    BY <1>3, <2>1 DEF ParseField
<1>9. f # <<>>
  BY <1>3
<1> QED
  BY <1>7, <1>8, <1>9 DEF Get

LEMMA ForwardedIsRead ==
  ASSUME NEW h \in Seq(Pieces), NEW c \in Addresses
  PROVE  Forwarded(h, c) # <<>> /\ Get(Forwarded(h, c), c) = c
<1>1. CASE h = <<>>
  BY <1>1, ClientIsLastButOne DEF Forwarded
<1>2. CASE h # <<>>
  <2>1. "comma" \in Pieces
    BY DEF Pieces, Separators
  <2>2. /\ Append(h, "comma") \in Seq(Pieces) /\ Len(Append(h, "comma")) \in Nat
        /\ Append(h, "comma")[Len(Append(h, "comma"))] = "comma"
    BY <2>1
  <2> QED
    BY <1>2, <2>2, ClientIsLastButOne DEF Forwarded
<1> QED
  BY <1>1, <1>2

\* The header at the server is what the balancer made of the one supplied.
Inv ==
  /\ at \in {"client", "server", "answered"}
  /\ client \in Addresses
  /\ at = "client" => header \in Seq(Pieces) /\ ~balanced
  /\ at # "client" /\ balanced => \E h \in Seq(Pieces) : header = Forwarded(h, client)
  /\ BalancedClientFound

LEMMA InvNext == Inv /\ [Next]_vars => Inv'
<1> SUFFICES ASSUME Inv, [Next]_vars PROVE Inv'
  OBVIOUS
<1>1. ASSUME NEW piece \in Pieces, Supply(piece) PROVE Inv'
  BY <1>1 DEF Inv, Supply, BalancedClientFound
<1>2. CASE Forward
  <2>1. header \in Seq(Pieces) /\ header' = Forwarded(header, client)
    BY <1>2 DEF Inv, Forward, Forwarded
  <2> QED
    BY <1>2, <2>1 DEF Inv, Forward, BalancedClientFound
<1>3. CASE Connect
  BY <1>3 DEF Inv, Connect, BalancedClientFound
<1>4. CASE Serve
  <2>1. ASSUME balanced PROVE ip' = client
    <3>1. PICK h \in Seq(Pieces) : header = Forwarded(h, client)
      BY <1>4, <2>1 DEF Inv, Serve
    <3>2. header # <<>> /\ Get(header, client) = client
      BY <3>1, ForwardedIsRead DEF Inv
    <3> QED
      BY <1>4, <3>2 DEF Serve
  <2> QED
    BY <1>4, <2>1 DEF Inv, Serve, BalancedClientFound
<1>5. CASE UNCHANGED vars
  BY <1>5 DEF Inv, vars, BalancedClientFound
<1> QED
  BY <1>1, <1>2, <1>3, <1>4, <1>5 DEF Next

LEMMA InvAlways == Spec => []Inv
<1>1. Init => Inv
  BY DEF Init, Inv, BalancedClientFound
<1> QED
  BY <1>1, InvNext, PTL DEF Spec

\* Behind the load balancer Get returns the client the balancer saw, whatever
\* header was supplied and however long it is.
THEOREM ClientIsFound == Spec => []BalancedClientFound
<1>1. Inv => BalancedClientFound
  BY DEF Inv
<1> QED
  BY <1>1, InvAlways, PTL

LEMMA GetReturnsAField ==
  ASSUME NEW h \in Seq(Pieces), h # <<>>, NEW c, Get(h, c) # Invalid
  PROVE  \E i, k \in DOMAIN h :
           /\ i < k /\ h[i] = Get(h, c) /\ h[k] \notin Separators
           /\ h[i + 1] \in Separators
           /\ i = 1 \/ h[i - 1] \in Separators
<1>1. LastButOne(h) # {} /\ \E i \in LastButOne(h) : Get(h, c) = ParseField(h, i)
  BY DEF Get
<1>2. PICK i \in LastButOne(h) : Get(h, c) = ParseField(h, i)
  BY <1>1
<1>3. i \in Starts(h)
  BY DEF LastButOne
<1>4. PICK k \in Starts(h) : i < k
  BY DEF LastButOne
<1>5. /\ Get(h, c) = h[i]
      /\ i = Len(h) \/ h[i + 1] \in Separators
  BY <1>2 DEF ParseField
<1>6. i # Len(h)
  BY <1>3, <1>4 DEF Starts
<1>7. /\ i \in DOMAIN h /\ k \in DOMAIN h /\ h[k] \notin Separators
      /\ i = 1 \/ h[i - 1] \in Separators
  BY <1>3, <1>4 DEF Starts
<1> QED
  BY <1>4, <1>5, <1>6, <1>7

\* A header grows by pieces, and what was answered was read off it.
FieldInv ==
  /\ header \in Seq(Pieces) /\ client \in Addresses
  /\ NothingMadeUp

LEMMA FieldInvNext == FieldInv /\ [Next]_vars => FieldInv'
<1> SUFFICES ASSUME FieldInv, [Next]_vars PROVE FieldInv'
  OBVIOUS
<1>1. ASSUME NEW piece \in Pieces, Supply(piece) PROVE FieldInv'
  BY <1>1 DEF FieldInv, Supply, NothingMadeUp
<1>2. CASE Forward
  <2>1. client \in Pieces /\ "comma" \in Pieces /\ LoadBalancer \in Pieces
    BY ClientIPAssumption DEF FieldInv, Pieces, Separators
  <2>2. /\ <<client, "comma", LoadBalancer>> \in Seq(Pieces)
        /\ Append(header, "comma") \in Seq(Pieces) /\ <<>> \in Seq(Pieces)
    BY <2>1 DEF FieldInv
  <2>3. header' \in Seq(Pieces)
    BY <1>2, <2>2 DEF Forward
  <2> QED
    BY <1>2, <2>3 DEF FieldInv, Forward, NothingMadeUp
<1>3. CASE Connect
  BY <1>3 DEF FieldInv, Connect, NothingMadeUp
<1>4. CASE Serve
  <2>1. header' = header /\ client' = client
    BY <1>4 DEF Serve
  <2>2. ASSUME ip' # Invalid, header # <<>> PROVE ip' = Get(header, client)
    BY <1>4, <2>2 DEF Serve
  <2>3. ASSUME ip' # Invalid, header = <<>> PROVE ip' = client
    BY <1>4, <2>3 DEF Serve, Get
  <2>4. NothingMadeUp'
    <3>1. CASE ip' = Invalid
      BY <3>1 DEF NothingMadeUp
    <3>2. CASE ip' # Invalid /\ header = <<>>
      BY <2>1, <2>3, <3>2 DEF NothingMadeUp
    <3>3. CASE ip' # Invalid /\ header # <<>>
      <4>1. Get(header, client) # Invalid /\ header \in Seq(Pieces)
        BY <2>2, <3>3 DEF FieldInv
      <4>2. \E i, k \in DOMAIN header :
              /\ i < k /\ header[i] = ip' /\ header[k] \notin Separators
              /\ header[i + 1] \in Separators
              /\ i = 1 \/ header[i - 1] \in Separators
        BY <2>2, <3>3, <4>1, GetReturnsAField
      <4> QED
        BY <2>1, <4>2 DEF NothingMadeUp
    <3> QED
      BY <3>1, <3>2, <3>3
  <2> QED
    BY <2>1, <2>4 DEF FieldInv
<1>5. CASE UNCHANGED vars
  BY <1>5 DEF FieldInv, vars, NothingMadeUp
<1> QED
  BY <1>1, <1>2, <1>3, <1>4, <1>5 DEF Next

\* With or without the balancer, Get returns nothing but the connection's
\* address or a whole field of the header that has another after it.
THEOREM NothingIsMadeUp == Spec => []NothingMadeUp
<1>1. Init => FieldInv
  BY DEF Init, FieldInv, NothingMadeUp
<1>2. FieldInv => NothingMadeUp
  BY DEF FieldInv
<1> QED
  BY <1>1, <1>2, FieldInvNext, PTL DEF Spec

-----------------------------------------------------------------------------
(* Routing.                                                                *)

\* What is to be told apart of segments: empty, dots, and words of W.
Clean(W) == W \ {"", ".", ".."}

LEMMA AddSegmentIsClean ==
  ASSUME NEW W, NEW done \in Seq(Clean(W)), NEW segment \in W
  PROVE  AddSegment(done, segment) \in Seq(Clean(W))
<1>1. CASE segment = "" \/ segment = "."
  BY <1>1, Zenon DEF AddSegment
<1>2. CASE segment \in Clean(W)
  <2>1. AddSegment(done, segment) = Append(done, segment)
    BY <1>2, Zenon DEF AddSegment, Clean
  <2>2. Append(done, segment) \in Seq(Clean(W))
    BY <1>2
  <2> QED
    BY <2>1, <2>2
<1>3. CASE segment = ".."
  <2>1. AddSegment(done, segment) = (IF done = <<>> THEN done ELSE Front(done))
    <3>1. ".." # "" /\ ".." # "."
      BY Zenon
    <3> QED
      BY <1>3, <3>1, Zenon DEF AddSegment
  <2>2. CASE done # <<>>
    <3>1. Len(done) \in Nat /\ Len(done) >= 1
      BY <2>2, EmptySeq
    <3>2. SubSeq(done, 1, Len(done) - 1) \in Seq(Clean(W))
      BY <3>1
    <3> QED
      BY <2>1, <2>2, <3>2 DEF Front
  <2> QED
    BY <2>1, <2>2
<1>4. segment = "" \/ segment = "." \/ segment = ".." \/ segment \in Clean(W)
  BY Zenon DEF Clean
<1> QED
  BY <1>1, <1>2, <1>3, <1>4

\* Join is the last of the sequences its recursion goes through.
LEMMA JoinSteps ==
  ASSUME NEW W, NEW s \in Seq(W)
  PROVE  \E done \in [0..Len(s) -> Seq(Clean(W))] :
           /\ done[0] = <<>>
           /\ \A k \in 1..Len(s) : done[k] = AddSegment(done[k - 1], s[k])
           /\ Join(s) = done[Len(s)]
<1> DEFINE C == Seq(Clean(W))
           Recurs(f) == f = [n \in 0..Len(s) |->
                               IF n = 0 THEN <<>> ELSE AddSegment(f[n - 1], s[n])]
           g == [k \in 1..Len(s) |-> [d \in C |-> AddSegment(d, s[k])]]
           done == CHOOSE f : Recurs(f)
<1>1. Len(s) \in Nat /\ \A k \in 1..Len(s) : s[k] \in W
  OBVIOUS
<1>2. <<>> \in C /\ \A d \in C, k \in 1..Len(s) : AddSegment(d, s[k]) \in C
  <2>1. <<>> \in C
    OBVIOUS
  <2>2. ASSUME NEW d \in C, NEW k \in 1..Len(s) PROVE AddSegment(d, s[k]) \in C
    <3>1. s[k] \in W
      BY <1>1
    <3> QED
      BY <3>1, AddSegmentIsClean, Zenon
  <2> QED
    BY <2>1, <2>2, Zenon
<1> HIDE DEF C
<1>3. \E f : Recurs(f)
  <2>1. g \in [1..Len(s) -> [C -> C]]
    BY <1>2
  <2> HIDE DEF g
  <2>2. PICK f \in [0..Len(s) -> C] :
          f[0] = <<>> /\ \A k \in 1..Len(s) : f[k] = g[k][f[k - 1]]
    <3>1. Len(s) \in Nat
      BY <1>1
    <3> QED
      <4>1. Runs(Len(s), C, <<>>, g) # {}
        BY <1>2, <2>1, <3>1, RecursionTo
      <4> QED
        BY <4>1 DEF Runs
  <2>3. \A k \in 1..Len(s) : f[k] = AddSegment(f[k - 1], s[k])
    <3> TAKE k \in 1..Len(s)
    <3>1. f[k - 1] \in C /\ f[k] = g[k][f[k - 1]]
      BY <1>1, <2>2
    <3> QED
      BY <3>1 DEF g
  <2>4. Recurs(f)
    BY <1>1, <2>2, <2>3
  <2> HIDE DEF Recurs
  <2> QED
    BY <2>4
<1>4. Recurs(done)
  <2> HIDE DEF Recurs
  <2> QED
    BY <1>3
<1>5. Join(s) = done[Len(s)]
  BY DEF Join
<1> HIDE DEF done, g
<1>6. /\ done[0] = <<>>
      /\ \A k \in 1..Len(s) : done[k] = AddSegment(done[k - 1], s[k])
  BY <1>1, <1>4
<1>7. \A k \in 0..Len(s) : done[k] \in C
  <2> HIDE DEF Recurs
  <2> DEFINE Typed == {k \in 0..Len(s) : done[k] \in C}
  <2>1. 0 \in Typed
    BY <1>1, <1>2, <1>6
  <2>2. ASSUME NEW k \in 1..Len(s), k - 1 \in Typed PROVE k \in Typed
    BY <1>1, <1>2, <1>6, <2>2
  <2>3. \A k \in 1..Len(s) : k - 1 \in Typed => k \in Typed
    BY <2>2
  <2> HIDE DEF Typed
  <2>4. \A k \in 0..Len(s) : k \in Typed
    BY <1>1, <2>1, <2>3, InductionTo
  <2> QED
    BY <2>4 DEF Typed
<1>8. done \in [0..Len(s) -> C]
  BY <1>4, <1>7
<1> QED
  BY <1>5, <1>6, <1>8 DEF C

\* Of a path with no dots, Join keeps the segments that are not empty.
LEMMA JoinLists ==
  ASSUME NEW W, NEW s \in Seq(W), Dotless(s)
  PROVE  Lists(Join(s), s)
<1> DEFINE C == Seq(Clean(W))
<1>1. PICK done \in [0..Len(s) -> C] :
        /\ done[0] = <<>>
        /\ \A k \in 1..Len(s) : done[k] = AddSegment(done[k - 1], s[k])
        /\ Join(s) = done[Len(s)]
  BY JoinSteps
<1> DEFINE Upto(n) == {j \in Kept(s) : j <= n}
           Listed(n) == /\ Len(done[n]) = Cardinality(Upto(n))
                        /\ \A i \in Upto(n) : done[n][Cardinality(Upto(i))] = s[i]
           Good == {n \in 0..Len(s) : Listed(n)}
<1>2. Len(s) \in Nat /\ DOMAIN s = 1..Len(s)
  OBVIOUS
<1>3. Kept(s) \subseteq 1..Len(s)
  <2>1. Kept(s) \subseteq DOMAIN s
    BY Zenon DEF Kept
  <2> QED
    BY <1>2, <2>1
<1>4. \A n \in Nat : IsFiniteSet(Upto(n)) /\ Cardinality(Upto(n)) \in Nat
  <2> TAKE n \in Nat
  <2>1. IsFiniteSet(1..Len(s)) /\ Upto(n) \in SUBSET (1..Len(s))
    BY <1>2, <1>3, FS_Interval
  <2> HIDE DEF Upto
  <2> QED
    BY <2>1, FS_Subset, FS_CardinalityType
<1>5. 0 \in Good
  <2>1. Upto(0) = {}
    BY <1>2, <1>3
  <2> HIDE DEF Upto
  <2>2. Len(done[0]) = 0 /\ Cardinality(Upto(0)) = 0
    BY <1>1, <2>1, FS_EmptySet
  <2> QED
    BY <1>2, <2>1, <2>2
<1>6. ASSUME NEW n \in 1..Len(s), n - 1 \in Good PROVE n \in Good
  <2>1. /\ n - 1 \in 0..Len(s) /\ done[n - 1] \in C
        /\ done[n] = AddSegment(done[n - 1], s[n]) /\ n \in DOMAIN s /\ n \in Nat
    BY <1>1, <1>2
  <2>2. CASE n \notin Kept(s)
    <3>1. Upto(n) = Upto(n - 1)
      BY <1>2, <1>3, <2>1, <2>2
    <3>2. s[n] = ""
      BY <2>1, <2>2, Zenon DEF Kept
    <3>3. done[n] = done[n - 1]
      BY <2>1, <3>2, Zenon DEF AddSegment
    <3> HIDE DEF Upto
    <3> QED
      BY <1>6, <3>1, <3>3
  <2>3. CASE n \in Kept(s)
    <3>1. Upto(n) = Upto(n - 1) \cup {n} /\ n \notin Upto(n - 1)
      BY <1>2, <1>3, <2>1, <2>3
    <3>2. done[n] = Append(done[n - 1], s[n])
      BY <2>1, <2>3, Zenon DEF AddSegment, Kept, Dotless
    <3>3. \A i \in Upto(n - 1) : i \in Nat /\ i \in Upto(i) /\ Upto(i) \subseteq Upto(n - 1)
      BY <1>2, <1>3
    <3> HIDE DEF Upto
    <3>4. /\ Cardinality(Upto(n)) = Cardinality(Upto(n - 1)) + 1
          /\ Cardinality(Upto(n - 1)) \in Nat
      <4>1. n - 1 \in Nat
        BY <2>1
      <4>2. IsFiniteSet(Upto(n - 1)) /\ Cardinality(Upto(n - 1)) \in Nat
        BY <1>4, <4>1
      <4> QED
        BY <3>1, <4>2, FS_AddElement
    <3>5. Len(done[n]) = Cardinality(Upto(n))
      BY <1>6, <2>1, <3>2, <3>4
    <3>6. ASSUME NEW i \in Upto(n - 1)
          PROVE  done[n][Cardinality(Upto(i))] = s[i]
      <4>1. Cardinality(Upto(i)) \in Nat /\ Cardinality(Upto(i)) # 0
        BY <1>4, <3>3, FS_EmptySet
      <4>2. Cardinality(Upto(i)) <= Cardinality(Upto(n - 1))
        BY <1>4, <2>1, <3>3, FS_Subset
      <4>3. Len(done[n - 1]) = Cardinality(Upto(n - 1))
            /\ done[n - 1][Cardinality(Upto(i))] = s[i]
        BY <1>6, <3>6
      <4>4. Cardinality(Upto(i)) \in 1..Len(done[n - 1])
        BY <3>4, <4>1, <4>2, <4>3
      <4> QED
        BY <2>1, <3>2, <4>3, <4>4
    <3>7. done[n][Cardinality(Upto(n))] = s[n]
      <4>1. Len(done[n - 1]) = Cardinality(Upto(n - 1))
        BY <1>6
      <4> QED
        BY <2>1, <3>2, <3>4, <4>1
    <3> QED
      BY <3>1, <3>5, <3>6, <3>7
  <2> QED
    BY <2>2, <2>3
<1>7. \A n \in 1..Len(s) : n - 1 \in Good => n \in Good
  BY <1>6
<1>8. Listed(Len(s))
  <2>1. \A n \in 0..Len(s) : n \in Good
    <3> HIDE DEF Good
    <3> QED
      BY <1>2, <1>5, <1>7, InductionTo
  <2> HIDE DEF Listed
  <2> QED
    BY <1>2, <2>1
<1>9. Upto(Len(s)) = Kept(s)
  BY <1>2, <1>3
<1> QED
  BY <1>1, <1>8, <1>9 DEF Lists, Place

\* Whatever is asked for, no backend path has a segment that is empty or dots.
THEOREM JoinIsClean ==
  ASSUME NEW W, NEW s \in Seq(W)
  PROVE  Join(s) \in Seq(Clean(W))
<1>1. Len(s) \in 0..Len(s)
  OBVIOUS
<1> QED
  BY <1>1, JoinSteps

\* Of two paths, the segments that are not empty are the same.
SameName(p, q) ==
  /\ Cardinality(Kept(p)) = Cardinality(Kept(q))
  /\ \A i \in Kept(p), j \in Kept(q) : Place(p, i) = Place(q, j) => p[i] = q[j]

\* What a backend is asked for is the name of one thing only.
THEOREM OneNamePerPath ==
  ASSUME NEW W, NEW p \in Seq(W), NEW q \in Seq(W), Dotless(p), Dotless(q),
         Join(p) = Join(q)
  PROVE  SameName(p, q)
<1>1. Lists(Join(p), p) /\ Lists(Join(q), q)
  BY JoinLists
<1> QED
  BY <1>1, Zenon DEF Lists, SameName

\* What is left of a path p without its first segment, behind a.
LEMMA WithoutFirst ==
  ASSUME NEW W, NEW a \in Seq(W), NEW p \in Seq(W), p # <<>>, NEW e \in W
  PROVE  /\ (a \o <<e>>) \o Tail(p) = a \o [p EXCEPT ![1] = e]
         /\ [p EXCEPT ![1] = e] \in Seq(W)
<1> DEFINE q == [p EXCEPT ![1] = e]
           l == (a \o <<e>>) \o Tail(p)
           r == a \o q
<1>1. Len(p) \in Nat /\ Len(p) >= 1 /\ Len(a) \in Nat
  BY EmptySeq
<1>2. q \in Seq(W) /\ Len(q) = Len(p)
  BY <1>1
<1>3. q[1] = e /\ \A i \in 2..Len(p) : q[i] = p[i]
  BY <1>1
<1>4. <<e>> \in Seq(W) /\ Tail(p) \in Seq(W) /\ Len(Tail(p)) = Len(p) - 1
      /\ \A i \in 1..(Len(p) - 1) : Tail(p)[i] = p[i + 1]
  BY <1>1
<1>5. a \o <<e>> \in Seq(W) /\ Len(a \o <<e>>) = Len(a) + 1
      /\ (a \o <<e>>)[Len(a) + 1] = e
      /\ \A i \in 1..Len(a) : (a \o <<e>>)[i] = a[i]
  BY <1>1, <1>4
<1> HIDE DEF q
<1>6. l \in Seq(W) /\ Len(l) = Len(a) + Len(p)
  BY <1>1, <1>4, <1>5
<1>7. r \in Seq(W) /\ Len(r) = Len(a) + Len(p)
  BY <1>1, <1>2
<1>8. ASSUME NEW i \in 1..(Len(a) + Len(p)) PROVE l[i] = r[i]
  <2>1. CASE i <= Len(a)
    <3>1. r[i] = a[i]
      BY <1>1, <1>2, <2>1
    <3>2. l[i] = (a \o <<e>>)[i]
      BY <1>1, <1>4, <1>5, <2>1
    <3> QED
      BY <1>1, <1>5, <2>1, <3>1, <3>2
  <2>2. CASE i = Len(a) + 1
    <3>1. r[i] = q[1]
      BY <1>1, <1>2, <2>2
    <3>2. l[i] = (a \o <<e>>)[i]
      BY <1>1, <1>4, <1>5, <2>2
    <3> QED
      BY <1>3, <1>5, <2>2, <3>1, <3>2
  <2>3. CASE i > Len(a) + 1
    <3>1. i - Len(a) \in 2..Len(p) /\ i - (Len(a) + 1) \in 1..(Len(p) - 1)
      BY <1>1, <2>3
    <3>2. r[i] = q[i - Len(a)]
      BY <1>1, <1>2, <2>3
    <3>3. l[i] = Tail(p)[i - (Len(a) + 1)]
      BY <1>1, <1>4, <1>5, <2>3
    <3>4. Tail(p)[i - (Len(a) + 1)] = p[(i - (Len(a) + 1)) + 1]
      BY <1>4, <3>1
    <3>5. (i - (Len(a) + 1)) + 1 = i - Len(a)
      BY <1>1
    <3> QED
      BY <1>3, <3>1, <3>2, <3>3, <3>4, <3>5
  <2>4. i <= Len(a) \/ i = Len(a) + 1 \/ i > Len(a) + 1
    BY <1>1
  <2> QED
    BY <2>1, <2>2, <2>3, <2>4, Zenon
<1> HIDE DEF l, r
<1>9. l = r
  BY <1>1, <1>6, <1>7, <1>8, SeqEqual
<1> QED
  BY <1>2, <1>9 DEF l, r, q

LEMMA Words ==
  ASSUME NEW W
  PROVE  /\ \A V \in SUBSET W : \A s \in Seq(V) : s \in Seq(W)
         /\ \A w \in W : <<w>> \in Seq(W)
         /\ \A s, t \in Seq(W) : s \o t \in Seq(W)
<1>1. ASSUME NEW V \in SUBSET W, NEW s \in Seq(V) PROVE s \in Seq(W)
  BY <1>1
<1>2. \A w \in W : <<w>> \in Seq(W)
  OBVIOUS
<1>3. \A s, t \in Seq(W) : s \o t \in Seq(W)
  OBVIOUS
<1> QED
  BY <1>1, <1>2, <1>3

LEMMA DotlessConcat ==
  ASSUME NEW W, NEW a \in Seq(W), NEW b \in Seq(W), Dotless(a), Dotless(b)
  PROVE  Dotless(a \o b)
<1>1. /\ Len(a) \in Nat /\ Len(b) \in Nat
      /\ DOMAIN a = 1..Len(a) /\ DOMAIN b = 1..Len(b)
      /\ DOMAIN (a \o b) = 1..(Len(a) + Len(b))
  OBVIOUS
<1>2. ASSUME NEW i \in 1..(Len(a) + Len(b))
      PROVE  (\E j \in DOMAIN a : (a \o b)[i] = a[j]) \/ \E j \in DOMAIN b : (a \o b)[i] = b[j]
  <2>1. CASE i <= Len(a)
    BY <1>1, <2>1
  <2>2. CASE i > Len(a)
    <3>1. i - Len(a) \in 1..Len(b) /\ (a \o b)[i] = b[i - Len(a)]
      BY <1>1, <2>2
    <3> QED
      BY <1>1, <3>1
  <2> QED
    BY <1>1, <2>1, <2>2
<1> QED
  BY <1>1, <1>2, Zenon DEF Dotless

-----------------------------------------------------------------------------
(* One request.                                                            *)

\* A request is answered once, by the handlers or from the bucket.
ServingInv ==
  /\ config \in Configurations
  /\ request \in Requests
  /\ \/ answer = Unserved
     \/ answer = Reply(config, request)
     \/ NeedsBlobCheck(request) /\ answer = S3Redirect(BlobURL(config, request))

LEMMA ServingInvAlways == ServingSpec => []ServingInv
<1>1. ServingInit => ServingInv
  BY DEF ServingInit, ServingInv
<1>2. ServingInv /\ [Answer]_servingVars => ServingInv'
  BY DEF ServingInv, Answer, servingVars
<1> QED
  BY <1>1, <1>2, PTL DEF ServingSpec

\* Redirects to the backends have the backend path.
LEMMA BackendReply ==
  ASSUME NEW rc, NEW q, Reply(rc, q).site \in {"upstream", "signature"}
  PROVE  Reply(rc, q).path = BackendPath(rc, q.path)
BY Zenon DEF Reply, V2Reply, Plain, Redirect, Upstream, Signature

LEMMA NameKept == ServingInv => NameSurvives
<1> SUFFICES ASSUME ServingInv PROVE NameSurvives
  OBVIOUS
<1> SUFFICES ASSUME Served, answer.site \in {"upstream", "signature"},
                    request.path[1] = "v2", Dotless(request.path), Dotless(config.path)
             PROVE  Lists(answer.path, <<"v2">> \o config.path \o Asked(request.path))
  BY Zenon DEF NameSurvives
<1> DEFINE W == STRING \cup {"", "v2"}
           asked == <<"v2">> \o config.path \o Asked(request.path)
<1>1. /\ request.path \in Seq(STRING) /\ request.path # <<>>
      /\ config.path \in Seq(STRING)
  BY ServingAssumption, Zenon DEF ServingInv
<1>2. "" \in W /\ "v2" \in W /\ STRING \subseteq W
  BY Zenon
<1> HIDE DEF W
<1>3. request.path \in Seq(W) /\ config.path \in Seq(W) /\ <<"v2">> \in Seq(W)
  BY <1>1, <1>2, Words, Zenon
<1>4. <<"v2">> \o config.path \in Seq(W)
  BY <1>3, Words, Zenon
<1>5. answer.path = BackendPath(config, request.path)
  <2>1. answer = Reply(config, request)
    <3>1. ASSUME answer = S3Redirect(BlobURL(config, request)) PROVE FALSE
      BY <3>1, Zenon DEF S3Redirect, Redirect
    <3> QED
      BY <3>1, Zenon DEF ServingInv, Served
  <2> QED
    BY <2>1, BackendReply
<1>6. BackendPath(config, request.path) =
        Join(((<<"v2">> \o config.path) \o <<"">>) \o Tail(request.path))
  <2>1. V2Rest[request.path[1]] = ""
    BY DEF V2Rest
  <2> QED
    BY <2>1, Zenon DEF BackendPath
<1>7. /\ ((<<"v2">> \o config.path) \o <<"">>) \o Tail(request.path) = asked
      /\ Asked(request.path) \in Seq(W)
  <2> HIDE DEF asked
  <2> DEFINE a == <<"v2">> \o config.path
             p == request.path
  <2>1. a \in Seq(W) /\ p \in Seq(W) /\ p # <<>> /\ "" \in W
    BY <1>1, <1>2, <1>3, <1>4, Zenon
  <2> HIDE DEF a, p
  <2>2. /\ (a \o <<"">>) \o Tail(p) = a \o [p EXCEPT ![1] = ""]
        /\ [p EXCEPT ![1] = ""] \in Seq(W)
    <3>1. \A e \in W : /\ (a \o <<e>>) \o Tail(p) = a \o [p EXCEPT ![1] = e]
                        /\ [p EXCEPT ![1] = e] \in Seq(W)
      BY <2>1, WithoutFirst
    <3> QED
      BY <2>1, <3>1
  <2> QED
    BY <2>2, Zenon DEF a, p, asked, Asked
<1>8. asked \in Seq(W)
  BY <1>4, <1>7, Words, Zenon
<1>9. Dotless(asked)
  <2>1. Dotless(<<"v2">>)
    BY DEF Dotless
  <2>2. Dotless(Asked(request.path))
    BY <1>1 DEF Dotless, Asked
  <2> QED
    BY <1>3, <1>4, <1>7, <2>1, <2>2, DotlessConcat
<1> HIDE DEF asked
<1>10. Lists(Join(asked), asked)
  BY <1>8, <1>9, JoinLists
<1> QED
  BY <1>5, <1>6, <1>7, <1>10, Zenon DEF asked

\* A backend is asked for what the client asked for: the name and reference
\* survive path.Join for paths and prefixes of any length.
THEOREM NameAlwaysSurvives == ServingSpec => []NameSurvives
BY NameKept, ServingInvAlways, PTL

LEMMA ShortPaths ==
  /\ \A v : <<v>>[1] = v /\ Len(<<v>>) = 1
  /\ \A v, w : <<v, w>>[1] = v /\ Len(<<v, w>>) = 2
OBVIOUS

LEMMA CatalogIsNotTheRoot ==
  <<"v2", "_catalog">> \notin {<<"v2", "">>, <<"v2">>}
<1>1. \A u, v, w : v # w => <<u, v>> # <<u, w>>
  OBVIOUS
<1>2. \A u, v : <<u, v>> # <<u>>
  OBVIOUS
<1>3. "_catalog" # ""
  BY Zenon
<1> QED
  BY <1>1, <1>2, <1>3, Zenon

LEMMA V2Words ==
  ASSUME NEW path PROVE HasV2Prefix(path) <=> path[1] \in {"v2", "v2x"}
BY DEF HasV2Prefix, V2Rest

\* The four kinds of paths under /v2/ that the flow tells apart.
LEMMA Kinds ==
  ASSUME NEW path, Len(path) \in Nat
  PROVE  /\ IsBlob(path) <=>
              /\ path[1] = "v2" /\ Len(path) > 3
              /\ path[Len(path) - 1] = "blobs" /\ path[Len(path)] \in Digests
         /\ IsCosignTag(path) <=>
              /\ path[1] = "v2" /\ Len(path) > 3
              /\ path[Len(path) - 1] = "manifests" /\ path[Len(path)] \in SigTags
         /\ Len(path) > 3 =>
              path \notin {<<"">>, <<"privacy">>, <<"v2">>, <<"v2", "">>, <<"v2", "_catalog">>}
<1>1. \A n \in Nat : (n >= 4 <=> n > 3) /\ (n > 3 => n # 1 /\ n # 2)
  OBVIOUS
<1>2. (Len(path) >= 4 <=> Len(path) > 3) /\ (Len(path) > 3 => Len(path) # 1 /\ Len(path) # 2)
  BY <1>1, Zenon
<1> QED
  BY <1>2, ShortPaths, Zenon DEF IsBlob, IsCosignTag

LEMMA FlowKept == ServingInv => FollowsFlow
<1> SUFFICES ASSUME ServingInv PROVE FollowsFlow
  OBVIOUS
<1> DEFINE path == request.path
           last == path[Len(path)]
           kind == path[Len(path) - 1]
           api  == path[1] = "v2" /\ path \notin {<<"v2">>, <<"v2", "">>}
           blob == Len(path) > 3 /\ kind = "blobs" /\ last \in Digests
           tag  == Len(path) > 3 /\ kind = "manifests" /\ last \in SigTags
           handled == answer = Reply(config, request)
           found == NeedsBlobCheck(request) /\ answer = S3Redirect(BlobURL(config, request))
<1> SUFFICES ASSUME Served, request.method \in {"GET", "HEAD"}
             PROVE  /\ path = <<"">> => Is("info")
                    /\ path = <<"privacy">> => Is("privacy")
                    /\ path[1] \notin {"v2", "v2x", "privacy", "privacyx"}
                         /\ path # <<"">> => answer.code = 404
                    /\ path = <<"v2", "_catalog">> => answer.code = 404
                    /\ api /\ path # <<"v2", "_catalog">> =>
                        /\ tag /\ config.sig => Is("signature")
                        /\ tag /\ ~config.sig => Is("upstream")
                        /\ ~tag /\ ~blob => Is("upstream")
                        /\ blob /\ request.origin.cloud = "GCP" => Is("upstream")
                        /\ blob /\ request.origin.cloud \notin {"GCP", "error"} =>
                            Is("upstream") \/ Is("s3")
  BY Zenon DEF FollowsFlow
<1>1. Len(path) \in Nat
  <2>1. path \in Seq(STRING)
    BY ServingAssumption, Zenon DEF ServingInv
  <2> QED
    BY <2>1
<1>2. HasV2Prefix(path) <=> path[1] \in {"v2", "v2x"}
  BY V2Words, Zenon
<1>3. IsBlob(path) <=> path[1] = "v2" /\ blob
  BY <1>1, Kinds, Zenon
<1>4. IsCosignTag(path) <=> path[1] = "v2" /\ tag
  BY <1>1, Kinds, Zenon
<1>5. handled \/ found
  BY Zenon DEF ServingInv, Served
<1>6. ASSUME found
      PROVE  IsBlob(path) /\ Is("s3") /\ request.origin.cloud # "GCP"
  <2>1. IsBlob(path) /\ request.origin.cloud # "GCP"
    BY <1>6, Zenon DEF NeedsBlobCheck
  <2>2. Is("s3")
    BY <1>6 DEF S3Redirect, Redirect, Is
  <2> QED
    BY <2>1, <2>2
<1>7. IsBlob(path) =>
        path \notin {<<"">>, <<"privacy">>, <<"v2">>, <<"v2", "">>, <<"v2", "_catalog">>}
  BY <1>1, <1>3, Kinds, Zenon
<1>8. ~(blob /\ tag)
  BY Zenon
<1>9. path = <<"">> => path[1] = ""
  BY ShortPaths
<1>10. path = <<"privacy">> => path[1] = "privacy"
  BY ShortPaths
<1>11. path = <<"v2", "_catalog">> => path[1] = "v2" /\ path \notin {<<"v2", "">>, <<"v2">>}
  BY ShortPaths, CatalogIsNotTheRoot, Zenon
<1> HIDE DEF path, last, kind, blob, tag, handled, found
<1>12. CASE found
  BY <1>3, <1>6, <1>7, <1>8, <1>12, Zenon
<1>13. CASE handled
  <2>1. answer = Reply(config, request)
    BY <1>13 DEF handled
  <2>2. CASE ~HasV2Prefix(path)
    <3>1. answer = IF path = <<"">> THEN Redirect("info", <<>>)
                   ELSE IF HasPrivacyPrefix(path) THEN Redirect("privacy", <<>>)
                   ELSE Plain(404)
      BY <2>1, <2>2, Zenon DEF Reply, path
    <3>2. path = <<"">> => Is("info")
      BY <3>1 DEF Redirect, Is
    <3>3. path = <<"privacy">> => Is("privacy")
      <4>1. path = <<"privacy">> => path # <<"">> /\ HasPrivacyPrefix(path)
        BY <1>9, <1>10, Zenon DEF HasPrivacyPrefix
      <4> QED
        BY <3>1, <4>1 DEF Redirect, Is
    <3>4. path[1] \notin {"v2", "v2x", "privacy", "privacyx"} /\ path # <<"">>
            => answer.code = 404
      BY <3>1 DEF Plain, HasPrivacyPrefix
    <3> QED
      BY <1>2, <1>11, <2>2, <3>2, <3>3, <3>4, Zenon
  <2>3. CASE HasV2Prefix(path)
    <3>1. answer = V2Reply(config, request)
      BY <2>1, <2>3, Zenon DEF Reply, path
    <3>2. path # <<"">> /\ path # <<"privacy">>
      BY <1>2, <1>9, <1>10, <2>3, Zenon
    <3>3. path = <<"v2", "_catalog">> => answer.code = 404
      BY <1>11, <3>1 DEF V2Reply, Plain, path
    <3>4. ASSUME api, path # <<"v2", "_catalog">>
          PROVE  /\ tag /\ config.sig => Is("signature")
                 /\ tag /\ ~config.sig => Is("upstream")
                 /\ ~tag /\ ~blob => Is("upstream")
                 /\ blob /\ request.origin.cloud = "GCP" => Is("upstream")
                 /\ blob /\ request.origin.cloud \notin {"GCP", "error"} =>
                     Is("upstream") \/ Is("s3")
      <4>1. answer = IF ~blob
                     THEN IF config.sig /\ tag THEN Signature(config, path)
                          ELSE Upstream(config, path)
                     ELSE IF request.origin = BadAddr THEN Plain(400)
                     ELSE Upstream(config, path)
        BY <1>3, <1>4, <3>1, <3>4, Zenon DEF V2Reply, path
      <4>2. answer = Signature(config, path) => Is("signature")
        BY DEF Signature, Redirect, Is
      <4>3. answer = Upstream(config, path) => Is("upstream")
        BY DEF Upstream, Redirect, Is
      <4>4. request.origin.cloud # "error" => request.origin # BadAddr
        <5>1. \A e : [cloud |-> "error", region |-> e].cloud = "error"
          OBVIOUS
        <5>2. BadAddr.cloud = "error"
          BY <5>1, Zenon DEF BadAddr
        <5> QED
          BY <5>2
      <4> QED
        BY <1>8, <4>1, <4>2, <4>3, <4>4, Zenon
    <3> QED
      BY <1>2, <2>3, <3>2, <3>3, <3>4, Zenon
  <2> QED
    BY <2>2, <2>3
<1> QED
  BY <1>5, <1>12, <1>13, Zenon

\* The reply follows the documented flow, for paths of any length.
THEOREM FlowIsFollowed == ServingSpec => []FollowsFlow
BY FlowKept, ServingInvAlways, PTL

\* A region of AWS has a bucket, a neighbour's, or is one of the few without.
LEMMA RegionsAreCovered ==
  \A r \in AWSRegions : r \in BucketRegions \/ r \in DOMAIN Neighbour \/ r \in Bucketless
BY Zenon DEF AWSRegions, BucketRegions, Neighbour

\* Where AWSRegionToHost sends a region.
LEMMA HostOf ==
  ASSUME NEW r, NEW default
  PROVE  /\ r \in BucketRegions \cup DOMAIN Neighbour =>
              AWSRegionToHost(r, default) \in BucketRegions
         /\ r \in BucketRegions => AWSRegionToHost(r, default) = r
         /\ r \notin BucketRegions \cup DOMAIN Neighbour =>
              AWSRegionToHost(r, default) = default
<1>1. \A n \in DOMAIN Neighbour : Neighbour[n] \in BucketRegions
  BY DEF Neighbour, BucketRegions
<1> QED
  BY <1>1, Zenon DEF AWSRegionToHost

\* The regions with a bucket, or a neighbour's, are AWS regions.
LEMMA BucketsAreInAWS ==
  BucketRegions \cup DOMAIN Neighbour \subseteq AWSRegions \ Bucketless
<1>1. BucketRegions \subseteq AWSRegions /\ DOMAIN Neighbour \subseteq AWSRegions
  BY DEF BucketRegions, AWSRegions, Neighbour
<1>2. BucketRegions \cap Bucketless = {}
  BY DEF BucketRegions, Bucketless
<1>3. DOMAIN Neighbour \cap Bucketless = {}
  BY DEF Neighbour, Bucketless
<1> QED
  BY <1>1, <1>2, <1>3

LEMMA RegionsKept == ServingInv => RegionsMatchBuckets
<1> SUFFICES ASSUME ServingInv PROVE RegionsMatchBuckets
  OBVIOUS
<1> DEFINE region == request.origin.region
           host == AWSRegionToHost(region, config.bucket)
           mapped == request.origin.cloud = "AWS" /\ region \notin Bucketless
<1> SUFFICES ASSUME Served, answer.site = "s3"
             PROVE  /\ mapped => answer.path[1] \in BucketRegions
                    /\ mapped /\ region \in BucketRegions => answer.path[1] = region
                    /\ ~mapped => answer.path[1] = config.bucket
  BY Zenon DEF RegionsMatchBuckets
<1>1. answer.path[1] = host /\ NeedsBlobCheck(request)
  <2>1. NeedsBlobCheck(request) /\ answer = S3Redirect(BlobURL(config, request))
    <3>1. ASSUME answer = Reply(config, request) PROVE FALSE
      BY <3>1 DEF Reply, V2Reply, Plain, Redirect, Upstream, Signature
    <3> QED
      BY <3>1 DEF ServingInv, Served
  <2> QED
    BY <2>1 DEF S3Redirect, Redirect, BlobURL
<1>2. /\ region \in AWSRegions \ Bucketless => host \in BucketRegions
      /\ region \in BucketRegions => host = region
      /\ region \notin AWSRegions \ Bucketless => host = config.bucket
  <2>1. region \in AWSRegions \ Bucketless <=> region \in BucketRegions \cup DOMAIN Neighbour
    BY RegionsAreCovered, BucketsAreInAWS, Zenon
  <2> QED
    BY <2>1, HostOf, Zenon
<1>3. request.origin \in Origins /\ request.origin # BadAddr
  BY <1>1, ServingAssumption, Zenon DEF ServingInv, NeedsBlobCheck
<1>4. CASE request.origin = Unknown
  <2>1. region = "" /\ request.origin.cloud = ""
    <3>1. \A e : [cloud |-> e, region |-> e].cloud = e /\ [cloud |-> e, region |-> e].region = e
      OBVIOUS
    <3>2. Unknown.cloud = "" /\ Unknown.region = ""
      BY <3>1, Zenon DEF Unknown
    <3> QED
      BY <1>4, <3>2
  <2>2. "" \notin AWSRegions /\ "" # "AWS"
    BY Zenon DEF AWSRegions, Bucketless
  <2> QED
    BY <1>1, <1>2, <2>1, <2>2, Zenon
<1>5. CASE request.origin \in [cloud : {"AWS"}, region : AWSRegions]
  <2>1. request.origin.cloud = "AWS" /\ region \in AWSRegions
    BY <1>5
  <2> QED
    BY <1>1, <1>2, <2>1, Zenon
<1>6. CASE request.origin \in [cloud : {"GCP", "Azure"}, region : OtherRegions]
  <2>1. request.origin.cloud # "AWS" /\ region \notin AWSRegions
    BY <1>6, ServingAssumption
  <2> QED
    BY <1>1, <1>2, <2>1, Zenon
<1> QED
  BY <1>3, <1>4, <1>5, <1>6, Zenon DEF Origins

\* Clients are sent to their own region's bucket if there is one, and to the
\* default one exactly if their region has none and no neighbour's, for every
\* request and whatever the other clouds call their regions.
THEOREM RegionsAlwaysMatch == ServingSpec => []RegionsMatchBuckets
BY RegionsKept, ServingInvAlways, PTL

-----------------------------------------------------------------------------
(* The parts of Locate do what they do alone.                              *)

\* IPMapper with what is proved about it.
Mapper ==
  INSTANCE IPMapperProofs WITH
    Addresses <- {Parsed[a] : a \in Addresses},
    NotFound <- Unknown

\* The two instances count alike.
LEMMA SameCount ==
  ASSUME NEW S
  PROVE  /\ Region!Cardinality(S) = Mapper!Cardinality(S)
         /\ Region!IsFiniteSet(S) <=> Mapper!IsFiniteSet(S)
<1>1. Region!Cardinality(S) = Mapper!Cardinality(S)
  BY DEF Region!Cardinality, Mapper!Cardinality
<1>2. Region!IsFiniteSet(S) <=> Mapper!IsFiniteSet(S)
  BY DEF Region!IsFiniteSet, Mapper!IsFiniteSet
<1> QED
  BY <1>1, <1>2

LEMMA LocateIsClientIP == LocateSpec => Spec
<1>1. LocateInit => Init
  BY DEF LocateInit
<1>2. [LocateNext]_locateVars => [Next]_vars
  BY DEF LocateNext, locateVars, Load, Travel, Handle, Next
<1> QED
  BY <1>1, <1>2, PTL DEF LocateSpec, Spec

LEMMA LocateIsIPMapper == LocateSpec => Mapper!Spec
<1>1. LocateInit => Mapper!Init
  BY DEF LocateInit, Region!Init, Mapper!Init
<1>2. ASSUME [LocateNext]_locateVars PROVE [Mapper!Next]_Mapper!vars
  <2>1. CASE Load
    <3>1. PICK info \in Infos, prefix \in Cidrs : Region!Build(info, prefix)
      BY <2>1 DEF Load, Region!Next
    <3>2. Region!Cardinality(DOMAIN keyToValue) = Mapper!Cardinality(DOMAIN keyToValue)
      BY SameCount
    <3>3. Mapper!Build(info, prefix)
      BY <3>1, <3>2 DEF Region!Build, Region!Insert, Region!With, Region!KeyOf, Region!Path,
         Mapper!Build, Mapper!Insert, Mapper!With, Mapper!KeyOf, Mapper!Path
    <3> QED
      BY <3>3 DEF Mapper!Next
  <2>2. CASE Travel
    BY <2>2 DEF Travel, mapper, Mapper!vars
  <2>3. CASE Handle
    BY <2>3 DEF Handle, mapper, Mapper!vars
  <2>4. CASE UNCHANGED locateVars
    BY <2>4 DEF locateVars, mapper, Mapper!vars
  <2> QED
    BY <1>2, <2>1, <2>2, <2>3, <2>4 DEF LocateNext
<1> QED
  BY <1>1, <1>2, PTL DEF LocateSpec, Mapper!Spec

LEMMA WalkAgrees == LocateSpec => []Mapper!AgreesWithBruteForce
<1>1. Mapper!IPMapperAssumption
  BY LocateAssumption, SameCount DEF Region!IPMapperAssumption, Mapper!IPMapperAssumption
<1>2. Mapper!Spec => []Mapper!AgreesWithBruteForce
  BY <1>1, Mapper!WalkIsRight
<1> QED
  BY <1>2, LocateIsIPMapper, PTL

\* The two instances look up alike.
LEMMA SameMapper ==
  ASSUME NEW addr
  PROVE  /\ Region!GetIP(addr) = Mapper!GetIP(addr)
         /\ \A p : Region!Matches(p, addr) <=> Mapper!Matches(p, addr)
<1>1. \A p : Region!Matches(p, addr) <=> Mapper!Matches(p, addr)
  BY DEF Region!Matches, Mapper!Matches
<1>2. \A n : Region!Path(addr, n) = Mapper!Path(addr, n)
  BY DEF Region!Path, Mapper!Path
<1>3. Region!Reachable(addr) = Mapper!Reachable(addr)
  BY <1>2 DEF Region!Reachable, Mapper!Reachable
<1>4. Region!Hits(addr) = Mapper!Hits(addr)
  BY <1>1, <1>2, <1>3 DEF Region!Hits, Mapper!Hits
<1>5. Region!Min(Region!Hits(addr)) = Mapper!Min(Mapper!Hits(addr))
  BY <1>4 DEF Region!Min, Mapper!Min
<1> QED
  BY <1>1, <1>2, <1>4, <1>5 DEF Region!GetIP, Mapper!GetIP

-----------------------------------------------------------------------------
(* The reply.                                                              *)

Ask(info) == [method |-> "GET", path |-> Blob, origin |-> info]

LEMMA ReplyIsUpstream ==
  ASSUME NEW info, info # BadAddr
  PROVE  Reply(RC, Ask(info)) = Upstream(RC, Blob)
<1>1. Len(Blob) >= 4 /\ Blob[1] = "v2" /\ IsBlob(Blob)
  BY LocateAssumption DEF IsBlob
<1>2. Blob \notin {<<"v2", "">>, <<"v2">>} /\ Blob # <<"v2", "_catalog">>
  <2>1. Len(<<"v2", "">>) = 2 /\ Len(<<"v2">>) = 1 /\ Len(<<"v2", "_catalog">>) = 2
    OBVIOUS
  <2>2. ASSUME Len(Blob) \in {1, 2} PROVE FALSE
    <3>1. CASE Len(Blob) = 1
      <4>1. 1 >= 4
        BY <1>1, <3>1
      <4> QED
        BY <4>1
    <3>2. CASE Len(Blob) = 2
      <4>1. 2 >= 4
        BY <1>1, <3>2
      <4> QED
        BY <4>1
    <3> QED
      BY <2>2, <3>1, <3>2
  <2> QED
    BY <2>1, <2>2, Zenon
<1>3. HasV2Prefix(Blob)
  BY <1>1 DEF HasV2Prefix, V2Rest
<1> QED
  BY <1>1, <1>2, <1>3 DEF Reply, V2Reply, Ask

LEMMA ReplyIsRight ==
  ASSUME NEW info, info # BadAddr, NEW r,
         \/ r = Reply(RC, Ask(info))
         \/ NeedsBlobCheck(Ask(info)) /\ r = S3Redirect(BlobURL(RC, Ask(info)))
  PROVE  r \in RightFor(info)
<1>1. CASE r = Reply(RC, Ask(info))
  BY <1>1, ReplyIsUpstream DEF RightFor
<1>2. CASE NeedsBlobCheck(Ask(info)) /\ r = S3Redirect(BlobURL(RC, Ask(info)))
  BY <1>2 DEF NeedsBlobCheck, Ask, BlobURL, RightFor
<1> QED
  BY <1>1, <1>2

\* When all is inserted, the mapper answers with a region around the client.
LEMMA FoundAround ==
  ASSUME Mapper!AgreesWithBruteForce, Loaded, client \in Addresses
  PROVE  Region!GetIP(Parsed[client]) \in Around
<1> DEFINE addr == Parsed[client]
<1>1. IF Mapper!BruteForce(addr) = {} THEN Mapper!GetIP(addr) = Unknown
      ELSE Mapper!GetIP(addr) \in Mapper!BruteForce(addr)
  BY DEF Mapper!AgreesWithBruteForce
<1>2. \A info \in Infos : Mapper!Done(info) = ranges[info]
  BY DEF Mapper!Done, Loaded
<1>3. Mapper!BruteForce(addr) =
        {info \in Infos : \E p \in ranges[info] : Region!Matches(p, addr)}
  BY <1>2, SameMapper DEF Mapper!BruteForce
<1> QED
  BY <1>1, <1>3, SameMapper DEF Around

\* Nothing is inserted once a request is on its way, so what was found around
\* its address stays around it.
LocateInv ==
  /\ at # "client" => Loaded
  /\ ServedWhereItIs

LEMMA LocateInvNext ==
  LocateInv /\ Inv /\ Inv' /\ Mapper!AgreesWithBruteForce /\ [LocateNext]_locateVars
    => LocateInv'
<1> SUFFICES ASSUME LocateInv, Inv, Inv', Mapper!AgreesWithBruteForce,
                    [LocateNext]_locateVars
             PROVE  LocateInv'
  OBVIOUS
<1>1. CASE Load
  <2>1. UNCHANGED <<at, client, balanced, header, ip, reply>>
    BY <1>1 DEF Load, vars
  <2>2. ~Loaded
    BY <1>1 DEF Load, Region!Next, Region!Build, Loaded
  <2> QED
    BY <2>1, <2>2 DEF LocateInv, ServedWhereItIs
<1>2. CASE Travel
  <2>1. at' # "answered" /\ Loaded /\ left' = left
    BY <1>2 DEF Travel, Supply, Forward, Connect, mapper
  <2> QED
    BY <2>1 DEF LocateInv, ServedWhereItIs, Loaded
<1>3. CASE Handle
  <2>1. /\ Loaded /\ UNCHANGED <<client, balanced, ranges, left>>
        /\ at = "server"
    BY <1>3 DEF Handle, Serve, mapper, LocateInv
  <2>2. ASSUME balanced
        PROVE  \E info \in Around' : reply' \in RightFor(info)
    <3>1. ip' = client /\ client \in Addresses /\ ip' # Invalid
      BY <1>3, <2>1, <2>2, ClientIPAssumption
      DEF Inv, BalancedClientFound, Handle, Serve
    <3> DEFINE info == Region!GetIP(Parsed[client])
    <3>2. info \in Around
      BY <2>1, <3>1, FoundAround
    <3>3. info # BadAddr
      <4>1. info \in Infos \/ info = Unknown
        BY <3>2 DEF Around
      <4> HIDE DEF info
      <4>2. BadAddr # Unknown
        BY DEF BadAddr, Unknown
      <4> QED
        BY <4>1, <4>2, LocateAssumption
    <3>4. \/ reply' = Reply(RC, Ask(info))
          \/ NeedsBlobCheck(Ask(info)) /\ reply' = S3Redirect(BlobURL(RC, Ask(info)))
      BY <1>3, <3>1 DEF Handle, Ask
    <3>5. reply' \in RightFor(info)
      BY <3>3, <3>4, ReplyIsRight
    <3>6. Around' = Around
      BY <2>1 DEF Around, Region!Matches
    <3> QED
      BY <3>2, <3>5, <3>6
  <2> QED
    BY <2>1, <2>2 DEF LocateInv, ServedWhereItIs, Loaded
<1>4. CASE UNCHANGED locateVars
  BY <1>4 DEF LocateInv, ServedWhereItIs, Loaded, Around, Region!Matches,
     locateVars, vars, mapper
<1> QED
  BY <1>1, <1>2, <1>3, <1>4 DEF LocateNext

\* From the header to the reply, every client behind the load balancer is
\* served as its own address deserves: for every header, table and order.
THEOREM ServedRight == LocateSpec => []ServedWhereItIs
<1>1. LocateInit => LocateInv
  BY DEF LocateInit, Init, LocateInv, ServedWhereItIs
<1>2. LocateInv => ServedWhereItIs
  BY DEF LocateInv
<1> QED
  BY <1>1, <1>2, LocateInvNext, LocateIsClientIP, InvAlways, WalkAgrees, PTL
  DEF LocateSpec
=============================================================================
