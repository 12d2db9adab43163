-------------------------- MODULE Ranges2GoProofs -------------------------
(***************************************************************************)
(* Proofs about Ranges2Go, for any data, regions and excluded regions.     *)
(***************************************************************************)
EXTENDS Ranges2Go, Induction, FiniteSetTheorems, SequenceTheorems

-----------------------------------------------------------------------------
(* Lemmas about sequences.                                                 *)

LEMMA RangeOfConcat ==
  ASSUME NEW S, NEW s \in Seq(S), NEW T, NEW t \in Seq(T)
  PROVE  Range(s \o t) = Range(s) \cup Range(t)
<1>1. /\ Len(s) \in Nat /\ DOMAIN s = 1..Len(s)
      /\ Len(t) \in Nat /\ DOMAIN t = 1..Len(t)
  OBVIOUS
<1>2. /\ DOMAIN (s \o t) = 1..(Len(s) + Len(t))
      /\ \A k \in 1..(Len(s) + Len(t)) :
           (s \o t)[k] = IF k <= Len(s) THEN s[k] ELSE t[k - Len(s)]
  <2>1. s \in Seq(S \cup T) /\ t \in Seq(S \cup T)
    OBVIOUS
  <2> QED
    BY <2>1
<1>3. ASSUME NEW x \in Range(s) PROVE x \in Range(s \o t)
  BY <1>1, <1>2 DEF Range
<1>4. ASSUME NEW x \in Range(t) PROVE x \in Range(s \o t)
  <2>1. PICK k \in 1..Len(t) : x = t[k]
    BY <1>1 DEF Range
  <2>2. k + Len(s) \in 1..(Len(s) + Len(t)) /\ (s \o t)[k + Len(s)] = t[k]
    BY <1>1, <1>2
  <2> QED
    BY <1>2, <2>1, <2>2 DEF Range
<1>5. ASSUME NEW x \in Range(s \o t) PROVE x \in Range(s) \cup Range(t)
  <2>1. PICK k \in 1..(Len(s) + Len(t)) : x = (s \o t)[k]
    BY <1>2 DEF Range
  <2>2. CASE k <= Len(s)
    BY <1>1, <1>2, <2>1, <2>2 DEF Range
  <2>3. CASE ~(k <= Len(s))
    <3>1. k - Len(s) \in 1..Len(t)
      BY <1>1, <2>3
    <3> QED
      BY <1>1, <1>2, <2>1, <2>3, <3>1 DEF Range
  <2> QED
    BY <2>2, <2>3
<1> QED
  BY <1>3, <1>4, <1>5

LEMMA IsSeq ==
  ASSUME NEW S, NEW n \in Nat, NEW f \in [1..n -> S]
  PROVE  f \in Seq(S)
BY SeqDef

\* Sequences put one behind the other are a sequence.
LEMMA FlattenSeqType ==
  ASSUME NEW S, NEW seqs \in Seq(Seq(S))
  PROVE  FlattenSeq(seqs) \in Seq(S)
<1> DEFINE n == Len(seqs)
           X == Seq(S)
           Flattens(f) == f = [i \in 1..n |-> IF i = 1 THEN seqs[i] ELSE f[i - 1] \o seqs[i]]
           flatten == CHOOSE f : Flattens(f)
           g == [k \in 1..(n - 1) |-> [d \in X |-> d \o seqs[k + 1]]]
<1>1. n \in Nat /\ \A i \in 1..n : seqs[i] \in X
  OBVIOUS
<1>2. \A d, e \in X : d \o e \in X
  OBVIOUS
<1> HIDE DEF X
<1>3. CASE n = 0
  <2>1. FlattenSeq(seqs) = seqs
    BY <1>3, Zenon DEF FlattenSeq
  <2>2. seqs = <<>>
    BY <1>3, EmptySeq
  <2> QED
    BY <2>1, <2>2
<1>4. CASE n # 0
  <2>1. n - 1 \in Nat /\ seqs[1] \in X /\ \A k \in 1..(n - 1) : k + 1 \in 1..n
    BY <1>1, <1>4
  <2>2. g \in [1..(n - 1) -> [X -> X]]
    BY <1>1, <1>2, <2>1
  <2> HIDE DEF g, n
  <2>3. PICK h \in [0..(n - 1) -> X] :
          h[0] = seqs[1] /\ \A k \in 1..(n - 1) : h[k] = g[k][h[k - 1]]
    <3>1. Runs(n - 1, X, seqs[1], g) # {}
      BY <2>1, <2>2, RecursionTo
    <3> QED
      BY <3>1 DEF Runs
  <2>4. \A k \in 1..(n - 1) : h[k] = h[k - 1] \o seqs[k + 1]
    <3> TAKE k \in 1..(n - 1)
    <3>1. h[k - 1] \in X /\ h[k] = g[k][h[k - 1]]
      <4>1. k - 1 \in 0..(n - 1)
        BY <2>1
      <4> QED
        BY <2>3, <4>1
    <3> QED
      BY <3>1 DEF g
  <2> DEFINE r == [i \in 1..n |-> h[i - 1]]
  <2>5. Flattens(r)
    <3>1. ASSUME NEW i \in 1..n
          PROVE  r[i] = IF i = 1 THEN seqs[i] ELSE r[i - 1] \o seqs[i]
      <4>1. CASE i = 1
        BY <1>1, <2>3, <4>1
      <4>2. CASE i # 1
        <5>1. i - 1 \in 1..(n - 1) /\ i - 1 \in 1..n /\ (i - 1) + 1 = i
          BY <1>1, <4>2
        <5>2. r[i] = h[i - 1] /\ r[i - 1] = h[(i - 1) - 1]
          BY <5>1
        <5> HIDE DEF r
        <5> QED
          BY <2>4, <4>2, <5>1, <5>2
      <4> QED
        BY <4>1, <4>2
    <3>2. r = [i \in 1..n |-> r[i]]
      OBVIOUS
    <3> HIDE DEF r
    <3> QED
      BY <3>1, <3>2
  <2>6. Flattens(flatten)
    <3> HIDE DEF Flattens, r
    <3>1. \E f : Flattens(f)
      BY <2>5
    <3> QED
      BY <3>1
  <2>7. FlattenSeq(seqs) = flatten[n]
    BY <1>4, Zenon DEF FlattenSeq, n
  <2> HIDE DEF flatten
  <2> DEFINE Typed == {k \in 0..(n - 1) : flatten[k + 1] \in X}
  <2>8. flatten[1] = seqs[1] /\ \A k \in 1..(n - 1) : flatten[k + 1] = flatten[k] \o seqs[k + 1]
    <3>1. 1 \in 1..n /\ \A k \in 1..(n - 1) : k + 1 \in 1..n /\ k + 1 # 1 /\ (k + 1) - 1 = k
      BY <1>1, <1>4
    <3>2. \A i \in 1..n : flatten[i] = IF i = 1 THEN seqs[i] ELSE flatten[i - 1] \o seqs[i]
      BY <2>6
    <3> HIDE DEF Flattens
    <3>3. flatten[1] = seqs[1]
      BY <3>1, <3>2
    <3>4. ASSUME NEW k \in 1..(n - 1) PROVE flatten[k + 1] = flatten[k] \o seqs[k + 1]
      <4>1. flatten[k + 1] = flatten[(k + 1) - 1] \o seqs[k + 1]
        BY <3>1, <3>2
      <4> QED
        BY <3>1, <4>1
    <3> QED
      BY <3>3, <3>4
  <2> HIDE DEF Flattens
  <2>9. 0 \in Typed
    BY <2>1, <2>8
  <2>10. \A k \in 1..(n - 1) : k - 1 \in Typed => k \in Typed
    <3> SUFFICES ASSUME NEW k \in 1..(n - 1), k - 1 \in Typed PROVE k \in Typed
      OBVIOUS
    <3>1. (k - 1) + 1 = k /\ flatten[(k - 1) + 1] \in X /\ k \in 0..(n - 1)
      BY <2>1
    <3>2. flatten[k] \in X /\ seqs[k + 1] \in X
      BY <1>1, <2>1, <3>1
    <3>3. flatten[k + 1] \in X
      BY <1>2, <2>8, <3>2
    <3> QED
      BY <3>1, <3>3
  <2> HIDE DEF Typed
  <2>11. n - 1 \in Typed
    <3>1. \A k \in 0..(n - 1) : k \in Typed
      BY <2>1, <2>9, <2>10, InductionTo
    <3> QED
      BY <2>1, <3>1
  <2>12. flatten[n] \in X
    <3>1. (n - 1) + 1 = n
      BY <1>1
    <3> QED
      BY <2>11, <3>1 DEF Typed
  <2> QED
    BY <2>7, <2>12 DEF X
<1> QED
  BY <1>3, <1>4

\* Sorting keeps the elements and puts them in order.
LEMMA SortedSlice ==
  ASSUME NEW s \in Seq(Nat), NEW t \in SortSlice(s)
  PROVE  /\ t \in Seq(Nat) /\ Len(t) = Len(s) /\ Range(t) = Range(s)
         /\ \A k, l \in 1..Len(s) : k <= l => t[k] <= t[l]
<1>1. DOMAIN s = 1..Len(s) /\ Len(s) \in Nat
  OBVIOUS
<1>2. PICK f \in [DOMAIN s -> DOMAIN s] :
        Range(f) = DOMAIN s /\ t = [k \in DOMAIN s |-> s[f[k]]]
  BY DEF SortSlice
<1>3. t \in Seq(Nat) /\ Len(t) = Len(s) /\ DOMAIN t = DOMAIN s
  BY <1>1, <1>2
<1>4. \A k, l \in 1..Len(s) : k <= l => t[k] <= t[l]
  BY <1>1 DEF SortSlice
<1>5. Range(t) = Range(s)
  BY <1>1, <1>2, <1>3 DEF Range
<1> QED
  BY <1>3, <1>4, <1>5

LEMMA CloudNames ==
  /\ Len(Clouds) = 3
  /\ Range(Clouds) = {"AWS", "GCP", "Azure"}
  /\ \A k \in 1..3 : Clouds[k] \in Range(Clouds)
  /\ \A k, l \in 1..3 : Clouds[k] = Clouds[l] => k = l
<1>1. DOMAIN Clouds = 1..3 /\ Clouds[1] = "AWS" /\ Clouds[2] = "GCP"
      /\ Clouds[3] = "Azure" /\ Len(Clouds) = 3
  BY DEF Clouds
<1> QED
  BY <1>1 DEF Range

-----------------------------------------------------------------------------
(* The loop of dedupeSortedPrefixes.                                       *)

\* What holds of the slice s at the head of the loop, P being the elements
\* the slice had at the start.  The entry that s[i] is compared with may have
\* been written over, but only with itself: it is always the last one kept.
InOrder(s, i, j) ==
  /\ i \in Nat /\ j \in Nat /\ 1 <= j /\ j < i /\ i <= Len(s) + 1
  /\ \A k, l \in 1..j : k < l => s[k] < s[l]
  /\ s[j] = s[i - 1]
  /\ \A k, l \in (i - 1)..Len(s) : k <= l => s[k] <= s[l]

Held(s, i, j) == {s[k] : k \in 1..j} \cup {s[k] : k \in i..Len(s)}

Deduping(s, i, j, P) == InOrder(s, i, j) /\ Held(s, i, j) = P

LEMMA DedupeStarts ==
  ASSUME NEW s \in Seq(Nat), Len(s) > 1,
         \A k, l \in 1..Len(s) : k <= l => s[k] <= s[l]
  PROVE  Deduping(s, 2, 1, Range(s))
<1>1. DOMAIN s = 1..Len(s) /\ Len(s) \in Nat
  OBVIOUS
<1>2. 1..Len(s) = (1..1) \cup (2..Len(s))
  BY <1>1
<1>3. Held(s, 2, 1) = Range(s)
  BY <1>1, <1>2 DEF Range, Held
<1> QED
  BY <1>1, <1>3 DEF Deduping, InOrder

LEMMA DedupeDrops ==
  ASSUME NEW s \in Seq(Nat), NEW i, NEW j, NEW P, Deduping(s, i, j, P),
         i <= Len(s), s[i] = s[i - 1]
  PROVE  Deduping(s, i + 1, j, P)
<1>1. i \in Nat /\ j \in Nat /\ Len(s) \in Nat /\ 1 <= j /\ j < i
  BY DEF Deduping, InOrder
<1>2. i..Len(s) = {i} \cup ((i + 1)..Len(s))
  BY <1>1
<1>3. s[i] \in {s[k] : k \in 1..j}
  BY <1>1 DEF Deduping, InOrder
<1>4. Held(s, i + 1, j) = P
  BY <1>2, <1>3 DEF Deduping, Held
<1>5. InOrder(s, i + 1, j)
  BY <1>1 DEF Deduping, InOrder
<1> QED
  BY <1>4, <1>5 DEF Deduping

LEMMA DedupeKeeps ==
  ASSUME NEW s \in Seq(Nat), NEW i, NEW j, NEW P, Deduping(s, i, j, P),
         i <= Len(s), s[i] # s[i - 1],
         NEW t, t = [s EXCEPT ![j + 1] = s[i]]
  PROVE  t \in Seq(Nat) /\ Len(t) = Len(s) /\ Deduping(t, i + 1, j + 1, P)
<1>1. /\ i \in Nat /\ j \in Nat /\ Len(s) \in Nat /\ 1 <= j /\ j < i
      /\ j + 1 \in 1..Len(s) /\ i \in 1..Len(s) /\ i - 1 \in 1..Len(s)
      /\ j \in 1..Len(s)
  BY DEF Deduping, InOrder
<1>2. /\ t \in Seq(Nat) /\ Len(t) = Len(s)
      /\ \A k \in 1..Len(s) : t[k] = IF k = j + 1 THEN s[i] ELSE s[k]
  BY <1>1
<1>3. s[j] < s[i]
  <2>1. s[i - 1] <= s[i] /\ s[i - 1] = s[j]
    BY <1>1 DEF Deduping, InOrder
  <2> QED
    BY <1>1, <2>1
<1>4. \A k, l \in 1..(j + 1) : k < l => t[k] < t[l]
  <2> SUFFICES ASSUME NEW k \in 1..(j + 1), NEW l \in 1..(j + 1), k < l
               PROVE  t[k] < t[l]
    OBVIOUS
  <2>1. k \in 1..j /\ k \in 1..Len(s) /\ l \in 1..Len(s) /\ t[k] = s[k]
    BY <1>1, <1>2
  <2>2. k = j \/ s[k] < s[j]
    <3>1. j \in 1..j /\ (k = j \/ k < j)
      BY <1>1, <2>1
    <3> QED
      BY <2>1, <3>1 DEF Deduping, InOrder
  <2>3. CASE l = j + 1
    BY <1>1, <1>2, <1>3, <2>1, <2>2, <2>3
  <2>4. CASE l # j + 1
    <3>1. l \in 1..j /\ t[l] = s[l]
      BY <1>1, <1>2, <2>1, <2>4
    <3> QED
      BY <2>1, <3>1 DEF Deduping, InOrder
  <2> QED
    BY <2>3, <2>4
<1>5. t[j + 1] = t[(i + 1) - 1]
  BY <1>1, <1>2
<1>6. \A k \in i..Len(s) : t[k] = s[k]
  BY <1>1, <1>2
<1>7. \A k, l \in ((i + 1) - 1)..Len(t) : k <= l => t[k] <= t[l]
  <2>1. ((i + 1) - 1)..Len(t) = i..Len(s)
    BY <1>1, <1>2
  <2>2. \A k \in i..Len(s) : k \in (i - 1)..Len(s)
    BY <1>1
  <2>3. \A k, l \in i..Len(s) : k <= l => s[k] <= s[l]
    BY <2>2 DEF Deduping, InOrder
  <2> QED
    BY <1>6, <2>1, <2>3
<1>8. InOrder(t, i + 1, j + 1)
  BY <1>1, <1>2, <1>4, <1>5, <1>7 DEF InOrder
<1>9. {t[k] : k \in 1..(j + 1)} = {s[k] : k \in 1..j} \cup {s[i]}
  <2>1. \A k \in 1..j : k \in 1..(j + 1) /\ t[k] = s[k]
    BY <1>1, <1>2
  <2>2. j + 1 \in 1..(j + 1) /\ t[j + 1] = s[i]
    BY <1>1, <1>2
  <2>3. \A k \in 1..(j + 1) : k \in 1..j \/ k = j + 1
    BY <1>1
  <2> QED
    BY <2>1, <2>2, <2>3
<1>10. Held(t, i + 1, j + 1) = Held(s, i, j)
  <2>1. i..Len(s) = {i} \cup ((i + 1)..Len(s))
    BY <1>1
  <2>2. {t[k] : k \in (i + 1)..Len(t)} = {s[k] : k \in (i + 1)..Len(s)}
    BY <1>1, <1>2, <1>6, <2>1
  <2> QED
    BY <1>9, <2>1, <2>2 DEF Held
<1> QED
  BY <1>2, <1>8, <1>10 DEF Deduping

LEMMA DedupeStops ==
  ASSUME NEW s \in Seq(Nat), NEW i, NEW j, NEW P, Deduping(s, i, j, P),
         i > Len(s)
  PROVE  /\ SubSeq(s, 1, j) \in Seq(Nat)
         /\ Ascending(SubSeq(s, 1, j)) /\ Range(SubSeq(s, 1, j)) = P
<1>1. /\ i \in Nat /\ j \in Nat /\ Len(s) \in Nat /\ j <= Len(s)
      /\ i..Len(s) = {}
  BY DEF Deduping, InOrder
<1>2. /\ SubSeq(s, 1, j) \in Seq(Nat)
      /\ DOMAIN SubSeq(s, 1, j) = 1..j
      /\ \A k \in 1..j : SubSeq(s, 1, j)[k] = s[k]
  BY <1>1
<1> QED
  BY <1>1, <1>2 DEF Deduping, InOrder, Held, Ascending, Range

-----------------------------------------------------------------------------
(* The tables.                                                             *)

\* An assignment to one region's prefixes leaves the other tables alone.
LEMMA Assigned ==
  ASSUME ParsersTyped, NEW r \in Regions, NEW s \in Seq(Nat),
         tables' = [tables EXCEPT ![Current][r] = s]
  PROVE  /\ tables' \in [Range(Clouds) -> [Regions -> Seq(Nat)]]
         /\ tables'[Current][r] = s
         /\ \A q \in Regions \ {r} : tables'[Current][q] = tables[Current][q]
         /\ \A k \in 1..3 : k # cloud => tables'[Clouds[k]] = tables[Clouds[k]]
<1>1. cloud \in 1..3 /\ Current \in Range(Clouds)
  BY CloudNames DEF ParsersTyped, Current
<1>2. \A k \in 1..3 : k # cloud => Clouds[k] # Current
  BY <1>1, CloudNames DEF Current
<1> QED
  BY <1>1, <1>2, CloudNames DEF ParsersTyped

\* One more entry read.
LEMMA PublishedMore ==
  ASSUME NEW c, NEW r, NEW n \in Nat
  PROVE  Published(c, r, n + 1) =
           Published(c, r, n)
           \cup (IF ~Skipped(c, data[c][n + 1]) /\ data[c][n + 1].region = r
                 THEN Range(Listed(c, data[c][n + 1])) ELSE {})
<1>1. 1..(n + 1) = (1..n) \cup {n + 1}
  OBVIOUS
<1> QED
  BY <1>1 DEF Published

LEMMA PublishedNone == ASSUME NEW c, NEW r PROVE Published(c, r, 0) = {}
  BY DEF Published

\* TablesRight is what is left when a parser has returned.  Before that, a
\* table holds what was read so far; then its regions are put right one by
\* one, of which one may be in the loop that removes duplicates.
Before == {"read", "unmarshal", "entries"}

Inv ==
  /\ ParsersTyped
  /\ TablesRight
  /\ at = "read" => cloud = 1
  /\ at \in {"read", "unmarshal"} => read = 0
  /\ at \notin Before \cup {"panic"} => read = Len(data[Current])
  /\ \A k \in 1..3 : k > cloud => \A r \in Regions : tables[Clouds[k]][r] = <<>>
  /\ at \in Before => \A r \in Regions :
        Range(tables[Current][r]) = Published(Current, r, read)
  /\ at \in {"flatten", "dedupe"} => \A r \in Regions :
        IF r \in rest
        THEN Range(tables[Current][r]) = Published(Current, r, Len(data[Current]))
        ELSE Right(Current, r) \/ (at = "dedupe" /\ r = dedupe.region)
  /\ at = "dedupe" =>
        /\ dedupe.region \notin rest
        /\ Deduping(Slice, dedupe.i, dedupe.j,
                    Published(Current, dedupe.region, Len(data[Current])))

\* What was right stays right while its table and the data do.
LEMMA StaysRight ==
  ASSUME NEW c, NEW r, data' = data, tables'[c][r] = tables[c][r]
  PROVE  /\ Right(c, r)' <=> Right(c, r)
         /\ \A n : Published(c, r, n)' = Published(c, r, n)
  BY DEF Right, Published, Skipped, Listed, Ascending

LEMMA OthersKept ==
  ASSUME Inv, data' = data, cloud' = cloud,
         at' \notin {"create", "write", "done"},
         \A k \in 1..3 : k # cloud => tables'[Clouds[k]] = tables[Clouds[k]]
  PROVE  /\ TablesRight'
         /\ \A k \in 1..3 : k > cloud' =>
               \A r \in Regions : tables'[Clouds[k]][r] = <<>>
<1>1. cloud \in 1..3
  BY CloudNames DEF Inv, ParsersTyped
<1>2. ASSUME NEW c \in Parsed', NEW r \in Regions PROVE Right(c, r)'
  <2>1. PICK k \in 1..(cloud - 1) : c = Clouds[k]
    BY <1>2 DEF Parsed
  <2>2. k \in 1..3 /\ k # cloud /\ c \in Parsed
    BY <1>1, <2>1 DEF Parsed
  <2>3. tables'[c][r] = tables[c][r] /\ Right(c, r)
    BY <2>1, <2>2 DEF Inv, TablesRight
  <2> QED
    BY <2>3, StaysRight
<1>3. TablesRight'
  BY <1>2 DEF TablesRight, Regions
<1> QED
  BY <1>1, <1>3 DEF Inv

LEMMA InvReadFiles == Inv /\ (ReadFiles \/ Unmarshal) => Inv'
<1> SUFFICES ASSUME Inv, ReadFiles \/ Unmarshal PROVE Inv'
  OBVIOUS
<1>1. /\ UNCHANGED <<data, cloud, read, rest, dedupe, tables, order, file>>
      /\ at' \in {"unmarshal", "entries", "panic"}
      /\ at' = "unmarshal" => at = "read"
      /\ at \in {"read", "unmarshal"}
  BY DEF ReadFiles, Unmarshal, Panic
<1>2. ParsersTyped'
  BY <1>1 DEF Inv, ParsersTyped, Current, Slice
<1>3. \A c, r, n : Published(c, r, n)' = Published(c, r, n)
  BY <1>1 DEF Published, Skipped, Listed
<1> QED
  BY <1>1, <1>2, <1>3, OthersKept DEF Inv, Before, Current

LEMMA InvReadEntry == Inv /\ ReadEntry => Inv'
<1> SUFFICES ASSUME Inv, ReadEntry PROVE Inv'
  OBVIOUS
<1> DEFINE e == data[Current][read + 1]
<1>1. /\ at = "entries" /\ read < Len(data[Current])
      /\ UNCHANGED <<data, cloud, rest, dedupe, file>>
  BY DEF ReadEntry
<1>2. /\ cloud \in 1..3 /\ Current \in Range(Clouds) /\ data \in Inputs
      /\ Len(data[Current]) \in Nat /\ read \in Nat
      /\ e \in Range(data[Current])
  <2>1. cloud \in 1..3 /\ Current \in Range(Clouds) /\ data \in Inputs
    BY CloudNames DEF Inv, ParsersTyped, Current
  <2>2. Len(data[Current]) \in Nat /\ DOMAIN data[Current] = 1..Len(data[Current])
    BY <2>1, Ranges2GoAssumption
  <2>3. read \in Nat /\ read + 1 \in 1..Len(data[Current])
    <3>1. read \in 0..Len(data[Current])
      BY DEF Inv, ParsersTyped
    <3> QED
      BY <1>1, <2>2, <3>1
  <2> QED
    BY <2>1, <2>2, <2>3 DEF Range
<1>3. Current' = Current /\ data' = data
      /\ \A c, r, n : Published(c, r, n)' = Published(c, r, n)
  BY <1>1 DEF Current, Published, Skipped, Listed
<1>4. CASE Broken(Current, e) /\ Panic /\ UNCHANGED <<read, tables>>
  <2>1. ParsersTyped'
    BY <1>1, <1>3, <1>4 DEF Inv, ParsersTyped, Panic
  <2> QED
    BY <1>1, <1>3, <1>4, <2>1, OthersKept DEF Inv, Before, Panic
<1>5. CASE /\ ~Broken(Current, e) /\ Skipped(Current, e)
           /\ read' = read + 1 /\ UNCHANGED <<tables, at>>
  <2>1. read' \in 0..Len(data[Current])
    BY <1>1, <1>2, <1>5
  <2>3. ParsersTyped'
    BY <1>1, <1>3, <1>5, <2>1 DEF Inv, ParsersTyped
  <2>2. ASSUME NEW r
        PROVE  Published(Current, r, read + 1) = Published(Current, r, read)
    <3>1. Published(Current, r, read + 1) =
            Published(Current, r, read)
            \cup (IF ~Skipped(Current, e) /\ e.region = r
                  THEN Range(Listed(Current, e)) ELSE {})
      BY <1>2, PublishedMore
    <3> QED
      BY <1>5, <3>1
  <2> QED
    BY <1>1, <1>3, <1>5, <2>2, <2>3, OthersKept DEF Inv, Before
<1>6. CASE /\ ~Broken(Current, e) /\ ~Skipped(Current, e)
           /\ read' = read + 1 /\ UNCHANGED at
           /\ tables' = [tables EXCEPT ![Current][e.region] =
                           @ \o Listed(Current, e)]
  <2> DEFINE old == tables[Current][e.region]
  <2>1. e.region \in Regions
    BY <1>2, <1>6, Ranges2GoAssumption
  <2>2. Listed(Current, e) \in Seq(Nat)
    <3>1. Listed(Current, e) \in Seq(Range(Listed(Current, e)))
      BY <1>2, Ranges2GoAssumption
    <3>2. Range(Listed(Current, e)) \subseteq Nat
      BY <1>6 DEF Broken
    <3> QED
      BY <3>1, <3>2
  <2>3. old \in Seq(Nat)
    BY <1>2, <2>1 DEF Inv, ParsersTyped
  <2>4. /\ old \o Listed(Current, e) \in Seq(Nat)
        /\ Range(old \o Listed(Current, e)) =
             Range(old) \cup Range(Listed(Current, e))
    BY <2>2, <2>3, RangeOfConcat
  <2>5. tables' = [tables EXCEPT ![Current][e.region] = old \o Listed(Current, e)]
    BY <1>6
  <2>6. /\ tables' \in [Range(Clouds) -> [Regions -> Seq(Nat)]]
        /\ tables'[Current][e.region] = old \o Listed(Current, e)
        /\ \A q \in Regions \ {e.region} :
              tables'[Current][q] = tables[Current][q]
        /\ \A k \in 1..3 : k # cloud => tables'[Clouds[k]] = tables[Clouds[k]]
    <3> HIDE DEF e, old
    <3> QED
      BY <2>1, <2>4, <2>5, Assigned DEF Inv
  <2>7. ParsersTyped'
    <3>1. read' \in 0..Len(data[Current])
      BY <1>1, <1>2, <1>6
    <3> QED
      BY <1>1, <1>3, <1>6, <2>6, <3>1 DEF Inv, ParsersTyped
  <2>8. ASSUME NEW r \in Regions
        PROVE  Range(tables'[Current][r]) = Published(Current, r, read + 1)
    <3>1. Range(tables[Current][r]) = Published(Current, r, read)
      BY <1>1 DEF Inv, Before
    <3>2. Published(Current, r, read + 1) =
            Published(Current, r, read)
            \cup (IF ~Skipped(Current, e) /\ e.region = r
                  THEN Range(Listed(Current, e)) ELSE {})
      BY <1>2, PublishedMore
    <3>3. CASE r = e.region
      BY <1>6, <2>4, <2>6, <3>1, <3>2, <3>3
    <3>4. CASE r # e.region
      BY <2>6, <3>1, <3>2, <3>4
    <3> QED
      BY <3>3, <3>4
  <2> QED
    BY <1>1, <1>3, <1>6, <2>6, <2>7, <2>8, OthersKept DEF Inv, Before
<1> QED
  BY <1>4, <1>5, <1>6 DEF ReadEntry

LEMMA InvEntriesEnd == Inv /\ EntriesEnd => Inv'
<1> SUFFICES ASSUME Inv, EntriesEnd PROVE Inv'
  OBVIOUS
<1>1. Current' = Current /\ data' = data
      /\ \A c, r, n : Published(c, r, n)' = Published(c, r, n)
  BY DEF EntriesEnd, Current, Published, Skipped, Listed
<1>2. ParsersTyped'
  BY <1>1 DEF EntriesEnd, Inv, ParsersTyped, Slice, Regions
<1>3. ASSUME NEW r \in Regions, tables[Current][r] = <<>>
      PROVE  Right(Current, r)'
  <2>1. Range(tables[Current][r]) = Published(Current, r, Len(data[Current]))
    BY DEF EntriesEnd, Inv, Before
  <2> QED
    BY <1>1, <1>3, <2>1 DEF EntriesEnd, Right, Ascending
<1> QED
  BY <1>1, <1>2, <1>3, OthersKept DEF EntriesEnd, Inv, Before

LEMMA LoopRecord ==
  ASSUME NEW R, NEW d \in [region : R, i : Nat, j : Nat], NEW a \in Nat, NEW b \in Nat
  PROVE  /\ [d EXCEPT !.i = a, !.j = b] \in [region : R, i : Nat, j : Nat]
         /\ [d EXCEPT !.i = a, !.j = b].region = d.region
         /\ [d EXCEPT !.i = a, !.j = b].i = a
         /\ [d EXCEPT !.i = a, !.j = b].j = b
         /\ [d EXCEPT !.i = a] = [d EXCEPT !.i = a, !.j = d.j]
  OBVIOUS

LEMMA InvSort == ASSUME NEW r \in Regions PROVE Inv /\ Sort(r) => Inv'
<1> SUFFICES ASSUME Inv, Sort(r) PROVE Inv'
  OBVIOUS
<1>1. /\ at = "flatten" /\ r \in rest /\ rest' = rest \ {r}
      /\ UNCHANGED <<data, cloud, read, file>>
  BY DEF Sort
<1> DEFINE s == tables[Current][r]
<1>2. /\ cloud \in 1..3 /\ Current \in Range(Clouds) /\ s \in Seq(Nat)
      /\ Range(s) = Published(Current, r, Len(data[Current]))
  <2>1. cloud \in 1..3 /\ Current \in Range(Clouds)
    BY CloudNames DEF Inv, ParsersTyped, Current
  <2>2. s \in Seq(Nat)
    BY <2>1 DEF Inv, ParsersTyped
  <2> QED
    BY <1>1, <2>1, <2>2 DEF Inv
<1>3. PICK t \in SortSlice(s) : tables' = [tables EXCEPT ![Current][r] = t]
  BY DEF Sort
<1>4. /\ t \in Seq(Nat) /\ Len(t) = Len(s) /\ Range(t) = Range(s)
      /\ \A k, l \in 1..Len(s) : k <= l => t[k] <= t[l]
  <2> HIDE DEF s
  <2> QED
    BY <1>2, <1>3, SortedSlice
<1>5. /\ tables' \in [Range(Clouds) -> [Regions -> Seq(Nat)]]
      /\ tables'[Current][r] = t
      /\ \A q \in Regions \ {r} : tables'[Current][q] = tables[Current][q]
      /\ \A k \in 1..3 : k # cloud => tables'[Clouds[k]] = tables[Clouds[k]]
  BY <1>3, <1>4, Assigned DEF Inv
<1>6. Current' = Current /\ data' = data
      /\ \A c, q, n : Published(c, q, n)' = Published(c, q, n)
  BY <1>1 DEF Current, Published, Skipped, Listed
<1>7. ASSUME NEW q \in Regions, q # r
      PROVE  IF q \in rest'
             THEN Range(tables'[Current][q]) = Published(Current, q, Len(data[Current]))
             ELSE Right(Current, q)'
  <2>1. Right(Current, q)' <=> Right(Current, q)
    BY <1>5, <1>6, <1>7, StaysRight DEF Right, Ascending
  <2> QED
    BY <1>1, <1>5, <1>7, <2>1 DEF Inv
<1>8. CASE Len(s) <= 1 /\ UNCHANGED <<at, dedupe>>
  <2>1. ParsersTyped'
    BY <1>1, <1>5, <1>6, <1>8 DEF Inv, ParsersTyped
  <2>2. Right(Current, r)'
    <3>1. Ascending(t)
      BY <1>4, <1>8 DEF Ascending
    <3>2. Range(t) = Published(Current, r, Len(data[Current]))
      BY <1>2, <1>4
    <3> QED
      BY <1>5, <1>6, <3>1, <3>2 DEF Right, Ascending
  <2> QED
    BY <1>1, <1>5, <1>6, <1>7, <1>8, <2>1, <2>2, OthersKept DEF Inv, Before
<1>9. CASE /\ ~(Len(s) <= 1) /\ at' = "dedupe"
           /\ dedupe' = [region |-> r, i |-> 2, j |-> 1]
  <2>1. Slice' = t
    BY <1>5, <1>6, <1>9 DEF Slice
  <2>2. Len(t) > 1
    BY <1>2, <1>4, <1>9
  <2>3. Deduping(t, 2, 1, Published(Current, r, Len(data[Current])))
    BY <1>2, <1>4, <2>2, DedupeStarts
  <2>5. /\ dedupe'.region = r /\ dedupe'.i = 2 /\ dedupe'.j = 1
        /\ dedupe' \in [region : Regions \cup {""}, i : Nat, j : Nat]
    BY <1>9
  <2>6. 1 <= dedupe'.j /\ dedupe'.j < dedupe'.i /\ dedupe'.i <= Len(Slice') + 1
    <3>1. Len(t) \in Nat /\ 2 <= Len(t) + 1 /\ Len(Slice') = Len(t)
      BY <1>4, <2>1, <2>2
    <3>2. dedupe'.i = 2 /\ dedupe'.j = 1
      BY <2>5
    <3>3. 2 <= Len(Slice') + 1
      BY <3>1
    <3> QED
      BY <3>2, <3>3
  <2>4. ParsersTyped'
    BY <1>1, <1>5, <1>6, <1>9, <2>5, <2>6 DEF Inv, ParsersTyped
  <2> QED
    BY <1>1, <1>5, <1>6, <1>7, <1>9, <2>1, <2>3, <2>4, <2>5, OthersKept
    DEF Inv, Before
<1> QED
  BY <1>8, <1>9 DEF Sort

LEMMA InvDedupe == Inv /\ (Dedupe \/ DedupeEnds) => Inv'
<1> SUFFICES ASSUME Inv, Dedupe \/ DedupeEnds PROVE Inv'
  OBVIOUS
<1> DEFINE r == dedupe.region
           P == Published(Current, r, Len(data[Current]))
<1>1. /\ at = "dedupe" /\ UNCHANGED <<data, cloud, read, rest, file>>
      /\ at' \in {"dedupe", "flatten"}
  BY DEF Dedupe, DedupeEnds
<1>2. /\ cloud \in 1..3 /\ Current \in Range(Clouds) /\ r \in Regions
      /\ r \notin rest /\ Slice \in Seq(Nat) /\ Slice = tables[Current][r]
      /\ Deduping(Slice, dedupe.i, dedupe.j, P)
      /\ dedupe \in [region : Regions \cup {""}, i : Nat, j : Nat]
  <2>1. cloud \in 1..3 /\ Current \in Range(Clouds) /\ r \in Regions
    BY <1>1, CloudNames DEF Inv, ParsersTyped, Current
  <2> QED
    BY <1>1, <2>1 DEF Inv, ParsersTyped, Slice
<1>3. Current' = Current /\ data' = data
      /\ \A c, q, n : Published(c, q, n)' = Published(c, q, n)
  BY <1>1 DEF Current, Published, Skipped, Listed
<1>4. ASSUME NEW t \in Seq(Nat), tables' = [tables EXCEPT ![Current][r] = t],
             \/ /\ at' = "dedupe" /\ dedupe'.region = r
                /\ dedupe' \in [region : Regions \cup {""}, i : Nat, j : Nat]
                /\ Deduping(t, dedupe'.i, dedupe'.j, P)
             \/ /\ at' = "flatten" /\ UNCHANGED dedupe
                /\ Ascending(t) /\ Range(t) = P
      PROVE  Inv'
  <2>1. /\ tables' \in [Range(Clouds) -> [Regions -> Seq(Nat)]]
        /\ tables'[Current][r] = t
        /\ \A q \in Regions \ {r} : tables'[Current][q] = tables[Current][q]
        /\ \A k \in 1..3 : k # cloud => tables'[Clouds[k]] = tables[Clouds[k]]
    <3> HIDE DEF r
    <3> QED
      BY <1>2, <1>4, Assigned DEF Inv
  <2>2. ASSUME NEW q \in Regions, q # r
        PROVE  IF q \in rest'
               THEN Range(tables'[Current][q]) =
                      Published(Current, q, Len(data[Current]))
               ELSE Right(Current, q)'
    <3>1. Right(Current, q)' <=> Right(Current, q)
      BY <1>3, <2>1, <2>2, StaysRight DEF Right, Ascending
    <3> QED
      BY <1>1, <2>1, <2>2, <3>1 DEF Inv
  <2>3. CASE /\ at' = "dedupe" /\ dedupe'.region = r
             /\ dedupe' \in [region : Regions \cup {""}, i : Nat, j : Nat]
             /\ Deduping(t, dedupe'.i, dedupe'.j, P)
    <3>1. Slice' = t
      BY <1>3, <2>1, <2>3 DEF Slice
    <3>2. /\ 1 <= dedupe'.j /\ dedupe'.j < dedupe'.i
          /\ dedupe'.i <= Len(Slice') + 1
      BY <2>3, <3>1 DEF Deduping, InOrder
    <3>3. ParsersTyped'
      BY <1>1, <1>2, <1>3, <2>1, <2>3, <3>2 DEF Inv, ParsersTyped
    <3> QED
      BY <1>1, <1>2, <1>3, <2>1, <2>2, <2>3, <3>1, <3>3, OthersKept
      DEF Inv, Before
  <2>4. CASE /\ at' = "flatten" /\ UNCHANGED dedupe
             /\ Ascending(t) /\ Range(t) = P
    <3>1. ParsersTyped'
      BY <1>1, <1>3, <2>1, <2>4 DEF Inv, ParsersTyped
    <3>2. Right(Current, r)'
      BY <1>3, <2>1, <2>4 DEF Right, Ascending
    <3> QED
      BY <1>1, <1>3, <2>1, <2>2, <2>4, <3>1, <3>2, OthersKept DEF Inv, Before
  <2> QED
    BY <1>4, <2>3, <2>4
<1>5. CASE DedupeEnds
  <2>1. /\ SubSeq(Slice, 1, dedupe.j) \in Seq(Nat)
        /\ Ascending(SubSeq(Slice, 1, dedupe.j))
        /\ Range(SubSeq(Slice, 1, dedupe.j)) = P
    BY <1>2, <1>5, DedupeStops DEF DedupeEnds
  <2>2. /\ tables' = [tables EXCEPT ![Current][r] = SubSeq(Slice, 1, dedupe.j)]
        /\ at' = "flatten" /\ UNCHANGED dedupe
    BY <1>2, <1>5 DEF DedupeEnds
  <2> QED
    BY <1>4, <2>1, <2>2
<1>6. CASE Dedupe
  <2> DEFINE i == dedupe.i
             j == dedupe.j
  <2>1. at' = "dedupe" /\ i <= Len(Slice) /\ i \in Nat /\ j \in Nat
    BY <1>1, <1>2, <1>6 DEF Dedupe
  <2>2. CASE Slice[i] # Slice[i - 1]
    <3> DEFINE t == [Slice EXCEPT ![j + 1] = Slice[i]]
    <3>1. t \in Seq(Nat) /\ Deduping(t, i + 1, j + 1, P)
      <4> HIDE DEF r, P, i, j
      <4>1. Deduping(Slice, i, j, P)
        BY <1>2 DEF i, j
      <4> QED
        BY <1>2, <2>1, <2>2, <4>1, DedupeKeeps
    <3>2. tables' = [tables EXCEPT ![Current][r] = t]
      BY <1>2, <1>6, <2>2 DEF Dedupe
    <3>3. dedupe' = [dedupe EXCEPT !.i = i + 1, !.j = j + 1]
      BY <1>6, <2>2 DEF Dedupe
    <3>4. /\ dedupe' \in [region : Regions \cup {""}, i : Nat, j : Nat]
          /\ dedupe'.region = r /\ dedupe'.i = i + 1 /\ dedupe'.j = j + 1
      <4>1. i + 1 \in Nat /\ j + 1 \in Nat
        BY <2>1
      <4> QED
        BY <1>2, <3>3, <4>1, LoopRecord
    <3> QED
      BY <1>4, <2>1, <3>1, <3>2, <3>4
  <2>3. CASE Slice[i] = Slice[i - 1]
    <3>1. Deduping(Slice, i + 1, j, P)
      <4> HIDE DEF r, P, i, j
      <4>1. Deduping(Slice, i, j, P)
        BY <1>2 DEF i, j
      <4> QED
        BY <1>2, <2>1, <2>3, <4>1, DedupeDrops
    <3>2. dedupe' = [dedupe EXCEPT !.i = i + 1] /\ tables' = tables
      BY <1>6, <2>3 DEF Dedupe
    <3>3. tables' = [tables EXCEPT ![Current][r] = Slice]
      BY <1>2, <3>2 DEF Inv, ParsersTyped
    <3>4. /\ dedupe' \in [region : Regions \cup {""}, i : Nat, j : Nat]
          /\ dedupe'.region = r /\ dedupe'.i = i + 1 /\ dedupe'.j = j
      <4>1. i + 1 \in Nat
        BY <2>1
      <4> QED
        BY <1>2, <2>1, <3>2, <4>1, LoopRecord
    <3> QED
      BY <1>2, <1>4, <2>1, <3>1, <3>3, <3>4
  <2> QED
    BY <2>2, <2>3
<1> QED
  BY <1>5, <1>6

LEMMA InvParserEnds == Inv /\ ParserEnds => Inv'
<1> SUFFICES ASSUME Inv, ParserEnds PROVE Inv'
  OBVIOUS
<1>1. /\ at = "flatten" /\ rest = {}
      /\ UNCHANGED <<data, rest, dedupe, tables, file>>
      /\ cloud \in 1..3 /\ read = Len(data[Current])
      /\ \A c, r : Right(c, r)' <=> Right(c, r)
      /\ \A c, r, n : Published(c, r, n)' = Published(c, r, n)
  <2>1. UNCHANGED <<data, rest, dedupe, tables, file>>
    BY DEF ParserEnds
  <2>2. (\A c, r : Right(c, r)' <=> Right(c, r))
        /\ (\A c, r, n : Published(c, r, n)' = Published(c, r, n))
    BY <2>1 DEF Right, Ascending, Published, Skipped, Listed
  <2>3. at = "flatten" /\ rest = {}
    BY DEF ParserEnds
  <2> QED
    BY <2>1, <2>2, <2>3, CloudNames DEF Inv, ParsersTyped, Before
<1>2. \A r \in Regions : Right(Current, r)
  BY <1>1 DEF Inv
<1>3. CASE cloud < Len(Clouds) /\ cloud' = cloud + 1 /\ read' = 0 /\ at' = "unmarshal"
  <2>1. cloud' \in 1..3 /\ Current' \in Range(Clouds) /\ Current' = Clouds[cloud + 1]
        /\ cloud + 1 \in 1..3 /\ cloud + 1 > cloud
    BY <1>1, <1>3, CloudNames DEF Current
  <2>2. Len(data[Current']) \in Nat
    BY <2>1, Ranges2GoAssumption DEF Inv, ParsersTyped
  <2>3. ParsersTyped'
    <3>1. read' \in 0..Len(data'[Current'])
      BY <1>1, <1>3, <2>2
    <3> QED
      BY <1>1, <1>3, <2>1, <3>1, CloudNames DEF Inv, ParsersTyped
  <2>4. ASSUME NEW c \in Parsed', NEW r \in Regions PROVE Right(c, r)'
    <3>1. PICK k \in 1..((cloud + 1) - 1) : c = Clouds[k]
      BY <1>3, <2>4 DEF Parsed
    <3>2. k \in 1..(cloud - 1) \/ k = cloud
      BY <1>1
    <3>3. c \in Parsed \/ c = Current
      BY <3>1, <3>2 DEF Parsed, Current
    <3> QED
      BY <1>1, <1>2, <3>3 DEF Inv, TablesRight
  <2>5. TablesRight'
    BY <2>4 DEF TablesRight, Regions
  <2>6. \A k \in 1..3 : k > cloud' => k > cloud
    BY <1>1, <1>3
  <2>7. \A r \in Regions : tables'[Current'][r] = <<>>
    BY <1>1, <2>1 DEF Inv
  <2>8. \A r \in Regions : (Range(tables[Current][r]) = Published(Current, r, read))'
    <3>1. \A r : Published(Current, r, read)' = {}
      BY <1>3 DEF Published
    <3>2. \A r \in Regions : Range(tables'[Current'][r]) = {}
      BY <2>7 DEF Range
    <3> QED
      BY <3>1, <3>2
  <2>9. \A k \in 1..3 : k > cloud' => \A r \in Regions : tables'[Clouds[k]][r] = <<>>
    BY <1>1, <2>6 DEF Inv
  <2>10. Regions' = Regions
    BY DEF Regions
  <2> QED
    BY <1>1, <1>3, <2>3, <2>5, <2>8, <2>9, <2>10 DEF Inv, Before
<1>4. CASE at' = "create" /\ UNCHANGED <<cloud, read>>
  <2>1. Current' = Current
    BY <1>4 DEF Current
  <2>2. ParsersTyped'
    BY <1>1, <1>4, <2>1 DEF Inv, ParsersTyped
  <2>3. Parsed' \subseteq Parsed \cup {Current}
    BY <1>1, <1>4, <2>1 DEF Parsed
  <2>4. TablesRight'
    BY <1>1, <1>2, <2>3 DEF Inv, TablesRight, Regions
  <2> QED
    BY <1>1, <1>4, <2>1, <2>2, <2>4 DEF Inv, Before
<1> QED
  BY <1>3, <1>4 DEF ParserEnds

LEMMA InvWriting == Inv /\ (Create \/ Write \/ Exit \/ UNCHANGED vars) => Inv'
<1> SUFFICES ASSUME Inv, Create \/ Write \/ Exit \/ UNCHANGED vars PROVE Inv'
  OBVIOUS
<1>1. /\ UNCHANGED <<data, cloud, read, rest, dedupe, tables>>
      /\ at' \in {at, "write", "done", "panic"}
      /\ at' = at \/ at \in {"create", "write"}
  BY DEF Create, Write, Exit, Panic, vars
<1>2. Current' = Current /\ Slice' = Slice
      /\ (\A c, r : Right(c, r)' <=> Right(c, r))
      /\ (\A c, r, n : Published(c, r, n)' = Published(c, r, n))
  BY <1>1 DEF Current, Slice, Right, Ascending, Published, Skipped, Listed
<1>3. ParsersTyped'
  BY <1>1, <1>2 DEF Inv, ParsersTyped
<1>4. Parsed' \subseteq Parsed
  BY <1>1, <1>2 DEF Parsed
<1>5. TablesRight'
  BY <1>2, <1>4 DEF Inv, TablesRight, Regions
<1> QED
  BY <1>1, <1>2, <1>3, <1>5 DEF Inv, Before

LEMMA InvInit == Init => Inv
<1> SUFFICES ASSUME Init PROVE Inv
  OBVIOUS
<1>1. /\ cloud = 1 /\ Current = "AWS" /\ Current \in Range(Clouds)
      /\ \A k \in 1..3 : Clouds[k] \in Range(Clouds)
  BY CloudNames DEF Init, Current, Clouds
<1>2. Len(data[Current]) \in Nat
  BY <1>1, Ranges2GoAssumption DEF Init
<1>6. tables \in [Range(Clouds) -> [Regions -> Seq(Nat)]]
  <2>1. [r \in Regions |-> <<>>] \in [Regions -> Seq(Nat)]
    OBVIOUS
  <2> QED
    BY <2>1 DEF Init
<1>7. dedupe \in [region : Regions \cup {""}, i : Nat, j : Nat]
  BY DEF Init
<1>3. ParsersTyped
  <2>1. data \in Inputs /\ at = "read" /\ rest = {} /\ read = 0
    BY DEF Init
  <2>2. read \in 0..Len(data[Current])
    BY <1>2, <2>1
  <2>3. cloud \in 1..Len(Clouds)
    BY <1>1, CloudNames
  <2> QED
    BY <1>6, <1>7, <2>1, <2>2, <2>3 DEF ParsersTyped
<1>4. Parsed = {}
  <2>1. at = "read"
    BY DEF Init
  <2>2. 1..(cloud - 1) = {}
    BY <1>1
  <2> QED
    BY <2>1, <2>2 DEF Parsed
<1>8. Range(<<>>) = {}
  BY DEF Range
<1>5. \A c \in Range(Clouds), r \in Regions :
        tables[c][r] = <<>> /\ Range(tables[c][r]) = {}
  BY <1>8 DEF Init
<1> QED
  BY <1>1, <1>3, <1>4, <1>5, PublishedNone DEF Init, Inv, TablesRight, Before

LEMMA InvNext == Inv /\ [Next]_vars => Inv'
  BY InvReadFiles, InvReadEntry, InvEntriesEnd, InvSort, InvDedupe,
     InvParserEnds, InvWriting DEF Next

LEMMA InvAlways == Spec => []Inv
  BY InvInit, InvNext, PTL DEF Spec

\* The loop that removes duplicates stays inside the slice, for slices of any
\* length, and only prefixes that were parsed get into a table.
THEOREM TypeCorrect == Spec => []TypeOK
<1> DEFINE OrderTyped ==
             order \in [clouds : Seq(Range(Sorted)), regions : Seq(Regions)]
<1>1. Inv /\ OrderTyped => TypeOK
  BY DEF Inv, TypeOK
<1>2. FileOrder \in [clouds : Seq(Range(Sorted)), regions : Seq(Regions)]
  <2>1. Sorted \in Seq(Range(Sorted))
    BY DEF Sorted, Range
  <2>2. RegionOrder \in Seq(Regions)
    BY Ranges2GoAssumption
  <2> QED
    BY <2>1, <2>2 DEF FileOrder
<1>3. Init => OrderTyped
  <2>1. \A S, T : [clouds |-> <<>>, regions |-> <<>>]
                    \in [clouds : Seq(S), regions : Seq(T)]
    OBVIOUS
  <2> QED
    BY <2>1 DEF Init
<1>4. OrderTyped /\ [Next]_vars => OrderTyped'
  <2>1. [Next]_vars => UNCHANGED order \/ order' = FileOrder
    BY DEF Next, vars, ReadFiles, Unmarshal, ReadEntry, EntriesEnd, Sort,
       Dedupe, DedupeEnds, ParserEnds, Create, SortStrings, Write, Exit
  <2> QED
    BY <1>2, <2>1
<1> QED
  BY <1>1, <1>3, <1>4, InvAlways, PTL DEF Spec

\* Whatever the clouds publish, in whatever order and however often, a parser
\* returns exactly the published prefixes of every region, in ascending order
\* and each of them once.
THEOREM ParsersAreRight == Spec => []TablesRight
<1>1. Inv => TablesRight
  BY DEF Inv
<1> QED
  BY <1>1, InvAlways, PTL

-----------------------------------------------------------------------------
(* One table for the data.                                                 *)

\* Where two ascending sequences first differ, the smaller of the two entries
\* is missing from the other; neither can be longer.
LEMMA FirstDifference ==
  ASSUME NEW s \in Seq(Nat), NEW t \in Seq(Nat), Ascending(s), Ascending(t),
         NEW n \in 1..Len(s), \A k \in 1..(n - 1) : k \in DOMAIN t /\ s[k] = t[k],
         n \in DOMAIN t => s[n] < t[n]
  PROVE  s[n] \notin Range(t)
<1> SUFFICES ASSUME NEW m \in DOMAIN t, t[m] = s[n] PROVE FALSE
  BY DEF Range
<1>1. DOMAIN s = 1..Len(s) /\ DOMAIN t = 1..Len(t) /\ m \in Nat /\ n \in Nat
  OBVIOUS
<1>2. CASE m < n
  <2>1. m \in 1..(n - 1) /\ s[m] = t[m] /\ m \in DOMAIN s /\ n \in DOMAIN s
    BY <1>1, <1>2
  <2>2. s[m] < s[n] /\ s[m] \in Nat /\ s[n] \in Nat
    BY <1>2, <2>1 DEF Ascending
  <2> QED
    BY <2>1, <2>2
<1>3. CASE m >= n
  <2>1. n \in DOMAIN t /\ s[n] \in Nat /\ t[n] \in Nat /\ t[m] \in Nat
    BY <1>1, <1>3
  <2>2. s[n] < t[n]
    BY <2>1
  <2>3. m = n \/ t[n] < t[m]
    <3>1. m = n \/ n < m
      BY <1>1, <1>3
    <3> QED
      BY <2>1, <3>1 DEF Ascending
  <2> QED
    BY <2>1, <2>2, <2>3
<1> QED
  BY <1>1, <1>2, <1>3

LEMMA AscendingIsUnique ==
  ASSUME NEW s \in Seq(Nat), NEW t \in Seq(Nat), Ascending(s), Ascending(t),
         Range(s) = Range(t)
  PROVE  s = t
<1>1. /\ DOMAIN s = 1..Len(s) /\ DOMAIN t = 1..Len(t)
      /\ Len(s) \in Nat /\ Len(t) \in Nat
  OBVIOUS
<1> DEFINE Differ == {n \in Nat : /\ n \in DOMAIN s \/ n \in DOMAIN t
                                  /\ ~(n \in DOMAIN s /\ n \in DOMAIN t /\ s[n] = t[n])}
<1>2. CASE Differ = {}
  <2>1. \A n \in Nat : n \in DOMAIN s <=> n \in DOMAIN t
    BY <1>2
  <2>2. \A n \in DOMAIN s : s[n] = t[n]
    BY <1>1, <1>2
  <2>3. DOMAIN s = DOMAIN t
    <3>1. Len(s) \in DOMAIN t \/ Len(s) = 0
      BY <1>1, <2>1
    <3>2. Len(t) \in DOMAIN s \/ Len(t) = 0
      BY <1>1, <2>1
    <3>3. Len(s) <= Len(t) /\ Len(t) <= Len(s)
      BY <1>1, <3>1, <3>2
    <3>4. Len(s) = Len(t)
      <4>1. \A a, b \in Nat : a <= b /\ b <= a => a = b
        OBVIOUS
      <4>2. Len(s) \in Nat /\ Len(t) \in Nat
        BY <1>1
      <4> QED
        BY <3>3, <4>1, <4>2, Zenon
    <3> QED
      BY <1>1, <3>4
  <2>4. s = [n \in DOMAIN s |-> s[n]] /\ t = [n \in DOMAIN t |-> t[n]]
    OBVIOUS
  <2> QED
    BY <2>2, <2>3, <2>4
<1>3. CASE Differ # {}
  <2>1. PICK n \in Differ : \A k \in Differ : n <= k
    BY <1>3, Least
  <2>2. /\ n \in Nat /\ n >= 1
        /\ n \in DOMAIN s \/ n \in DOMAIN t
        /\ ~(n \in DOMAIN s /\ n \in DOMAIN t /\ s[n] = t[n])
    BY <1>1, <2>1
  <2>3. \A k \in 1..(n - 1) : k \in DOMAIN s /\ k \in DOMAIN t /\ s[k] = t[k]
    <3> TAKE k \in 1..(n - 1)
    <3>1. k \in Nat /\ k < n /\ k \notin Differ
      BY <2>1, <2>2
    <3>2. k \in DOMAIN s \/ k \in DOMAIN t
      BY <1>1, <2>2, <3>1
    <3> QED
      BY <3>1, <3>2
  <2> HIDE DEF Differ
  <2>4. n \in DOMAIN s => s[n] \in Range(t) /\ s[n] \in Nat
    <3>1. n \in DOMAIN s => s[n] \in Range(s)
      BY DEF Range
    <3> QED
      BY <1>1, <3>1
  <2>5. n \in DOMAIN t => t[n] \in Range(s) /\ t[n] \in Nat
    <3>1. n \in DOMAIN t => t[n] \in Range(t)
      BY DEF Range
    <3> QED
      BY <1>1, <3>1
  <2>6. CASE n \in DOMAIN s /\ (n \in DOMAIN t => s[n] < t[n])
    BY <1>1, <2>2, <2>3, <2>4, <2>6, FirstDifference
  <2>7. CASE n \in DOMAIN t /\ (n \in DOMAIN s => t[n] < s[n])
    BY <1>1, <2>2, <2>3, <2>5, <2>7, FirstDifference
  <2> QED
    BY <2>2, <2>4, <2>5, <2>6, <2>7
<1> QED
  BY <1>2, <1>3

\* The data alone decides what a parser returns, so that two runs of the
\* generator agree, whatever orders their Go maps had.
THEOREM DataDecidesTables ==
  Spec => [](\A c \in Parsed, r \in Regions : \A t \in Seq(Nat) :
               Ascending(t) /\ Range(t) = Published(c, r, Len(data[c]))
                 => tables[c][r] = t)
<1>1. Inv => \A c \in Parsed, r \in Regions : \A t \in Seq(Nat) :
               Ascending(t) /\ Range(t) = Published(c, r, Len(data[c]))
                 => tables[c][r] = t
  <2> SUFFICES ASSUME Inv, NEW c \in Parsed, NEW r \in Regions, NEW t \in Seq(Nat),
                      Ascending(t), Range(t) = Published(c, r, Len(data[c]))
               PROVE  tables[c][r] = t
    OBVIOUS
  <2>1. Right(c, r)
    BY DEF Inv, TablesRight
  <2>2. c \in Range(Clouds)
    <3>1. cloud \in 1..3 /\ \A k \in 1..3 : Clouds[k] \in Range(Clouds)
      BY CloudNames DEF Inv, ParsersTyped, Range
    <3> QED
      BY <3>1 DEF Parsed, Current
  <2>3. tables[c][r] \in Seq(Nat)
    BY <2>2 DEF Inv, ParsersTyped
  <2> QED
    BY <2>1, <2>3, AscendingIsUnique DEF Right
<1> QED
  BY <1>1, InvAlways, PTL

-----------------------------------------------------------------------------
(* Data that cannot be used.                                               *)

\* No entry that was read is broken, and the file is touched only with all
\* of them read.
Checked ==
  /\ \A k \in 1..(cloud - 1) : \A e \in Range(data[Clouds[k]]) : ~Broken(Clouds[k], e)
  /\ \A n \in 1..read : ~Broken(Current, data[Current][n])
  /\ at \in {"create", "write", "done"} => cloud = 3 /\ read = Len(data[Current])
  /\ file = <<Old>> \/ (cloud = 3 /\ read = Len(data[Current]))

LEMMA AllChecked ==
  ASSUME Inv, Checked, read = Len(data[Current])
  PROVE  \A k \in 1..cloud : \A e \in Range(data[Clouds[k]]) : ~Broken(Clouds[k], e)
<1>1. /\ cloud \in 1..3 /\ Current \in Range(Clouds)
      /\ DOMAIN data[Current] = 1..Len(data[Current])
  BY CloudNames, Ranges2GoAssumption DEF Inv, ParsersTyped, Current
<1>2. \A e \in Range(data[Current]) : ~Broken(Current, e)
  BY <1>1 DEF Checked, Range
<1>3. \A k \in 1..cloud : k \in 1..(cloud - 1) \/ k = cloud
  BY <1>1
<1> QED
  BY <1>2, <1>3 DEF Checked, Current

LEMMA CheckedNext == Inv /\ Checked /\ [Next]_vars => Checked'
<1> SUFFICES ASSUME Inv, Checked, [Next]_vars PROVE Checked'
  OBVIOUS
<1>1. cloud \in 1..3 /\ data' = data /\ Len(Clouds) = 3
      /\ \A c, e : Broken(c, e)' <=> Broken(c, e)
  BY CloudNames
  DEF Inv, ParsersTyped, Next, vars, ReadFiles, Unmarshal, ReadEntry, EntriesEnd,
      Sort, Dedupe, DedupeEnds, ParserEnds, Create, Write, Exit, Broken,
      Listed, Skipped
<1>2. CASE /\ UNCHANGED <<cloud, read, file>>
           /\ at' \in {"create", "write", "done"} => at \in {"create", "write", "done"}
  BY <1>1, <1>2 DEF Checked, Current
<1>3. CASE ReadEntry
  <2>1. read \in Nat /\ UNCHANGED <<cloud, file>> /\ Current' = Current
        /\ at' \notin {"create", "write", "done"}
        /\ Len(data[Current]) \in Nat
    <3>1. Current \in Range(Clouds)
      BY <1>1, CloudNames DEF Current
    <3>2. Len(data[Current]) \in Nat /\ read \in 0..Len(data[Current])
      BY <3>1, Ranges2GoAssumption DEF Inv, ParsersTyped
    <3>3. UNCHANGED <<cloud, file>>
      BY <1>3 DEF ReadEntry
    <3>4. Current' = Current
      BY <3>3 DEF Current
    <3>5. at' = at \/ at' = "panic"
      BY <1>3 DEF ReadEntry, Panic
    <3>6. at = "entries"
      BY <1>3 DEF ReadEntry
    <3>7. at' \notin {"create", "write", "done"}
      BY <3>5, <3>6
    <3> QED
      BY <3>2, <3>3, <3>4, <3>7
  <2>2. file = <<Old>>
    <3>1. read < Len(data[Current])
      BY <1>3 DEF ReadEntry
    <3>2. read # Len(data[Current])
      BY <2>1, <3>1
    <3> QED
      BY <3>2 DEF Checked
  <2>3. CASE read' = read
    BY <1>1, <2>1, <2>2, <2>3 DEF Checked, Current
  <2>4. CASE read' = read + 1 /\ ~Broken(Current, data[Current][read + 1])
    <3>1. \A n \in 1..(read + 1) : n \in 1..read \/ n = read + 1
      BY <2>1
    <3>2. \A n \in 1..(read + 1) : ~Broken(Current, data[Current][n])
      BY <2>4, <3>1 DEF Checked
    <3> QED
      BY <1>1, <2>1, <2>2, <2>4, <3>2 DEF Checked
  <2> QED
    BY <1>3, <2>3, <2>4 DEF ReadEntry
<1>4. CASE ParserEnds
  <2>1. read = Len(data[Current]) /\ UNCHANGED file
    BY <1>4 DEF ParserEnds, Inv, Before
  <2>2. CASE cloud < 3 /\ cloud' = cloud + 1 /\ read' = 0 /\ at' = "unmarshal"
    <3>1. \A k \in 1..(cloud' - 1) :
            \A e \in Range(data[Clouds[k]]) : ~Broken(Clouds[k], e)
      <4>1. 1..(cloud' - 1) = 1..cloud
        BY <1>1, <2>2
      <4> QED
        BY <2>1, <4>1, AllChecked
    <3>2. file = <<Old>>
      BY <2>2 DEF Checked
    <3>3. 1..read' = {}
      BY <2>2
    <3> QED
      BY <1>1, <2>1, <2>2, <3>1, <3>2, <3>3 DEF Checked
  <2>3. CASE ~(cloud < 3) /\ at' = "create" /\ UNCHANGED <<cloud, read>>
    <3>1. cloud = 3 /\ Current' = Current
      BY <1>1, <2>3 DEF Current
    <3> QED
      BY <1>1, <2>1, <2>3, <3>1 DEF Checked
  <2> QED
    BY <1>1, <1>4, <2>2, <2>3 DEF ParserEnds
<1>5. CASE Create \/ Write
  <2>1. UNCHANGED <<cloud, read>> /\ Current' = Current
        /\ cloud = 3 /\ read = Len(data[Current])
    BY <1>5 DEF Create, Write, Checked, Current
  <2> QED
    BY <1>1, <2>1 DEF Checked
<1>6. CASE ReadFiles \/ Unmarshal \/ EntriesEnd \/ (\E r \in Regions : Sort(r))
           \/ Dedupe \/ DedupeEnds \/ Exit \/ UNCHANGED vars
  BY <1>2, <1>6
  DEF ReadFiles, Unmarshal, EntriesEnd, Sort, Dedupe, DedupeEnds, Exit, vars,
      Panic
<1> QED
  BY <1>3, <1>4, <1>5, <1>6 DEF Next

LEMMA CheckedAlways == Spec => []Checked
<1>1. Init => Checked
  <2> SUFFICES ASSUME Init PROVE Checked
    OBVIOUS
  <2>1. at = "read" /\ cloud = 1 /\ read = 0 /\ file = <<Old>>
    BY DEF Init
  <2>2. 1..(cloud - 1) = {} /\ 1..read = {}
    BY <2>1
  <2> QED
    BY <2>1, <2>2 DEF Checked
<1> QED
  BY <1>1, CheckedNext, InvAlways, PTL DEF Spec

\* Nothing is written until every entry of every cloud was found usable.
THEOREM BadDataIsHarmless == Spec => []BadDataKeepsFile
<1>1. Inv /\ Checked => BadDataKeepsFile
  <2> SUFFICES ASSUME Inv, Checked, cloud = 3, read = Len(data[Current])
               PROVE  \A c \in Range(Clouds) : \A e \in Range(data[c]) : ~Broken(c, e)
    BY DEF Checked, BadDataKeepsFile
  <2>1. \A c \in Range(Clouds) : \E k \in 1..3 : c = Clouds[k]
    BY DEF Range, Clouds
  <2> QED
    BY <2>1, AllChecked
<1> QED
  BY <1>1, CheckedAlways, InvAlways, PTL

-----------------------------------------------------------------------------
(* The file.                                                               *)

\* The lines a table is written with.
GoLine ==
  {<<"header">>, <<"var regionToRanges">>, <<"},">>, <<"}">>}
    \cup {<<"const", c>> : c \in Range(Clouds)}
    \cup {<<"region", c, r>> : c \in Range(Clouds), r \in Regions}
    \cup {<<"prefix", p>> : p \in Nat}

LEMMA GoLineHas ==
  /\ {<<"header">>, <<"var regionToRanges">>, <<"},">>, <<"}">>} \subseteq GoLine
  /\ \A c \in Range(Clouds) : <<"const", c>> \in GoLine
  /\ \A c \in Range(Clouds), r \in Regions : <<"region", c, r>> \in GoLine
  /\ \A p \in Nat : <<"prefix", p>> \in GoLine
<1>1. {<<"header">>, <<"var regionToRanges">>, <<"},">>, <<"}">>} \subseteq GoLine
  BY DEF GoLine
<1>2. \A c \in Range(Clouds) : <<"const", c>> \in GoLine
  BY DEF GoLine
<1>3. \A c \in Range(Clouds), r \in Regions : <<"region", c, r>> \in GoLine
  BY DEF GoLine
<1>4. \A p \in Nat : <<"prefix", p>> \in GoLine
  BY DEF GoLine
<1> QED
  BY <1>1, <1>2, <1>3, <1>4

LEMMA CloudLinesType ==
  ASSUME NEW t \in [Range(Clouds) -> [Regions -> Seq(Nat)]], NEW c \in Range(Clouds)
  PROVE  CloudLines(t, c, RegionOrder) \in Seq(GoLine)
<1> DEFINE Lines(r) ==
             IF t[c][r] = <<>> THEN <<>>
             ELSE <<<<"region", c, r>>>>
                  \o [k \in DOMAIN t[c][r] |-> <<"prefix", t[c][r][k]>>]
                  \o <<<<"},">>>>
           all == [k \in DOMAIN RegionOrder |-> Lines(RegionOrder[k])]
<1>1. ASSUME NEW r \in Regions PROVE Lines(r) \in Seq(GoLine)
  <2> DEFINE x == <<"region", c, r>>
             y == [k \in DOMAIN t[c][r] |-> <<"prefix", t[c][r][k]>>]
             z == <<"},">>
  <2>1. x \in GoLine /\ z \in GoLine
    BY GoLineHas, Zenon
  <2>2. y \in Seq(GoLine)
    <3> DEFINE s == t[c][r]
    <3>1. s \in Seq(Nat)
      OBVIOUS
    <3> HIDE DEF s
    <3>2. Len(s) \in Nat /\ DOMAIN s = 1..Len(s) /\ \A k \in 1..Len(s) : s[k] \in Nat
      BY <3>1
    <3>3. \A k \in 1..Len(s) : <<"prefix", s[k]>> \in GoLine
      BY <3>2, GoLineHas, Zenon
    <3> DEFINE l == [k \in 1..Len(s) |-> <<"prefix", s[k]>>]
    <3>4. l \in [1..Len(s) -> GoLine]
      BY <3>3
    <3>5. y = l
      BY <3>2 DEF s
    <3> HIDE DEF l, y
    <3>6. l \in Seq(GoLine)
      BY <3>2, <3>4, IsSeq
    <3> QED
      BY <3>5, <3>6
  <2> HIDE DEF x, y, z
  <2>3. <<>> \in Seq(GoLine) /\ <<x>> \o y \o <<z>> \in Seq(GoLine)
    BY <2>1, <2>2
  <2> QED
    BY <2>3, Zenon DEF x, y, z
<1> HIDE DEF Lines
<1>2. RegionOrder \in Seq(Regions)
  BY Ranges2GoAssumption
<1>3. /\ DOMAIN RegionOrder = 1..Len(RegionOrder) /\ Len(RegionOrder) \in Nat
      /\ \A k \in DOMAIN RegionOrder : RegionOrder[k] \in Regions
  BY <1>2
<1>4. all \in [1..Len(RegionOrder) -> Seq(GoLine)]
  BY <1>1, <1>3
<1> HIDE DEF all
<1>5. all \in Seq(Seq(GoLine))
  BY <1>3, <1>4
<1>6. FlattenSeq(all) \in Seq(GoLine)
  BY <1>5, FlattenSeqType
<1> QED
  BY <1>6, Zenon DEF CloudLines, all, Lines

LEMMA GoLinesType ==
  ASSUME NEW t \in [Range(Clouds) -> [Regions -> Seq(Nat)]]
  PROVE  GoLines(t, FileOrder) \in Seq(GoLine)
<1> DEFINE header == <<"header">>
           consts == [k \in DOMAIN Sorted |-> <<"const", Sorted[k]>>]
           start  == <<"var regionToRanges">>
           clouds == [k \in DOMAIN Sorted |-> CloudLines(t, Sorted[k], RegionOrder)]
           end    == <<"}">>
<1>1. header \in GoLine /\ start \in GoLine /\ end \in GoLine
  BY GoLineHas, Zenon
<1>2. DOMAIN Sorted = 1..3 /\ \A k \in 1..3 : Sorted[k] \in Range(Clouds)
  BY DEF Sorted, Clouds, Range
<1>3. \A k \in DOMAIN Sorted : <<"const", Sorted[k]>> \in GoLine
  BY <1>2, GoLineHas, Zenon
<1>4. \A k \in 1..3 : CloudLines(t, Sorted[k], RegionOrder) \in Seq(GoLine)
  BY <1>2, CloudLinesType
<1>5. consts \in [1..3 -> GoLine] /\ clouds \in [1..3 -> Seq(GoLine)]
  BY <1>2, <1>3, <1>4
<1> HIDE DEF header, consts, start, clouds, end
<1>6. consts \in Seq(GoLine) /\ clouds \in Seq(Seq(GoLine))
  BY <1>5, IsSeq
<1>7. FlattenSeq(clouds) \in Seq(GoLine)
  BY <1>6, FlattenSeqType
<1>8. <<header>> \o consts \o <<start>> \o FlattenSeq(clouds) \o <<end>> \in Seq(GoLine)
  BY <1>1, <1>6, <1>7
<1>9. FileOrder.clouds = Sorted /\ FileOrder.regions = RegionOrder
  <2>1. \A x, y : [clouds |-> x, regions |-> y].clouds = x
               /\ [clouds |-> x, regions |-> y].regions = y
    OBVIOUS
  <2> QED
    BY <2>1, Zenon DEF FileOrder
<1>10. GoLines(t, FileOrder)
         = <<header>> \o consts \o <<start>> \o FlattenSeq(clouds) \o <<end>>
  BY <1>9, Zenon DEF GoLines, header, consts, start, clouds, end
<1> QED
  BY <1>8, <1>10

\* What is written so far are the first lines of the table, in order.
Writing ==
  /\ at \in {"write", "done"} => order = FileOrder
  /\ at \in {"write", "done"} =>
       /\ file \in Seq(GoLine) /\ Len(file) <= Len(GoLines(tables, FileOrder))
       /\ \A k \in 1..Len(file) : file[k] = GoLines(tables, FileOrder)[k]
  /\ at = "done" => Len(file) = Len(GoLines(tables, FileOrder))

LEMMA WritingNext == Inv /\ Writing /\ [Next]_vars => Writing'
<1> SUFFICES ASSUME Inv, Writing, [Next]_vars PROVE Writing'
  OBVIOUS
<1> DEFINE G == GoLines(tables, FileOrder)
<1>1. G \in Seq(GoLine) /\ Len(G) \in Nat
  <2>1. tables \in [Range(Clouds) -> [Regions -> Seq(Nat)]]
    BY DEF Inv, ParsersTyped
  <2> QED
    BY <2>1, GoLinesType
<1>2. CASE Create
  <2>1. CASE at' = "write" /\ file' = <<>>
    <3>1. order' = FileOrder /\ tables' = tables
      BY <1>2, <2>1 DEF Create, SortStrings, Panic
    <3>2. GoLines(tables, FileOrder)' = G
      BY <3>1, Zenon DEF GoLines, CloudLines, FileOrder
    <3> QED
      BY <1>1, <2>1, <3>1, <3>2 DEF Writing
  <2>2. CASE at' = "panic"
    BY <2>2 DEF Writing
  <2> QED
    BY <1>2, <2>1, <2>2 DEF Create, Panic
<1>3. CASE Write
  <2>1. CASE at' = at /\ file' = Append(file, GoLines(tables, order)[Len(file) + 1])
    <3>0. order = FileOrder /\ order' = order
      BY <1>3 DEF Write, Writing
    <3>1. /\ at = "write" /\ tables' = tables /\ Len(file) < Len(G)
          /\ file \in Seq(GoLine) /\ \A k \in 1..Len(file) : file[k] = G[k]
      BY <1>3, <3>0 DEF Write, Writing
    <3>2. G' = G
      BY <3>1
    <3> HIDE DEF G
    <3>3. Len(file) \in Nat /\ Len(file) + 1 \in 1..Len(G)
      BY <1>1, <3>1
    <3>4. G[Len(file) + 1] \in GoLine
      BY <1>1, <3>3
    <3>5. file' = Append(file, G[Len(file) + 1])
      BY <2>1, <3>0 DEF G
    <3>6. /\ file' \in Seq(GoLine) /\ Len(file') = Len(file) + 1
          /\ \A k \in 1..Len(file) : file'[k] = file[k]
          /\ file'[Len(file) + 1] = G[Len(file) + 1]
      BY <3>1, <3>4, <3>5
    <3>7. \A k \in 1..Len(file') : file'[k] = G[k]
      <4>1. \A k \in 1..(Len(file) + 1) : k \in 1..Len(file) \/ k = Len(file) + 1
        BY <3>3
      <4> QED
        BY <3>1, <3>6, <4>1
    <3>8. Len(file') <= Len(G) /\ at' = "write"
      BY <2>1, <3>1, <3>3, <3>6
    <3> QED
      BY <3>0, <3>2, <3>6, <3>7, <3>8 DEF Writing, G
  <2>2. CASE at' = "panic"
    BY <2>2 DEF Writing
  <2> QED
    BY <1>3, <2>1, <2>2 DEF Write, Panic
<1>4. CASE Exit
  BY <1>1, <1>4 DEF Writing, Exit
<1>5. CASE UNCHANGED vars
  BY <1>5 DEF Writing, vars
<1>6. CASE \/ ReadFiles \/ Unmarshal \/ ReadEntry \/ EntriesEnd
           \/ (\E r \in Regions : Sort(r)) \/ Dedupe \/ DedupeEnds \/ ParserEnds
  <2>1. at' \notin {"write", "done"}
    BY <1>6
    DEF ReadFiles, Unmarshal, ReadEntry, EntriesEnd, Sort, Dedupe, DedupeEnds,
        ParserEnds, Panic
  <2> QED
    BY <2>1 DEF Writing
<1> QED
  BY <1>2, <1>3, <1>4, <1>5, <1>6 DEF Next

\* An ascending sequence is as long as it has entries to tell apart.
LEMMA AscendingCounts ==
  ASSUME NEW s \in Seq(Nat), Ascending(s)
  PROVE  /\ s \in [1..Cardinality(Range(s)) -> Range(s)]
         /\ Range(s) \subseteq Nat /\ Cardinality(Range(s)) \in Nat
<1>1. Len(s) \in Nat /\ DOMAIN s = 1..Len(s) /\ \A k \in 1..Len(s) : s[k] \in Nat
  OBVIOUS
<1>2. s \in [1..Len(s) -> Range(s)] /\ Range(s) \subseteq Nat
  BY <1>1 DEF Range
<1>3. \A k, l \in 1..Len(s) : s[k] = s[l] => k = l
  BY <1>1 DEF Ascending
<1>4. s \in Bijection(1..Len(s), Range(s))
  <2>1. \A x \in Range(s) : \E k \in 1..Len(s) : s[k] = x
    BY <1>1 DEF Range
  <2> QED
    BY <1>2, <1>3, <2>1 DEF Bijection, Injection, Surjection, IsInjective
<1>5. Cardinality(Range(s)) = Len(s)
  <2>1. ExistsBijection(1..Len(s), Range(s))
    BY <1>4 DEF ExistsBijection
  <2> QED
    BY <1>1, <2>1, FS_CountingElements
<1> QED
  BY <1>1, <1>2, <1>5

\* When all parsers have returned, the tables are the reference.
LEMMA TablesAreReference ==
  ASSUME Inv, at = "done", Checked
  PROVE  tables = Reference
<1> DEFINE OrderOf(P) == CHOOSE t \in [1..Cardinality(P) -> P] : Ascending(t) /\ Range(t) = P
<1>1. \A c \in Range(Clouds) : c \in Parsed
  <2>1. cloud = 3
    BY DEF Checked
  <2> QED
    BY <2>1, CloudNames DEF Parsed, Current, Clouds, Range
<1>2. ASSUME NEW c \in Range(Clouds), NEW r \in Regions
      PROVE  tables[c][r] = OrderOf(Published(c, r, Len(data[c])))
  <2> DEFINE P == Published(c, r, Len(data[c]))
             s == tables[c][r]
             O == OrderOf(P)
  <2>1. s \in Seq(Nat) /\ Ascending(s) /\ Range(s) = P
    <3>1. Right(c, r)
      BY <1>1 DEF Inv, TablesRight
    <3> QED
      BY <3>1 DEF Right, Inv, ParsersTyped
  <2>2. O = CHOOSE t \in [1..Cardinality(P) -> P] : Ascending(t) /\ Range(t) = P
    OBVIOUS
  <2> HIDE DEF P, s, O
  <2>3. s \in [1..Cardinality(P) -> P]
    BY <2>1, AscendingCounts
  <2>4. O \in [1..Cardinality(P) -> P] /\ Ascending(O) /\ Range(O) = P
    BY <2>1, <2>2, <2>3
  <2>5. P \in SUBSET Nat /\ Cardinality(P) \in Nat
    BY <2>1, AscendingCounts
  <2>6. O \in Seq(Nat)
    <3>1. O \in [1..Cardinality(P) -> Nat]
      BY <2>4, <2>5
    <3> QED
      BY <2>5, <3>1, IsSeq
  <2>7. s = O
    BY <2>1, <2>4, <2>6, AscendingIsUnique
  <2> QED
    BY <2>7 DEF s, O, P
<1>3. tables \in [Range(Clouds) -> [Regions -> Seq(Nat)]]
  BY DEF Inv, ParsersTyped
<1> QED
  <2>1. Reference = [c \in Range(Clouds) |-> [r \in Regions |->
                       OrderOf(Published(c, r, Len(data[c])))]]
    BY Zenon DEF Reference
  <2> HIDE DEF OrderOf
  <2>2. \A c \in Range(Clouds) : tables[c] = [r \in Regions |-> tables[c][r]]
    BY <1>3
  <2>3. tables = [c \in Range(Clouds) |-> tables[c]]
    BY <1>3
  <2>4. ASSUME NEW c \in Range(Clouds)
        PROVE  tables[c] = [r \in Regions |-> OrderOf(Published(c, r, Len(data[c])))]
    BY <1>2, <2>2
  <2> QED
    BY <2>1, <2>3, <2>4

\* A generator that comes to its end has written the file that goes with the
\* data, every line of it and nothing else, whatever the order of its maps.
THEOREM RunsAgree == Spec => []Reproducible
<1>1. Init => Writing
  BY DEF Init, Writing
<1>2. Inv /\ Checked /\ Writing => Reproducible
  <2> SUFFICES ASSUME Inv, Checked, Writing, at = "done" PROVE file = GoLines(Reference, FileOrder)
    BY DEF Reproducible
  <2>1. tables = Reference
    BY TablesAreReference
  <2>2. file \in Seq(GoLine) /\ Len(file) = Len(GoLines(tables, FileOrder))
        /\ \A k \in 1..Len(file) : file[k] = GoLines(tables, FileOrder)[k]
    BY DEF Writing
  <2>3. GoLines(tables, FileOrder) \in Seq(GoLine)
    BY GoLinesType DEF Inv, ParsersTyped
  <2>4. file = GoLines(tables, FileOrder)
    BY <2>2, <2>3, SeqEqual
  <2> QED
    BY <2>1, <2>4
<1> QED
  BY <1>1, <1>2, CheckedAlways, WritingNext, InvAlways, PTL DEF Spec
=============================================================================
