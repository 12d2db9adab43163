----------------------------- MODULE Ranges2Go ----------------------------
(***************************************************************************)
(* The generator of the range data: ranges2go reads what the three clouds  *)
(* publish, collects the prefixes of each region, sorts them, removes      *)
(* duplicates in place, and writes a Go table.  The regions of a cloud are *)
(* sorted and deduplicated in the order of a Go map.                       *)
(*                                                                         *)
(* A prefix is the rank of its text, which is what the code sorts and      *)
(* compares.  An entry of the data is a record with the fields the code    *)
(* reads; a region without prefixes is one the Go map has no key for.      *)
(***************************************************************************)
EXTENDS Integers, Functions, SequencesExt

CONSTANTS
    RegionOrder,    \* the names of all regions, in the order of the strings
    Excluded,       \* EXCLUDED_AWS_REGIONS
    Bad,            \* a prefix netip.ParsePrefix refuses
    None,           \* the empty string where a prefix may stand
    Inputs,         \* what the three files may hold
    Old, Torn       \* the output file of before; a line cut short

VARIABLES
    data,       \* data[c]: the entries of cloud c
    at,         \* where main is
    cloud,      \* the cloud whose parser runs, by its place in Clouds
    read,       \* how many of its entries are read
    rest,       \* its regions that are not sorted yet
    dedupe,     \* region, i and j of dedupeSortedPrefixes
    tables,     \* the regionsToPrefixes of each cloud
    order,      \* that of the clouds and of the regions in the output
    file        \* the lines of the output file

vars == <<data, at, cloud, read, rest, dedupe, tables, order, file>>

Clouds == <<"AWS", "GCP", "Azure">>     \* in the order main parses them
Sorted == <<"AWS", "Azure", "GCP">>     \* in the order of sort.Strings
Regions == Range(RegionOrder)
Current == Clouds[cloud]

-----------------------------------------------------------------------------
(* One entry.  data.AWS is the IPv4 list with the IPv6 list after it.      *)

\* The parser passes over these.
Skipped(c, e) ==
    \/ c = "AWS" /\ e.region \in Excluded
    \/ c = "Azure" /\ (~e.azureCloud \/ e.region = "")

\* The prefixes of an entry; GCP's has one in either of two fields.
Listed(c, e) ==
    IF c = "AWS" THEN <<e.prefix>>
    ELSE IF c = "Azure" THEN e.addressPrefixes
    ELSE <<IF e.ipv4Prefix # None THEN e.ipv4Prefix ELSE e.ipv6Prefix>>

\* The parser returns an error.  AWS parses before it looks at the region.
Broken(c, e) ==
    /\ \E p \in Range(Listed(c, e)) : p \notin Nat
    /\ c = "Azure" => ~Skipped(c, e)

\* What the files hold is lists of entries, of regions that have a name.
ASSUME Ranges2GoAssumption ==
    /\ RegionOrder \in Seq(Regions)
    /\ Bad \notin Nat /\ None \notin Nat
    /\ \A d \in Inputs, c \in Range(Clouds) :
        /\ Len(d[c]) \in Nat /\ DOMAIN d[c] = 1..Len(d[c])
        /\ \A e \in Range(d[c]) :
            /\ ~Skipped(c, e) => e.region \in Regions
            /\ Listed(c, e) \in Seq(Range(Listed(c, e)))

-----------------------------------------------------------------------------
Init ==
    /\ data \in Inputs
    /\ at = "read" /\ cloud = 1 /\ read = 0 /\ rest = {}
    /\ dedupe = [region |-> "", i |-> 0, j |-> 0]
    /\ tables = [c \in Range(Clouds) |-> [r \in Regions |-> <<>>]]
    /\ order = [clouds |-> <<>>, regions |-> <<>>]
    /\ file = <<Old>>

\* mustReadFile, a parser, os.Create or a write fails: main panics.
Panic == at' = "panic"

\* All three files are read before the first is parsed.
ReadFiles ==
    /\ at = "read"
    /\ at' = "unmarshal" \/ Panic
    /\ UNCHANGED <<data, cloud, read, rest, dedupe, tables, order, file>>

Unmarshal ==
    /\ at = "unmarshal"
    /\ at' = "entries" \/ Panic
    /\ UNCHANGED <<data, cloud, read, rest, dedupe, tables, order, file>>

\* Mutant: what ParsePrefix returns with an error is used.
ReadEntryUnchecked ==
    /\ at = "entries" /\ read < Len(data[Current])
    /\ LET e == data[Current][read + 1] IN
        /\ read' = read + 1
        /\ tables' = IF Skipped(Current, e) THEN tables
                     ELSE [tables EXCEPT ![Current][e.region] =
                             @ \o Listed(Current, e)]
    /\ UNCHANGED <<data, at, cloud, rest, dedupe, order, file>>

\* Mutant: an entry that cannot be parsed is left out.
ReadEntryLenient ==
    /\ at = "entries" /\ read < Len(data[Current])
    /\ LET e == data[Current][read + 1] IN
        /\ read' = read + 1
        /\ tables' = IF Skipped(Current, e) \/ Broken(Current, e) THEN tables
                     ELSE [tables EXCEPT ![Current][e.region] =
                             @ \o Listed(Current, e)]
    /\ UNCHANGED <<data, at, cloud, rest, dedupe, order, file>>

\* One round of the loop over the entries.
ReadEntry ==
    /\ at = "entries" /\ read < Len(data[Current])
    /\ LET e == data[Current][read + 1] IN
        \/ Broken(Current, e) /\ Panic /\ UNCHANGED <<read, tables>>
        \/ /\ ~Broken(Current, e)
           /\ read' = read + 1
           /\ tables' = IF Skipped(Current, e) THEN tables
                        ELSE [tables EXCEPT ![Current][e.region] =
                                @ \o Listed(Current, e)]
           /\ UNCHANGED at
    /\ UNCHANGED <<data, cloud, rest, dedupe, order, file>>

EntriesEnd ==
    /\ at = "entries" /\ read = Len(data[Current])
    /\ at' = "flatten"
    /\ rest' = {r \in Regions : tables[Current][r] # <<>>}
    /\ UNCHANGED <<data, cloud, read, dedupe, tables, order, file>>

-----------------------------------------------------------------------------
(* The prefixes of one region.                                             *)

\* What sort.Slice may make of a sequence: it is not stable, and it need not
\* be, since prefixes it does not tell apart are the same prefix.
SortSlice(s) ==
    {t \in {[k \in DOMAIN s |-> s[f[k]]] :
              f \in {g \in [DOMAIN s -> DOMAIN s] : Range(g) = DOMAIN s}} :
        \A k, l \in DOMAIN s : k <= l => t[k] <= t[l]}

\* A region is sorted, and handed to dedupeSortedPrefixes.  i and j count
\* from 1: i is the entry to look at, j the last one kept.
Sort(r) ==
    /\ at = "flatten" /\ r \in rest
    /\ rest' = rest \ {r}
    /\ \E t \in SortSlice(tables[Current][r]) :
            tables' = [tables EXCEPT ![Current][r] = t]
    /\ IF Len(tables[Current][r]) <= 1 THEN UNCHANGED <<at, dedupe>>
       ELSE at' = "dedupe" /\ dedupe' = [region |-> r, i |-> 2, j |-> 1]
    /\ UNCHANGED <<data, cloud, read, order, file>>

Slice == tables[Current][dedupe.region]

\* Mutant: an entry is kept if it differs from its neighbour to the right.
DedupeAhead ==
    /\ at = "dedupe" /\ dedupe.i <= Len(Slice)
    /\ LET i == dedupe.i  j == dedupe.j IN
        IF i < Len(Slice) /\ Slice[i] # Slice[i + 1]
        THEN /\ tables' = [tables EXCEPT ![Current][dedupe.region][j + 1] = Slice[i]]
             /\ dedupe' = [dedupe EXCEPT !.i = i + 1, !.j = j + 1]
        ELSE dedupe' = [dedupe EXCEPT !.i = i + 1] /\ UNCHANGED tables
    /\ UNCHANGED <<data, at, cloud, read, rest, order, file>>

\* One round of the loop, which reads the slice it writes.
Dedupe ==
    /\ at = "dedupe" /\ dedupe.i <= Len(Slice)
    /\ LET i == dedupe.i  j == dedupe.j IN
        IF Slice[i] # Slice[i - 1]
        THEN /\ tables' = [tables EXCEPT ![Current][dedupe.region][j + 1] = Slice[i]]
             /\ dedupe' = [dedupe EXCEPT !.i = i + 1, !.j = j + 1]
        ELSE dedupe' = [dedupe EXCEPT !.i = i + 1] /\ UNCHANGED tables
    /\ UNCHANGED <<data, at, cloud, read, rest, order, file>>

DedupeEnds ==
    /\ at = "dedupe" /\ dedupe.i > Len(Slice)
    /\ at' = "flatten"
    /\ tables' = [tables EXCEPT ![Current][dedupe.region] =
                    SubSeq(@, 1, dedupe.j)]
    /\ UNCHANGED <<data, cloud, read, rest, dedupe, order, file>>

\* The parser returns, and the next one runs.
ParserEnds ==
    /\ at = "flatten" /\ rest = {}
    /\ IF cloud < Len(Clouds)
       THEN cloud' = cloud + 1 /\ read' = 0 /\ at' = "unmarshal"
       ELSE at' = "create" /\ UNCHANGED <<cloud, read>>
    /\ UNCHANGED <<data, rest, dedupe, tables, order, file>>

-----------------------------------------------------------------------------
(* Writing the file.                                                       *)

\* The clouds and the regions as the ranges over their maps give them.
InAnyOrder == [clouds : SetToSeqs(Range(Sorted)), regions : SetToSeqs(Regions)]

FileOrder == [clouds |-> Sorted, regions |-> RegionOrder]

\* Mutant: they are printed as they come.
SortStringsNot(given) == given

\* sort.Strings, of the clouds and of the regions.
SortStrings(given) == FileOrder

\* os.Create empties the file, and generateRangesGo collects what to print.
Create ==
    /\ at = "create"
    /\ \/ /\ at' = "write" /\ file' = <<>>
          /\ \E given \in InAnyOrder : order' = SortStrings(given)
       \/ Panic /\ UNCHANGED <<order, file>>
    /\ UNCHANGED <<data, cloud, read, rest, dedupe, tables>>

\* genCloud: the lines for cloud c.
CloudLines(t, c, regions) ==
    LET Lines(r) ==
          IF t[c][r] = <<>> THEN <<>>
          ELSE <<<<"region", c, r>>>>
               \o [k \in DOMAIN t[c][r] |-> <<"prefix", t[c][r][k]>>]
               \o <<<<"},">>>>
    IN FlattenSeq([k \in DOMAIN regions |-> Lines(regions[k])])

\* generateRangesGo: all the lines.
GoLines(t, o) ==
    <<<<"header">>>>
    \o [k \in DOMAIN o.clouds |-> <<"const", o.clouds[k]>>]
    \o <<<<"var regionToRanges">>>>
    \o FlattenSeq([k \in DOMAIN o.clouds |->
                    CloudLines(t, o.clouds[k], o.regions)])
    \o <<<<"}">>>>

\* Mutant: the error of a write is dropped.
WriteUnchecked ==
    /\ at = "write" /\ Len(file) < Len(GoLines(tables, order))
    /\ \E line \in {GoLines(tables, order)[Len(file) + 1], <<Torn>>} :
            file' = Append(file, line)
    /\ UNCHANGED <<data, at, cloud, read, rest, dedupe, tables, order>>

\* The next line is written; a write that fails may have written some of it.
Write ==
    /\ at = "write" /\ Len(file) < Len(GoLines(tables, order))
    /\ \/ /\ file' = Append(file, GoLines(tables, order)[Len(file) + 1])
          /\ UNCHANGED at
       \/ Panic /\ file' \in {file, Append(file, <<Torn>>)}
    /\ UNCHANGED <<data, cloud, read, rest, dedupe, tables, order>>

\* main returns.
Exit ==
    /\ at = "write" /\ Len(file) = Len(GoLines(tables, order))
    /\ at' = "done"
    /\ UNCHANGED <<data, cloud, read, rest, dedupe, tables, order, file>>

-----------------------------------------------------------------------------
Next ==
    \/ ReadFiles \/ Unmarshal \/ ReadEntry \/ EntriesEnd
    \/ \E r \in Regions : Sort(r)
    \/ Dedupe \/ DedupeEnds \/ ParserEnds
    \/ Create \/ Write \/ Exit

Spec == Init /\ [][Next]_vars

-----------------------------------------------------------------------------
(* Properties.                                                             *)

\* What the first n entries of cloud c list for region r.
Published(c, r, n) ==
    UNION {Range(Listed(c, data[c][k])) :
             k \in {l \in 1..n : ~Skipped(c, data[c][l])
                                 /\ data[c][l].region = r}}

Ascending(s) == \A k, l \in DOMAIN s : k < l => s[k] < s[l]

\* The types of what the parsers work with.
ParsersTyped ==
    /\ data \in Inputs
    /\ at \in {"read", "unmarshal", "entries", "flatten", "dedupe", "create",
               "write", "done", "panic"}
    /\ cloud \in 1..Len(Clouds)
    /\ read \in 0..Len(data[Current])
    /\ rest \subseteq Regions
    /\ tables \in [Range(Clouds) -> [Regions -> Seq(Nat)]]
    /\ dedupe \in [region : Regions \cup {""}, i : Nat, j : Nat]
    /\ at = "dedupe" =>
        /\ dedupe.region \in Regions
        /\ 1 <= dedupe.j /\ dedupe.j < dedupe.i
        /\ dedupe.i <= Len(Slice) + 1

\* The loop of dedupeSortedPrefixes is always inside the slice it reads and
\* writes, and everything in the tables was parsed.
TypeOK ==
    /\ ParsersTyped
    /\ order \in [clouds : Seq(Range(Sorted)), regions : Seq(Regions)]

\* The parsers that have returned.
Parsed == {Clouds[k] : k \in 1..(cloud - 1)}
          \cup IF at \in {"create", "write", "done"} THEN {Current} ELSE {}

Right(c, r) ==
    /\ Ascending(tables[c][r])
    /\ Range(tables[c][r]) = Published(c, r, Len(data[c]))

\* What a parser returns has every prefix the cloud lists for a region, no
\* other, none twice, in ascending order: whatever the order and repetition
\* in the input, and the order of the Go map.
TablesRight == \A c \in Parsed, r \in Regions : Right(c, r)

\* The table anyone would write for the data, with nothing of the way the
\* generator takes.
Reference ==
    LET InOrder(P) == CHOOSE t \in [1..Cardinality(P) -> P] :
                        Ascending(t) /\ Range(t) = P
    IN  [c \in Range(Clouds) |-> [r \in Regions |->
            InOrder(Published(c, r, Len(data[c])))]]

\* make verify compares a new file with the one that is checked in: a run
\* that ends well has written the one file that goes with the data, in
\* whatever order its maps gave clouds and regions.
Reproducible == at = "done" => file = GoLines(Reference, FileOrder)

\* An entry of any cloud that cannot be used leaves the file of before as it
\* was: nothing is written until all is parsed.
BadDataKeepsFile ==
    (\E c \in Range(Clouds) : \E e \in Range(data[c]) : Broken(c, e))
        => file = <<Old>>
=============================================================================
