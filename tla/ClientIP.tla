------------------------------ MODULE ClientIP ----------------------------
(***************************************************************************)
(* Where the address of a client comes from: the X-Forwarded-For header    *)
(* the load balancer has added to, or the connection when there is none.   *)
(*                                                                         *)
(* A header is a sequence of pieces: separators, addresses, and text that  *)
(* is no address.  Pieces with no separator between them are one field.    *)
(***************************************************************************)
EXTENDS Naturals, Sequences

CONSTANTS
    Addresses,      \* what netip.ParseAddr accepts
    Text,           \* pieces it does not accept, alone or next to others
    LoadBalancer,   \* the balancer's own address
    Invalid,        \* clientip.Get returns an error
    MaxSupplied     \* bound: pieces of the header before the balancer's

VARIABLES
    at,         \* who has the request: "client", "server", "answered"
    client,     \* the address the request comes from
    balanced,   \* it came by the load balancer
    header,     \* X-Forwarded-For, empty if not set
    ip          \* what clientip.Get returned

vars == <<at, client, balanced, header, ip>>

Separators == {"comma", "space"}
Pieces == Addresses \cup Text \cup Separators

ASSUME ClientIPAssumption ==
    /\ MaxSupplied \in Nat
    /\ Addresses \cap Separators = {} /\ LoadBalancer \in Addresses
    /\ Invalid \notin Addresses
    /\ Text \cap (Addresses \cup Separators) = {}

-----------------------------------------------------------------------------
\* strings.FieldsFunc: where the fields of h start.
Starts(h) ==
    {i \in DOMAIN h : h[i] \notin Separators /\ (i = 1 \/ h[i - 1] \in Separators)}

\* keys[len(keys)-2]: the field with one after it.
LastButOne(h) ==
    {i \in Starts(h) : \E k \in Starts(h) :
        i < k /\ \A j \in Starts(h) : j <= i \/ j = k}

\* Mutant: text right after the address is overlooked.
ParseFieldLoose(h, i) == IF h[i] \in Addresses THEN h[i] ELSE Invalid

\* netip.ParseAddr of the field that starts at i.
ParseField(h, i) ==
    IF h[i] \in Addresses /\ (i = Len(h) \/ h[i + 1] \in Separators)
    THEN h[i] ELSE Invalid

\* Mutant: the first field, as for headers that only proxies write.
GetFirst(h, remote) ==
    IF h = <<>> THEN remote
    ELSE IF LastButOne(h) = {} THEN Invalid
    ELSE ParseField(h, CHOOSE i \in Starts(h) : \A j \in Starts(h) : i <= j)

\* clientip.Get.  remote is the address in RemoteAddr.
Get(h, remote) ==
    IF h = <<>> THEN remote
    ELSE IF LastButOne(h) = {} THEN Invalid
    ELSE ParseField(h, CHOOSE i \in LastButOne(h) : TRUE)

-----------------------------------------------------------------------------
Init ==
    /\ at = "client" /\ balanced = FALSE
    /\ client \in Addresses \ {LoadBalancer}
    /\ header = <<>> /\ ip = Invalid

\* The request, or a proxy it passes, supplies a header of any form.
Supply(piece) ==
    /\ at = "client" /\ Len(header) < MaxSupplied
    /\ header' = Append(header, piece)
    /\ UNCHANGED <<at, client, balanced, ip>>

\* The balancer adds the address it saw and its own, and keeps what was
\* there before them.
Forward ==
    /\ at = "client"
    /\ header' = (IF header = <<>> THEN <<>> ELSE Append(header, "comma"))
                 \o <<client, "comma", LoadBalancer>>
    /\ at' = "server" /\ balanced' = TRUE
    /\ UNCHANGED <<client, ip>>

\* No load balancer: local testing.
Connect ==
    /\ at = "client"
    /\ at' = "server"
    /\ UNCHANGED <<client, balanced, header, ip>>

\* The handler asks.  net.SplitHostPort may refuse RemoteAddr.
Serve ==
    /\ at = "server"
    /\ at' = "answered"
    /\ ip' \in {Get(header, client)}
               \cup (IF header = <<>> THEN {Invalid} ELSE {})
    /\ UNCHANGED <<client, balanced, header>>

Next ==
    \/ \E piece \in Pieces : Supply(piece)
    \/ Forward
    \/ Connect
    \/ Serve

Spec == Init /\ [][Next]_vars

-----------------------------------------------------------------------------
(* Properties.                                                             *)

\* Behind the balancer the client is the one the balancer saw, whatever the
\* header held when it got there: separators in a row, at its end or alone,
\* and text with other addresses in it.
BalancedClientFound == at = "answered" /\ balanced => ip = client

\* Whatever Get returns is an address that stands alone in the header, with
\* a field after it, or the one of the connection.
NothingMadeUp ==
    at = "answered" /\ ip # Invalid =>
        \/ header = <<>> /\ ip = client
        \/ \E i, k \in DOMAIN header :
            /\ i < k /\ header[i] = ip /\ header[k] \notin Separators
            /\ header[i + 1] \in Separators
            /\ i = 1 \/ header[i - 1] \in Separators
=============================================================================
