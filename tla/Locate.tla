------------------------------- MODULE Locate -----------------------------
(***************************************************************************)
(* A blob request through the parts of archeio in turn: makeV2Handler      *)
(* builds the mapper (IPMapper), and then serves requests that say in a    *)
(* header where they come from (ClientIP), by the route of that address    *)
(* (Routing).  The mapper is shared by all handlers with no lock: nothing  *)
(* is inserted once the handler exists.                                    *)
(***************************************************************************)
EXTENDS Routing, ClientIP

CONSTANTS
    Parsed,     \* Parsed[a]: what netip.ParseAddr makes of address a
    Infos, Cidrs, Catalogues,   \* see IPMapper
    RC,         \* the RegistryConfig
    Blob,       \* the path of the request
    NoReply

VARIABLES
    ranges, left, nodes, value, keyToValue, valueToKey,
    reply

mapper == <<ranges, left, nodes, value, keyToValue, valueToKey>>
locateVars == <<vars, mapper, reply>>

Region ==
    INSTANCE IPMapper WITH
        Addresses <- {Parsed[a] : a \in Addresses},
        NotFound <- Unknown     \* ipIsKnown is false, and the region ""

ASSUME LocateAssumption ==
    /\ IsBlob(Blob)
    /\ DOMAIN Parsed = Addresses
    /\ BadAddr \notin Infos
    /\ Region!IPMapperAssumption

LocateInit == Init /\ Region!Init /\ reply = NoReply

\* NewIPMapper: an insert.
Load == Region!Next /\ UNCHANGED <<vars, reply>>

\* makeV2Handler has returned.
Loaded == \A info \in Infos : left[info] = {}

\* The request on its way.
Travel ==
    /\ Loaded
    /\ Forward \/ Connect \/ \E piece \in Pieces : Supply(piece)
    /\ UNCHANGED <<mapper, reply>>

\* The handler: the address, its region, and the reply, which is the
\* bucket's if the blob is there.
Handle ==
    /\ Serve
    /\ LET q == [method |-> "GET", path |-> Blob,
                 origin |-> IF ip' = Invalid THEN BadAddr
                            ELSE Region!GetIP(Parsed[ip'])]
       IN  \/ reply' = Reply(RC, q)
           \/ NeedsBlobCheck(q) /\ reply' = S3Redirect(BlobURL(RC, q))
    /\ UNCHANGED mapper

LocateNext == Load \/ Travel \/ Handle

LocateSpec == LocateInit /\ [][LocateNext]_locateVars

-----------------------------------------------------------------------------
(* Properties.                                                             *)

\* The regions with a range around the client's address, if any.
Around ==
    LET known == {info \in Infos : \E p \in ranges[info] :
                    Region!Matches(p, Parsed[client])}
    IN  IF known = {} THEN {Unknown} ELSE known

\* The replies that are right for a client there: none is sent out of GCP,
\* and to no bucket but the region's.
RightFor(info) ==
    {Upstream(RC, Blob)} \cup
    (IF info.cloud = "GCP" THEN {}
     ELSE {S3Redirect(<<AWSRegionToHost(info.region, RC.bucket), Blob[Len(Blob)]>>)})

\* A client that comes by the load balancer is served as its own address
\* deserves, whatever the header it sent says of others, whatever the order
\* the mapper was filled in and however ranges are nested; it is never
\* refused.
ServedWhereItIs ==
    at = "answered" /\ balanced =>
        \E info \in Around : reply \in RightFor(info)
=============================================================================
