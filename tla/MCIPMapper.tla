----------------------------- MODULE MCIPMapper ----------------------------
(***************************************************************************)
(* IPMapper with addresses of three bits in one family and of one in the   *)
(* other, every prefix of those, and two regions with at most two ranges   *)
(* each: nested, shared and whole-family ones are all among them.          *)
(***************************************************************************)
EXTENDS IPMapper

Bits(n) == [1..n -> {0, 1}]

Family(family, width) ==
    {[family |-> family, bits |-> b] : b \in UNION {Bits(n) : n \in 0..width}}

MCCidrs == Family("v4", 3) \cup Family("v6", 1)

MCAddresses ==
    [family : {"v4"}, bits : Bits(3), zone : {FALSE}]
    \cup [family : {"v6"}, bits : Bits(1), zone : BOOLEAN]

MCCatalogues ==
    [Infos -> {{}} \cup {{p, q} : p, q \in MCCidrs}]
=============================================================================
