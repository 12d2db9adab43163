----------------------------- MODULE MCGeranos -----------------------------
(***************************************************************************)
(* Small instances of Geranos.  Two images share a layer, one of them is   *)
(* in two repositories, and a third is of a type that is not copied.       *)
(***************************************************************************)
EXTENDS Geranos

MCLayersOf == [a |-> <<"base", "configA">>, b |-> <<"base">>, x |-> <<>>]

MCManifestsOf == [kube |-> {"a", "x"}, mirror |-> {"a", "b"}]

\* One image in one repository, for runs that overlap.
OneLayersOf == [a |-> <<"base", "configA">>]

OneManifestsOf == [kube |-> {"a"}]
=============================================================================
