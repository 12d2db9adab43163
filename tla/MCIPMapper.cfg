\* Every catalogue of two regions with up to two ranges each, in every order
\* of the regions.  A build comes to an end.
CONSTANTS
    Infos = {"us-west-2", "GLOBAL"}
    Cidrs <- MCCidrs
    Addresses <- MCAddresses
    Catalogues <- MCCatalogues
    NotFound = NotFound
SPECIFICATION Spec
INVARIANTS
    TypeOK
    AgreesWithBruteForce
    OrderDoesNotMatter
CHECK_DEADLOCK FALSE
