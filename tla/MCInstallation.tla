--------------------------- MODULE MCInstallation ----------------------------
(***************************************************************************)
(* An instance of Installation: a place and a commute that refers to it, a   *)
(* table and a second one whose name contains the first's, a source that is  *)
(* enabled without a hint, in another service with a hint and a status of    *)
(* the user's own, or disabled.                                              *)
(***************************************************************************)
EXTENDS Installation, TLC

CONSTANTS home, trip, tableA, tableB

MCRefs == (home :> {}) @@ (trip :> {home})
MCContains == (tableA :> {tableA, tableB}) @@ (tableB :> {tableB})
MCConfigs ==
    {[enabled |-> TRUE, service |-> "rdata", hint |-> None, status |-> None],
     [enabled |-> TRUE, service |-> "grandlyon", hint |-> tableA, status |-> "OK"],
     [enabled |-> FALSE, service |-> "rdata", hint |-> None, status |-> None]}
Symmetry == Permutations(Programs)

=============================================================================
