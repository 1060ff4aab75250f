------------------------------ MODULE MCCatalog ------------------------------
(***************************************************************************)
(* CatalogClients over a catalogue of three Offerings, two of them in a    *)
(* Collection.                                                             *)
(***************************************************************************)
EXTENDS CatalogClients

CONSTANTS a, b, c

MCIds == {a, b, c}

First == [p \in {"offerings", "plants"} |-> IF p = "offerings" THEN <<a, b, c>> ELSE <<a, c>>]
Second == [p \in {"offerings"} |-> <<b, a, c>>]

MCListings == <<First, Second>>
MCLimits == {0, 1, 3}
=============================================================================
