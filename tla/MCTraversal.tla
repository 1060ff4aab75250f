----------------------------- MODULE MCTraversal -----------------------------
(***************************************************************************)
(* A catalogue of three Offerings that a restart reorders; a traversal     *)
(* page by page, one that stops at a bound, and one past all bounds.       *)
(***************************************************************************)
EXTENDS CatalogTraversal

CONSTANTS a, b, c, w1

MCIds == {a, b, c}
MCWalkers == {w1}

MCListings == << [p \in {"offerings"} |-> <<a, b, c>>],
                 [p \in {"offerings"} |-> <<b, a>>] >>

List(limit, max_items, max_pages) ==
  [path |-> "offerings", limit |-> limit, representation |-> "terse",
   max_items |-> max_items, max_pages |-> max_pages]

MCCalls == {List(1, 0, 0), List(0, 1, 2), List(0, 4, 0)}
=============================================================================
