-------------------------- MODULE MCFederatedSearch --------------------------
(***************************************************************************)
(* Up to three Services of a Directory that names two, possibly one twice; *)
(* one lists nothing, the other three offerings, of which a caller may     *)
(* take one (its bound), two (the default) or, past the page limit, none.  *)
(***************************************************************************)
EXTENDS FederatedSearch

CONSTANTS full, empty

MCServices == {full, empty}
MCCatalogue == [s \in MCServices |-> IF s = full THEN 3 ELSE 0]

Ask(n, o, c) == [services |-> n, offerings |-> o, concurrency |-> c]
MCAsked == {Ask(0, 0, 0), Ask(3, 1, 0), Ask(3, 3, 1), Ask(1, 0, 3), Ask(4, 0, 0),
            Ask(0, 4, 0), Ask(0, 0, 4), Ask(3, 0, 3)}
=============================================================================
