--------------------------- MODULE MCCacheEviction ---------------------------
(***************************************************************************)
(* AgentCache with the clock reading of each set remembered, to judge in   *)
(* which order MemoryCache lets records go.                                *)
(***************************************************************************)
EXTENDS MCAgentCache

VARIABLE setAt   \* setAt[k]: when the record under k was last put there

EvictionRequests == {Ask("odp", "GET", language, 1) : language \in {"en", "fr", "de"}}

EvictionHeaders == {Plain}

EvictionInit == Init /\ setAt = [k \in Keys |-> 0]

EvictionNext ==
  /\ Next
  /\ setAt' = [k \in Keys |-> IF cache'[k] # cache[k] THEN now ELSE setAt[k]]

EvictionSpec == EvictionInit /\ [][EvictionNext]_<<vars, setAt>>

(***************************************************************************)
(* "When it is full the least recently stored record makes room for the    *)
(* new one" (odp-agent/src/cache.rs:28): a record that leaves because      *)
(* another key's record arrived is none that was stored after one that     *)
(* stays.  Pairs that carry the same stamp are left out of account.        *)
(***************************************************************************)
LeastRecentlyStoredLeaves ==
  [][ \A gone, stays \in Held :
        /\ cache'[gone] = None
        /\ cache'[stays] = cache[stays]
        /\ cache[gone].stored_at # cache[stays].stored_at
        /\ \E k \in Keys \ Held : cache'[k] # None
        => setAt[gone] <= setAt[stays] ]_<<vars, setAt>>
=============================================================================
