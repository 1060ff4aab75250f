----------------------------- MODULE MemoryCache -----------------------------
(***************************************************************************)
(* odp-agent/src/cache.rs: the in-memory record store that ServiceClients  *)
(* share.  Each of get, set and delete holds the RwLock for its whole      *)
(* body, so each is one step; what its callers do between a get and a      *)
(* later set is the subject of AgentCache.                                 *)
(*                                                                         *)
(* cache is total over the keys in play: None stands for an absent     *)
(* map entry.                                                              *)
(***************************************************************************)
EXTENDS Integers, FiniteSets

CONSTANTS
  Capacity,   \* MemoryCache::with_capacity; zero keeps nothing
  None        \* the value of a key the map does not hold

ASSUME CapacityAssumption == Capacity \in Nat

VARIABLE cache

Held == {k \in DOMAIN cache : cache[k] # None}

Full == Cardinality(Held) >= Capacity

\* Mutant of Evictions: room is made for a key that has it already.
EvictionsForAny(k) ==
  IF ~Full
    THEN {{}}
    ELSE {E \in SUBSET Held :
            /\ Cardinality(E) = Cardinality(Held) + 1 - Capacity
            /\ \A e \in E, o \in Held \ E : cache[e].stored_at <= cache[o].stored_at}

(***************************************************************************)
(* The sets of keys that set may remove to make room for k.  Records leave *)
(* in the order (stored_at, name); names are opaque, so any of the records *)
(* sharing the oldest stored_at may be the one to go.                      *)
(***************************************************************************)
Evictions(k) ==
  IF k \in Held \/ ~Full
    THEN {{}}
    ELSE {E \in SUBSET Held :
            /\ Cardinality(E) = Cardinality(Held) + 1 - Capacity
            /\ \A e \in E, o \in Held \ E : cache[e].stored_at <= cache[o].stored_at}

CacheSet(k, record) ==
  IF Capacity = 0
    THEN UNCHANGED cache
    ELSE \E E \in Evictions(k) :
           cache' = [x \in DOMAIN cache |->
                       IF x = k THEN record
                       ELSE IF x \in E THEN None ELSE cache[x]]

CacheDelete(k) == cache' = [cache EXCEPT ![k] = None]

(***************************************************************************)
(* "An in-memory cache bounded by entry count, so a long-lived Agent       *)
(* cannot grow without limit" (cache.rs:26): however calls interleave, the *)
(* map never holds more than Capacity records.                             *)
(***************************************************************************)
CapacityBound == Cardinality(Held) <= Capacity

\* A step that takes a record out does nothing else: the record was deleted.
OnlyRemoves(gone) == \A k \in DOMAIN cache \ {gone} : cache'[k] = cache[k]

\* A step that replaces a record by that of a key the full map did not hold, and
\* takes out no other.
MakesRoom(gone) == Full /\ Held \ Held' = {gone} /\ Held' \ Held # {}

(***************************************************************************)
(* Room is made when it is needed, and no more of it (cache.rs:93-107): the *)
(* map stays within its bound, and a record that was not deleted leaves    *)
(* only as the one that a full map gives up for a key it did not hold.  A  *)
(* call that stores anew what is held, or what another call has stored     *)
(* since it looked, costs no other call its record.                        *)
(***************************************************************************)
RoomIsMade ==
  [][ /\ CapacityBound'
      /\ \A gone \in Held \ Held' : OnlyRemoves(gone) \/ MakesRoom(gone) ]_cache

=============================================================================
