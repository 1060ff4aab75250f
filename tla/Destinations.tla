------------------------------ MODULE Destinations ------------------------------
(***************************************************************************)
(* Where an Agent connects: odp-agent/src/destinations.rs over             *)
(* odp-core/src/addresses.rs and the pinned exchange of                    *)
(* odp-directory/src/transport.rs.  Names are resolved by a name service   *)
(* that may answer differently from one moment to the next.                *)
(***************************************************************************)
EXTENDS FiniteSets

CONSTANTS
  PublicAddresses,     \* is_public
  LoopbackAddresses,
  LocalHosts           \* is_local_development_host

Permitted(host, address, allow_local_network) ==
  IF host \in LocalHosts /\ allow_local_network THEN address \in LoopbackAddresses
  ELSE address \in PublicAddresses

\* Every address of the answer is judged; {} is a refusal.
public_destinations(host, answer, allow_local_network) ==
  IF \A address \in answer : Permitted(host, address, allow_local_network) THEN answer ELSE {}

\* Mutant of send_to: the name is resolved once more to connect.
send_toAnew(pinned, answer) == answer

\* The peers an exchange can end at: the pinned addresses, whatever the name now says.
send_to(pinned, answer) == pinned
=============================================================================
