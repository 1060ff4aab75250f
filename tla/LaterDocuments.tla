---------------------------- MODULE LaterDocuments ----------------------------
(***************************************************************************)
(* An Agent of this version before a Service of a later one (inspect in    *)
(* odp-agent/src/client.rs, over normalize_agent_response and              *)
(* parse_service_document in odp-core/src/validation.rs).                  *)
(***************************************************************************)
EXTENDS Representations

CONSTANT Documents   \* what Services of the later version publish

VARIABLES published, outcome

vars == <<published, outcome>>

Init == published = None /\ outcome = None

Publish ==
  /\ published = None
  /\ published' \in Documents
  /\ UNCHANGED outcome

\* parse_agent_service_document
Inspect ==
  /\ published # None /\ outcome = None
  /\ outcome' = IF ReadableDocument(published) THEN "read" ELSE "refused"
  /\ UNCHANGED published

Next == Publish \/ Inspect

Spec == Init /\ [][Next]_vars
-----------------------------------------------------------------------------
\* odp-core/tests/agent_conformance.rs:3-6: "the Agent entry points drop what they
\* cannot read and keep the rest ... the unreadable descriptor, not the document
\* around it."  Of a document that asks for nothing this version does not name, none
\* is refused.
LaterDocumentsAreRead == outcome # "refused"
=============================================================================
