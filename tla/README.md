# A verification development for odp-rust

TLA+ models of the Offering Discovery Protocol SDK for Rust, the TLC instances that check them and
theorems about them with proofs that TLAPS checks. `PROJECT.json` maps every definition to the
lines it models. Paths below are relative to `crates/` of the repository.

To check: `tlc -config X.cfg M` for each run of the table below, `tlapm M.tla` for each module whose
name ends in `Proofs`.

## 1. The system

An **Agent** finds **Services** through a **Directory**, reads their catalogs page by page, and keeps
what it read in a cache. A **Service** answers from a `Catalog`; the repository has one
implementation of that trait, `StaticCatalog`. There are no threads of the SDK's own: concurrency
comes from futures that run at the same time over shared state (the cache), from
`stream::buffered` in the federated search, and from the process boundaries between agent and
service (a service restarts, its catalogue is replaced, answers are late).

| Component | State | Operations | Talks to |
| --- | --- | --- | --- |
| Cache store, `odp-agent/src/cache.rs` | a map behind an `RwLock` | `get`, `set` (which evicts), `delete` | shared by every `ServiceClient` given the same `Arc` |
| Conditional requests, `odp-agent/src/client.rs` | per call: the clone of a record, the clock at its start | `request_cached`, `supporting_resource` | cache store, transport, origin |
| Catalog traversal, `odp-agent/src/client.rs` | per traversal: items and pages so far | `list_all_*`, `search_all_offerings`, `collect_*`, `continue_*` | conditional requests |
| Federated search, `odp-agent/src/agent.rs` | a window of futures, results, events | `search_offerings_across_services` | Directory client, one traversal per Service |
| Directory client, `odp-directory/src/client.rs` | per call: pages, continuations followed, redirects | `search*`, `continue_*`, `collect_services`, `suggest*` | transport |
| Static catalog, `odp-service/src/static_catalog.rs` | configuration and a signing key, both fixed for the life of the process | three lists, `get_*`, cursors | the service router |
| Service router, `odp-service/src/service.rs` | none between requests | `handle`: routing, negotiation, validation, ETags | the `Catalog` |
| Capabilities, `odp-agent/src/capabilities.rs` | none between calls | `resolve_search_capabilities` | supporting resources |
| Offering details, `odp-agent/src/details.rs` | none between calls | `get_details`, Action resolution | supporting resources, schemas |
| Schema graph, `odp-agent/src/schema.rs` | queue and documents of one resolution | `resolve_schema` | supporting resources |
| Destination policy, `odp-agent/src/destinations.rs` | none | address checks before every connection | DNS, transport |
| Transport, `odp-directory/src/transport.rs` | an HTTP client | `send*`, 30 s timeout, size limits | network |
| Core, `odp-core/src/` | none | models, parsing, validation, URLs | everyone |

### What is hard, and what correct means

*Cache.* A call reads cache and clock, **awaits** the origin, then writes. In between, another call
may have stored another version, deleted the record for `no-store`, or had it evicted; the origin
may have published a new version; any amount of time may have passed. Correct means: what is
returned as fresh the origin had sent in answer to this very request and allowed to be reused until
now; a 304 confirms the body that is returned; what must not be stored is not held; the map stays
within its capacity.

*Continuations.* The catalog is stateless: what it needs to go on travels through the client under
a signature, for an hour, while processes with other keys and other catalogues take over.
Correct means: a page is given only for a continuation given out for the same list, limit and
representation, which advances; it is usable for its lifetime and refused by the right name after.

*Traversal.* Pages of one traversal come from the cache and from successive processes. Correct
means: the result is the beginning of one catalogue, never a mixture, cut short only at a bound;
a restarted traversal does not meet an expired continuation in its own cache; it ends.

*Federated search.* Services complete in any order and fail at any page. Correct means: one outcome
for each Service in the Directory's order, a bounded window, no part of a catalogue passed off as
the whole; it ends.

*Directory client.* The Directory may answer anything: pages that lead back, redirects that lead
away or round in circles, records that cannot be read. Correct means: a search never leaves its
origin, no cursor is followed twice, a page is fetched only while it is wanted, what was met is
returned, and requests are bounded.

*Agent and Service.* The Agent acts on a Service Document it read some time ago and builds paths that
the router takes apart again; the Service may have been redeployed in between. Correct means: a call
reaches the Catalog as the operation it is, with its parameters; a refusal that the document
contradicts means that the document is stale; "not modified" is said only of what would be served
again; what a Catalog gets wrong is not published, and what is published the Agent neither refuses nor
loses a part of; the language served is the best the client asked for.

*Looking up more.* Details of an Offering, its schema, an Action's schema or OpenAPI document and the
search capabilities are each a series of requests to URLs that documents name, any of which may fail,
redirect, loop or change. Correct means: a schema is used only whole and within its limits, and refused
only for a reason; every part of the details or capabilities that is missing has an issue, and no two
definitions contend for one identifier; and no request ends at an address that was not judged.

`PROJECT.json` lists under `hazards` the lines where each of these can go wrong.

## 2. Modules

    MemoryCache ── AgentCache ── MCAgentCache ── MCCacheEviction
                       └ AgentCacheProofs
    StaticCatalog ── CatalogClients ── MCCatalog
          │             └ CatalogClientsProofs
          └ CatalogTraversal ── MCTraversal
                 └ CatalogTraversalProofs
    FederatedSearch ── MCFederatedSearch         OrderedReport (abstract)
          └ FederatedSearchProofs                   implemented by FederatedSearch
    DirectoryTraversal ── MCDirectoryTraversal
          └ DirectoryTraversalProofs
    Representations ── ServiceRouter ── AgentService ── MCAgentService
          │                                  └ AgentServiceProofs
          └ LaterDocuments ── MCLaterDocuments
    AttributeSchema ────┬ AgentResolution ── MCAgentResolution
    SearchCapabilities ─┤       │            implements AttributeSchema's SchemaSpec
    Destinations ───────┘       │            and SearchCapabilities' CapabilitiesSpec
    AttributeSchemaProofs ── AgentResolutionProofs

**MemoryCache** is the record map. `get`, `set` and `delete` each hold the lock throughout, so each
is one step of the callers. `Evictions` is `set`'s choice of what leaves: the records with the least
`stored_at`, ties broken by name in the code and by any choice here, as names are opaque. `RoomIsMade` says
of each step what room it may make for whom.

**AgentCache** adds concurrent calls. A call is `Send` (the cache lookup, the clone, the clock),
an answer of the origin, and `ReceiveRepresentation`, `ReceiveNotModified` or `ReceiveRefused`
(`request_cached` and `supporting_resource` after their `await`), or `TransportFails`; a hit is
`ServeFresh`. `cacheable`, `expiration`, `revalidated_expiration` and `CacheKey` are the functions of
those names. The history `granted` says, by the rules of HTTP caching, until when the origin let each
version be reused; the agent's bookkeeping is judged against it. An answer stands for a whole chain of
redirects, or for its refusal. The code takes a 304 whenever it holds a record, asked for or not
(`client.rs:577-582`, `848-854`); so does the model, where the origin may send one to a call without
validators and thereby vouches for whatever record that call holds (as RFC 9111, 4.3.4, has it for records
without validators).

**StaticCatalog** has the three lists as paths, `page`, `encode_cursor` and `decode_cursor` (as the
order of refusals in `Answer`). A process's random key is its number; a cursor nobody signed has the
key `Forged`. **CatalogClients** puts it before clients that keep continuations and mix them with other
parameters. **CatalogTraversal** puts it behind `list_all_*` and `collect_*`: `Collect` is the loop body
that drains a page, `Send`/`TakeCached`/`Receive` are the requests through the cache, `Restart` and
`Evict` happen between any two of them.

**FederatedSearch** is `search_offerings_across_services`: `Start` is the stream handing a future to
`buffered`, `FetchPage` and `Fail` are a Service's traversal, `HandOn` is `buffered` yielding the oldest
result, `Return` flattens the results to events. **OrderedReport** is what its documentation promises,
with nothing of how; `Promise` is the refinement mapping.

**DirectoryTraversal** is `search_pages`, `collect_services`, `search_services` (as `search_pages` of one
page) and `continue_search_services`: `Begin` validates the bounds, `TakePage` is the loop of `traverse`,
`FollowRedirect` and `RefuseRedirect` the loop of `request`. The Directory answers each request with
anything in `Answers`.

**Representations** is `odp-core/src/validation.rs` as operators: what may be published
(`parse_service_document`, `parse_offering`, `parse_collection`, with the rules of the JSON schemas that
the runs tell apart), what an Agent drops (`normalize_service_document`, `normalize_offering`, ...) and what
it then reads (`Readable...`). `New` is any value of a vocabulary that this version does not name.
`exceeds` is `compare_decimals` on digits.

**ServiceRouter** is `odp-service/src/service.rs` as operators over one request: `Refusals` lists the early
returns of `handle_result`, `get_path` and `catalog_request` in their order, `path_operation` and `Handler`
are the two readings of a path, `Asked` what the Catalog is asked, `Response` what is made of its answer,
`handle` the conditions and HEAD. The endpoint base is stripped as a prefix of characters
(`service.rs:477`): a path below `/odpx` passes for one below `/odp` (`RunsOn`, by the pairs in `Longer`), but
what is left of it does not begin with a slash and names nothing.

**AgentService** puts it behind an Agent and other clients. `Inspect`, `Ask`, `Continue` are the Agent's
requests (`inspect`, `require_operation` with `build_operation_url`, `resolve_continuation`), `Answer`,
`AskCatalog` and `CatalogReturns` the Service's steps, `ReceiveDocument`, `ReceiveResource`,
`ReceiveNotModified` and `ReceiveFailure` the Agent's reading of the answer. `Redeploy` replaces the
Service between any two of them, even while its Catalog is at work; a request is answered by the
deployment that took it.

**LaterDocuments** is an Agent before the documents of a later version.

**AttributeSchema** is `resolve_schema`: the queue, the documents, the verdict; `bundle` is the result.
**SearchCapabilities** is `resolve_search_capabilities`: `stage` is the source being added, `Merged` is
`add_filters` and `add_sorts`, `load` the loop of `load_*_pages`. **Destinations** is the policy of
`SecureTransport` and the pinned connection. **AgentResolution** composes the three with
`get_offering_details` and `resolve_action`: whoever waits for a document makes a `Request`, which is
judged (`Judge`), connected (`Connect`), answered (`Exchange`), `Redirected` and judged again, or fails, and
what it delivers goes to the one that waits. Each of its steps is one of `SchemaSpec` or leaves the schema
alone, and one of `CapabilitiesSpec` or leaves the capabilities alone.

## 3. What TLC checks

| Run | Question | Result |
| --- | --- | --- |
| AgentCacheRace | two calls race for three records in a cache of two, while versions and time move | holds |
| AgentCacheBreadth | every kind of freshness header, GET and POST, with and without a fallback | holds |
| CatalogClients | clients mix, forge and delay continuations, across a restart | holds |
| CatalogTraversal | cached and fetched pages over two processes; safety and termination | holds |
| FederatedSearch | the window, truncation, refinement of OrderedReport, termination | holds |
| DirectoryTraversal | an arbitrary Directory: origin, loops, bounds, completeness, termination | holds |
| AgentService | routing, negotiation, conditions, validation between an Agent and a redeployed Service | holds |
| AgentResolution | schemas, details, Actions, capabilities, request by request over changing hosts; termination | holds |
| AgentCacheExpires | "a fallback never overrides what the Service said" | **violated** |
| CacheEviction | "the least recently stored record makes room" | **violated** |
| CatalogRestart | "a continuation stays usable for an hour" | **violated** |
| LaterDocuments | "drop what they cannot read and keep the rest" | **violated** |

The violated ones are disagreements between the code and the repository's own words:

* **AgentCacheExpires.** `explicit_freshness` counts the mere presence of `Expires` or `max-age`; `expiration`
  uses them only if they are a date and a number, and else the fallback. A response with the customary
  `Expires: 0` is therefore served as fresh for the fallback lifetime (`odp-agent/src/client.rs:1171`, against
  `odp-agent/tests/caching_conformance.rs:59`).
* **CacheEviction.** `set` evicts by `stored_at`, but callers stamp a record with the clock at the
  *start* of their call. The record a slow call has just stored may leave before one stored earlier
  (`odp-agent/src/cache.rs:98`, against lines 27-28 there).
* **CatalogRestart.** Each process draws its own key, so a restart refuses continuations that have most
  of their hour left, and names them as never valid (`odp-service/src/static_catalog.rs:35`, against
  lines 379 and 424 there). `UsableWhileProcessLives` is what does hold.
* **LaterDocuments.** Payments whose authentication is of a later version are dropped after an empty
  `protocols` would have been removed (`odp-core/src/validation.rs:75-78`). When they were the only
  protocols, the empty object that is left fails `minProperties`, and the document is refused
  (against `odp-core/tests/agent_conformance.rs:3-6` and 110).

Some disagreements have no run of their own, as what is disputed is narrower than what holds:

* An identifier that Service and Collection both define is available from neither, say
  `odp-agent/tests/capability_conformance.rs:292` and `catalog_conformance.rs:412`. It is available from the
  Collection if the Service's source repeats it, or was over its limit, and so had lost it before
  (`odp-agent/src/capabilities.rs:166-190`). `OfOneSource` names both cases. When a Collection's filters are
  over the limit, those of the Service that they repeat are removed without being named; the issue of the
  limit is the only one.
* `GET` of `collections/offerings` is held against `list-collection-offerings` and served by
  `get_collection`; resources called `search` cannot be reached (`odp-service/src/service.rs:943-959`).
  `Misread` names these two, and AsAsked and RefusalIsStale hold of all others.
* `validate_page_envelope` compares a continuation with the request as text, relative to the Service: an
  absolute URL of the same page passes. Continuations are modelled as relative here.
* When two documents of a schema claim one `$id`, the bundle keeps one of them (`schema.rs:153-169`), which
  GraphIsJudgedFairly excepts by `ClaimedOnce`. `rewrite_references` (`schema.rs:194`) also redirects a
  reference to a schema embedded in its own document when another document was retrieved at that URL;
  GraphIsJudgedFairly speaks of references between documents and leaves this out.
* A record deleted for `no-store` may come back when another call under way confirms or stores what the
  origin allowed before. HeldWithinGrant admits that: it says only that nothing is held beyond its grant.
* An unknown image format takes the whole branding with it (`validation.rs:268-277`).

### Bounds, and why they are enough

* *AgentCacheRace*: one URL, two versions, two moments, two calls, three keys, a cache of two records. A race
  needs two calls; a stale body needs two versions; a lifetime that is counted from the wrong end
  needs an answer that takes one unit, which is also the lifetime of a record. The third key makes calls evict
  each other's records; the second place lets a record be stored anew, by a call that found it stale or by one
  that found it missing and was overtaken, while the cache is full of it and another. Three moments are left
  to the next run.
* *AgentCacheBreadth*: one call at a time, so that all headers fit, three moments, a cache of one record:
  the order of the conditions in `cacheable` and `expiration`, an `Age` larger than `max-age`, an `Expires` in the past.
* *CatalogClients*: three items, limits absent, 1 and over the maximum, two processes whose catalogues
  differ in a path and in order, at most two kept continuations, a lifetime of one unit of two.
  A page that exactly ends the list, one that does not, and one that starts past a shorter list occur.
* *CatalogTraversal*: one walker; the proofs cover any number of them. Two processes, three items in one
  and two in the other, a fallback equal to the lifetime (the tightest case), bounds by items, by pages,
  by default and past the maximum.
* *FederatedSearch*: three Services out of two, one with an empty catalogue, so that one Service may come
  twice; windows of one to three. Every order of completion and every failure occurs.
* *DirectoryTraversal*: three URLs that a traversal can cycle through, one with a user name, one foreign;
  up to two redirects for each request, up to four pages; pages with none, one, and two readable records
  around one that is not, under bounds of two and three, so that a bound falls between pages and within one.
* *AgentService*: three deployments that serve (all operations in three languages; four operations in two;
  three operations in one under another base) and one that `Service::new` refuses, so that every pair of
  successive deployments differs in what a call depends on. Twelve calls, at least one for each operation, with the
  identifiers a router could mistake and, of a list and a search, a limit over the maximum; 30 requests that no Agent sends, one for each early return and each
  form of condition; for each handler pages and resources with one fault each. The Agent holds one
  representation: a second would only be another one not asked for.
* *AgentResolution*: up to four documents, two levels and five bytes against graphs of up to six locations
  with a chain of three, cycles, a diamond whose long and short way differ in length, a self-reference,
  embedded and clashing `$id`s, so that each limit is met and exceeded and so that order decides whether
  depth is exceeded. Up to two filters, sorts and pages, against sources of up to three, inline and linked,
  repeated within one source and across both. One redirect. Two hosts: the machine itself, and one whose
  answers are public, mixed or loopback, and differ from one question to the next.
* *LaterDocuments*: every combination of known, later and no values of each protocol, endpoint and image.

Counters are bounded by `MaxTime`, `MaxVersion`, `MaxProcesses` and `MaxIssued`, which appear in guards and
nowhere else. `MCFederatedSearch` stops when the search returns, and only its run disables the deadlock check.

### Fairness

Stated only where a run has a liveness property. The caller polls its future until it is done (a future
that is dropped has no outcome to speak of), so the agent's next step is weakly fair; each request is
answered or runs into the transport's 30 s timeout (`odp-directory/src/transport.rs:10`), so answer *or*
failure is weakly fair, and no answer alone is. In FederatedSearch the fairness of `DirectoryFails` says
that the Directory's traversal ends, one way or the other, which `CallEnds` of DirectoryTraversal shows.
In AgentResolution one thing happens at a time, so what is fair is that a look-up goes on, not that any one
of its outcomes is chosen. Nothing is assumed of clocks, restarts, publications or evictions.

### Mutants

Each property of a passing run has a mutant, an operator next to the one it replaces, which the property
refutes: a forgotten guard, freshness counted from the arrival of the answer, a 304 applied to whatever the
cache now holds, an unverified signature, an error that is retried, results handed on as they complete,
redirects that are not counted. They are listed in `PROJECT.json`.

## 4. What is proved

Every invariant of every passing run, the refinement of `OrderedReport`, and of each liveness property the
part that needs no fairness, for all values of the constants
that satisfy the modules' assumptions: any number of calls, requests, headers and URLs; any catalogues,
deployments, documents and pages; any number of walkers and Services.

| Theorem | Says |
| --- | --- |
| `AgentCacheProofs!TypeCorrect` | `TypeOK`; no lifetime underflows |
| `AgentCacheProofs!CapacityKept` | the map never holds more than its capacity |
| `AgentCacheProofs!RoomMadeWhenNeeded` | a record not deleted leaves only for a new key in a full map, and alone |
| `AgentCacheProofs!CacheWithinGrants` | nothing is held that may not be stored, nor longer than allowed |
| `AgentCacheProofs!FreshnessSound` | what is served as fresh the origin had allowed |
| `AgentCacheProofs!RevalidationSound` | a 304 is applied to the record it confirms |
| `CatalogClientsProofs!ClientsTypeCorrect` | `TypeOK`, proved only; CatalogTraversal checks the types of StaticCatalog |
| `CatalogClientsProofs!OnlyIssuedIsServed` | a page is given only for a continuation issued for the same list, limit and representation |
| `CatalogClientsProofs!PagesAdvance` | the continuation of a page lies after it |
| `CatalogClientsProofs!UsableFromItsProcess` | for its lifetime a continuation is usable at the process that issued it |
| `CatalogClientsProofs!OnlyAgedExpire` | "expired" is said only of what the process issued, and long enough ago |
| `CatalogTraversalProofs!TraversalTypeCorrect` | `TypeOK` |
| `CatalogTraversalProofs!NoMixture` | a result is the beginning of one process's list |
| `CatalogTraversalProofs!ExpiredNotMetAgain` | no fresh page gives out an expired continuation |
| `CatalogTraversalProofs!TraversalsRunOut` | a traversal runs out of steps, whatever else goes on |
| `FederatedSearchProofs!SearchTypeCorrect` | `TypeOK` |
| `FederatedSearchProofs!WindowKept` | the window is as wide as asked for, waiting results included |
| `FederatedSearchProofs!NothingTruncated` | an outcome that is no issue is whole |
| `FederatedSearchProofs!ReportsInOrder` | the search implements `OrderedReport` |
| `FederatedSearchProofs!SearchesRunOut` | a search runs out of steps |
| `DirectoryTraversalProofs!DirectoryTypeCorrect` | `TypeOK` |
| `DirectoryTraversalProofs!NeverLeavesHome` | requests stay on the origin; the search only goes with a POST |
| `DirectoryTraversalProofs!LoopsAreRefused` | no two pages lead to the same continuation |
| `DirectoryTraversalProofs!FetchesOnlyWanted` | a page is asked for only below both bounds |
| `DirectoryTraversalProofs!RequestsAreBounded` | at most pages × (redirects + 1) requests |
| `DirectoryTraversalProofs!EverythingMetIsCollected` | what is collected are the first Services met, all of them unless a bound is reached |
| `DirectoryTraversalProofs!CallsRunOut` | a call runs out of requests, whatever the Directory answers |
| `AgentServiceProofs!ServiceTypeCorrect` | `TypeOK`; the Catalog is asked only for what its operations admit |
| `AgentServiceProofs!CallsAreTakenAsAsked` | a call reaches the Catalog as the operation it is, with its parameters |
| `AgentServiceProofs!OnlyTheStaleAreRefused` | a refusal that the document contradicts comes from a later deployment |
| `AgentServiceProofs!NothingStaleIsConfirmed` | "not modified" is said only of what would be served again |
| `AgentServiceProofs!WhatIsPublishedIsSound` | what a Catalog gets wrong is not published |
| `AgentServiceProofs!NothingIsLost` | what is published an Agent neither refuses nor loses a part of |
| `AgentServiceProofs!TheBestVariantIsServed` | no language that the client weighs more is passed over |
| `AttributeSchemaProofs!SchemaTypeCorrect` | `SchemaTypeOK`: the queue's depths and the bytes stay within limits |
| `AttributeSchemaProofs!GraphsAreWhole` | a resolved schema holds all that its documents refer to |
| `AttributeSchemaProofs!GraphsAreJudgedFairly` | a graph is refused for its size or depth only for a reason; references find what they mean |
| `AgentResolutionProofs!ResolutionTypeCorrect` | `TypeOK`: one phase of one task, and one request for whoever waits |
| `AgentResolutionProofs!ResolutionImplementsSchema` | details and Actions, request by request, implement `SchemaSpec` |
| `AgentResolutionProofs!ResolvedSchemasAreWhole`, `SchemasAreJudgedFairly` | hence the schemas they use are whole, and fairly judged |
| `AgentResolutionProofs!CapabilitiesAccountedFor` | `CapabilitiesSpec`: what a source gives is available once or has an issue |
| `AgentResolutionProofs!ResolutionImplementsCapabilities` | capabilities, request by request, implement `CapabilitiesSpec` |
| `AgentResolutionProofs!CatalogAccountedFor` | hence what an Agent is offered to filter and sort by is accounted for |
| `AgentResolutionProofs!DetailsSound` | what details offer their schema admits; what is missing has an issue |
| `AgentResolutionProofs!PeersJudged` | only judged addresses are connected to |
| `AgentResolutionProofs!LookupsRunOut` | a look-up runs out of steps, whatever leads to what |

*How the arguments go.*

* **Cache.** What is held stays within what was granted because the clone a call took was within it when it
  was taken, grants only grow or lapse, and the answer in flight carries a grant made no earlier than the
  call began; so whichever call writes last writes something that was granted. The inductive invariant says
  this of the cache, of every clone and of every answer in flight. Two hypotheses are explicit in the
  statements: `SharedFallbacks` (requests with one cache key have one fallback; `supporting_resource` leaves
  the fallback out of its key, so clients that share a partition must share `CacheFallbacks`) and
  `ReadableLifetimes` (without it, AgentCacheExpires is a counterexample).
* **Continuations.** `IssuedAreSigned`: each continuation that was issued carries the key of its process, the
  request it was issued for and the end of its lifetime. A cursor with a process's key is one of those, as
  nobody else has the key; so whatever else a client puts around it, `Answer` finds the request it was made
  for or refuses it, and by the right name.
* **Traversal.** Every cached page and every answer in flight is a page of some process; every walker holds
  exactly what lies before the continuation it is at, in the list of the process that signed it. A
  continuation of another process is refused, so two lists never meet. For expiry, a cached page ceases to be
  fresh no later than the continuation in it ages out, which needs `FallbackAssumption`.
* **Federated search.** What a future holds is within its bounds and complete when it succeeds; results
  correspond to the started futures in order, which gives the refinement step by step.
* **Directory.** Every page so far led to a continuation among those visited, and to a different one; each
  page cost at most one request and its redirects. For `CollectsAll` each Service met has a rank, the number
  of those up to it. `RankOf` says that this is what the code counts; ranks follow the order of the pages, no
  two are the same, and each number up to a rank is a rank. So what is collected, the ranks up to the bound,
  is a beginning, is no more than the bound, and is everything when it is less.
* **Agent and Service.** Each part of the state tells the truth about *some* deployment: what the Agent knows
  (`KnownTrue`), what it holds and its entity tag (`HeldTrue`), the request and the deployment that took it
  (`RequestTrue`), what the Catalog was asked (`AskedTrue`) and the reply (`ReplyTrue`). `Redeploy` takes nothing
  of this away, as each names its deployment. An entity tag determines the representation it was given out
  for, hence `NotModifiedIsCurrent`. For `RefusalIsStale` the early returns are gone through one by one: had
  the deployment not changed, none of them would apply to a call that its document allows.
  `CallsAreTakenAsAsked` has the hypothesis `BasesApart`: no deployment's endpoint base lies below another's.
  Without it a path built for one deployment can be another path of its successor; the SDK does not see to
  it, and the instance (`/odp`, `/api`) satisfies it.
* **Data of the protocol.** Decimals are compared digit by digit: sequences of digits aligned to one length are
  as the numbers they stand for, and the first difference decides (`FirstDifferenceDecides`, by the least
  counterexample). The language served is the first, by weight and place, that any cut of a range finds. For
  `NothingLost` the rules of publishing are held against those of reading, part by part, and the vocabulary
  against what this version names. The rule that capabilities have filters or sorts
  (`search-capabilities.schema.json`, `anyOf`) is needed here: it is `CapabilitiesAllowed` that keeps a Service
  from publishing what its Agent would drop.
* **Schemas.** What a retrieved document refers to was retrieved or is still in the queue, and while the
  graph is open the queue's front is the only thing that leaves it, which it does only when it is retrieved;
  so an empty queue means a whole graph. For `GraphIsJudgedFairly`: the queue is in the order of depth, no
  retrieved document is deeper than what waits, and what a document refers to is retrieved or waits at most
  one level below it; so all that is nearer than the queue's front was retrieved, and what is met too deep
  has no shorter way. AgentResolution inherits both: each of its steps is a step of
  `SchemaSpec` or leaves `schemaVars` alone, under the invariant that a request is under way only for the
  one that waits for it.
* **Capabilities.** The account is kept after each source: what the sources so far gave is available once, of
  one source, or was removed by a rule that left an issue. Adding a source (`Merged`) preserves it, once for
  filters and once for sorts; `HoldSorts` then compares sorts with filters that no longer change.
* **Details.** Nothing but `ConcludeAttributes` changes the attributes, and it does so in the state where the
  verdict and the documents are known; the invariant says of the phases after it what was true of those
  documents. Actions are settled when details begin.
* **Peers.** What is pinned passed the policy for the host that is asked now; a redirect stays on its origin
  and starts over with nothing pinned, so the host is also that of what was asked for.

* **Termination.** Four theorems say that there is no way to go on for ever: a quantity that is finite whenever
  something is under way, and that each of its steps lowers. For a Directory's call it is the requests it may
  still send; for a catalogue's traversal three steps for each page it may still drain, which no other
  traversal, restart or eviction raises; for a search the phases, fetches and results that are left. A look-up has
  four in an order: the phases of its task; then the documents of its schema and, while they stay, its queue,
  or the sources of its capabilities and, within one, its pages; then the redirects of its request; then what
  one exchange takes. Documents that refer to each other in a circle shorten the queue or are retrieved
  once; pages are counted; a request that fails closes the verdict, the source or the task that waited for it.
  That a step is taken while one is left is fairness and `ENABLED`, and is TLC's part.

*Assumptions on constants*, each evaluated by TLC in a passing run.

* Of the code's own constants: `CapacityAssumption`, `LimitAssumption` (a page without a limit is within
  the maximum), `RouterAssumption`, `SchemaAssumption` (at least one document), `CapabilitiesAssumption`,
  `FallbackAssumption` (a page is cached no longer than a continuation lives: an hour against an hour for
  Collections, five minutes for Offerings), `DirectoryAssumption`, `FederatedAssumption`, `TraversalAssumption`,
  `ClientAssumption`.
* Of shapes, which the code's types give: `CatalogAssumption`, `AgentAssumption`, `ResolutionAssumption`,
  `DeploymentsAssumption`, `CallsAssumption`, `ProbesAssumption` (a valid body has a limit its schema admits),
  `VocabularyAssumption` and the `NoneAssumption`s (a value that stands for nothing, or for anything new, is not
  another one).
* Of implementations of the trait `Catalog`: `AnswersAssumption`, that bounds of prices are decimals, as their
  schema says, and that an error it describes is not 412, which belongs to the conditions that the Service evaluates.

*Only model-checked*: liveness (`TraversalEnds`, `SearchEnds`, `CallEnds`, `LookupEnds`) beyond what Termination
says, as it needs fairness and `ENABLED`, and the four violated properties. Where a proof is by induction, it takes the least number for which the
claim fails, as the library's induction rules take an operator that the provers cannot instantiate; and lists
that are filtered are described by `Kept`, their places in order, since the provers know nothing of `SelectSeq`.


## 5. What the models leave out

* Clocks of agent and origin agree and do not go back; reading the cache and reading the clock is one step.
* A poisoned lock, and `Cache` implementations other than `MemoryCache`.
* In AgentCache the redirects of an answer are part of it, and a URL and the one it redirects to are one
  resource. The code revalidates a record at the URL where its redirects ended
  (`odp-agent/src/client.rs:556`), so what is said of AgentCache does not cover a redirect that comes to
  lead elsewhere. In DirectoryTraversal redirects are modelled.
* A 304 repeats the `Vary` of the response it confirms; of an `Age` field only its number counts, and one
  that cannot be read counts as none, as in the code.
* `search_all_offerings` is the same loop as the traversal, begun with a POST and by default with a
  fallback of zero; its pages are then not cached, which is the traversal's case of `Fallback = 0`.
* The lifetime of records in AgentService and AgentResolution, which AgentCache has: in the first a Service
  Document is forgotten at any time, in the second every document is asked for anew. A cached document is one
  that was found there earlier, and what is found at a URL may be anything there ever was.
* A client made `with_transport` has the destination policy only for supporting documents; AgentResolution
  models the clients of `new` and `for_local_development`, where all requests pass it.
* Linked pages of capabilities may be plain HTTP and of any origin, while supporting documents must be
  HTTPS: `PageLocations` and `SecureLocations` are the URLs that each accepts.
* The bits of addresses: `PublicAddresses` is what `is_public` says. Which prefixes it names is data.
* Whether a value satisfies a JSON schema is the validator's word (external): a value is valid here when
  each document of the graph admits it. The code asks the validator of the root, for which a reference below
  `oneOf` or `anyOf` may admit what the document it leads to, taken for itself, does not.
* In which order a document is searched for references: any order, in AttributeSchema.
* Checks of `StaticCatalog::new` on its configuration; `get_*` of the catalog, which are look-ups.
* Suggestions and resource search of the Directory: one request each, by the rules of `request`.
* JSON, URLs, media types and Problem documents as text. What refuses them is one kind of answer. Byte
  limits are failures; JSON depth and the formats of single members are among what is refused.
* Search requests and filter definitions as JSON: they are valid or not.
* The conformance tool, examples and scripts: drivers around the crates without logic of their own.

## 6. Plan

1. *Done*: every component of section 1 in a module; every invariant and action property of a passing run a
   theorem; the refinements of OrderedReport, SchemaSpec and CapabilitiesSpec; a variant for each liveness property.
2. **Proofs** next: more action properties that say of each step what the invariants say of each state
   (`RoomIsMade` is the first; a verdict, once reached, stays; a report only grows);
   lemmas of AgentServiceProofs that several theorems repeat, stated once.
3. **Models** that could be added: the hierarchy check of `StaticCatalog::new` (`collection_depth`) against
   the longest chain of a graph; a redirect that comes to lead elsewhere in AgentCache, and a cached first page
   after a restart, two of the three hazards that no property covers; the third, fallbacks that differ under
   one supporting resource's key, is the hypothesis `SharedFallbacks`.

Theorems stay in modules of their own; no module uses a RECURSIVE operator.
