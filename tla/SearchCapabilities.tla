--------------------------- MODULE SearchCapabilities ---------------------------
(***************************************************************************)
(* odp-agent/src/capabilities.rs: the filters and sorts a search may use,  *)
(* merged from the Service's sources and then a Collection's, each of them *)
(* inline or on linked pages.                                              *)
(*                                                                         *)
(* A definition is [id, keys], the keys of a sort being the filters it     *)
(* orders by.  How a page is retrieved is the subject of AgentResolution.  *)
(***************************************************************************)
EXTENDS Integers, Sequences, FiniteSets

CONSTANTS
  Absent,               \* no capabilities, no source, no page
  Capabilities,         \* what a Service and a Collection may advertise, Absent included
  PageLocations,        \* URLs resolve_reference accepts
  MaximumCapabilityPages, MaximumFilters, MaximumSorts

Definitions == [id : STRING, keys : Seq(STRING)]

Pages == [kind : {"page"}, items : Seq(Definitions), next : {Absent} \cup STRING]

ASSUME CapabilitiesAssumption ==
  /\ MaximumCapabilityPages \in Nat /\ MaximumFilters \in Nat /\ MaximumSorts \in Nat
  /\ \A c \in Capabilities : \A kind \in {"filters", "sorts"} :
       c # Absent /\ c[kind] # Absent => c[kind].inline \in Seq(Definitions)

VARIABLES
  sources,   \* [Service, Collection]: each [filters, sorts] or Absent
  stage,     \* the source that is added, 5 when all are, 0 when there is nothing to do
  load,      \* the linked pages under way: [values, next, visited, pages]
  filters,   \* available definitions, each with the scope it is from
  sorts,     \* before they are held against the filters
  catalog,   \* the sorts of the result
  issues,    \* [kind, scope, what, ids]
  loaded     \* what each source turned out to hold

capabilityVars == <<sources, stage, load, filters, sorts, catalog, issues, loaded>>

Scope == <<"Service", "Service", "Collection", "Collection">>
Kind  == <<"filters", "sorts", "filters", "sorts">>

CapabilitiesInit ==
  /\ sources = Absent /\ stage = 0 /\ load = Absent
  /\ filters = {} /\ sorts = {} /\ catalog = {} /\ issues = {} /\ loaded = <<>>

Issue(kind, scope, what, ids) == [kind |-> kind, scope |-> scope, what |-> what, ids |-> ids]

\* resolve_search_capabilities
resolve_search_capabilities(service, collection, supports_search) ==
  /\ stage = 0
  /\ sources' = [Service |-> service, Collection |-> collection]
  /\ load' = Absent /\ filters' = {} /\ sorts' = {} /\ catalog' = {} /\ loaded' = <<>>
  /\ IF supports_search THEN stage' = 1 /\ issues' = {}
     ELSE /\ stage' = 6
          /\ issues' = IF collection = Absent THEN {}
                       ELSE {Issue("filters", "Collection", "search", {})}

Source ==
  LET capabilities == sources[Scope[stage]]
  IN  IF capabilities = Absent THEN Absent ELSE capabilities[Kind[stage]]

Identifiers(values) == {values[i].id : i \in DOMAIN values}

\* Mutant of duplicate_ids: what another source defines is no duplicate.
duplicate_ids_Own(values, existing) ==
  {id \in Identifiers(values) : Cardinality({i \in DOMAIN values : values[i].id = id}) > 1}

duplicate_ids(values, existing) ==
  {id \in Identifiers(values) : \/ Cardinality({i \in DOMAIN values : values[i].id = id}) > 1
                                \/ \E d \in existing : d.id = id}

\* add_filters and add_sorts, with what the source holds.
Merged(values, existing, maximum) ==
  LET duplicates == duplicate_ids(values, existing)
      kept       == {d \in existing : d.id \notin duplicates}
      accepted   == {[id |-> values[i].id, keys |-> values[i].keys, scope |-> Scope[stage]] :
                       i \in {j \in DOMAIN values : values[j].id \notin duplicates}}
      fits       == Cardinality(kept) + Cardinality(accepted) <= maximum
      report(what, ids) == {Issue(Kind[stage], Scope[stage], what, ids)}
  IN  [definitions |-> IF fits THEN kept \cup accepted ELSE kept,
       issues      |-> IF ~fits THEN report("limit", {})
                       ELSE IF duplicates # {} THEN report("duplicate", duplicates) ELSE {}]

Add(values) ==
  LET merged == IF Kind[stage] = "filters" THEN Merged(values, filters, MaximumFilters)
                ELSE Merged(values, sorts, MaximumSorts)
  IN  /\ filters' = IF Kind[stage] = "filters" THEN merged.definitions ELSE filters
      /\ sorts' = IF Kind[stage] = "sorts" THEN merged.definitions ELSE sorts
      /\ issues' = issues \cup merged.issues
      /\ loaded' = Append(loaded, values)
      /\ stage' = stage + 1 /\ load' = Absent
      /\ UNCHANGED <<sources, catalog>>

\* An inline source, or none.
AddInline ==
  /\ stage \in 1 .. 4 /\ load = Absent
  /\ Source # Absent => Source.linked = Absent
  /\ Add(IF Source = Absent THEN <<>> ELSE Source.inline)

\* A linked source that cannot be read is an issue of its own, and its kind is done.
Unavailable(what) ==
  /\ issues' = issues \cup {Issue(Kind[stage], Scope[stage], what, {})}
  /\ loaded' = Append(loaded, <<>>)
  /\ stage' = stage + 1 /\ load' = Absent
  /\ UNCHANGED <<sources, filters, sorts, catalog>>

\* load_filter_pages, load_sort_pages
BeginLinked ==
  /\ stage \in 1 .. 4 /\ load = Absent
  /\ IF Source = Absent THEN FALSE ELSE Source.linked # Absent
  /\ load' = [values |-> <<>>, next |-> Source.linked, visited |-> {}, pages |-> 0]
  /\ UNCHANGED <<sources, stage, filters, sorts, catalog, issues, loaded>>

Loading == load # Absent /\ load.next # Absent /\ load.pages < MaximumCapabilityPages

Seen(url) == url \in load.visited

PageWanted == Loading /\ ~Seen(load.next) /\ load.next \in PageLocations

PageRefused ==
  /\ load # Absent /\ load.next # Absent /\ ~PageWanted
  /\ Unavailable(IF ~Loading THEN "pages" ELSE IF Seen(load.next) THEN "loop" ELSE "reference")

PageArrives(page) ==
  /\ PageWanted
  /\ load' = [values |-> load.values \o page.items, next |-> page.next,
              visited |-> load.visited \cup {load.next}, pages |-> load.pages + 1]
  /\ UNCHANGED <<sources, stage, filters, sorts, catalog, issues, loaded>>

PageFails == PageWanted /\ Unavailable("failed")

AddLinked == load # Absent /\ load.next = Absent /\ Add(load.values)

Orderable(sort, available) ==
  \A i \in DOMAIN sort.keys : \E f \in available : f.id = sort.keys[i]

\* The sorts are held against the filters once all sources are added.
HoldSorts ==
  /\ stage = 5
  /\ catalog' = {s \in sorts : Orderable(s, filters)}
  /\ issues' = issues \cup {Issue("sorts", s.scope, "filter", {s.id}) : s \in sorts \ catalog'}
  /\ stage' = 6
  /\ UNCHANGED <<sources, load, filters, sorts, loaded>>

\* The caller has its answer.
CapabilitiesDone ==
  /\ sources' = Absent /\ stage' = 0 /\ load' = Absent
  /\ filters' = {} /\ sorts' = {} /\ catalog' = {} /\ issues' = {} /\ loaded' = <<>>

CapabilitiesNext ==
  \/ \E service, collection \in Capabilities, supports_search \in BOOLEAN :
       resolve_search_capabilities(service, collection, supports_search)
  \/ AddInline \/ BeginLinked \/ PageRefused \/ PageFails \/ AddLinked \/ HoldSorts
  \/ \E page \in Pages : PageArrives(page)
  \/ CapabilitiesDone

CapabilitiesSpec == CapabilitiesInit /\ [][CapabilitiesNext]_capabilityVars
-----------------------------------------------------------------------------
(***************************************************************************)
(* Properties.                                                             *)
(***************************************************************************)
Definition(d) == d.scope \in {"Service", "Collection"}

CapabilitiesTypeOK ==
  /\ stage \in 0 .. 6
  /\ Len(loaded) = IF stage \in {0, 6} THEN Len(loaded) ELSE stage - 1
  /\ \A d \in filters \cup sorts \cup catalog : Definition(d)
  /\ Cardinality(filters) <= MaximumFilters /\ Cardinality(sorts) <= MaximumSorts
  /\ load # Absent => load.pages <= MaximumCapabilityPages /\ Cardinality(load.visited) = load.pages

\* How often the n-th source gives an identifier.
Given(n, id) == Cardinality({i \in DOMAIN loaded[n] : loaded[n][i].id = id})

Over(kind, scope) == \E issue \in issues :
  issue.kind = kind /\ issue.scope = scope /\ issue.what = "limit"

Complaint(kind, scope, id) ==
  \/ Over(kind, scope)
  \/ \E issue \in issues : issue.kind = kind /\ issue.scope = scope /\ id \in issue.ids

\* A definition is given by its source alone, and once; or by the Collection, once, where
\* the Service's own source had already lost it: to a repeat or to the limit.
OfOneSource(kind, d, service, collection) ==
  IF d.scope = "Service" THEN Given(service, d.id) = 1 /\ Given(collection, d.id) = 0
  ELSE Given(collection, d.id) = 1 /\ (Given(service, d.id) = 1 => Over(kind, "Service"))

Sound(kind, service, collection, available) ==
  /\ \A d \in available : OfOneSource(kind, d, service, collection)
  /\ \A d, e \in available : d.id = e.id => d = e
  /\ \A id \in Identifiers(loaded[service]) \cup Identifiers(loaded[collection]) :
       \/ \E d \in available : d.id = id
       \/ Given(service, id) # 0 /\ Complaint(kind, "Service", id)
       \/ Given(collection, id) # 0 /\ Complaint(kind, "Collection", id)

\* The result of a resolution (capabilities.rs:61-257): an identifier that both sources
\* give is available from neither, unless the Service's source had lost it already;
\* whatever is given and not available is answered for by an issue of a source that
\* gives it; and exactly the sorts whose filters are all available are in the result.
CatalogIsAccountedFor ==
  stage = 6 /\ loaded # <<>> =>
    /\ Sound("filters", 1, 3, filters)
    /\ Sound("sorts", 2, 4, sorts)
    /\ \A s \in sorts :
         s \in catalog <=> \A i \in DOMAIN s.keys : s.keys[i] \in {f.id : f \in filters}
    /\ \A s \in sorts \ catalog : Complaint("sorts", s.scope, s.id)
=============================================================================
