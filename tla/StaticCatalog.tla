---------------------------- MODULE StaticCatalog ----------------------------
(***************************************************************************)
(* odp-service/src/static_catalog.rs: the lists of a StaticCatalog and the *)
(* signed continuations that page through them.                            *)
(*                                                                         *)
(* The catalog keeps no record of what it issued: a continuation carries   *)
(* what is needed to go on, under a signature whose key the process draws  *)
(* when it starts.  A key is the number of the process that drew it, and   *)
(* what no process signed carries the key Forged.                          *)
(*                                                                         *)
(* Processes succeed one another, each with the catalogue it was           *)
(* configured with.  Who asks is the subject of the modules that extend    *)
(* this one: CatalogClients and CatalogTraversal.                          *)
(***************************************************************************)
EXTENDS Integers, Sequences

CONSTANTS
  None,           \* no cursor, no continuation
  Ids,            \* identifiers of Offerings and Collections
  MaxProcesses,   \* bound on restarts
  Listings,       \* Listings[i][path]: what the i-th process lists under path
  DefaultLimit,   \* DEFAULT_PAGE_LIMIT
  MaximumLimit,   \* what catalog_request lets through
  Lifetime,       \* CONTINUATION_LIFETIME
  MaxTime         \* bound on the clock

Forged == 0
Processes == 1 .. MaxProcesses
Paths == UNION {DOMAIN Listings[i] : i \in Processes}
Representations == {"terse", "full"}

ASSUME CatalogAssumption ==
  /\ MaxProcesses \in Nat \ {0}
  /\ \A i \in Processes : \A path \in DOMAIN Listings[i] : Listings[i][path] \in Seq(Ids)
  /\ DefaultLimit \in Nat \ {0}
  /\ MaximumLimit \in Nat \ {0}
  /\ Lifetime \in Nat
  /\ MaxTime \in Nat

\* The 50 items of a page without a limit are within what a limit may ask for.
ASSUME LimitAssumption == DefaultLimit <= MaximumLimit

VARIABLES
  now,      \* the clock, in seconds, which clients share
  process   \* the process that serves
-----------------------------------------------------------------------------
\* The URL of a list; limit 0 is a parameter that is not there.
Url(path, limit, representation, cursor) ==
  [path |-> path, limit |-> limit, representation |-> representation, cursor |-> cursor]

Cursor == [key : Processes \cup {Forged}, expires : Nat, limit : Nat, offset : Nat,
           path : Paths, representation : Representations]

Urls == [path : Paths, limit : Nat, representation : Representations,
         cursor : Cursor \cup {None}]

\* An item as a page carries it: terse loses its Actions, full its pointers.
Item == [id : Ids, representation : Representations]

Reply == [status : {"ok"}, items : Seq(Item), next : Urls \cup {None}]
           \cup [status : {"INVALID_REQUEST", "NOT_FOUND", "UNAVAILABLE", "EXPIRED"}]

ASSUME NoneAssumption == None \notin Cursor /\ None \notin Urls

Smaller(a, b) == IF a <= b THEN a ELSE b

\* values[from + 1 .. to], represented.
Slice(values, from, to, representation) ==
  [k \in 1 .. to - from |-> [id |-> values[from + k], representation |-> representation]]

page_limit(url) == IF url.limit = 0 THEN DefaultLimit ELSE url.limit

\* Mutant of Signed: the signature is not verified.
SignedByAnyone(cursor) == TRUE

Signed(cursor) == cursor.key = process

\* Mutant of Expired: a continuation is refused at the end of its lifetime.
ExpiredAtEnd(cursor) == cursor.expires <= now

Expired(cursor) == cursor.expires < now

\* Mutant of Bound: a continuation serves any list.
BoundToAnyPath(cursor, url) ==
  cursor.limit = page_limit(url) /\ cursor.representation = url.representation

Bound(cursor, url) ==
  /\ cursor.limit = page_limit(url)
  /\ cursor.path = url.path
  /\ cursor.representation = url.representation

\* Mutant of encode_cursor: the continuation does not say which list it is of.
encode_cursorPathless(url, offset) ==
  Url(url.path, page_limit(url), url.representation,
      [key |-> process, expires |-> now + Lifetime, limit |-> page_limit(url),
       offset |-> offset, path |-> "", representation |-> url.representation])

encode_cursor(url, offset) ==
  Url(url.path, page_limit(url), url.representation,
      [key |-> process, expires |-> now + Lifetime, limit |-> page_limit(url),
       offset |-> offset, path |-> url.path, representation |-> url.representation])

Offset(url) == IF url.cursor = None THEN 0 ELSE url.cursor.offset

\* Mutant of More: a full last page has a continuation too.
MoreAtEnd(end, values) == end <= Len(values)

More(end, values) == end < Len(values)

page(url) ==
  LET values == Listings[process][url.path]
      end    == Smaller(Offset(url) + page_limit(url), Len(values))
  IN  [status |-> "ok",
       items  |-> Slice(values, Offset(url), end, url.representation),
       next   |-> IF More(end, values) THEN encode_cursor(url, end) ELSE None]

\* What catalog_request, the list operation and decode_cursor make of a URL.
Answer(url) ==
  LET cursor == url.cursor
      error(code) == [status |-> code]
  IN  IF url.limit > MaximumLimit THEN error("INVALID_REQUEST")
      ELSE IF url.path \notin DOMAIN Listings[process] THEN error("NOT_FOUND")
      ELSE IF cursor = None THEN page(url)
      ELSE IF ~Signed(cursor) THEN error("UNAVAILABLE")
      ELSE IF Expired(cursor) THEN error("EXPIRED")
      ELSE IF ~Bound(cursor, url) \/ cursor.offset > Len(Listings[process][url.path])
        THEN error("UNAVAILABLE")
      ELSE page(url)
-----------------------------------------------------------------------------
CatalogInit == now = 0 /\ process = 1

Clock == now < MaxTime /\ now' = now + 1 /\ UNCHANGED process

\* StaticCatalog::new: another process, another key, maybe another catalogue.
Restart == process + 1 \in Processes /\ process' = process + 1 /\ UNCHANGED now
=============================================================================
