------------------------- MODULE MCDirectoryTraversal ------------------------
(***************************************************************************)
(* Four URLs of the Directory, one of them with a user name, and one of    *)
(* another origin; at most two redirects, four pages and three Services.   *)
(***************************************************************************)
EXTENDS DirectoryTraversal

CONSTANTS search, second, third, named, elsewhere

MCHome == {search, second, third, named}
MCNamed == {named}
MCAway == {elsewhere}

MCCalls ==
  [kind : {"pages", "collect"}, from : {None}, max_items : {0, 2, 4}, max_pages : {0, 2, 5}]
    \cup [kind : {"continue"}, from : {second, named, elsewhere}, max_items : {0}, max_pages : {0}]

MCPages ==
  [kind : {"page"}, records : {<<>>, <<TRUE>>, <<TRUE, FALSE, TRUE>>},
   next : Urls \cup {None}]
=============================================================================
