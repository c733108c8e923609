------------------------------- MODULE MCIri -------------------------------
(***************************************************************************)
(* All references of up to three segments against bases of up to two, with *)
(* names that tell their segments apart.                                   *)
(***************************************************************************)
EXTENDS RdfaIri

Paths(segments, length) == UNION {[1 .. n -> segments] : n \in 0 .. length}

MCBases ==
  [host : {"http://h"}, path : Paths({"a", "b", "", ".."}, 2)]

RefPaths == Paths({"c", ".d", "", ".", ".."}, 3)

MCReferences ==
  [kind : {"empty"}, host : {"http://h"}, path : {<< >>}, tail : {"", "?q"}]
  \cup [kind : {"absolute"}, host : {"urn://g"}, path : RefPaths,
        tail : {"", "?q"}]
  \cup [kind : {"rooted"}, host : {"http://h"},
        path : RefPaths \ {<< >>}, tail : {"", "?q"}]
  \cup [kind : {"relative"}, host : {"http://h"},
        path : {p \in RefPaths : p # << >> /\ p[1] # ""},
        tail : {"", "?q"}]
=============================================================================
