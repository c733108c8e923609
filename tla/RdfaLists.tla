----------------------------- MODULE RdfaLists -----------------------------
(***************************************************************************)
(* c/lists.c with the list mappings of c/rdfa_utils.c: the @inlist lists   *)
(* of a context, from the moment a predicate starts one until its triples  *)
(* are sent to the application.                                            *)
(*                                                                         *)
(* A mapping is an array of key and list pairs that the code searches by   *)
(* key.  Here it is the set of its live entries; an entry whose key became *)
(* "<DELETED-KEY>" matches no key any more, and only the number of slots   *)
(* of the array that are in use (list_slots) remembers it.  The array is   *)
(* not given an end here: the code's has room for MAX_LIST_MAPPINGS slots, *)
(* deleted ones included, and does not look (c/rdfa_utils.c:314).          *)
(***************************************************************************)
EXTENDS RdfaSubject

CONSTANT
  Reresolved         \* what rdfa_resolve_relrev_curie makes of an IRI that
                     \* an earlier call has already produced
ASSUME ReresolvedAssumption == Reresolved \in [Iris -> Iris]

(***************************************************************************)
(* rdfa_create_triple: without a subject, a predicate or an object, none   *)
(* of the three is set.  "by" names the function that sends the triple.    *)
(***************************************************************************)
Senders == {"vocab", "type", "relrev", "hanging", "property",
            "list", "first", "rest", "nil", "warning", "error", "prefix"}
Triples == [by : Senders, s : Maybe(Resources), p : Maybe(Iris), o : Values]

Triple(by, s, p, o) ==
  IF s # NULL /\ p # NULL /\ o # NULL
  THEN [by |-> by, s |-> s, p |-> p, o |-> o]
  ELSE [by |-> by, s |-> NULL, p |-> NULL, o |-> NULL]

-----------------------------------------------------------------------------
(* Creating entries.  keys is a function from positions to keys, in the    *)
(* order the code's loop visits them; a key may come twice.                *)

KeysOf(subject, preds) ==
  [i \in DOMAIN preds |-> <<subject, Reresolved[preds[i]]>>]

FreshKeys(c, keys) ==
  {keys[i] : i \in DOMAIN keys} \ {l.key : l \in c.local_list_mappings}

FirstAt(keys, k) ==
  CHOOSE i \in DOMAIN keys :
    keys[i] = k /\ \A j \in DOMAIN keys : keys[j] = k => i <= j

FreshBefore(c, keys, k) ==
  Cardinality({m \in FreshKeys(c, keys) : FirstAt(keys, m) < FirstAt(keys, k)})

\* rdfa_create_list_mapping, for every key of the loop that has no entry.
CreateListMappings(c, keys) ==
  LET fresh == FreshKeys(c, keys)
      entry(k) ==
        [key |-> k, slot |-> c.list_slots + FreshBefore(c, keys, k),
         depth |-> c.depth,
         head |-> Bnode(c.bnode_count + FreshBefore(c, keys, k)),
         items |-> << >>]
  IN  [c EXCEPT
         !.local_list_mappings = @ \cup {entry(k) : k \in fresh},
         !.list_slots = @ + Cardinality(fresh),
         !.bnode_count = @ + Cardinality(fresh)]

\* rdfa_append_to_list_mapping, once for each position that holds the key.
Copies(keys, k, value) ==
  [n \in 1 .. Cardinality({i \in DOMAIN keys : keys[i] = k}) |-> value]

\* Mutant: the value is put in front.
PrependToListMappings(c, keys, value) ==
  [c EXCEPT !.local_list_mappings =
     {[l EXCEPT !.items = Copies(keys, l.key, value) \o @] : l \in @}]

AppendToListMappings(c, keys, value) ==
  [c EXCEPT !.local_list_mappings =
     {[l EXCEPT !.items = @ \o Copies(keys, l.key, value)] : l \in @}]

-----------------------------------------------------------------------------
(* The operations of c/lists.c.                                            *)

EstablishNewInlistTriples(c, preds, value) ==
  LET keys == KeysOf(c.new_subject, preds)
  IN  AppendToListMappings(CreateListMappings(c, keys), keys, value)

SaveIncompleteListTriples(c, preds) ==
  LET keys == KeysOf(c.new_subject, preds)
  IN  [CreateListMappings(c, keys) EXCEPT
         !.local_incomplete_triples =
            @ \o [i \in DOMAIN preds |->
                    [dir |-> "none", pred |-> Reresolved[preds[i]]]]]

(***************************************************************************)
(* rdfa_complete_list_triples, for the lists created below the element     *)
(* that ends.  (The look-up in the inherited list_mappings prefixes the    *)
(* subject to a key that already starts with one, so it never finds        *)
(* anything and does not restrict the loop.)                               *)
(***************************************************************************)
Finished(c) == {l \in c.local_list_mappings : c.depth < l.depth}

\* The list cells that need a blank node of their own: all but the first.
Cells(c) ==
  UNION {{<<l.slot, i>> : i \in 2 .. Len(l.items)} : l \in Finished(c)}

Earlier(x, y) == x[1] < y[1] \/ (x[1] = y[1] /\ x[2] < y[2])

CellName(c, l, i) ==
  IF i = 1 THEN l.head
  ELSE Bnode(c.bnode_count
             + Cardinality({x \in Cells(c) : Earlier(x, <<l.slot, i>>)}))

EmptyListTriples(c, l) == {Triple("nil", c.new_subject, l.key[2], RdfNil)}

ChainTriples(c, l) ==
  LET last == Len(l.items)
  IN  {Triple("list", l.key[1], l.key[2], l.head)}
      \cup {[by |-> "first", s |-> CellName(c, l, i), p |-> RdfFirst,
             o |-> l.items[i]] : i \in 1 .. last}
      \cup {Triple("rest", CellName(c, l, i), RdfRest,
                   IF i < last THEN CellName(c, l, i + 1) ELSE RdfNil) :
              i \in 1 .. last}

ListTriples(c) ==
  UNION {IF l.items = << >> THEN EmptyListTriples(c, l) ELSE ChainTriples(c, l) :
           l \in Finished(c)}

\* Mutant: the entries are not marked as deleted.
AfterListsKeepingThem(c) ==
  [c EXCEPT !.bnode_count = @ + Cardinality(Cells(c))]

AfterLists(c) ==
  [c EXCEPT !.local_list_mappings = @ \ Finished(c),
            !.bnode_count = @ + Cardinality(Cells(c))]
=============================================================================
