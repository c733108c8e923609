---------------------------- MODULE RdfaMapping ----------------------------
(***************************************************************************)
(* The mappings of c/rdfa_utils.c: an array of pointers that holds keys    *)
(* and values in turn.  Every loop over it stops at the first key that is  *)
(* null, so the sequence of pairs in front of that key is all there is to  *)
(* a mapping.  A value may be null, a key may not.                         *)
(***************************************************************************)
EXTENDS Naturals, Sequences

CONSTANTS
  NULL,              \* the null pointer
  Capacity           \* room for pairs, MAX_URI_MAPPINGS in the code

ASSUME CapacityAssumption == Capacity \in Nat \ {0}

\* rdfa_create_mapping allocates Capacity pairs and nothing to stop at behind
\* them: a loop that finds them all in use goes on past the end.
IsFull(m) == Len(m) >= Capacity

Positions(m, key) == {i \in DOMAIN m : m[i].key = key}
IsKey(m, key)     == Positions(m, key) # {}

\* rdfa_update_mapping: the first pair with the key gets the value; without
\* one a pair is written behind the last, whether or not there is room.
\* Mutant: a key that exists is not found.
AppendMapping(m, key, value) == Append(m, [key |-> key, value |-> value])

\* Mutant: a key that exists keeps its value.
KeepMapping(m, key, value) ==
  IF IsKey(m, key) THEN m ELSE Append(m, [key |-> key, value |-> value])

UpdateMapping(m, key, value) ==
  IF IsKey(m, key)
  THEN LET first == CHOOSE i \in Positions(m, key) :
                      \A j \in Positions(m, key) : i <= j
       IN  [m EXCEPT ![first].value = value]
  ELSE Append(m, [key |-> key, value |-> value])

\* rdfa_get_mapping goes on after a match: the last pair with the key counts.
GetMapping(m, key) ==
  IF IsKey(m, key)
  THEN LET last == CHOOSE i \in Positions(m, key) :
                     \A j \in Positions(m, key) : j <= i
       IN  m[last].value
  ELSE NULL
=============================================================================
