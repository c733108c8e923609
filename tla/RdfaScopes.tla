----------------------------- MODULE RdfaScopes -----------------------------
(***************************************************************************)
(* What the prefix mappings of c/namespace.c and c/rdfa_utils.c promise:   *)
(* every open element has a function from prefixes to IRIs, a new element  *)
(* starts with its parent's, a declaration changes one prefix of the       *)
(* innermost element, and the end of an element brings the parent's back.  *)
(***************************************************************************)
EXTENDS Naturals, Sequences

CONSTANTS Keys, Values   \* null is one of the values

VARIABLE scopes

Init == Len(scopes) = 1 /\ scopes[1] \in [Keys -> Values]

Enter == scopes # << >> /\ scopes' = Append(scopes, scopes[Len(scopes)])

Declare(key, value) ==
  /\ scopes # << >>
  /\ scopes' = [scopes EXCEPT ![Len(scopes)] = [@ EXCEPT ![key] = value]]

Leave == Len(scopes) > 1 /\ scopes' = SubSeq(scopes, 1, Len(scopes) - 1)

Finish == scopes' = << >>

Next ==
  \/ Enter
  \/ \E key \in Keys, value \in Values : Declare(key, value)
  \/ Leave
  \/ Finish

Spec == Init /\ [][Next]_scopes
=============================================================================
