------------------------------ MODULE MCMarkup ------------------------------
(***************************************************************************)
(* Start tags for RdfaMarkup: properties of both kinds, with and without a *)
(* prefix, a language, an attribute that contains '>', or '>' and then     *)
(* '<', and one that is named like a prefix.                               *)
(***************************************************************************)
EXTENDS RdfaMarkup

CONSTANTS ex, rev, iri1, iri2

Plain ==
  [declares |-> NoNamespaces, lang |-> NULL, prefixed |-> FALSE,
   property |-> "none", shadow |-> NULL, torn |-> "empty"]

MCTags ==
  {Plain,
   [Plain EXCEPT !.property = "XMLLiteral"],
   [Plain EXCEPT !.property = "untyped", !.torn = "text"],
   [Plain EXCEPT !.property = "untyped", !.torn = "markup"],
   [Plain EXCEPT !.lang = "en", !.shadow = rev],
   [Plain EXCEPT !.lang = "fr", !.prefixed = TRUE, !.property = "XMLLiteral"],
   [Plain EXCEPT !.lang = "", !.prefixed = TRUE],
   [Plain EXCEPT !.declares = [p \in {ex} |-> iri2],
                 !.property = "XMLLiteral"],
   [Plain EXCEPT !.declares = [p \in {ex} |-> NULL]]}

MCInitial == [p \in {ex, rev} |-> IF p = rev THEN iri1 ELSE Unmapped]
=============================================================================
