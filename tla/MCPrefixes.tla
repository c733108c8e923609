----------------------------- MODULE MCPrefixes -----------------------------
(***************************************************************************)
(* Values for the constants of RdfaPrefixes.  One prefix is declared from  *)
(* the start and two, one of them also in upper case, are left to the      *)
(* document, which may try "_", a name that starts with a digit and the    *)
(* scheme of its IRIs as well.                                             *)
(***************************************************************************)
EXTENDS RdfaPrefixes

CONSTANTS dc, DC, foaf, under, digit, http, next, made, open, close

MCNames == {dc, DC, foaf, under, digit, http, next, made, open, close}

MCLowerCase == [n \in MCNames |-> IF n = DC THEN dc ELSE n]

MCBase == Iri(http, <<made>>)
MCIris == {Iri(http, <<made, made>>)}
MCVocab == Iri(http, <<next, next>>)
MCPrologues ==
  {[version |-> "1.1", host |-> "XHTML1"],
   [version |-> "1.0", host |-> "XHTML1"],
   [version |-> "1.1", host |-> "XML1"]}

MCInitialPrefixes == <<[key |-> foaf, value |-> Iri(http, <<foaf>>)]>>
MCRdfa11Terms == <<[key |-> dc, value |-> Iri(http, <<next, dc>>)]>>
MCSharedTerms == <<[key |-> made, value |-> Iri(http, <<next, made>>)]>>
MCXhtmlTerms == <<[key |-> next, value |-> Iri(http, <<next, next>>)]>>

Value(safe, prefix, colon, ref) ==
  [safe |-> safe, prefix |-> prefix, colon |-> colon, ref |-> ref]

MCWritten ==
  {Value(safe, prefix, TRUE, ref) : safe \in BOOLEAN,
     prefix \in {NULL, dc, DC, http, under}, ref \in {<< >>, <<made>>}}
  \cup {Value(safe, prefix, FALSE, << >>) : safe \in BOOLEAN,
          prefix \in {NULL, dc, next, made, foaf}}
=============================================================================
