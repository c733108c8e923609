----------------------------- MODULE RdfaNames -----------------------------
(***************************************************************************)
(* c/curie.c and c/namespace.c: what an attribute value stands for, under  *)
(* the prefixes, the terms and the vocabulary of a context.                *)
(*                                                                         *)
(* A value is split where the code splits it: at its brackets, if they     *)
(* make it a safe CURIE, and at its first colon.  An IRI is a value too,   *)
(* with its scheme as the prefix; what follows the colon is a sequence, so *)
(* that a reference can be joined to an IRI.                               *)
(***************************************************************************)
EXTENDS RdfaMapping

CONSTANTS
  Names,             \* prefixes, schemes, terms and references
  LowerCase,         \* tolower, on names
  StartsName,        \* the names whose first character may start a prefix
  Underscore,        \* the name "_"
  Open, Close,       \* "[" and "]", where they do not make a safe CURIE
  DefaultMapping,    \* XMLNS_DEFAULT_MAPPING
  XhtmlVocab,        \* XHTML_VOCAB_URI
  Anonymous          \* the name drawn for "_:", underscore_colon_bnode_name

ASSUME NamesAssumption ==
  /\ LowerCase \in [Names -> Names] /\ LowerCase[Underscore] = Underscore
  /\ StartsName \cup {Underscore, Open, Close} \subseteq Names
  /\ NULL \notin Names /\ DefaultMapping \notin Names \cup {NULL}

Strings ==
  [safe : BOOLEAN, prefix : Names \cup {NULL}, colon : BOOLEAN,
   ref : Seq(Names)]

ASSUME NullAssumption == NULL \notin Strings

Iri(scheme, ref) ==
  [safe |-> FALSE, prefix |-> scheme, colon |-> TRUE, ref |-> ref]

Name(n) == [safe |-> FALSE, prefix |-> n, colon |-> FALSE, ref |-> << >>]

Join(iri, ref) == [iri EXCEPT !.ref = @ \o ref]

\* The text of a value without a colon.
Text(s) ==
  LET text == IF s.prefix = NULL THEN s.ref ELSE <<s.prefix>> \o s.ref
  IN  IF s.safe THEN <<Open>> \o text \o <<Close>> ELSE text

Modes ==
  {"HREF_SRC", "ABOUT_RESOURCE", "INSTANCEOF_DATATYPE", "PROPERTY", "RELREV"}

\* The part of a context that names depend on.
NameContexts ==
  [version : {"1.0", "1.1"}, host : {"XML1", "XHTML1", "HTML"},
   uris : Seq([key : Names \cup {DefaultMapping},
               value : Strings \cup {NULL}]),
   terms : Seq([key : Names, value : Strings]),
   vocab : Strings \cup {NULL}, base : Strings]

-----------------------------------------------------------------------------
(* rdfa_update_uri_mappings.  A default namespace has a key of its own;    *)
(* "_" and names that cannot start a prefix are refused with a warning.    *)

Accepts(name) == name = NULL \/ (name # Underscore /\ name \in StartsName)

\* Mutants: "_" is a prefix like any other; the default namespace has no key.
UpdateAnyUriMapping(uris, name, iri) == UpdateMapping(uris, name, iri)

UpdateNullUriMapping(uris, name, iri) ==
  IF Accepts(name) THEN UpdateMapping(uris, name, iri) ELSE uris

UpdateUriMappings(uris, name, iri) ==
  IF name = NULL THEN UpdateMapping(uris, DefaultMapping, iri)
  ELSE IF Accepts(name) THEN UpdateMapping(uris, name, iri) ELSE uris

-----------------------------------------------------------------------------
(* rdfa_resolve_uri, with the path of the base left out: an IRI stays as   *)
(* it is, everything else is joined to the base.                           *)
\* Mutant: a scheme does not keep an IRI from being joined.
ResolveUriAlways(c, s) == Join(c.base, Text(s))

ResolveUri(c, s) == IF s.colon THEN s ELSE Join(c.base, Text(s))

(***************************************************************************)
(* rdfa_resolve_curie.  The result is NULL, or the string that the value   *)
(* stands for, or Anonymous for the node that "_:" names.                  *)
(***************************************************************************)
IsEmptyCurie(s) == s.safe /\ s.prefix = NULL /\ ~s.colon /\ s.ref = << >>
IsAnonymous(s)  == s.prefix = Underscore /\ s.colon /\ s.ref = << >>
IsPredicate(mode) == mode \in {"PROPERTY", "RELREV"}

\* Where a CURIE cannot be meant.
IsIri(c, s, mode) ==
  /\ ~s.safe
  /\ mode = "HREF_SRC" \/ (c.version = "1.0" /\ mode = "ABOUT_RESOURCE")

\* strtok_r skips the colon of "[:r]" and takes the reference for a prefix.
Parts(s) ==
  IF s.safe /\ s.prefix = NULL /\ s.ref # << >>
  THEN [prefix |-> Head(s.ref), ref |-> Tail(s.ref)]
  ELSE [prefix |-> s.prefix, ref |-> s.ref]

\* What the prefix expands to: the XHTML vocabulary for an empty one, itself
\* for the "_" of a blank node, what the context maps it to otherwise.
Expansion(c, s, mode) ==
  LET prefix == Parts(s).prefix
  IN  IF s.colon /\ prefix = NULL THEN XhtmlVocab
      ELSE IF prefix = NULL THEN NULL
      ELSE IF prefix = Underscore /\ ~IsPredicate(mode)
      THEN Name(Underscore)
      ELSE GetMapping(c.uris, prefix)

\* A blank node needs a reference, an IRI does not.
ExpandedCurie(c, s, mode) ==
  LET expansion == Expansion(c, s, mode)
      ref       == Parts(s).ref
  IN  IF expansion = NULL \/ (expansion.prefix = Underscore /\ ref = << >>)
      THEN NULL
      ELSE IF expansion = Name(Underscore) THEN Iri(Underscore, ref)
      ELSE Join(expansion, ref)

\* What is tried last, in RDFa 1.1: the vocabulary, then the base.
\* Mutant: the vocabulary takes names with a colon too.
VocabularyForAll(c, s, mode) ==
  IF c.vocab # NULL
     /\ mode \in {"PROPERTY", "RELREV", "INSTANCEOF_DATATYPE"}
  THEN Join(c.vocab, Text(s)) ELSE NULL

VocabularyOrBase(c, s, mode) ==
  IF /\ c.vocab # NULL /\ ~s.colon
     /\ mode \in {"PROPERTY", "RELREV", "INSTANCEOF_DATATYPE"}
  THEN Join(c.vocab, Text(s))
  ELSE IF /\ mode \in {"PROPERTY", "ABOUT_RESOURCE", "INSTANCEOF_DATATYPE"}
          /\ ~(s.colon /\ s.prefix = Underscore)
  THEN ResolveUri(c, s)
  ELSE NULL

Term(c, s) ==
  IF s.safe \/ s.colon \/ s.prefix = NULL THEN NULL
  ELSE GetMapping(c.terms, s.prefix)

\* A value of @property may be a term; nothing else that is a CURIE may.
Curie(c, s, mode) ==
  IF mode = "PROPERTY" /\ Term(c, s) # NULL THEN Term(c, s)
  ELSE ExpandedCurie(c, s, mode)

ResolveCurie(c, s, mode) ==
  LET curie == Curie(c, s, mode)
  IN  IF IsIri(c, s, mode) THEN ResolveUri(c, s)
      ELSE IF curie # NULL THEN curie
      ELSE IF IsAnonymous(s) THEN Anonymous
      ELSE IF c.version = "1.1" /\ ~IsEmptyCurie(s)
      THEN VocabularyOrBase(c, s, mode)
      ELSE NULL

(***************************************************************************)
(* rdfa_resolve_relrev_curie: without a vocabulary, a name that is a term  *)
(* of the host language means that term, with or without an empty prefix;  *)
(* in RDFa 1.1 anything that is not a CURIE is an IRI.                     *)
(***************************************************************************)
RelRevTerm(c, s) ==
  LET name == IF s.prefix # NULL /\ ~s.colon THEN s.prefix
              ELSE IF s.prefix = NULL /\ s.colon /\ Len(s.ref) = 1
              THEN Head(s.ref) ELSE NULL
  IN  IF s.safe \/ name = NULL \/ c.vocab # NULL THEN NULL
      ELSE GetMapping(c.terms,
                      IF c.host = "XHTML1" THEN LowerCase[name] ELSE name)

ResolveRelRev(c, s) ==
  LET curie == ResolveCurie(c, s, "RELREV")
  IN  IF RelRevTerm(c, s) # NULL THEN RelRevTerm(c, s)
      ELSE IF curie = NULL /\ c.version = "1.1" THEN ResolveUri(c, s)
      ELSE curie

Resolve(c, s, mode) ==
  IF mode = "RELREV" THEN ResolveRelRev(c, s) ELSE ResolveCurie(c, s, mode)
=============================================================================
