---------------------------- MODULE RdfaPrefixes ----------------------------
(***************************************************************************)
(* The prefixes, terms and vocabulary of the contexts on the stack, from   *)
(* rdfa_setup_initial_context through the declarations of each element to  *)
(* the end of the document.                                                *)
(*                                                                         *)
(* start_element reads the namespaces first, then @version, then @vocab    *)
(* and @prefix in one loop; the two touch different fields, so @vocab is   *)
(* read with @version here.  Each turn of a loop over declarations is an   *)
(* action; "phase" is where the handler stands between them, and is        *)
(* "content" between two handlers, where values are resolved under Top.    *)
(*                                                                         *)
(* A mapping that has come to use all its room has no null key at its end. *)
(* Whatever loops over it then reads behind it, and what happens next is   *)
(* undefined: the phase "overrun".                                         *)
(***************************************************************************)
EXTENDS RdfaNames, FiniteSets

CONSTANTS
  Prologues,         \* versions and host languages the document can announce
  InitialPrefixes,   \* the prefixes that RDFa 1.1 starts with
  Rdfa11Terms,       \* the terms that only RDFa 1.1 starts with
  SharedTerms,       \* those that both it and XHTML start with
  XhtmlTerms,        \* those that only XHTML starts with
  Base,              \* the base of the document
  Iris,              \* what documents declare prefixes and vocabularies as
  Written,           \* what documents write in the other attributes
  MaxDepth,          \* bound: elements open at once
  MaxDeclarations    \* bound: declarations in a document

ASSUME PrefixesAssumption ==
  /\ Prologues \subseteq [version : {"1.0", "1.1"},
                          host : {"XML1", "XHTML1", "HTML"}]
  /\ InitialPrefixes \in Seq([key : Names, value : Strings])
  /\ Len(InitialPrefixes) < Capacity
  /\ \A i, j \in DOMAIN InitialPrefixes :
       InitialPrefixes[i].key = InitialPrefixes[j].key => i = j
  /\ \A i \in DOMAIN InitialPrefixes : InitialPrefixes[i].key # Underscore
  /\ Rdfa11Terms \in Seq([key : Names, value : Strings])
  /\ SharedTerms \in Seq([key : Names, value : Strings])
  /\ XhtmlTerms \in Seq([key : Names, value : Strings])
  /\ Base \in Strings /\ Iris \subseteq Strings
  /\ Written \subseteq {s \in Strings : s.colon \/ s.ref = << >>}
  /\ MaxDepth \in Nat /\ MaxDeclarations \in Nat

VARIABLES stack, phase, declarations

vars == <<stack, phase, declarations>>

Phases == {"content", "xmlns", "prefixes", "ended", "overrun"}

Top == stack[Len(stack)]

InitialTerms(p) ==
  (IF p.version = "1.1" THEN Rdfa11Terms ELSE << >>) \o
  (IF p.version = "1.1" \/ p.host = "XHTML1" THEN SharedTerms ELSE << >>) \o
  (IF p.host = "XHTML1" THEN XhtmlTerms ELSE << >>)

Root(p) ==
  [version |-> p.version, host |-> p.host,
   uris |-> IF p.version = "1.1" THEN InitialPrefixes ELSE << >>,
   terms |-> InitialTerms(p), vocab |-> NULL, base |-> Base]

Init ==
  /\ \E p \in Prologues : stack = <<Root(p)>>
  /\ phase = "content" /\ declarations = 0

-----------------------------------------------------------------------------
Overrun == phase' = "overrun" /\ UNCHANGED <<stack, declarations>>

\* start_element copies the mappings of the context on top of the stack.
StartElement ==
  /\ phase = "content" /\ Len(stack) <= MaxDepth
  /\ IF IsFull(Top.uris) THEN Overrun
     ELSE /\ stack' = Append(stack, Top) /\ phase' = "xmlns"
          /\ UNCHANGED declarations

\* rdfa_update_uri_mappings, on the context of the current element.
Declare(name, iri) ==
  /\ declarations < MaxDeclarations /\ declarations' = declarations + 1
  /\ stack' = [stack EXCEPT ![Len(stack)].uris =
                 UpdateUriMappings(@, name, iri)]

\* The search for a new prefix does not end in a full mapping.
SearchesOn(name) ==
  /\ IsFull(Top.uris) /\ Accepts(name)
  /\ ~IsKey(Top.uris, IF name = NULL THEN DefaultMapping ELSE name)

XmlnsName(name) == IF name = NULL THEN NULL ELSE LowerCase[name]

DeclareXmlns(name, iri) ==
  /\ phase = "xmlns"
  /\ IF SearchesOn(XmlnsName(name)) THEN Overrun
     ELSE Declare(XmlnsName(name), iri) /\ UNCHANGED phase

\* Without the attributes the version and the vocabulary are the parent's.
ReadAttributes ==
  /\ phase = "xmlns" /\ phase' = "prefixes"
  /\ \E version \in {"1.0", "1.1"}, vocab \in Iris \cup {NULL, Top.vocab} :
       stack' = [stack EXCEPT
         ![Len(stack)].version = version,
         ![Len(stack)].vocab = IF version = "1.1" THEN vocab ELSE @]
  /\ UNCHANGED declarations

\* A prefix that has no IRI is the last in its attribute.
DeclarePrefix(name, iri) ==
  /\ phase = "prefixes" /\ Top.version = "1.1"
  /\ IF SearchesOn(name) THEN Overrun
     ELSE /\ Declare(name, iri)
          /\ phase' = IF iri = NULL THEN "content" ELSE phase

PrefixesRead ==
  phase = "prefixes" /\ phase' = "content" /\ UNCHANGED <<stack, declarations>>

\* Mutant: the mapping goes back to the parent, as that of lists does.
EndElementReturningUris ==
  /\ phase = "content" /\ Len(stack) > 1
  /\ stack' = [SubSeq(stack, 1, Len(stack) - 1) EXCEPT
                 ![Len(stack) - 1].uris = Top.uris]
  /\ UNCHANGED <<phase, declarations>>

\* end_element pops the context and frees its mappings.
EndElement ==
  /\ phase = "content" /\ Len(stack) > 1
  /\ IF IsFull(Top.uris) THEN Overrun
     ELSE /\ stack' = SubSeq(stack, 1, Len(stack) - 1)
          /\ UNCHANGED <<phase, declarations>>

\* rdfa_parse_end frees the contexts that are left, rdfa_free_context the root.
ParseEnd ==
  /\ phase = "content"
  /\ IF \E i \in DOMAIN stack : IsFull(stack[i].uris) THEN Overrun
     ELSE stack' = << >> /\ phase' = "ended" /\ UNCHANGED declarations

Next ==
  \/ StartElement
  \/ \E name \in Names \cup {NULL}, iri \in Iris : DeclareXmlns(name, iri)
  \/ ReadAttributes
  \/ \E name \in Names, iri \in Iris \cup {NULL} : DeclarePrefix(name, iri)
  \/ PrefixesRead
  \/ EndElement
  \/ ParseEnd

Spec == Init /\ [][Next]_vars

-----------------------------------------------------------------------------
(***************************************************************************)
(* Type correctness of the contexts that rdfa_create_new_element_context   *)
(* copies and start_element changes.                                       *)
(***************************************************************************)
TypeOK ==
  /\ stack \in Seq(NameContexts)
  /\ phase \in Phases /\ declarations \in Nat
  /\ phase = "ended" <=> stack = << >>
  /\ phase \in {"xmlns", "prefixes"} => Len(stack) > 1

(***************************************************************************)
(* rdfa_get_mapping takes the last pair with a key and rdfa_update_mapping *)
(* changes the first, and the array has an order and an end: none of that  *)
(* shows.  The array is a function from prefixes to IRIs, of which a       *)
(* declaration changes one place and which comes back when the element     *)
(* ends.                                                                   *)
(***************************************************************************)
Keys == Names \cup {DefaultMapping}

\* Declared IRIs are not processed in any way.
Bound ==
  Iris \cup {InitialPrefixes[i].value : i \in DOMAIN InitialPrefixes}
       \cup {NULL}

Scope(c) == [key \in Keys |-> GetMapping(c.uris, key)]

Scopes ==
  INSTANCE RdfaScopes WITH
    scopes <- [i \in DOMAIN stack |-> Scope(stack[i])],
    Values <- Bound

ScopesSpec == Scopes!Spec

(***************************************************************************)
(* A declaration that is not refused is what its prefix means from then    *)
(* on, however and wherever the prefix was declared before: later ones     *)
(* replace earlier ones (the comment at c/namespace.c:44-47).              *)
(***************************************************************************)
Declares(name, iri) ==
  \/ name # NULL /\ DeclarePrefix(name, iri)
  \/ \E written \in Names \cup {NULL} :
       XmlnsName(written) = name /\ DeclareXmlns(written, iri)

DeclarationTakesEffect ==
  \A name \in Names \cup {NULL}, iri \in Iris \cup {NULL} :
    Accepts(name) /\ Declares(name, iri) /\ phase' # "overrun" =>
      GetMapping(Top'.uris, IF name = NULL THEN DefaultMapping ELSE name) = iri

DeclarationsTakeEffect == [][DeclarationTakesEffect]_vars

(***************************************************************************)
(* A loop runs past the end of a mapping (rdfa_copy_mapping,               *)
(* rdfa_update_mapping, rdfa_free_mapping have no other bound than a null  *)
(* key) only if an open element has as many different prefixes in scope as *)
(* there is room for: neither a prefix that is declared again nor the      *)
(* prefixes of elements that have ended use any.                           *)
(***************************************************************************)
OverrunNeedsManyPrefixes ==
  phase = "overrun" =>
    \E i \in DOMAIN stack :
      Cardinality({key \in Keys : IsKey(stack[i].uris, key)}) >= Capacity

\* What values can be resolved under: the context of the element whose
\* declarations have been read, or the root context with its initial ones.
Resolving == phase = "content"

(***************************************************************************)
(* lists.c resolves the predicates of a list although start_element has    *)
(* resolved them already.  In RDFa 1.1, the only version with lists, that  *)
(* changes nothing, unless the scheme of the predicate is also a prefix.   *)
(***************************************************************************)
PredicatesResolveOnce ==
  Resolving /\ Top.version = "1.1" =>
    \A s \in Written :
      LET predicate == ResolveRelRev(Top, s)
      IN  \/ predicate \in {NULL, Anonymous}
          \/ IsKey(Top.uris, predicate.prefix)
          \/ ResolveRelRev(Top, predicate) = predicate

(***************************************************************************)
(* A value with the prefix "_" names the same blank node wherever it is    *)
(* written as a subject, an object or a type, and as a @property it names  *)
(* nothing but that node, whatever the document declares (c/namespace.c    *)
(* refuses the prefix).  (The test "Blank named safe CURIE", at            *)
(* tests/curies.c:273, expects "[_:frank]" to name it as a @property; it   *)
(* names nothing, by c/curie.c:447.)                                       *)
(***************************************************************************)
BlankValues == {v \in Written : v.prefix = Underscore /\ v.ref # << >>}

BlankValuesStayBlank ==
  Resolving =>
    \A s \in BlankValues :
      /\ \A mode \in {"ABOUT_RESOURCE", "INSTANCEOF_DATATYPE", "HREF_SRC"} :
           Resolve(Top, s, mode) = Iri(Underscore, s.ref)
      /\ Resolve(Top, s, "PROPERTY") \in {NULL, Iri(Underscore, s.ref)}

(***************************************************************************)
(* A vocabulary (@vocab) is for names only: it does not change what a      *)
(* value with a prefix or a scheme means, in any attribute.                *)
(***************************************************************************)
VocabularyIsForNamesOnly ==
  Resolving =>
    \A s \in {v \in Written : v.colon /\ v.prefix # NULL}, mode \in Modes :
      Resolve(Top, s, mode) =
        Resolve([Top EXCEPT !.vocab = NULL], s, mode)
=============================================================================
