---------------------------- MODULE RdfaTriples ----------------------------
(***************************************************************************)
(* c/triple.c: the triples an element gives rise to, and the incomplete    *)
(* triples it leaves for its descendants.                                  *)
(***************************************************************************)
EXTENDS RdfaLists

\* rdfa_complete_type_triples
TypeTriples(c) ==
  LET subject == IF c.rdfa_version = RDFA_VERSION_1_0 THEN c.new_subject
                 ELSE c.typed_resource
      types   == c.attrs.typeof
  IN  IF c.new_subject = NULL \/ types = NULL THEN {}
      ELSE {Triple("type", subject, RdfType, types[i]) : i \in DOMAIN types}

\* The predicates of @rel and of @rev, none without the attribute.
Rels(a) == IF a.rel = NULL THEN << >> ELSE a.rel
Revs(a) == IF a.rev = NULL THEN << >> ELSE a.rev

\* Both directions of rdfa_complete_relrev_triples.
RelRevPairs(c) ==
  LET object == c.current_object_resource
      rels   == Rels(c.attrs)
      revs   == Revs(c.attrs)
  IN  {Triple("relrev", c.new_subject, rels[i], object) : i \in DOMAIN rels}
      \cup {Triple("relrev", object, revs[i], c.new_subject) : i \in DOMAIN revs}

RelRevTriples(c) ==
  IF c.current_object_resource = NULL THEN {} ELSE RelRevPairs(c)

\* rdfa_save_incomplete_triples: the element becomes hanging, with a new
\* blank node as the object its descendants may describe.
OpenPredicates(a) ==
  [i \in DOMAIN Rels(a) |-> [dir |-> "forward", pred |-> Rels(a)[i]]]
  \o [i \in DOMAIN Revs(a) |-> [dir |-> "reverse", pred |-> Revs(a)[i]]]

\* Mutant: the name is read from the counter but not drawn.
SaveIncompleteTriplesUndrawn(c) ==
  [c EXCEPT !.current_object_resource = NextBnode(c),
            !.local_incomplete_triples = @ \o OpenPredicates(c.attrs)]

SaveIncompleteTriples(c) ==
  [c EXCEPT !.current_object_resource = NextBnode(c), !.bnode_count = @ + 1,
            !.local_incomplete_triples = @ \o OpenPredicates(c.attrs)]

(***************************************************************************)
(* rdfa_complete_incomplete_triples: every predicate the nearest ancestor  *)
(* left open is completed with this element's subject; one without a       *)
(* direction adds the subject to the ancestor's list instead.              *)
(***************************************************************************)
HangingTriples(c) ==
  {CASE inc.dir = "forward" ->
          Triple("hanging", c.parent_subject, inc.pred, c.new_subject)
     [] OTHER ->
          Triple("hanging", c.new_subject, inc.pred, c.parent_subject) :
     inc \in {c.incomplete_triples[i] :
                i \in {j \in DOMAIN c.incomplete_triples :
                         c.incomplete_triples[j].dir # "none"}}}

CompleteIncompleteTriples(c) ==
  LET listed == {i \in DOMAIN c.incomplete_triples :
                   c.incomplete_triples[i].dir = "none"}
      keys   == [i \in listed |->
                   <<c.parent_subject, c.incomplete_triples[i].pred>>]
  IN  [AppendToListMappings(CreateListMappings(c, keys), keys, c.new_subject)
         EXCEPT !.incomplete_triples = << >>]

-----------------------------------------------------------------------------
(* The value of @property.                                                 *)

Literal(text, kind, language) ==
  [lit |-> [text |-> text], kind |-> kind, lang |-> language]

LiteralOrNull(c, text, kind) ==
  IF text = NULL THEN NULL ELSE Literal(text, kind, c.language)

\* The text between the start tag and the end tag, markup included.  (What
\* else there is of an XML literal is in RdfaMarkup.)
XmlText(c) == IF c.plain_literal = NULL THEN << >> ELSE c.plain_literal

\* rdfa_complete_current_property_value_triples (RDFa 1.1)
CurrentPropertyValue(c) ==
  LET a        == c.attrs
      text     == FirstSet(<<a.content, c.plain_literal>>)
      resource == IF a.rel # NULL \/ a.rev # NULL THEN NULL
                  ELSE FirstSet(<<a.resource, a.href, a.src,
                         IF a.about = NULL THEN c.typed_resource ELSE NULL>>)
  IN  CASE a.datatype = XmlLiteral -> Literal(XmlText(c), "xml", c.language)
        [] a.datatype \notin {NULL, XmlLiteral} ->
             LiteralOrNull(c, text, IF a.datatype = EmptyDatatype
                                    THEN "plain" ELSE "typed")
        [] a.datatype = NULL /\ a.content = NULL /\ resource # NULL -> resource
        [] OTHER -> LiteralOrNull(c, text, "plain")

\* rdfa_complete_object_literal_triples (RDFa 1.0)
CurrentObjectLiteral(c) ==
  LET a     == c.attrs
      text  == FirstSet(<<a.content, c.plain_literal>>)
      plain == \/ a.content # NULL
               \/ c.inner # "markup"
               \/ c.plain_literal = << >>
               \/ a.datatype = EmptyDatatype
  IN  CASE a.datatype \notin {NULL, EmptyDatatype, XmlLiteral}
             \/ (a.datatype = XmlLiteral /\ a.content # NULL) ->
             LiteralOrNull(c, text, "typed")
        [] plain -> LiteralOrNull(c, text, "plain")
        [] OTHER -> Literal(XmlText(c), "xml", c.language)

\* strlen(context->plain_literal) is reached with a null plain literal when
\* there is a '<' in the element's content and no text (RDFa 1.0 only).
ReadsNullLiteral(c) ==
  /\ c.rdfa_version = RDFA_VERSION_1_0
  /\ c.attrs.property # NULL /\ c.attrs.content = NULL
  /\ c.inner = "markup" /\ c.plain_literal = NULL

PropertyTriples(c) ==
  LET value == IF c.rdfa_version = RDFA_VERSION_1_0
               THEN CurrentObjectLiteral(c) ELSE CurrentPropertyValue(c)
  IN  IF c.attrs.property = NULL \/ c.attrs.inlist THEN {}
      ELSE {Triple("property", c.new_subject, c.attrs.property[i], value) :
              i \in DOMAIN c.attrs.property}

\* With @inlist the value goes to the lists of the predicates instead.
AfterProperty(c) ==
  IF c.attrs.property = NULL \/ ~c.attrs.inlist THEN c
  ELSE EstablishNewInlistTriples(c, c.attrs.property, CurrentPropertyValue(c))
=============================================================================
