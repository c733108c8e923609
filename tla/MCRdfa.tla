------------------------------- MODULE MCRdfa ------------------------------
(***************************************************************************)
(* Small instances of the processor for TLC: the start tags each question  *)
(* needs, built from the tag without attributes.                           *)
(***************************************************************************)
EXTENDS RdfaProperties

CONSTANTS alice, bob, knows, likes, dt, t1, t2, en, fr,
          Type, First, Rest, Nil, UsesVocab, ContextOf, DocBase

MCIris ==
  {alice, bob, knows, likes,
   Type, First, Rest, Nil, UsesVocab, ContextOf, DocBase}
MCTexts == {t1, t2}
MCMarkupTexts == {t2}
MCLanguages == {en, fr}
MCDatatypes == {dt}
Identity == [i \in MCIris |-> i]

Plain ==
  [version |-> NULL, vocab |-> NULL, lang |-> NULL, about |-> NULL,
   src |-> NULL, resource |-> NULL, href |-> NULL, typeof |-> NULL,
   rel |-> NULL, rev |-> NULL, property |-> NULL, content |-> NULL,
   datatype |-> NULL, inlist |-> FALSE, headbody |-> FALSE,
   prefixed |-> FALSE, warnings |-> 0, unbound |-> FALSE, torn |-> "empty"]

About(r)    == [Plain EXCEPT !.about = r]
Rel(s)      == [Plain EXCEPT !.rel = s]
Property(s) == [Plain EXCEPT !.property = s]
Content(s)  == [Property(s) EXCEPT !.content = <<t1>>]

Xml   == {[host |-> "XML1", version |-> v, base |-> NULL] :
            v \in {"1.0", "1.1"}}
Xml10 == {d \in Xml : d.version = "1.0"}
Xml11 == {d \in Xml : d.version = "1.1"}
Xhtml == {[host |-> "XHTML1", version |-> v, base |-> base] :
            v \in {"1.0", "1.1"}, base \in {NULL, bob}}

\* Hanging relations: predicates left open, and elements that complete them
\* or let them through.
HangingTags ==
  {Plain, About(alice), Rel(<<knows>>), [Plain EXCEPT !.rev = <<likes>>],
   [Plain EXCEPT !.rel = <<knows>>, !.rev = <<likes>>],
   [Rel(<<knows>>) EXCEPT !.resource = bob],
   [Plain EXCEPT !.typeof = <<alice>>], Content(<<likes>>)}
HangingRoots == {Plain, Rel(<<knows>>)}

\* Lists: values added by @property, with text, with the empty one or with
\* none, by @rel with an object, and by elements below a @rel without one,
\* under two subjects.
Inlist(tag) == [tag EXCEPT !.inlist = TRUE]
ListTags ==
  {Plain, About(alice), Inlist(Property(<<knows>>)), Inlist(Rel(<<knows>>)),
   Inlist([Rel(<<knows>>) EXCEPT !.resource = bob])}
ListRoots == {Plain}

\* Values: properties inside properties, listed or not, with a type, a
\* datatype, a relation or a resource beside them, in start tags that are torn
\* or have a prefix without an IRI, and languages set, replaced and taken back.
Lang(tag, l) == [tag EXCEPT !.lang = l]
LiteralTags ==
  {Plain, Rel(<<knows>>), Property(<<knows>>), Inlist(Property(<<knows>>)),
   Lang(Property(<<knows>>), en), Lang(Plain, fr), Lang(Plain, "empty"),
   [Property(<<likes>>) EXCEPT !.typeof = <<alice>>],
   [Property(<<knows>>) EXCEPT !.rel = <<likes>>, !.resource = bob],
   [Property(<<knows>>) EXCEPT !.datatype = dt],
   [Property(<<knows>>) EXCEPT !.datatype = dt, !.resource = bob],
   [Property(<<knows>>) EXCEPT !.datatype = "XMLLiteral"],
   [Property(<<likes>>) EXCEPT !.torn = "text", !.unbound = TRUE],
   [Property(<<likes>>) EXCEPT !.torn = "markup"]}

\* Documents that mix what changes the processor's mode: versions, implied
\* subjects, "_:", vocabularies, and warnings.
ModeTags ==
  {Plain, About(Anonymous), [Rel(<<knows>>) EXCEPT !.resource = Anonymous],
   [Plain EXCEPT !.typeof = <<alice>>], Rel(<<knows>>),
   [Plain EXCEPT !.typeof = <<alice>>, !.headbody = TRUE],
   [Plain EXCEPT !.version = "1.0"],
   [About(alice) EXCEPT !.vocab = bob, !.warnings = 1],
   [Property(<<likes>>) EXCEPT !.vocab = "empty", !.warnings = 2,
                               !.src = Anonymous]}

\* What the disagreements between the code and its comments need.
ItemTags     == {Plain, About(alice), About(bob), Inlist(Content(<<knows>>))}
PropertyTags == {Plain, Property(<<knows>>)}
=============================================================================
