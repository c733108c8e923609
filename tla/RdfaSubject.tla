---------------------------- MODULE RdfaSubject ----------------------------
(***************************************************************************)
(* c/subject.c: how the subject, the object and the typed resource of an   *)
(* element are established, with and without @rel and @rev, in RDFa 1.0    *)
(* and in RDFa 1.1.  Each operator takes the element's context, whose      *)
(* attributes are resolved, and returns it updated.                        *)
(***************************************************************************)
EXTENDS RdfaContext

HasTypes(a)        == a.typeof # NULL /\ a.typeof # << >>
NoneOf(candidates) == FirstSet(candidates) = NULL

\* One blank node is drawn from the context's counter when "drawn" holds.
Draw(c, drawn) == c.bnode_count + (IF drawn THEN 1 ELSE 0)

EstablishNew10Subject(c) ==
  LET a       == c.attrs
      named   == <<a.about, a.src, a.resource, a.href>>
      drawn   == NoneOf(named) /\ HasTypes(a)
      subject == IF drawn THEN NextBnode(c)
                 ELSE FirstSet(Append(named, c.parent_object))
  IN  [c EXCEPT !.new_subject = subject, !.bnode_count = Draw(c, drawn)]

\* @property without @content and @datatype: the element's own resource is
\* the object of the property, so the subject is @about or the parent object.
EstablishPropertySubject(c) ==
  LET a     == c.attrs
      named == <<a.about, a.resource, a.href, a.src>>
      typed == a.typeof # NULL
      drawn == typed /\ NoneOf(named)
      type  == IF drawn THEN NextBnode(c) ELSE FirstSet(named)
  IN  [c EXCEPT
         !.new_subject = FirstSet(<<a.about, c.parent_object>>),
         !.typed_resource = IF typed THEN type ELSE NULL,
         !.current_object_resource =
            IF typed /\ a.about = NULL THEN type ELSE NULL,
         !.bnode_count = Draw(c, drawn)]

EstablishChainedSubject(c) ==
  LET a       == c.attrs
      named   == <<a.about, a.resource, a.href, a.src>>
      typed   == a.typeof # NULL
      drawn   == typed /\ NoneOf(named)
      inherits == ~typed /\ NoneOf(named) /\ c.parent_object # NULL
      subject == IF drawn THEN NextBnode(c)
                 ELSE FirstSet(Append(named, c.parent_object))
  IN  [c EXCEPT
         !.new_subject = subject,
         !.typed_resource = IF typed THEN subject ELSE NULL,
         !.skip_element = @ \/ (inherits /\ a.property = NULL),
         !.bnode_count = Draw(c, drawn)]

EstablishNew11Subject(c) ==
  LET a == c.attrs
  IN  IF a.property # NULL /\ a.content = NULL /\ a.datatype = NULL
      THEN EstablishPropertySubject(c)
      ELSE EstablishChainedSubject(c)

EstablishNew10SubjectWithRelRev(c) ==
  LET a       == c.attrs
      named   == <<a.about, a.src>>
      drawn   == NoneOf(named) /\ HasTypes(a)
      subject == IF drawn THEN NextBnode(c)
                 ELSE FirstSet(Append(named, c.parent_object))
  IN  [c EXCEPT
         !.new_subject = subject,
         !.current_object_resource = FirstSet(<<a.resource, a.href>>),
         !.bnode_count = Draw(c, drawn)]

EstablishNew11SubjectWithRelRev(c) ==
  LET a      == c.attrs
      named  == <<a.resource, a.href, a.src>>
      typed  == a.typeof # NULL /\ a.about = NULL
      drawn  == typed /\ NoneOf(named)
      object == IF drawn THEN NextBnode(c) ELSE FirstSet(named)
  IN  [c EXCEPT
         !.new_subject = FirstSet(<<a.about, c.parent_object>>),
         !.current_object_resource = object,
         !.typed_resource = IF typed THEN object
                            ELSE IF a.typeof # NULL THEN a.about ELSE NULL,
         !.bnode_count = Draw(c, drawn)]

(***************************************************************************)
(* The choice start_element makes between the four: a list of predicates   *)
(* that resolved to nothing is still a list, so the presence of the        *)
(* attribute decides.                                                      *)
(***************************************************************************)
EstablishSubject(c) ==
  LET relrev == c.attrs.rel # NULL \/ c.attrs.rev # NULL
      old    == c.rdfa_version = RDFA_VERSION_1_0
  IN  IF relrev
      THEN IF old THEN EstablishNew10SubjectWithRelRev(c)
           ELSE EstablishNew11SubjectWithRelRev(c)
      ELSE IF old THEN EstablishNew10Subject(c)
           ELSE EstablishNew11Subject(c)
=============================================================================
