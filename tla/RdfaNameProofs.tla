--------------------------- MODULE RdfaNameProofs ---------------------------
(***************************************************************************)
(* Proofs about the names of blank nodes, for every document: a relation   *)
(* that is left open has a new blank node as its object, and "_:" names    *)
(* one node that nothing else is given.  The counter is copied into every  *)
(* context; the argument is that the copy on top of the stack is ahead of  *)
(* every name that any open context or earlier element was given, although *)
(* other copies may lag behind and errors draw names from the bottom one.  *)
(***************************************************************************)
EXTENDS RdfaProofs

\* v is not a name that a counter at n has yet to draw.
Drawn(v, n) == v \in Bnodes => v.bnode < n

\* The same of every name an element may take from its context or pass on.
NamesDrawn(c, n) ==
  /\ Drawn(c.parent_subject, n) /\ Drawn(c.parent_object, n)
  /\ Drawn(c.new_subject, n) /\ Drawn(c.current_object_resource, n)
  /\ Drawn(c.underscore_colon_bnode_name, n)

AttributesDrawn(a, n) ==
  /\ Drawn(a.about, n) /\ Drawn(a.src, n)
  /\ Drawn(a.resource, n) /\ Drawn(a.href, n)

\* The step from c to e draws from the counter of c.
Advances(c, e) ==
  /\ e \in Contexts /\ c.bnode_count <= e.bnode_count
  /\ NamesDrawn(e, e.bnode_count)

\* The author's own names are IRIs.
OwnNames == \A tag \in Tags :
  {tag.about, tag.src, tag.resource, tag.href} \cap Bnodes = {}

-----------------------------------------------------------------------------

\* A counter that advances leaves behind what was behind it.
LEMMA DrawnLater ==
  ASSUME NEW n \in Nat, NEW m \in Nat, n <= m, NEW v, Drawn(v, n)
  PROVE  Drawn(v, m)
BY DEF Drawn, Bnodes

\* What rdfa_create_bnode returns is behind the counter it leaves.
LEMMA NextIsDrawn ==
  ASSUME NEW n \in Nat, NEW m \in Nat
  PROVE  /\ Drawn(Bnode(n), m) <=> n < m
         /\ Bnode(n) \in Bnodes
BY DEF Drawn, Bnode, Bnodes

\* IRIs and the null pointer are behind every counter.
LEMMA OthersAreDrawn ==
  ASSUME NEW n
  PROVE  Drawn(NULL, n) /\ \A i \in Iris : Drawn(i, n)
BY IriAssumption, NullBnodeAssumption DEF Drawn

\* All the names of a context stay behind a counter that advances.
LEMMA NamesDrawnLater ==
  ASSUME NEW n \in Nat, NEW m \in Nat, n <= m, NEW c
  PROVE  /\ NamesDrawn(c, n) => NamesDrawn(c, m)
         /\ AttributesDrawn(c.attrs, n) => AttributesDrawn(c.attrs, m)
BY DrawnLater DEF NamesDrawn, AttributesDrawn

\* A chain of "otherwise" draws nothing.
LEMMA FirstSetDrawn ==
  ASSUME NEW n, NEW V, NEW s \in Seq(V), Len(s) <= 5,
         \A i \in 1 .. Len(s) : Drawn(s[i], n)
  PROVE  Drawn(FirstSet(s), n)
<1>1. \/ FirstSet(s) = NULL
      \/ \E i \in 1 .. Len(s) : FirstSet(s) = s[i]
  BY FirstSetFinds
<1> QED BY <1>1, OthersAreDrawn

\* A value with a default.
LEMMA FirstOfTwoIs ==
  ASSUME NEW first, NEW last
  PROVE  FirstSet(<<first, last>>) = IF first # NULL THEN first ELSE last
<1> DEFINE s == <<first, last>>
           First(i) == s[i] # NULL /\ \A j \in 1 .. i - 1 : s[j] = NULL
           n == CHOOSE i \in DOMAIN s : First(i)
<1>1. DOMAIN s = {1, 2} /\ s[1] = first /\ s[2] = last
  OBVIOUS
<1>2. FirstSet(s) = IF \E i \in DOMAIN s : s[i] # NULL THEN s[n] ELSE NULL
  BY DEF FirstSet
<1> HIDE DEF s
<1>3. CASE first # NULL
  <2>1. First(1)
    BY <1>1, <1>3
  <2>2. n \in {1, 2} /\ First(n)
    BY <1>1, <2>1
  <2>3. ~First(2)
    BY <1>1, <1>3
  <2> QED BY <1>1, <1>2, <1>3, <2>2, <2>3 DEF s
<1>4. CASE first = NULL /\ last # NULL
  <2>1. First(2) /\ ~First(1)
    BY <1>1, <1>4
  <2>2. n \in {1, 2} /\ First(n)
    BY <1>1, <2>1
  <2> QED BY <1>1, <1>2, <1>4, <2>1, <2>2 DEF s
<1>5. CASE first = NULL /\ last = NULL
  BY <1>1, <1>2, <1>5 DEF s
<1> QED BY <1>3, <1>4, <1>5

\* The chains of the subject rules, with and without the parent object.
LEMMA ChainDrawn ==
  ASSUME NEW n, NEW s \in Seq(Maybe(Resources)), Len(s) <= 4,
         \A i \in 1 .. Len(s) : Drawn(s[i], n),
         NEW last \in Maybe(Resources), Drawn(last, n)
  PROVE  Drawn(FirstSet(s), n) /\ Drawn(FirstSet(Append(s, last)), n)
<1>1. Drawn(FirstSet(s), n)
  BY FirstSetDrawn
<1> DEFINE t == Append(s, last)
<1>2. /\ t \in Seq(Maybe(Resources)) /\ Len(t) <= 5
      /\ \A i \in 1 .. Len(t) : Drawn(t[i], n)
  OBVIOUS
<1> HIDE DEF t
<1>3. Drawn(FirstSet(t), n)
  BY <1>2, FirstSetDrawn
<1> QED BY <1>1, <1>3 DEF t

\* A new context has no names but its parent's.
LEMMA NewElementNames ==
  ASSUME NEW parent \in Contexts, NamesDrawn(parent, parent.bnode_count)
  PROVE  LET new == NewElementContext(parent)
         IN  /\ new.bnode_count = parent.bnode_count
             /\ NamesDrawn(new, parent.bnode_count)
<1> DEFINE n == parent.bnode_count
           V == Maybe(Resources)
<1>1. /\ parent.parent_subject \in V /\ parent.parent_object \in V
      /\ parent.new_subject \in V /\ parent.current_object_resource \in V
  BY DEF Contexts, Maybe
<1>2. Drawn(InheritedSubject(parent), n)
  <2>1. Drawn(FirstSet(<<parent.new_subject, parent.parent_subject>>), n)
    BY FirstOfTwoIs DEF NamesDrawn
  <2> QED BY <2>1 DEF InheritedSubject, NamesDrawn
<1>3. Drawn(InheritedObject(parent), n)
  <2> DEFINE s == <<parent.current_object_resource, parent.new_subject,
                    parent.parent_subject>>
  <2>1. /\ s \in Seq(V) /\ Len(s) <= 5
        /\ \A i \in 1 .. Len(s) : Drawn(s[i], n)
    BY <1>1 DEF NamesDrawn
  <2> HIDE DEF s
  <2>2. Drawn(FirstSet(s), n)
    BY <2>1, FirstSetDrawn
  <2> QED BY <2>2 DEF s, InheritedObject, NamesDrawn
<1> QED BY <1>2, <1>3, OthersAreDrawn DEF NewElementContext, NamesDrawn

\* Resolving the attributes draws at most the name of _: and those of the
\* warnings.
LEMMA ReadAttributesNames ==
  ASSUME NEW c \in Contexts, NEW tag \in Tags, OwnNames,
         NamesDrawn(c, c.bnode_count)
  PROVE  LET read == ReadAttributes(c, tag)
         IN  /\ Advances(c, read)
             /\ AttributesDrawn(read.attrs, read.bnode_count)
<1> DEFINE version == FirstSet(<<tag.version, c.rdfa_version>>)
           a == ResolvedAttributes(c, tag, version)
           first == Bnode(c.bnode_count + 2 * Reports(tag))
           anonymous == AnonymousBnode(c, tag)
           unnamed == Anonymous \in {tag.about, tag.src, tag.resource, tag.href}
           drawn == unnamed /\ c.underscore_colon_bnode_name = NULL
           count == c.bnode_count + 2 * Reports(tag) + (IF drawn THEN 1 ELSE 0)
           read == ReadAttributes(c, tag)
<1>1. /\ tag \in StartTags /\ Reports(tag) \in Nat /\ c.bnode_count \in Nat
      /\ count \in Nat /\ c.bnode_count <= count
  BY TagTypes, ListFields
<1>2. read \in Contexts
  BY ReadAttributesType
<1>3. /\ read.bnode_count = count /\ read.attrs = a
      /\ read.underscore_colon_bnode_name =
           (IF unnamed THEN anonymous ELSE c.underscore_colon_bnode_name)
      /\ read.parent_subject = c.parent_subject
      /\ read.parent_object = c.parent_object
      /\ read.new_subject = c.new_subject
      /\ read.current_object_resource = c.current_object_resource
  <2> HIDE DEF version, a, anonymous
  <2> QED BY DEF Contexts, ReadAttributes, version, a, anonymous
<1>4. NamesDrawn(c, count)
  BY <1>1, NamesDrawnLater
<1>5. unnamed => Drawn(anonymous, count)
  <2>1. CASE c.underscore_colon_bnode_name = NULL
    <3>1. first # NULL /\ (unnamed => Drawn(first, count))
      BY <1>1, <2>1, NextIsDrawn, BnodeIsResource
    <3>2. anonymous = first
      BY <2>1, FirstOfTwoIs DEF AnonymousBnode
    <3> QED BY <3>1, <3>2
  <2>2. CASE c.underscore_colon_bnode_name # NULL
    <3>1. anonymous = c.underscore_colon_bnode_name
      BY <2>2, FirstOfTwoIs DEF AnonymousBnode
    <3> QED BY <1>4, <3>1 DEF NamesDrawn
  <2> QED BY <2>1, <2>2
<1>6. AttributesDrawn(a, count)
  <2> HIDE DEF anonymous, count
  <2>1. Drawn(c.base, count)
    BY OthersAreDrawn DEF Contexts
  <2>2. \A v \in {tag.about, tag.src, tag.resource, tag.href} :
          Drawn(Resolved(v, anonymous), count)
    BY <1>5 DEF OwnNames, Resolved, Drawn
  <2> QED BY <2>1, <2>2 DEF ResolvedAttributes, AttributesDrawn, anonymous
<1> HIDE DEF a, anonymous, unnamed, count, read
<1>7. NamesDrawn(read, count)
  BY <1>3, <1>4, <1>5 DEF NamesDrawn
<1> QED BY <1>1, <1>2, <1>3, <1>6, <1>7 DEF Advances, read
-----------------------------------------------------------------------------

\* Drawing a name or not: the counter covers the name and all those before.
LEMMA DrawNames ==
  ASSUME NEW c \in Contexts, NEW drawn \in BOOLEAN,
         NamesDrawn(c, c.bnode_count), AttributesDrawn(c.attrs, c.bnode_count)
  PROVE  LET count == Draw(c, drawn)
         IN  /\ count \in Nat /\ c.bnode_count <= count
             /\ ~drawn => count = c.bnode_count
             /\ drawn => Drawn(NextBnode(c), count)
             /\ NamesDrawn(c, count) /\ AttributesDrawn(c.attrs, count)
<1> DEFINE count == Draw(c, drawn)
<1>1. c.bnode_count \in Nat
  BY ListFields
<1>2. /\ count \in Nat /\ c.bnode_count <= count
      /\ ~drawn => count = c.bnode_count
      /\ drawn => c.bnode_count < count
  BY <1>1 DEF Draw
<1> HIDE DEF count
<1>3. drawn => Drawn(NextBnode(c), count)
  BY <1>1, <1>2, NextIsDrawn DEF NextBnode
<1> QED BY <1>1, <1>2, <1>3, NamesDrawnLater DEF count

\* What the four subject rules need of a context.
Ready(c) ==
  /\ c \in Contexts /\ c.parent_object # NULL
  /\ NamesDrawn(c, c.bnode_count) /\ AttributesDrawn(c.attrs, c.bnode_count)

\* RDFa 1.0, neither @rel nor @rev.
LEMMA New10SubjectNames ==
  ASSUME NEW c, Ready(c)
  PROVE  Advances(c, EstablishNew10Subject(c))
<1> DEFINE a     == c.attrs
           n     == c.bnode_count
           named == <<a.about, a.src, a.resource, a.href>>
           drawn == NoneOf(named) /\ HasTypes(a)
           last  == FirstSet(Append(named, c.parent_object))
           subject == IF drawn THEN NextBnode(c) ELSE last
           count   == Draw(c, drawn)
           e == EstablishNew10Subject(c)
<1>1. c \in Contexts /\ e \in Contexts /\ drawn \in BOOLEAN
  BY New10SubjectType DEF Ready, Established, NoneOf, HasTypes
<1>2. Drawn(last, n)
  <2>1. /\ named \in Seq(Maybe(Resources)) /\ Len(named) <= 4
        /\ \A i \in 1 .. Len(named) : Drawn(named[i], n)
    BY <1>1, AttributeTypes DEF Ready, AttributesDrawn
  <2>2. c.parent_object \in Maybe(Resources) /\ Drawn(c.parent_object, n)
    BY <1>1 DEF Ready, NamesDrawn, Contexts
  <2> HIDE DEF named, n
  <2> QED BY <2>1, <2>2, ChainDrawn
<1>3. e = [c EXCEPT !.new_subject = subject, !.bnode_count = count]
  BY DEF EstablishNew10Subject
<1> HIDE DEF drawn, last
<1>4. /\ count \in Nat /\ n <= count /\ (~drawn => count = n)
      /\ drawn => Drawn(NextBnode(c), count)
      /\ NamesDrawn(c, count)
  BY <1>1, DrawNames DEF Ready
<1>5. Drawn(subject, count)
  BY <1>2, <1>4
<1> HIDE DEF subject, count, e
<1>6. /\ e.bnode_count = count /\ e.new_subject = subject
      /\ e.parent_subject = c.parent_subject
      /\ e.parent_object = c.parent_object
      /\ e.current_object_resource = c.current_object_resource
      /\ e.underscore_colon_bnode_name = c.underscore_colon_bnode_name
  BY <1>1, <1>3 DEF Contexts
<1>7. NamesDrawn(e, count)
  BY <1>4, <1>5, <1>6 DEF NamesDrawn
<1> QED BY <1>1, <1>4, <1>6, <1>7 DEF Advances, e

\* RDFa 1.1, @property alone.
LEMMA PropertySubjectNames ==
  ASSUME NEW c, Ready(c)
  PROVE  Advances(c, EstablishPropertySubject(c))
<1> DEFINE a     == c.attrs
           n     == c.bnode_count
           named == <<a.about, a.resource, a.href, a.src>>
           typed == a.typeof # NULL
           drawn == typed /\ NoneOf(named)
           first == FirstSet(named)
           type  == IF drawn THEN NextBnode(c) ELSE first
           subject == FirstSet(<<a.about, c.parent_object>>)
           object  == IF typed /\ a.about = NULL THEN type ELSE NULL
           count   == Draw(c, drawn)
           e == EstablishPropertySubject(c)
<1>1. c \in Contexts /\ e \in Contexts /\ drawn \in BOOLEAN
  BY PropertySubjectType DEF Ready, Established, NoneOf
<1>2. Drawn(first, n)
  <2>1. /\ named \in Seq(Maybe(Resources)) /\ Len(named) <= 5
        /\ \A i \in 1 .. Len(named) : Drawn(named[i], n)
    BY <1>1, AttributeTypes DEF Ready, AttributesDrawn
  <2> HIDE DEF named, n
  <2> QED BY <2>1, FirstSetDrawn
<1>3. e = [c EXCEPT !.new_subject = subject,
             !.typed_resource = IF typed THEN type ELSE NULL,
             !.current_object_resource = object, !.bnode_count = count]
  BY DEF EstablishPropertySubject
<1> HIDE DEF drawn, first
<1>4. /\ count \in Nat /\ n <= count /\ (~drawn => count = n)
      /\ drawn => Drawn(NextBnode(c), count)
      /\ NamesDrawn(c, count) /\ AttributesDrawn(c.attrs, count)
  BY <1>1, DrawNames DEF Ready
<1>5. Drawn(object, count)
  BY <1>2, <1>4, OthersAreDrawn
<1>6. Drawn(subject, count)
  BY <1>4, FirstOfTwoIs DEF NamesDrawn, AttributesDrawn
<1> HIDE DEF subject, object, count, e, typed, type
<1>7. /\ e.bnode_count = count /\ e.new_subject = subject
      /\ e.parent_subject = c.parent_subject
      /\ e.parent_object = c.parent_object
      /\ e.current_object_resource = object
      /\ e.underscore_colon_bnode_name = c.underscore_colon_bnode_name
  BY <1>1, <1>3 DEF Contexts
<1>8. NamesDrawn(e, count)
  BY <1>4, <1>5, <1>6, <1>7 DEF NamesDrawn
<1> QED BY <1>1, <1>4, <1>7, <1>8 DEF Advances, e

\* RDFa 1.1, no @rel, @rev or such @property.
LEMMA ChainedSubjectNames ==
  ASSUME NEW c, Ready(c)
  PROVE  Advances(c, EstablishChainedSubject(c))
<1> DEFINE a     == c.attrs
           n     == c.bnode_count
           named == <<a.about, a.resource, a.href, a.src>>
           typed == a.typeof # NULL
           drawn == typed /\ NoneOf(named)
           inherits == ~typed /\ NoneOf(named) /\ c.parent_object # NULL
           last  == FirstSet(Append(named, c.parent_object))
           subject == IF drawn THEN NextBnode(c) ELSE last
           resource == IF typed THEN subject ELSE NULL
           skips == c.skip_element \/ (inherits /\ a.property = NULL)
           count == Draw(c, drawn)
           e == EstablishChainedSubject(c)
<1>1. c \in Contexts /\ e \in Contexts /\ drawn \in BOOLEAN
  BY ChainedSubjectType DEF Ready, Established, NoneOf
<1>2. Drawn(last, n)
  <2>1. /\ named \in Seq(Maybe(Resources)) /\ Len(named) <= 4
        /\ \A i \in 1 .. Len(named) : Drawn(named[i], n)
    BY <1>1, AttributeTypes DEF Ready, AttributesDrawn
  <2>2. c.parent_object \in Maybe(Resources) /\ Drawn(c.parent_object, n)
    BY <1>1 DEF Ready, NamesDrawn, Contexts
  <2> HIDE DEF named, n
  <2> QED BY <2>1, <2>2, ChainDrawn
<1>3. e = [c EXCEPT !.new_subject = subject, !.typed_resource = resource,
                    !.skip_element = skips, !.bnode_count = count]
  BY DEF EstablishChainedSubject
<1> HIDE DEF drawn, last
<1>4. /\ count \in Nat /\ n <= count /\ (~drawn => count = n)
      /\ drawn => Drawn(NextBnode(c), count)
      /\ NamesDrawn(c, count)
  BY <1>1, DrawNames DEF Ready
<1>5. Drawn(subject, count)
  BY <1>2, <1>4
<1> HIDE DEF subject, resource, skips, count, e
<1>6. /\ e.bnode_count = count /\ e.new_subject = subject
      /\ e.parent_subject = c.parent_subject
      /\ e.parent_object = c.parent_object
      /\ e.current_object_resource = c.current_object_resource
      /\ e.underscore_colon_bnode_name = c.underscore_colon_bnode_name
  BY <1>1, <1>3 DEF Contexts
<1>7. NamesDrawn(e, count)
  BY <1>4, <1>5, <1>6 DEF NamesDrawn
<1> QED BY <1>1, <1>4, <1>6, <1>7 DEF Advances, e

\* RDFa 1.0 with @rel or @rev.
LEMMA New10SubjectWithRelRevNames ==
  ASSUME NEW c, Ready(c)
  PROVE  Advances(c, EstablishNew10SubjectWithRelRev(c))
<1> DEFINE a     == c.attrs
           n     == c.bnode_count
           named == <<a.about, a.src>>
           drawn == NoneOf(named) /\ HasTypes(a)
           last  == FirstSet(Append(named, c.parent_object))
           subject == IF drawn THEN NextBnode(c) ELSE last
           object  == FirstSet(<<a.resource, a.href>>)
           count   == Draw(c, drawn)
           e == EstablishNew10SubjectWithRelRev(c)
<1>1. c \in Contexts /\ e \in Contexts /\ drawn \in BOOLEAN
  BY New10SubjectWithRelRevType DEF Ready, Established, NoneOf, HasTypes
<1>2. Drawn(last, n)
  <2>1. /\ named \in Seq(Maybe(Resources)) /\ Len(named) <= 4
        /\ \A i \in 1 .. Len(named) : Drawn(named[i], n)
    BY <1>1, AttributeTypes DEF Ready, AttributesDrawn
  <2>2. c.parent_object \in Maybe(Resources) /\ Drawn(c.parent_object, n)
    BY <1>1 DEF Ready, NamesDrawn, Contexts
  <2> HIDE DEF named, n
  <2> QED BY <2>1, <2>2, ChainDrawn
<1>3. e = [c EXCEPT !.new_subject = subject,
             !.current_object_resource = object, !.bnode_count = count]
  BY DEF EstablishNew10SubjectWithRelRev
<1> HIDE DEF drawn, last
<1>4. /\ count \in Nat /\ n <= count /\ (~drawn => count = n)
      /\ drawn => Drawn(NextBnode(c), count)
      /\ NamesDrawn(c, count) /\ AttributesDrawn(c.attrs, count)
  BY <1>1, DrawNames DEF Ready
<1>5. Drawn(subject, count)
  BY <1>2, <1>4
<1>6. Drawn(object, count)
  BY <1>4, FirstOfTwoIs DEF AttributesDrawn
<1> HIDE DEF subject, object, count, e
<1>7. /\ e.bnode_count = count /\ e.new_subject = subject
      /\ e.parent_subject = c.parent_subject
      /\ e.parent_object = c.parent_object
      /\ e.current_object_resource = object
      /\ e.underscore_colon_bnode_name = c.underscore_colon_bnode_name
  BY <1>1, <1>3 DEF Contexts
<1>8. NamesDrawn(e, count)
  BY <1>4, <1>5, <1>6, <1>7 DEF NamesDrawn
<1> QED BY <1>1, <1>4, <1>7, <1>8 DEF Advances, e

\* RDFa 1.1 with @rel or @rev.
LEMMA New11SubjectWithRelRevNames ==
  ASSUME NEW c, Ready(c)
  PROVE  Advances(c, EstablishNew11SubjectWithRelRev(c))
<1> DEFINE a     == c.attrs
           n     == c.bnode_count
           named == <<a.resource, a.href, a.src>>
           typed == a.typeof # NULL /\ a.about = NULL
           drawn == typed /\ NoneOf(named)
           first == FirstSet(named)
           object  == IF drawn THEN NextBnode(c) ELSE first
           subject == FirstSet(<<a.about, c.parent_object>>)
           resource == IF typed THEN object
                       ELSE IF a.typeof # NULL THEN a.about ELSE NULL
           count   == Draw(c, drawn)
           e == EstablishNew11SubjectWithRelRev(c)
<1>1. c \in Contexts /\ e \in Contexts /\ drawn \in BOOLEAN
  BY New11SubjectWithRelRevType DEF Ready, Established, NoneOf
<1>2. Drawn(first, n)
  <2>1. /\ named \in Seq(Maybe(Resources)) /\ Len(named) <= 5
        /\ \A i \in 1 .. Len(named) : Drawn(named[i], n)
    BY <1>1, AttributeTypes DEF Ready, AttributesDrawn
  <2> HIDE DEF named, n
  <2> QED BY <2>1, FirstSetDrawn
<1>3. e = [c EXCEPT !.new_subject = subject, !.typed_resource = resource,
             !.current_object_resource = object, !.bnode_count = count]
  BY DEF EstablishNew11SubjectWithRelRev
<1> HIDE DEF drawn, first
<1>4. /\ count \in Nat /\ n <= count /\ (~drawn => count = n)
      /\ drawn => Drawn(NextBnode(c), count)
      /\ NamesDrawn(c, count) /\ AttributesDrawn(c.attrs, count)
  BY <1>1, DrawNames DEF Ready
<1>5. Drawn(object, count)
  BY <1>2, <1>4
<1>6. Drawn(subject, count)
  BY <1>4, FirstOfTwoIs DEF NamesDrawn, AttributesDrawn
<1> HIDE DEF subject, object, resource, count, e
<1>7. /\ e.bnode_count = count /\ e.new_subject = subject
      /\ e.parent_subject = c.parent_subject
      /\ e.parent_object = c.parent_object
      /\ e.current_object_resource = object
      /\ e.underscore_colon_bnode_name = c.underscore_colon_bnode_name
  BY <1>1, <1>3 DEF Contexts
<1>8. NamesDrawn(e, count)
  BY <1>4, <1>5, <1>6, <1>7 DEF NamesDrawn
<1> QED BY <1>1, <1>4, <1>7, <1>8 DEF Advances, e

(***************************************************************************)
(* Whatever rule applies, the element's subject and object are names that  *)
(* its counter has passed.                                                 *)
(***************************************************************************)
LEMMA EstablishSubjectNames ==
  ASSUME NEW c, Ready(c)
  PROVE  Advances(c, EstablishSubject(c))
BY New10SubjectNames, PropertySubjectNames, ChainedSubjectNames,
   New10SubjectWithRelRevNames, New11SubjectWithRelRevNames
DEF EstablishSubject, EstablishNew11Subject
-----------------------------------------------------------------------------
(* What is left open.                                                      *)

\* The tag has @about, written or implied: what HasAbout says of the finished
\* element.
AboutGiven(tag, host, depth) ==
  \/ tag.about # NULL
  \/ /\ tag.resource = NULL /\ tag.href = NULL /\ tag.src = NULL
     /\ \/ depth = 1
        \/ /\ tag.headbody /\ tag.typeof # NULL
           /\ host \in {"XHTML1", "HTML"}

\* The tag leaves @rel or @rev open: what Hangs says of the finished element.
LeavesOpen(tag, version, host, depth) ==
  /\ tag.rel # NULL \/ tag.rev # NULL
  /\ tag.resource = NULL /\ tag.href = NULL
  /\ version = RDFA_VERSION_1_1 =>
       /\ tag.src = NULL
       /\ tag.typeof # NULL => AboutGiven(tag, host, depth)

\* A list takes what @rel leaves: what HangsInList says of such an element.
TakenByList(tag, version) ==
  version = RDFA_VERSION_1_1 /\ tag.inlist /\ tag.rel # NULL

\* The attributes of a context are those of its tag, resolved.
LEMMA AttributesOfTag ==
  ASSUME NEW c \in Contexts, NEW tag \in Tags
  PROVE  LET read == ReadAttributes(c, tag)
         IN  /\ read.attrs = ResolvedAttributes(c, tag, read.rdfa_version)
             /\ read.host_language = c.host_language
             /\ read.attrs.rel = tag.rel /\ read.attrs.rev = tag.rev
             /\ read.attrs.typeof = tag.typeof
             /\ read.attrs.property = tag.property
             /\ read.attrs.content = tag.content
             /\ read.attrs.datatype = tag.datatype
             /\ read.attrs.inlist =
                  (tag.inlist /\ read.rdfa_version = RDFA_VERSION_1_1)
             /\ read.attrs.resource = NULL <=> tag.resource = NULL
             /\ read.attrs.href = NULL <=> tag.href = NULL
             /\ read.attrs.src = NULL <=> tag.src = NULL
             /\ read.attrs.about # NULL <=>
                  AboutGiven(tag, c.host_language, c.depth)
<1> DEFINE read == ReadAttributes(c, tag)
           anonymous == AnonymousBnode(c, tag)
           a == ResolvedAttributes(c, tag, read.rdfa_version)
<1>1. read.attrs = a /\ read.host_language = c.host_language
  BY DEF ReadAttributes, Contexts
<1>2. anonymous # NULL /\ c.base # NULL /\ c.parent_subject # NULL
  BY AnonymousBnodeType, NullBnodeAssumption, NullAssumption, NullIsNoResource
  DEF Contexts
<1>3. /\ a.rel = tag.rel /\ a.rev = tag.rev /\ a.typeof = tag.typeof
      /\ a.property = tag.property /\ a.content = tag.content
      /\ a.datatype = tag.datatype
      /\ a.inlist = (tag.inlist /\ read.rdfa_version = RDFA_VERSION_1_1)
      /\ a.resource = Resolved(tag.resource, anonymous)
      /\ a.href = Resolved(tag.href, anonymous)
      /\ a.src = Resolved(tag.src, anonymous)
      /\ a.about = IF ImplicitAbout(c, tag) THEN c.base
                   ELSE Resolved(tag.about, anonymous)
  BY DEF ResolvedAttributes
<1>4. \A v : Resolved(v, anonymous) = NULL <=> v = NULL
  BY <1>2, NullAssumption DEF Resolved
<1>5. a.about # NULL <=> (ImplicitAbout(c, tag) \/ tag.about # NULL)
  BY <1>2, <1>3, <1>4
<1>6. (ImplicitAbout(c, tag) \/ tag.about # NULL) <=>
        AboutGiven(tag, c.host_language, c.depth)
  BY <1>2 DEF ImplicitAbout, AboutGiven
<1> HIDE DEF a, anonymous, read
<1> QED BY <1>1, <1>3, <1>4, <1>5, <1>6 DEF a, read

\* The subject rules leave the attributes and the depth alone.
LEMMA EstablishedAttributes ==
  ASSUME NEW c \in Contexts
  PROVE  LET set == EstablishSubject(c)
         IN  /\ set.attrs = c.attrs /\ set.rdfa_version = c.rdfa_version
             /\ set.host_language = c.host_language
BY DEF Contexts, EstablishSubject, EstablishNew11Subject,
       EstablishNew10Subject, EstablishPropertySubject,
       EstablishChainedSubject, EstablishNew10SubjectWithRelRev,
       EstablishNew11SubjectWithRelRev

\* Chains of "otherwise" are null if all of their candidates are.
LEMMA NoneOfThem ==
  /\ \A u, v : FirstSet(<<u, v>>) = NULL <=> u = NULL /\ v = NULL
  /\ \A u, v, w : FirstSet(<<u, v, w>>) = NULL <=>
       u = NULL /\ v = NULL /\ w = NULL
<1>1. \A u, v : FirstSet(<<u, v>>) = NULL <=> u = NULL /\ v = NULL
  BY FirstOfTwoIs
<1>2. ASSUME NEW u, NEW v, NEW w
      PROVE  FirstSet(<<u, v, w>>) = NULL <=> u = NULL /\ v = NULL /\ w = NULL
  <2> DEFINE s == <<u, v, w>>
             V == {u, v, w}
  <2>1. /\ Len(s) = 3 /\ DOMAIN s = 1 .. 3
        /\ s[1] = u /\ s[2] = v /\ s[3] = w /\ s \in Seq(V)
    <3>1. u \in V /\ v \in V /\ w \in V
      OBVIOUS
    <3> HIDE DEF V
    <3>2. s \in Seq(V)
      BY <3>1
    <3>3. Len(s) = 3 /\ s[1] = u /\ s[2] = v /\ s[3] = w
      OBVIOUS
    <3> QED BY <3>2, <3>3
  <2> HIDE DEF s, V
  <2>2. (\E i \in 1 .. Len(s) : s[i] # NULL) => FirstSet(s) # NULL
    <3>1. s \in Seq(V) /\ Len(s) <= 5
      BY <2>1
    <3> QED BY ONLY <3>1, FirstSetFinds, Zenon
  <2>3. (\A i \in DOMAIN s : s[i] = NULL) => FirstSet(s) = NULL
    BY DEF FirstSet
  <2>4. FirstSet(s) = NULL <=> u = NULL /\ v = NULL /\ w = NULL
    BY <2>1, <2>2, <2>3
  <2> QED BY <2>4 DEF s
<1> QED BY <1>1, <1>2

\* The subject rules find no object exactly if nothing on the tag can be it.
LEMMA OpenHasNoObject ==
  ASSUME NEW c \in Contexts, NEW tag \in Tags,
         tag.rel # NULL \/ tag.rev # NULL
  PROVE  LET read == ReadAttributes(c, tag)
         IN  EstablishSubject(read).current_object_resource = NULL <=>
               LeavesOpen(tag, read.rdfa_version, c.host_language, c.depth)
<1> DEFINE read == ReadAttributes(c, tag)
           a == read.attrs
           open11 == /\ a.resource = NULL /\ a.href = NULL /\ a.src = NULL
                     /\ a.typeof # NULL => a.about # NULL
<1>1. read \in Contexts /\ read.rdfa_version \in Versions
  BY ReadAttributesType DEF Contexts
<1>2. /\ a.rel # NULL \/ a.rev # NULL
      /\ a.resource = NULL <=> tag.resource = NULL
      /\ a.href = NULL <=> tag.href = NULL
      /\ a.src = NULL <=> tag.src = NULL
      /\ a.about # NULL <=> AboutGiven(tag, c.host_language, c.depth)
      /\ a.typeof = tag.typeof
  BY AttributesOfTag
<1> HIDE DEF read
<1>3. CASE read.rdfa_version = RDFA_VERSION_1_0
  <2>1. EstablishSubject(read) = EstablishNew10SubjectWithRelRev(read)
    BY <1>2, <1>3 DEF EstablishSubject
  <2>2. EstablishNew10SubjectWithRelRev(read).current_object_resource
          = FirstSet(<<a.resource, a.href>>)
    BY <1>1 DEF EstablishNew10SubjectWithRelRev, Contexts
  <2>3. EstablishSubject(read).current_object_resource = NULL <=>
          a.resource = NULL /\ a.href = NULL
    BY <2>1, <2>2, NoneOfThem
  <2>4. read.rdfa_version # RDFA_VERSION_1_1
    BY <1>3 DEF RDFA_VERSION_1_0, RDFA_VERSION_1_1
  <2> QED BY <1>2, <2>3, <2>4 DEF LeavesOpen, read
<1>4. CASE read.rdfa_version # RDFA_VERSION_1_0
  <2>1. /\ EstablishSubject(read) = EstablishNew11SubjectWithRelRev(read)
        /\ read.rdfa_version = RDFA_VERSION_1_1
    BY <1>1, <1>2, <1>4 DEF EstablishSubject, Versions
  <2> DEFINE named == FirstSet(<<a.resource, a.href, a.src>>)
             drawn == (a.typeof # NULL /\ a.about = NULL) /\ named = NULL
             object == IF drawn THEN NextBnode(read) ELSE named
  <2>2. EstablishNew11SubjectWithRelRev(read).current_object_resource = object
    BY <1>1 DEF EstablishNew11SubjectWithRelRev, Contexts, NoneOf
  <2>3. NextBnode(read) # NULL
    BY <1>1, BnodeIsResource DEF NextBnode, Contexts
  <2>4. named = NULL <=> a.resource = NULL /\ a.href = NULL /\ a.src = NULL
    BY NoneOfThem
  <2>5. object = NULL <=> open11
    BY <2>3, <2>4
  <2> QED BY <1>2, <2>1, <2>2, <2>5 DEF LeavesOpen, read
<1> QED BY <1>3, <1>4

\* The subject rules draw one name or none.
LEMMA SubjectDraws ==
  ASSUME NEW c \in Contexts
  PROVE  \E drawn \in BOOLEAN : EstablishSubject(c).bnode_count = Draw(c, drawn)
<1>1. \A named : NoneOf(named) \in BOOLEAN
  BY DEF NoneOf
<1>2. \E drawn \in BOOLEAN : EstablishNew10Subject(c).bnode_count = Draw(c, drawn)
  BY <1>1 DEF Contexts, EstablishNew10Subject, HasTypes
<1>3. \E drawn \in BOOLEAN :
        EstablishPropertySubject(c).bnode_count = Draw(c, drawn)
  BY <1>1 DEF Contexts, EstablishPropertySubject
<1>4. \E drawn \in BOOLEAN :
        EstablishChainedSubject(c).bnode_count = Draw(c, drawn)
  BY <1>1 DEF Contexts, EstablishChainedSubject
<1>5. \E drawn \in BOOLEAN :
        EstablishNew10SubjectWithRelRev(c).bnode_count = Draw(c, drawn)
  BY <1>1 DEF Contexts, EstablishNew10SubjectWithRelRev, HasTypes
<1>6. \E drawn \in BOOLEAN :
        EstablishNew11SubjectWithRelRev(c).bnode_count = Draw(c, drawn)
  BY <1>1 DEF Contexts, EstablishNew11SubjectWithRelRev
<1> QED BY <1>2, <1>3, <1>4, <1>5, <1>6 DEF EstablishSubject, EstablishNew11Subject

\* New lists draw a name each.
LEMMA ListsDraw ==
  ASSUME NEW c \in Contexts, NEW D \in Positions, NEW keys \in [D -> Keys],
         NEW value
  PROVE  /\ CreateListMappings(c, keys).bnode_count >= c.bnode_count
         /\ AppendToListMappings(CreateListMappings(c, keys), keys, value)
              .bnode_count >= c.bnode_count
<1> DEFINE d == CreateListMappings(c, keys)
           e == AppendToListMappings(d, keys, value)
           size == Cardinality(FreshKeys(c, keys))
<1>1. size \in Nat /\ c.bnode_count \in Nat
  BY FreshKeysFinite, ListFields
<1>2. d \in Contexts
  BY CreateListMappingsType DEF SameSubject
<1> HIDE DEF size
<1>3. d.bnode_count = c.bnode_count + size
  BY DEF CreateListMappings, Contexts, size
<1> HIDE DEF d
<1>4. e.bnode_count = d.bnode_count
  BY <1>2 DEF AppendToListMappings, Contexts
<1> QED BY <1>1, <1>3, <1>4 DEF d

\* Step 8 draws what it needs, for lists and for relations left open.
LEMMA OpenRelationsDraw ==
  ASSUME NEW c \in Contexts, c.new_subject # NULL
  PROVE  OpenRelations(c).bnode_count >= c.bnode_count
<1>1. c.bnode_count \in Nat
  BY ListFields
<1>2. CASE ListsRel(c)
  <2> DEFINE keys == KeysOf(c.new_subject, c.attrs.rel)
             D == DOMAIN c.attrs.rel
             d == CreateListMappings(c, keys)
  <2>1. c.attrs.rel \in Seq(Iris) /\ c.new_subject \in Resources
    BY <1>2, AttributeTypes DEF ListsRel, Maybe, Contexts
  <2>2. D \in Positions /\ keys \in [D -> Keys]
    BY <2>1, KeysOfType
  <2> HIDE DEF keys, D
  <2>3. CASE c.current_object_resource # NULL
    <3>1. OpenRelations(c) = AppendToListMappings(d, keys, ListedObject(c))
      BY <1>2, <2>3 DEF OpenRelations, EstablishNewInlistTriples, keys
    <3> QED BY <2>2, <3>1, ListsDraw
  <2>4. CASE c.current_object_resource = NULL
    <3>1. OpenRelations(c).bnode_count = d.bnode_count
      <4>1. d \in Contexts
        BY <2>2, CreateListMappingsType DEF SameSubject
      <4>2. OpenRelations(c) = SaveIncompleteListTriples(c, c.attrs.rel)
        BY <1>2, <2>4 DEF OpenRelations
      <4> HIDE DEF d
      <4> QED BY <4>1, <4>2 DEF SaveIncompleteListTriples, Contexts, d, keys
    <3> QED BY <2>2, <3>1, ListsDraw
  <2> QED BY <2>3, <2>4
<1>3. CASE ~ListsRel(c)
  <2>1. SaveIncompleteTriples(c).bnode_count = c.bnode_count + 1
    BY DEF SaveIncompleteTriples, Contexts
  <2>2. OpenRelations(c) \in {c, SaveIncompleteTriples(c)}
    BY <1>3 DEF OpenRelations
  <2> QED BY <1>1, <2>1, <2>2
<1> QED BY <1>2, <1>3

\* Lists take no part in the names that a context passes on.
LEMMA ListsKeepNames ==
  ASSUME NEW c \in Contexts, NEW D \in Positions, NEW keys \in [D -> Keys],
         NEW value
  PROVE  LET d == CreateListMappings(c, keys)
             e == AppendToListMappings(d, keys, value)
             Same(f) ==
               /\ f.current_object_resource = c.current_object_resource
               /\ f.underscore_colon_bnode_name = c.underscore_colon_bnode_name
         IN  Same(d) /\ Same(e)
<1> DEFINE d == CreateListMappings(c, keys)
           e == AppendToListMappings(d, keys, value)
<1>1. d \in Contexts
  BY CreateListMappingsType DEF SameSubject
<1>2. /\ d.current_object_resource = c.current_object_resource
      /\ d.underscore_colon_bnode_name = c.underscore_colon_bnode_name
  BY DEF CreateListMappings, Contexts
<1> HIDE DEF d
<1>3. /\ e.current_object_resource = d.current_object_resource
      /\ e.underscore_colon_bnode_name = d.underscore_colon_bnode_name
  BY <1>1 DEF AppendToListMappings, Contexts
<1> QED BY <1>2, <1>3 DEF d

\* A list that takes @rel leaves the object of the element and the name of
\* "_:" alone.
LEMMA ListedRelationsKeep ==
  ASSUME NEW c \in Contexts, c.new_subject # NULL, ListsRel(c)
  PROVE  LET e == OpenRelations(c)
         IN  /\ e.current_object_resource = c.current_object_resource
             /\ e.underscore_colon_bnode_name = c.underscore_colon_bnode_name
<1> DEFINE e == OpenRelations(c)
           keys == KeysOf(c.new_subject, c.attrs.rel)
           D == DOMAIN c.attrs.rel
           d == CreateListMappings(c, keys)
<1>1. c.attrs.rel \in Seq(Iris) /\ c.new_subject \in Resources
  BY AttributeTypes DEF ListsRel, Maybe, Contexts
<1>2. D \in Positions /\ keys \in [D -> Keys]
  BY <1>1, KeysOfType
<1> HIDE DEF keys, D
<1>3. d \in Contexts
  BY <1>2, CreateListMappingsType DEF SameSubject
<1>4. CASE c.current_object_resource # NULL
  <2>1. e = AppendToListMappings(d, keys, ListedObject(c))
    BY <1>4 DEF OpenRelations, EstablishNewInlistTriples, keys
  <2> QED BY <1>2, <2>1, ListsKeepNames
<1>5. CASE c.current_object_resource = NULL
  <2>1. e = SaveIncompleteListTriples(c, c.attrs.rel)
    BY <1>5 DEF OpenRelations
  <2> DEFINE left == d.local_incomplete_triples \o
               [i \in DOMAIN c.attrs.rel |->
                  [dir |-> "none", pred |-> Reresolved[c.attrs.rel[i]]]]
  <2>2. e = [d EXCEPT !.local_incomplete_triples = left]
    BY <2>1 DEF SaveIncompleteListTriples, keys
  <2> HIDE DEF left, d, e
  <2>3. /\ e.current_object_resource = d.current_object_resource
        /\ e.underscore_colon_bnode_name = d.underscore_colon_bnode_name
    BY <1>3, <2>2 DEF Contexts
  <2> QED BY <1>2, <2>3, ListsKeepNames DEF d, e
<1> QED BY <1>4, <1>5

\* What @rel and @rev leave behind when a list takes it: names of its own.
LEMMA ListedRelationsNames ==
  ASSUME NEW c \in Contexts, c.new_subject # NULL, ListsRel(c),
         NamesDrawn(c, c.bnode_count)
  PROVE  Advances(c, OpenRelations(c))
<1> DEFINE e == OpenRelations(c)
<1>1. e \in Contexts /\ SameSubject(c, e)
  BY OpenRelationsType DEF SameSubject
<1>2. /\ e.bnode_count \in Nat /\ c.bnode_count \in Nat
      /\ c.bnode_count <= e.bnode_count
  BY <1>1, OpenRelationsDraw, ListFields
<1>3. /\ e.current_object_resource = c.current_object_resource
      /\ e.underscore_colon_bnode_name = c.underscore_colon_bnode_name
  BY ListedRelationsKeep
<1> HIDE DEF e
<1>4. NamesDrawn(c, e.bnode_count)
  BY <1>2, NamesDrawnLater
<1>5. NamesDrawn(e, e.bnode_count)
  BY <1>1, <1>3, <1>4 DEF NamesDrawn, SameSubject
<1> QED BY <1>1, <1>2, <1>5 DEF Advances, e

\* What @rel and @rev leave behind: a new name as the object, unless a list
\* takes it.
LEMMA OpenRelationsNames ==
  ASSUME NEW c \in Contexts, c.new_subject # NULL,
         NamesDrawn(c, c.bnode_count)
  PROVE  /\ Advances(c, OpenRelations(c))
         /\ OpenRelations(c).new_subject = c.new_subject
         /\ (/\ c.current_object_resource = NULL /\ ~ListsRel(c)
             /\ c.attrs.rel # NULL \/ c.attrs.rev # NULL)
            => OpenRelations(c).current_object_resource = Bnode(c.bnode_count)
<1> DEFINE opens == /\ c.current_object_resource = NULL /\ ~ListsRel(c)
                    /\ c.attrs.rel # NULL \/ c.attrs.rev # NULL
           object == Bnode(c.bnode_count)
           count  == c.bnode_count + 1
           left   == c.local_incomplete_triples \o OpenPredicates(c.attrs)
           e      == OpenRelations(c)
<1>1. /\ c.bnode_count \in Nat /\ count \in Nat
      /\ c.bnode_count <= count /\ c.bnode_count < count
  BY ListFields
<1>2. CASE opens
  <2>1. e = SaveIncompleteTriples(c) /\ e \in Contexts
    BY <1>2, SaveIncompleteType DEF OpenRelations, SameSubject
  <2>2. e = [c EXCEPT !.current_object_resource = object,
               !.bnode_count = count, !.local_incomplete_triples = left]
    BY <2>1 DEF SaveIncompleteTriples, NextBnode
  <2>3. NamesDrawn(c, count) /\ Drawn(object, count)
    BY <1>1, NamesDrawnLater, NextIsDrawn
  <2> HIDE DEF object, count, left, e
  <2>4. /\ e.bnode_count = count /\ e.new_subject = c.new_subject
        /\ e.parent_subject = c.parent_subject
        /\ e.parent_object = c.parent_object
        /\ e.current_object_resource = object
        /\ e.underscore_colon_bnode_name = c.underscore_colon_bnode_name
    BY <2>2 DEF Contexts
  <2>5. NamesDrawn(e, count)
    BY <2>3, <2>4 DEF NamesDrawn
  <2> QED BY <1>1, <2>1, <2>4, <2>5 DEF Advances, e, object
<1>3. CASE ~opens
  <2>1. CASE ListsRel(c)
    BY <1>3, <2>1, ListedRelationsNames, OpenRelationsType DEF SameSubject
  <2>2. CASE ~ListsRel(c)
    <3>1. e = c
      BY <1>3, <2>2 DEF OpenRelations
    <3> QED BY <1>1, <1>3, <3>1 DEF Advances
  <2> QED BY <2>1, <2>2
<1> QED BY <1>2, <1>3

-----------------------------------------------------------------------------

\* A start tag leaves behind the two names of each of its warnings.
LEMMA StartedCounter ==
  ASSUME NEW parent \in Contexts, NEW tag \in Tags,
         InheritedObject(parent) # NULL
  PROVE  LET read == ReadAttributes(NewElementContext(parent), tag)
             c    == OpenRelations(EstablishSubject(read))
         IN  /\ parent.bnode_count + 2 * Reports(tag) <= read.bnode_count
             /\ read.bnode_count <= c.bnode_count
             /\ c.bnode_count \in Nat /\ read.bnode_count \in Nat
<1> DEFINE new  == NewElementContext(parent)
           read == ReadAttributes(new, tag)
           set  == EstablishSubject(read)
           c    == OpenRelations(set)
<1>1. /\ new \in Contexts /\ new.parent_object # NULL
      /\ new.bnode_count = parent.bnode_count
      /\ parent.bnode_count \in Nat /\ Reports(tag) \in Nat
  BY NewElementContextType, ListFields, TagTypes DEF NewElementContext
<1> HIDE DEF new
<1>2. read \in Contexts /\ read.parent_object # NULL
  BY <1>1, ReadAttributesType
<1>3. /\ \E i \in {0, 1} :
           read.bnode_count = new.bnode_count + 2 * Reports(tag) + i
  <2>1. \E b \in BOOLEAN : read.bnode_count =
          new.bnode_count + 2 * Reports(tag) + (IF b THEN 1 ELSE 0)
    BY <1>1 DEF ReadAttributes, Contexts
  <2> QED BY <2>1
<1> HIDE DEF read
<1>4. set \in Contexts /\ set.new_subject # NULL
  BY <1>2, SubjectEstablished DEF Established
<1>5. \E drawn \in BOOLEAN : set.bnode_count = Draw(read, drawn)
  BY <1>2, SubjectDraws
<1> HIDE DEF set
<1>6. c \in Contexts /\ c.bnode_count >= set.bnode_count
  BY <1>4, OpenRelationsType, OpenRelationsDraw DEF SameSubject
<1> HIDE DEF c
<1>7. read.bnode_count \in Nat /\ set.bnode_count \in Nat /\ c.bnode_count \in Nat
  BY <1>2, <1>4, <1>6, ListFields
<1>8. read.bnode_count <= set.bnode_count
  BY <1>5, <1>7 DEF Draw
<1> QED BY <1>1, <1>3, <1>6, <1>7, <1>8 DEF c, set, read, new

(***************************************************************************)
(* The context a start tag leaves: its names are drawn from the counter    *)
(* the parent had reached, and the object of what is left open is one of   *)
(* those drawn at this tag.                                                *)
(***************************************************************************)
LEMMA StartedNames ==
  ASSUME NEW parent \in Contexts, NEW tag \in Tags,
         OwnNames, InheritedObject(parent) # NULL,
         NamesDrawn(parent, parent.bnode_count)
  PROVE  LET read == ReadAttributes(NewElementContext(parent), tag)
             c == OpenRelations(EstablishSubject(read))
         IN  /\ parent.bnode_count <= c.bnode_count
             /\ NamesDrawn(c, c.bnode_count)
             /\ /\ LeavesOpen(tag, c.rdfa_version, c.host_language,
                              parent.depth + 1)
                /\ ~TakenByList(tag, c.rdfa_version)
                => \E n \in Nat : /\ read.bnode_count <= n
                                  /\ c.current_object_resource = Bnode(n)
<1> DEFINE new  == NewElementContext(parent)
           read == ReadAttributes(new, tag)
           set  == EstablishSubject(read)
           c    == OpenRelations(set)
<1>1. /\ new \in Contexts /\ new.parent_object # NULL
      /\ new.depth = parent.depth + 1
  BY NewElementContextType DEF NewElementContext
<1>2. new.bnode_count = parent.bnode_count /\ NamesDrawn(new, new.bnode_count)
  BY NewElementNames
<1> HIDE DEF new
<1>3. Ready(read) /\ new.bnode_count <= read.bnode_count
  BY <1>1, <1>2, ReadAttributesNames, ReadAttributesType DEF Ready, Advances
<1>4. /\ read.attrs.rel = tag.rel /\ read.attrs.rev = tag.rev
      /\ read.attrs.inlist => tag.inlist
  BY <1>1, AttributesOfTag
<1>5. /\ LeavesOpen(tag, read.rdfa_version, new.host_language, new.depth) =>
           set.current_object_resource = NULL
      /\ read.host_language = new.host_language
  BY <1>1, OpenHasNoObject, AttributesOfTag DEF LeavesOpen
<1> HIDE DEF read
<1>6. /\ Advances(read, set) /\ set \in Contexts /\ set.new_subject # NULL
      /\ set.attrs = read.attrs /\ set.rdfa_version = read.rdfa_version
      /\ set.host_language = read.host_language
  BY <1>3, EstablishSubjectNames, SubjectEstablished, EstablishedAttributes
  DEF Ready, Established
<1> HIDE DEF set
<1>7. ~TakenByList(tag, set.rdfa_version) => ~ListsRel(set)
  BY <1>4, <1>6 DEF ListsRel, TakenByList
<1>8. /\ Advances(set, c) /\ c.rdfa_version = set.rdfa_version
      /\ c.host_language = set.host_language
      /\ (/\ set.current_object_resource = NULL /\ ~ListsRel(set)
          /\ set.attrs.rel # NULL \/ set.attrs.rev # NULL)
         => c.current_object_resource = Bnode(set.bnode_count)
  BY <1>6, OpenRelationsNames, OpenRelationsType
  DEF Advances, SameSubject
<1> HIDE DEF c
<1>9. /\ parent.bnode_count \in Nat /\ read.bnode_count \in Nat
      /\ set.bnode_count \in Nat /\ c.bnode_count \in Nat
  BY <1>3, <1>6, <1>8, ListFields DEF Advances, Ready
<1>10. /\ read.bnode_count <= set.bnode_count
       /\ parent.bnode_count <= c.bnode_count /\ NamesDrawn(c, c.bnode_count)
  BY <1>2, <1>3, <1>6, <1>8, <1>9 DEF Advances
<1>11. ASSUME LeavesOpen(tag, c.rdfa_version, c.host_language,
                         parent.depth + 1),
              ~TakenByList(tag, c.rdfa_version)
       PROVE  c.current_object_resource = Bnode(set.bnode_count)
  BY <1>1, <1>4, <1>5, <1>6, <1>7, <1>8, <1>11 DEF LeavesOpen
<1> QED BY <1>9, <1>10, <1>11 DEF c, set, read, new

\* Sending a property's value to lists draws from the counter only.
LEMMA AfterPropertyNames ==
  ASSUME NEW c \in Contexts, c.new_subject # NULL
  PROVE  LET e == AfterProperty(CloseLiteral(c))
         IN  /\ e \in Contexts /\ c.bnode_count <= e.bnode_count
             /\ e.underscore_colon_bnode_name = c.underscore_colon_bnode_name
<1> DEFINE literal == CloseLiteral(c)
           e == AfterProperty(literal)
           keys == KeysOf(literal.new_subject, literal.attrs.property)
           made == CreateListMappings(literal, keys)
<1>1. /\ literal \in Contexts /\ literal.new_subject # NULL
      /\ literal.bnode_count = c.bnode_count
      /\ literal.underscore_colon_bnode_name = c.underscore_colon_bnode_name
  <2>1. literal \in Contexts /\ literal.new_subject # NULL
    BY CloseLiteralType DEF SameSubject
  <2>3. /\ literal.bnode_count = c.bnode_count
        /\ literal.underscore_colon_bnode_name = c.underscore_colon_bnode_name
    BY DEF CloseLiteral, Contexts
  <2> QED BY <2>1, <2>3
<1> HIDE DEF literal
<1>2. e \in Contexts
  BY <1>1, AfterPropertyType DEF SameSubject
<1>3. CASE literal.attrs.property = NULL \/ ~literal.attrs.inlist
  BY <1>1, <1>2, <1>3, ListFields DEF AfterProperty, literal
<1>4. CASE ~(literal.attrs.property = NULL \/ ~literal.attrs.inlist)
  <2> DEFINE fresh == FreshKeys(literal, keys)
  <2>1. literal.attrs.property \in Seq(Iris)
    BY <1>1, <1>4, AttributeTypes DEF Maybe
  <2> DEFINE D == DOMAIN literal.attrs.property
  <2>2. D \in Positions /\ keys \in [D -> Keys]
    <3>1. literal.new_subject \in Resources
      BY <1>1 DEF Contexts, Maybe
    <3> QED BY <2>1, <3>1, KeysOfType
  <2> HIDE DEF D, keys
  <2>3. Cardinality(fresh) \in Nat /\ literal.bnode_count \in Nat
    BY <1>1, <2>2, FreshKeysFinite, ListFields
  <2>4. e = AppendToListMappings(made, keys, CurrentPropertyValue(literal))
    BY <1>4 DEF AfterProperty, EstablishNewInlistTriples, keys
  <2>5. /\ made \in Contexts
        /\ made.bnode_count = literal.bnode_count + Cardinality(fresh)
        /\ made.underscore_colon_bnode_name
             = literal.underscore_colon_bnode_name
    <3>1. made \in Contexts
      BY <1>1, <2>2, CreateListMappingsType DEF SameSubject
    <3>2. /\ made.bnode_count = literal.bnode_count + Cardinality(fresh)
          /\ made.underscore_colon_bnode_name
               = literal.underscore_colon_bnode_name
      BY <1>1 DEF CreateListMappings, Contexts
    <3> QED BY <3>1, <3>2
  <2> HIDE DEF made, fresh
  <2>6. /\ e.bnode_count = made.bnode_count
        /\ e.underscore_colon_bnode_name = made.underscore_colon_bnode_name
    BY <2>4, <2>5 DEF AppendToListMappings, Contexts
  <2> HIDE DEF e
  <2> QED BY <1>1, <1>2, <2>3, <2>5, <2>6 DEF e, literal
<1> QED BY <1>3, <1>4

\* A parent keeps its own names and takes back the counter and the name of _:.
LEMMA ReturnToNames ==
  ASSUME NEW parent \in Contexts, NEW c \in Contexts,
         NamesDrawn(parent, c.bnode_count),
         Drawn(c.underscore_colon_bnode_name, c.bnode_count)
  PROVE  LET back == ReturnTo(parent, c)
         IN  back.bnode_count = c.bnode_count /\ NamesDrawn(back, c.bnode_count)
<1> DEFINE back == ReturnTo(parent, c)
<1>1. /\ back.bnode_count = c.bnode_count
      /\ back.underscore_colon_bnode_name = c.underscore_colon_bnode_name
      /\ back.parent_subject = parent.parent_subject
      /\ back.parent_object = parent.parent_object
      /\ back.new_subject = parent.new_subject
      /\ back.current_object_resource = parent.current_object_resource
  BY DEF ReturnTo, ListsReturned, NamesReturned, TextReturned, Contexts
<1> QED BY <1>1 DEF NamesDrawn
-----------------------------------------------------------------------------
(* The invariant and its proof.                                            *)

\* Every name in use lies behind the counter on top of the stack.
NamesBehind(s, t) ==
  /\ \A i \in DOMAIN s : NamesDrawn(s[i], s[Len(s)].bnode_count)
  /\ \A n \in DOMAIN t : /\ Drawn(t[n].subject, s[Len(s)].bnode_count)
                         /\ Drawn(t[n].object, s[Len(s)].bnode_count)
  /\ Len(s) > 1 => t # << >>

NamesInv ==
  /\ Inv
  /\ status # "ended" => NamesBehind(stack, tree)
  /\ HangingObjectIsNew

\* The tag of an element left a relation open and no list took it.
HangsAlone(n) == Hangs(n) /\ ~HangsInList(n)

\* Whether an element hangs, and its names, do not change while others come.
LEMMA NewNodeNames ==
  ASSUME HangingObjectIsNew, tree \in Seq(Nodes),
         NEW node \in Nodes, tree' = Append(tree, node), NEW k \in Nat,
         NEW id \in Nat, id = Len(tree) + 1,
         \A n \in DOMAIN tree : /\ Drawn(tree[n].subject, k)
                                /\ Drawn(tree[n].object, k),
         HangsAlone(id)' => \E n \in Nat : k <= n /\ node.object = Bnode(n)
  PROVE  HangingObjectIsNew'
<1>1. /\ DOMAIN tree' = 1 .. id /\ DOMAIN tree = 1 .. id - 1
      /\ tree'[id] = node /\ \A n \in 1 .. id - 1 : tree'[n] = tree[n]
  OBVIOUS
<1>2. \A n \in 1 .. id - 1 : HangsAlone(n)' => HangsAlone(n)
  BY <1>1 DEF HangsAlone, HangsInList, Hangs, HasAbout, Unset
<1>3. ASSUME NEW n \in 1 .. id - 1, HangsAlone(n)'
      PROVE  /\ tree'[n].object \in Bnodes
             /\ \A m \in 1 .. n - 1 :
                  tree'[n].object \notin {tree'[m].subject, tree'[m].object}
  BY <1>1, <1>2, <1>3 DEF HangingObjectIsNew, Elements, HangsAlone
<1>4. ASSUME HangsAlone(id)'
      PROVE  /\ tree'[id].object \in Bnodes
             /\ \A m \in 1 .. id - 1 :
                  tree'[id].object \notin {tree'[m].subject, tree'[m].object}
  <2>1. PICK n \in Nat : k <= n /\ node.object = Bnode(n)
    BY <1>4
  <2>2. Bnode(n) \in Bnodes /\ ~Drawn(Bnode(n), k)
    BY <2>1, NextIsDrawn
  <2>3. \A m \in 1 .. id - 1 : Bnode(n) \notin {tree[m].subject, tree[m].object}
    BY <1>1, <2>2
  <2> QED BY <1>1, <2>1, <2>2, <2>3
<1> QED BY <1>1, <1>3, <1>4 DEF HangingObjectIsNew, Elements, HangsAlone

\* Parsing starts with the root context and no blank node at all.
LEMMA InitNames == Init => NamesInv
<1> SUFFICES ASSUME Init PROVE NamesInv
  OBVIOUS
<1>1. PICK d \in Documents : stack = <<RootContext(d)>>
  BY DEF Init
<1>2. d.base \in Maybe(Iris) /\ Base \in Iris
  BY TagsAssumption, IriAssumption DEF Prologues, Vocabulary
<1>3. NamesDrawn(RootContext(d), RootContext(d).bnode_count)
  BY <1>2, OthersAreDrawn DEF RootContext, NamesDrawn, Maybe
<1>4. tree = << >> /\ NamesBehind(stack, tree)
  BY <1>1, <1>3 DEF Init, NamesBehind
<1>5. HangingObjectIsNew
  BY <1>4 DEF HangingObjectIsNew, Elements
<1> QED BY <1>4, <1>5, InitInv DEF NamesInv

\* start_element: the new context and the new element use names from the
\* counter of the context below, and later ones.
LEMMA StartElementNames ==
  ASSUME NamesInv, OwnNames, NEW tag \in Tags, StartElement(tag)
  PROVE  NamesInv'
<1> DEFINE read == ReadAttributes(NewElementContext(Top), tag)
           c == OpenRelations(EstablishSubject(read))
           node == [tag |-> tag, path |-> Append(open, Len(tree) + 1),
                    version |-> c.rdfa_version, host |-> c.host_language,
                    subject |-> c.new_subject,
                    object |-> c.current_object_resource]
           k == Top.bnode_count
           l == c.bnode_count
<1>1. /\ Inv /\ status = "parsing" /\ stack \in Seq(Contexts) /\ Len(stack) > 0
      /\ Len(stack) = Len(open) + 1 /\ Top.depth = Len(open)
      /\ tree \in Seq(Nodes) /\ open \in Seq(Nat)
      /\ Top \in Contexts /\ InheritedObject(Top) # NULL
  BY InvStack DEF NamesInv, StartElement, StackOK, Inv, TypeOK
<1>2. NamesBehind(stack, tree) /\ HangingObjectIsNew
  BY <1>1 DEF NamesInv
<1>3. NamesDrawn(Top, k)
  BY <1>1, <1>2 DEF NamesBehind, Top
<1>4. c \in Contexts
  BY <1>1, StartedContext
<1>5. /\ k <= l /\ NamesDrawn(c, l)
      /\ /\ LeavesOpen(tag, c.rdfa_version, c.host_language, Top.depth + 1)
         /\ ~TakenByList(tag, c.rdfa_version)
         => \E n \in Nat : k <= n /\ c.current_object_resource = Bnode(n)
  <2>1. /\ k <= l /\ NamesDrawn(c, l)
        /\ /\ LeavesOpen(tag, c.rdfa_version, c.host_language, Top.depth + 1)
           /\ ~TakenByList(tag, c.rdfa_version)
           => \E n \in Nat : /\ read.bnode_count <= n
                             /\ c.current_object_resource = Bnode(n)
    BY <1>1, <1>3, StartedNames
  <2>2. /\ k + 2 * Reports(tag) <= read.bnode_count
        /\ read.bnode_count \in Nat
    BY <1>1, StartedCounter
  <2>3. k \in Nat /\ Reports(tag) \in Nat
    BY <1>1, ListFields, TagTypes
  <2> HIDE DEF read, c, k, l
  <2>4. k <= read.bnode_count
    BY <2>2, <2>3
  <2> QED BY <2>1, <2>2, <2>3, <2>4
<1>6. /\ stack' = Append(stack, c) /\ tree' = Append(tree, node)
      /\ status' = status
  BY DEF StartElement
<1>7. Inv'
  BY <1>1, StartElementInv
<1>8. k \in Nat /\ l \in Nat
  BY <1>1, <1>4, ListFields
<1>9. node \in Nodes
  BY <1>1, <1>4 DEF Nodes, Contexts
<1> HIDE DEF c, k, l
<1>10. node.subject = c.new_subject /\ node.object = c.current_object_resource
       /\ node.tag = tag /\ node.version = c.rdfa_version
       /\ node.host = c.host_language
  OBVIOUS
<1> HIDE DEF node
<1>11. NamesBehind(stack', tree')
  <2>1. \A i \in DOMAIN stack : NamesDrawn(stack[i], l)
    BY <1>2, <1>5, <1>8, NamesDrawnLater DEF NamesBehind, Top, k
  <2>2. \A n \in DOMAIN tree :
          Drawn(tree[n].subject, l) /\ Drawn(tree[n].object, l)
    BY <1>2, <1>5, <1>8, DrawnLater DEF NamesBehind, Top, k
  <2>3. Drawn(node.subject, l) /\ Drawn(node.object, l)
    BY <1>5, <1>10 DEF NamesDrawn
  <2>4. /\ Len(stack') = Len(stack) + 1 /\ stack'[Len(stack')] = c
        /\ \A i \in DOMAIN stack' : i \in DOMAIN stack \/ stack'[i] = c
        /\ \A i \in DOMAIN stack : stack'[i] = stack[i]
    BY <1>1, <1>4, <1>6
  <2>5. /\ tree' # << >>
        /\ \A n \in DOMAIN tree' :
             (n \in DOMAIN tree /\ tree'[n] = tree[n]) \/ tree'[n] = node
    BY <1>1, <1>6, <1>9
  <2>6. \A i \in DOMAIN stack' : NamesDrawn(stack'[i], l)
    BY <1>5, <2>1, <2>4
  <2>7. \A n \in DOMAIN tree' :
          Drawn(tree'[n].subject, l) /\ Drawn(tree'[n].object, l)
    BY <2>2, <2>3, <2>5
  <2> QED BY <2>4, <2>5, <2>6, <2>7 DEF NamesBehind, l
<1>12. HangingObjectIsNew'
  <2>1. PICK id \in Nat : id = Len(tree) + 1
    BY <1>1
  <2>2. id = 1 => Top.depth + 1 = 1
    BY <1>1, <1>2, <2>1 DEF NamesBehind
  <2>3. ASSUME HangsAlone(id)'
        PROVE  \E n \in Nat : k <= n /\ node.object = Bnode(n)
    <3>1. tree'[id] = node
      BY <1>1, <1>6, <1>9, <2>1
    <3>2. LeavesOpen(node.tag, node.version, node.host, Top.depth + 1)
      BY <2>2, <2>3, <3>1
      DEF HangsAlone, Hangs, HasAbout, Unset, LeavesOpen, AboutGiven
    <3>3. ~TakenByList(node.tag, node.version)
      BY <2>3, <3>1 DEF HangsAlone, HangsInList, TakenByList
    <3> QED BY <1>5, <1>10, <3>2, <3>3
  <2>4. \A n \in DOMAIN tree :
          Drawn(tree[n].subject, k) /\ Drawn(tree[n].object, k)
    BY <1>2 DEF NamesBehind, Top, k
  <2> QED BY <1>1, <1>2, <1>6, <1>8, <1>9, <2>1, <2>3, <2>4, NewNodeNames
<1>13. status' # "ended" => NamesBehind(stack', tree')
  BY <1>11
<1> QED BY <1>7, <1>12, <1>13 DEF NamesInv

\* Without a new element, what the finished tree says stays.
LEMMA SameTreeNames ==
  ASSUME HangingObjectIsNew, UNCHANGED tree
  PROVE  HangingObjectIsNew'
BY DEF HangingObjectIsNew, Elements, HangsInList, Hangs, HasAbout, Unset

\* end_element: the context below takes the counter over before any of its
\* names can be drawn again.
LEMMA EndElementNames ==
  ASSUME NamesInv, EndElement
  PROVE  NamesInv'
<1> DEFINE c      == AfterProperty(CloseLiteral(Top))
           parent == Len(stack) - 1
           back   == ReturnTo(stack[parent], c)
           k      == Top.bnode_count
           l      == c.bnode_count
<1>1. /\ Inv /\ status = "parsing" /\ stack \in Seq(Contexts)
      /\ parent \in Nat /\ parent > 0
      /\ Top \in Contexts /\ Top.new_subject # NULL
      /\ stack[parent] \in Contexts
  BY InvStack DEF NamesInv, EndElement, StackOK, Top
<1>2. NamesBehind(stack, tree) /\ HangingObjectIsNew
  BY <1>1 DEF NamesInv
<1>3. /\ c \in Contexts /\ k <= l
      /\ c.underscore_colon_bnode_name = Top.underscore_colon_bnode_name
  BY <1>1, AfterPropertyNames
<1>4. k \in Nat /\ l \in Nat
  BY <1>1, <1>3, ListFields
<1>5. /\ stack' = [i \in 1 .. parent |-> IF i = parent THEN back ELSE stack[i]]
      /\ UNCHANGED <<status, tree>>
  BY DEF EndElement
<1>6. Inv'
  BY <1>1, EndElementInv
<1> HIDE DEF c, l, k
<1>7. \A i \in DOMAIN stack : NamesDrawn(stack[i], l)
  BY <1>2, <1>3, <1>4, NamesDrawnLater DEF NamesBehind, Top, k
<1>8. NamesDrawn(stack[parent], l) /\ NamesDrawn(Top, l)
  BY <1>1, <1>7 DEF Top
<1>9. back.bnode_count = l /\ NamesDrawn(back, l)
  BY <1>1, <1>3, <1>8, ReturnToNames DEF NamesDrawn, l
<1> HIDE DEF back
<1>10. \A n \in DOMAIN tree :
         Drawn(tree[n].subject, l) /\ Drawn(tree[n].object, l)
  BY <1>2, <1>3, <1>4, DrawnLater DEF NamesBehind, Top, k
<1>11. NamesBehind(stack', tree')
  <2>1. stack' \in Seq(Contexts)
    BY <1>6 DEF Inv, TypeOK
  <2>2. Len(stack') = parent /\ DOMAIN stack' = 1 .. parent
    BY <1>1, <1>5, <2>1
  <2>3. stack'[Len(stack')] = back
    <3>1. parent \in 1 .. parent
      BY <1>1
    <3> QED BY <1>5, <2>2, <3>1
  <2>4. \A i \in DOMAIN stack' : stack'[i] = back \/ stack'[i] = stack[i]
    BY <1>5
  <2>5. \A i \in DOMAIN stack' : NamesDrawn(stack'[i], l)
    BY <1>1, <1>7, <1>9, <2>2, <2>4
  <2>6. Len(stack') > 1 => tree' # << >>
    <3>1. Len(stack) \in Nat /\ Len(stack') = Len(stack) - 1
      BY <1>1, <2>2
    <3>2. tree' = tree /\ (Len(stack) > 1 => tree # << >>)
      BY <1>2, <1>5 DEF NamesBehind
    <3> QED BY <3>1, <3>2
  <2> QED BY <1>5, <1>9, <1>10, <2>3, <2>5, <2>6 DEF NamesBehind
<1>12. HangingObjectIsNew'
  BY <1>2, <1>5, SameTreeNames
<1>13. status' # "ended" => NamesBehind(stack', tree')
  BY <1>11
<1> QED BY <1>6, <1>12, <1>13 DEF NamesInv

\* Character data, and errors, which draw names from the bottom context only,
\* leave every name where it is and the counter on top no lower.
LEMMA SameNames ==
  ASSUME NamesInv, Inv', UNCHANGED <<status, tree>>,
         status # "ended" =>
           /\ Len(stack') = Len(stack) /\ DOMAIN stack' = DOMAIN stack
           /\ \A i \in DOMAIN stack :
                /\ stack[i].bnode_count <= stack'[i].bnode_count
                /\ \A n : NamesDrawn(stack[i], n) => NamesDrawn(stack'[i], n)
  PROVE  NamesInv'
<1>1. HangingObjectIsNew'
  BY SameTreeNames DEF NamesInv
<1>2. ASSUME status # "ended"
      PROVE  NamesBehind(stack', tree')
  <2> DEFINE k == Top.bnode_count
             l == stack'[Len(stack)].bnode_count
  <2>1. NamesBehind(stack, tree) /\ stack \in Seq(Contexts) /\ Len(stack) > 0
    BY <1>2, InvStack DEF NamesInv, StackOK
  <2>2. stack' \in Seq(Contexts) /\ Len(stack) \in DOMAIN stack
    BY <2>1 DEF Inv, TypeOK
  <2>3. k \in Nat /\ l \in Nat /\ k <= l
    BY <1>2, <2>1, <2>2, ListFields DEF Top
  <2> HIDE DEF k, l
  <2>4. \A i \in DOMAIN stack : NamesDrawn(stack[i], l)
    BY <2>1, <2>3, NamesDrawnLater DEF NamesBehind, Top, k
  <2>5. \A n \in DOMAIN tree :
          Drawn(tree[n].subject, l) /\ Drawn(tree[n].object, l)
    BY <2>1, <2>3, DrawnLater DEF NamesBehind, Top, k
  <2>6. \A i \in DOMAIN stack' : NamesDrawn(stack'[i], l)
    BY <1>2, <2>4
  <2> QED BY <1>2, <2>1, <2>5, <2>6 DEF NamesBehind, l
<1> QED BY <1>1, <1>2 DEF NamesInv

\* Every step keeps all names behind the counter on top.
LEMMA NextNames ==
  ASSUME NamesInv, OwnNames, [Next]_vars
  PROVE  NamesInv'
<1>1. Inv' /\ Inv
  BY NextInv DEF NamesInv
<1>2. ASSUME NEW tag \in Tags, StartElement(tag) PROVE NamesInv'
  BY <1>2, StartElementNames
<1>3. ASSUME NEW t \in Texts, CharacterData(t) PROVE NamesInv'
  <2> DEFINE top == [Top EXCEPT !.plain_literal = Appended(@, <<t>>),
                                !.inner = InnerWithText(@, t)]
  <2>1. /\ stack \in Seq(Contexts) /\ Len(stack) > 0 /\ Top \in Contexts
    BY <1>1, <1>3, InvStack DEF CharacterData, StackOK
  <2>2. /\ stack' = [stack EXCEPT ![Len(stack)] = top]
        /\ UNCHANGED <<status, tree>>
    BY <1>3 DEF CharacterData, WithText, Top
  <2>3. /\ top.bnode_count = Top.bnode_count /\ top.bnode_count \in Nat
        /\ \A n : NamesDrawn(Top, n) => NamesDrawn(top, n)
    BY <2>1 DEF Contexts, NamesDrawn
  <2> HIDE DEF top
  <2>4. \A i \in DOMAIN stack : stack[i].bnode_count \in Nat
    BY <2>1, ListFields
  <2> QED BY <1>1, <2>1, <2>2, <2>3, <2>4, SameNames DEF Top
<1>4. CASE EndElement
  BY <1>4, EndElementNames
<1>5. CASE ReadNullLiteral
  <2>1. \A i \in DOMAIN stack : stack[i].bnode_count <= stack[i].bnode_count
    BY <1>1, ListFields DEF Inv, TypeOK
  <2> QED
    BY <1>1, <1>5, <2>1, SameTreeNames DEF ReadNullLiteral, NamesInv
<1>6. CASE ReportError
  <2>1. /\ stack \in Seq(Contexts) /\ Len(stack) > 0
        /\ UNCHANGED <<status, tree>>
    BY <1>1, <1>6, InvStack DEF ReportError, StackOK
  <2>2. \A i \in DOMAIN stack : stack[i].bnode_count \in Nat
    BY <2>1, ListFields
  <2>3. CASE UNCHANGED stack
    BY <1>1, <2>1, <2>2, <2>3, SameNames
  <2>4. CASE ~UNCHANGED stack
    <3> DEFINE root == [stack[1] EXCEPT !.bnode_count = @ + 2]
    <3>1. stack' = [stack EXCEPT ![1] = root]
      BY <1>6, <2>4 DEF ReportError
    <3>2. stack[1] \in Contexts
      BY <2>1
    <3>3. /\ root.bnode_count = stack[1].bnode_count + 2
          /\ \A n : NamesDrawn(stack[1], n) => NamesDrawn(root, n)
      BY <3>2 DEF Contexts, NamesDrawn
    <3> HIDE DEF root
    <3> QED BY <1>1, <2>1, <2>2, <3>1, <3>3, SameNames
  <2> QED BY <2>3, <2>4
<1>7. CASE ParseEnd
  BY <1>1, <1>7, SameTreeNames DEF ParseEnd, NamesInv
<1>8. CASE UNCHANGED vars
  BY <1>1, <1>8, SameTreeNames DEF vars, NamesInv
<1> QED BY <1>2, <1>3, <1>4, <1>5, <1>6, <1>7, <1>8 DEF Next

(***************************************************************************)
(* In every document whose author names no generated node,                 *)
(* rdfa_save_incomplete_triples gives each element with a relation left    *)
(* open, unless it is left to a list, a node that no earlier element has   *)
(* as subject or object: neither the copies of the counter in the other    *)
(* contexts, nor warnings, lists, "_:", a change of version or errors of   *)
(* the XML parser make it draw a name twice.                               *)
(***************************************************************************)
THEOREM HangingObjectsAreNew ==
  ASSUME OwnNames
  PROVE  Spec => []HangingObjectIsNew
<1>1. NamesInv => HangingObjectIsNew
  BY DEF NamesInv
<1>2. NamesInv /\ [Next]_vars => NamesInv'
  BY NextNames
<1> QED BY <1>1, <1>2, InitNames, PTL DEF Spec

-----------------------------------------------------------------------------
(* The node that "_:" names.                                               *)

\* A chain of "otherwise" gives its first candidate, if there is one.
LEMMA FirstIs ==
  ASSUME NEW V, NEW s \in Seq(V), Len(s) > 0, s[1] # NULL
  PROVE  FirstSet(s) = s[1]
<1> DEFINE First(i) == s[i] # NULL /\ \A j \in 1 .. i - 1 : s[j] = NULL
           n == CHOOSE i \in DOMAIN s : First(i)
<1>1. DOMAIN s = 1 .. Len(s) /\ Len(s) \in Nat
  OBVIOUS
<1>2. 1 \in DOMAIN s /\ First(1)
  BY <1>1
<1>3. FirstSet(s) = s[n]
  BY <1>2 DEF FirstSet
<1>4. n \in DOMAIN s /\ First(n)
  BY <1>2
<1> HIDE DEF n
<1>5. n = 1
  BY <1>1, <1>4
<1> QED BY <1>3, <1>5

\* The same of the chains that end with the parent object.
LEMMA FirstGiven ==
  ASSUME NEW V, NEW s \in Seq(V), Len(s) > 0, s[1] # NULL, NEW last \in V
  PROVE  FirstSet(s) = s[1] /\ FirstSet(Append(s, last)) = s[1]
<1> DEFINE t == Append(s, last)
<1>1. t \in Seq(V) /\ Len(t) > 0 /\ t[1] = s[1]
  OBVIOUS
<1> HIDE DEF t
<1>2. FirstSet(t) = s[1]
  BY <1>1, FirstIs
<1> QED BY <1>2, FirstIs DEF t

\* An element with @about, written or implied, has it as its subject.
LEMMA SubjectIsAbout ==
  ASSUME NEW c \in Contexts, c.attrs.about # NULL
  PROVE  EstablishSubject(c).new_subject = c.attrs.about
<1> DEFINE a == c.attrs
           R == Maybe(Resources)
<1>1. /\ a.about # NULL
      /\ a.about \in R /\ a.src \in R /\ a.resource \in R /\ a.href \in R
      /\ c.parent_object \in R
  BY AttributeTypes DEF Contexts
<1> DEFINE named10 == <<a.about, a.src, a.resource, a.href>>
           named11 == <<a.about, a.resource, a.href, a.src>>
           two     == <<a.about, a.src>>
           alone   == <<a.about, c.parent_object>>
           Fallback(s) == FirstSet(Append(s, c.parent_object))
<1> HIDE DEF R
<1>2. /\ FirstSet(named10) = a.about /\ Fallback(named10) = a.about
      /\ FirstSet(named11) = a.about /\ Fallback(named11) = a.about
      /\ FirstSet(two) = a.about /\ Fallback(two) = a.about
      /\ FirstSet(alone) = a.about
  <2>1. \A s \in {named10, named11, two, alone} :
          s \in Seq(R) /\ Len(s) > 0 /\ s[1] = a.about
    <3>1. named10 \in Seq(R) /\ Len(named10) > 0 /\ named10[1] = a.about
      BY <1>1
    <3>2. named11 \in Seq(R) /\ Len(named11) > 0 /\ named11[1] = a.about
      BY <1>1
    <3>3. two \in Seq(R) /\ Len(two) > 0 /\ two[1] = a.about
      BY <1>1
    <3>4. alone \in Seq(R) /\ Len(alone) > 0 /\ alone[1] = a.about
      BY <1>1
    <3> HIDE DEF named10, named11, two, alone, a
    <3> QED BY <3>1, <3>2, <3>3, <3>4
  <2> HIDE DEF named10, named11, two, alone, a
  <2>2. \A s \in {named10, named11, two, alone} :
          FirstSet(s) = a.about /\ Fallback(s) = a.about
    BY <1>1, <2>1, FirstGiven
  <2> QED BY <2>2
<1>3. /\ EstablishNew10Subject(c).new_subject =
           IF FirstSet(named10) = NULL /\ HasTypes(a) THEN NextBnode(c)
           ELSE Fallback(named10)
      /\ EstablishPropertySubject(c).new_subject = FirstSet(alone)
      /\ EstablishChainedSubject(c).new_subject =
           IF a.typeof # NULL /\ FirstSet(named11) = NULL THEN NextBnode(c)
           ELSE Fallback(named11)
      /\ EstablishNew10SubjectWithRelRev(c).new_subject =
           IF FirstSet(two) = NULL /\ HasTypes(a) THEN NextBnode(c)
           ELSE Fallback(two)
      /\ EstablishNew11SubjectWithRelRev(c).new_subject = FirstSet(alone)
  BY DEF Contexts, NoneOf, EstablishNew10Subject, EstablishPropertySubject,
    EstablishChainedSubject, EstablishNew10SubjectWithRelRev,
    EstablishNew11SubjectWithRelRev
<1> HIDE DEF named10, named11, two, alone, Fallback
<1> QED
  BY <1>2, <1>3 DEF EstablishSubject, EstablishNew11Subject

\* @typeof without a resource to describe draws one.
LEMMA TypedDraws ==
  ASSUME NEW c \in Contexts, HasTypes(c.attrs),
         \A v \in {c.attrs.about, c.attrs.src, c.attrs.resource, c.attrs.href,
                   c.attrs.rel, c.attrs.rev, c.attrs.property} : v = NULL
  PROVE  EstablishSubject(c).new_subject = Bnode(c.bnode_count)
<1> DEFINE a == c.attrs
           named10 == <<a.about, a.src, a.resource, a.href>>
           named11 == <<a.about, a.resource, a.href, a.src>>
<1>1. NoneOf(named10) /\ NoneOf(named11)
  BY DEF NoneOf, FirstSet
<1>2. EstablishNew10Subject(c).new_subject = Bnode(c.bnode_count)
  <2> HIDE DEF named10
  <2> QED
    BY <1>1 DEF EstablishNew10Subject, Contexts, NextBnode, named10
<1>3. EstablishChainedSubject(c).new_subject = Bnode(c.bnode_count)
  BY <1>1 DEF EstablishChainedSubject, Contexts, NextBnode, HasTypes
<1> QED BY <1>2, <1>3 DEF EstablishSubject, EstablishNew11Subject

\* Reading the attributes: "_:" is the node it was before, or a new one the
\* first time.
LEMMA AnonymousRead ==
  ASSUME NEW c \in Contexts, NEW tag \in Tags
  PROVE  LET read == ReadAttributes(c, tag)
             old  == c.underscore_colon_bnode_name
             name == read.underscore_colon_bnode_name
         IN  /\ \/ name = old
                \/ /\ old = NULL
                   /\ \E j \in Nat : c.bnode_count <= j /\ name = Bnode(j)
             /\ tag.about = Anonymous => name # NULL /\ read.attrs.about = name
<1> DEFINE read == ReadAttributes(c, tag)
           old  == c.underscore_colon_bnode_name
           first == Bnode(c.bnode_count + 2 * Reports(tag))
           anonymous == AnonymousBnode(c, tag)
           unnamed == Anonymous \in {tag.about, tag.src, tag.resource, tag.href}
<1>1. /\ read.underscore_colon_bnode_name = (IF unnamed THEN anonymous ELSE old)
      /\ tag.about = Anonymous => read.attrs.about = anonymous
  <2>1. read.underscore_colon_bnode_name = (IF unnamed THEN anonymous ELSE old)
    <3> HIDE DEF anonymous
    <3> QED BY DEF ReadAttributes, Contexts, anonymous
  <2>2. read.attrs = ResolvedAttributes(c, tag, read.rdfa_version)
    BY AttributesOfTag
  <2> HIDE DEF read
  <2>3. tag.about = Anonymous => read.attrs.about = anonymous
    BY <2>2, NullAssumption DEF ResolvedAttributes, ImplicitAbout, Resolved
  <2> QED BY <2>1, <2>3
<1>2. anonymous = IF old # NULL THEN old ELSE first
  BY FirstOfTwoIs DEF AnonymousBnode
<1>3. /\ c.bnode_count \in Nat /\ Reports(tag) \in Nat
      /\ first # NULL
  BY ListFields, TagTypes, BnodeIsResource
<1> HIDE DEF read, anonymous
<1>4. \E j \in Nat : c.bnode_count <= j /\ first = Bnode(j)
  BY <1>3
<1> HIDE DEF first
<1> QED BY <1>1, <1>2, <1>3, <1>4 DEF read

\* Step 8 leaves the name of "_:" alone.
LEMMA OpenRelationsKeepAnonymous ==
  ASSUME NEW c \in Contexts, c.new_subject # NULL
  PROVE  OpenRelations(c).underscore_colon_bnode_name
           = c.underscore_colon_bnode_name
<1>1. CASE ListsRel(c)
  BY <1>1, ListedRelationsKeep
<1>2. CASE ~ListsRel(c)
  BY <1>2 DEF OpenRelations, SaveIncompleteTriples, Contexts
<1> QED BY <1>1, <1>2

\* The names of "_:", the subject and the object in the context that a start
\* tag leaves.
LEMMA StartedAnonymous ==
  ASSUME NEW parent \in Contexts, NEW tag \in Tags, OwnNames,
         InheritedObject(parent) # NULL,
         NamesDrawn(parent, parent.bnode_count)
  PROVE  LET read == ReadAttributes(NewElementContext(parent), tag)
             c    == OpenRelations(EstablishSubject(read))
             old  == parent.underscore_colon_bnode_name
             name == c.underscore_colon_bnode_name
         IN  /\ \/ name = old
                \/ /\ old = NULL
                   /\ \E j \in Nat : parent.bnode_count <= j /\ name = Bnode(j)
             /\ Drawn(name, read.bnode_count) /\ read.bnode_count \in Nat
             /\ tag.about = Anonymous => name # NULL /\ c.new_subject = name
             /\ /\ tag.typeof \notin {NULL, << >>}
                /\ ~AboutGiven(tag, c.host_language, parent.depth + 1)
                /\ \A f \in {"src", "resource", "href", "rel", "rev", "property"} :
                     tag[f] = NULL
                => c.new_subject = Bnode(read.bnode_count)
<1> DEFINE new  == NewElementContext(parent)
           read == ReadAttributes(new, tag)
           set  == EstablishSubject(read)
           c    == OpenRelations(set)
           old  == parent.underscore_colon_bnode_name
           name == read.underscore_colon_bnode_name
<1>1. /\ new \in Contexts /\ new.parent_object # NULL
      /\ new.depth = parent.depth + 1
      /\ new.bnode_count = parent.bnode_count
      /\ new.underscore_colon_bnode_name = old
      /\ NamesDrawn(new, new.bnode_count)
  BY NewElementContextType, NewElementNames DEF NewElementContext
<1> HIDE DEF new
<1>2. Ready(read) /\ Drawn(name, read.bnode_count) /\ read.bnode_count \in Nat
  BY <1>1, ReadAttributesNames, ReadAttributesType, ListFields
  DEF Ready, Advances, NamesDrawn
<1>3. /\ \/ name = old
         \/ /\ old = NULL
            /\ \E j \in Nat : parent.bnode_count <= j /\ name = Bnode(j)
      /\ tag.about = Anonymous => name # NULL /\ read.attrs.about = name
  BY <1>1, AnonymousRead
<1>4. /\ read.attrs.typeof = tag.typeof
      /\ read.attrs.rel = tag.rel /\ read.attrs.rev = tag.rev
      /\ read.attrs.property = tag.property
      /\ read.attrs.resource = NULL <=> tag.resource = NULL
      /\ read.attrs.href = NULL <=> tag.href = NULL
      /\ read.attrs.src = NULL <=> tag.src = NULL
      /\ read.attrs.about # NULL <=>
           AboutGiven(tag, new.host_language, new.depth)
      /\ read.host_language = new.host_language
  BY <1>1, AttributesOfTag
<1> HIDE DEF read
<1>5. /\ set \in Contexts /\ set.new_subject # NULL
      /\ set.host_language = read.host_language
      /\ set.underscore_colon_bnode_name = name
      /\ NamesDrawn(set, set.bnode_count)
  <2>1. read \in Contexts /\ Advances(read, set)
    BY <1>2, EstablishSubjectNames DEF Ready
  <2>2. set.underscore_colon_bnode_name = name
    BY <2>1 DEF Contexts, EstablishSubject, EstablishNew11Subject,
         EstablishNew10Subject, EstablishPropertySubject,
         EstablishChainedSubject, EstablishNew10SubjectWithRelRev,
         EstablishNew11SubjectWithRelRev
  <2> QED BY <1>2, <2>1, <2>2, SubjectEstablished, EstablishedAttributes
      DEF Ready, Established, Advances
<1>6. tag.about = Anonymous => set.new_subject = name
  BY <1>2, <1>3, SubjectIsAbout DEF Ready
<1>7. ASSUME tag.typeof \notin {NULL, << >>},
             ~AboutGiven(tag, new.host_language, new.depth),
             \A f \in {"src", "resource", "href", "rel", "rev", "property"} :
               tag[f] = NULL
      PROVE  set.new_subject = Bnode(read.bnode_count)
  <2>1. HasTypes(read.attrs)
    BY <1>4, <1>7 DEF HasTypes
  <2>2. \A v \in {read.attrs.about, read.attrs.src, read.attrs.resource,
                  read.attrs.href, read.attrs.rel, read.attrs.rev,
                  read.attrs.property} : v = NULL
    BY <1>4, <1>7
  <2> QED BY <1>2, <2>1, <2>2, TypedDraws DEF Ready
<1> HIDE DEF set
<1>8. /\ c.new_subject = set.new_subject /\ c.host_language = set.host_language
      /\ c.underscore_colon_bnode_name = set.underscore_colon_bnode_name
  <2>1. c.new_subject = set.new_subject /\ c.host_language = set.host_language
    BY <1>5, OpenRelationsNames, OpenRelationsType DEF SameSubject
  <2>2. c.underscore_colon_bnode_name = set.underscore_colon_bnode_name
    BY <1>5, OpenRelationsKeepAnonymous
  <2> QED BY <2>1, <2>2
<1> HIDE DEF c, name
<1> QED BY <1>1, <1>2, <1>3, <1>4, <1>5, <1>6, <1>7, <1>8
    DEF c, set, read, new, name

-----------------------------------------------------------------------------

\* While the document is read, "name" is what "_:" stands for, if anything.
NamedOnce(name) ==
  /\ \A i \in DOMAIN stack :
       stack[i].underscore_colon_bnode_name \in {NULL, name}
  /\ \A n \in Elements :
       /\ tree[n].tag.about = Anonymous => name # NULL /\ tree[n].subject = name
       /\ name # NULL => /\ TypedBlank(n) => tree[n].subject # name
                         /\ HangsAlone(n) => tree[n].object # name

AnonymousInv ==
  /\ NamesInv
  /\ status # "ended" => NamedOnce(Top.underscore_colon_bnode_name)
  /\ AnonymousIsOneNode

\* What the invariant says of the document so far.
LEMMA NamedOnceIsOneNode ==
  NamedOnce(Top.underscore_colon_bnode_name) => AnonymousIsOneNode
BY DEF NamedOnce, AnonymousIsOneNode, HangsAlone

\* Without a new element, what the finished tree says stays.
LEMMA SameTreeAnonymous ==
  ASSUME UNCHANGED tree
  PROVE  /\ AnonymousIsOneNode => AnonymousIsOneNode'
         /\ \A n \in Elements : /\ TypedBlank(n)' => TypedBlank(n)
                                /\ HangsAlone(n)' => HangsAlone(n)
         /\ Elements' = Elements
BY DEF AnonymousIsOneNode, Elements, TypedBlank, HangsAlone, HangsInList,
       Hangs, HasAbout, Unset

\* Nor do elements that come later change what was said of an earlier one.
LEMMA NewNodeAnonymous ==
  ASSUME tree \in Seq(Nodes), NEW node \in Nodes, tree' = Append(tree, node),
         NEW id \in Nat, id = Len(tree) + 1
  PROVE  /\ tree'[id] = node
         /\ \A n \in Elements' : n \in Elements \/ n = id
         /\ \A n \in Elements : /\ tree'[n] = tree[n]
                                /\ TypedBlank(n)' => TypedBlank(n)
                                /\ HangsAlone(n)' => HangsAlone(n)
<1>1. /\ DOMAIN tree' = 1 .. id /\ DOMAIN tree = 1 .. id - 1
      /\ tree'[id] = node /\ \A n \in 1 .. id - 1 : tree'[n] = tree[n]
  OBVIOUS
<1>2. \A n \in 1 .. id - 1 : /\ TypedBlank(n)' => TypedBlank(n)
                             /\ HangsAlone(n)' => HangsAlone(n)
  BY <1>1 DEF TypedBlank, HangsAlone, HangsInList, Hangs, HasAbout, Unset
<1> QED BY <1>1, <1>2 DEF Elements

\* start_element: a name for "_:" that is drawn here is new, and what else is
\* drawn here is another one.
LEMMA StartElementAnonymous ==
  ASSUME AnonymousInv, OwnNames, NEW tag \in Tags, StartElement(tag)
  PROVE  AnonymousInv'
<1> DEFINE read == ReadAttributes(NewElementContext(Top), tag)
           c == OpenRelations(EstablishSubject(read))
           node == [tag |-> tag, path |-> Append(open, Len(tree) + 1),
                    version |-> c.rdfa_version, host |-> c.host_language,
                    subject |-> c.new_subject,
                    object |-> c.current_object_resource]
           k == Top.bnode_count
           l == read.bnode_count
           old == Top.underscore_colon_bnode_name
           name == c.underscore_colon_bnode_name
<1>1. /\ Inv /\ status = "parsing" /\ stack \in Seq(Contexts) /\ Len(stack) > 0
      /\ Len(stack) = Len(open) + 1 /\ Top.depth = Len(open)
      /\ tree \in Seq(Nodes) /\ open \in Seq(Nat)
      /\ Top \in Contexts /\ InheritedObject(Top) # NULL
  BY InvStack DEF AnonymousInv, NamesInv, StartElement, StackOK, Inv, TypeOK
<1>2. NamesInv /\ NamesBehind(stack, tree) /\ NamesInv' /\ NamedOnce(old)
  <2>1. NamesInv /\ NamesBehind(stack, tree) /\ NamedOnce(old)
    BY <1>1 DEF AnonymousInv, NamesInv
  <2> QED BY <2>1, StartElementNames
<1>3. /\ NamesDrawn(Top, k) /\ k \in Nat
      /\ \A n \in Elements : Drawn(tree[n].subject, k) /\ Drawn(tree[n].object, k)
      /\ Len(stack) > 1 => tree # << >>
  BY <1>1, <1>2, ListFields DEF NamesBehind, Top, Elements
<1>4. c \in Contexts
  BY <1>1, StartedContext
<1>5. /\ name = old \/ (old = NULL /\ \E j \in Nat : k <= j /\ name = Bnode(j))
      /\ Drawn(name, l) /\ l \in Nat
      /\ tag.about = Anonymous => name # NULL /\ c.new_subject = name
      /\ /\ tag.typeof \notin {NULL, << >>}
         /\ ~AboutGiven(tag, c.host_language, Top.depth + 1)
         /\ \A f \in {"src", "resource", "href", "rel", "rev", "property"} :
              tag[f] = NULL
         => c.new_subject = Bnode(l)
  BY <1>1, <1>3, StartedAnonymous
<1>6. /\ LeavesOpen(tag, c.rdfa_version, c.host_language, Top.depth + 1)
      /\ ~TakenByList(tag, c.rdfa_version)
      => \E n \in Nat : l <= n /\ c.current_object_resource = Bnode(n)
  BY <1>1, <1>3, StartedNames
<1>7. /\ stack' = Append(stack, c) /\ tree' = Append(tree, node)
      /\ status' = status
  BY DEF StartElement
<1>8. node \in Nodes
  BY <1>1, <1>4 DEF Nodes, Contexts
<1> HIDE DEF c, k, l, read
<1>9. /\ node.subject = c.new_subject /\ node.object = c.current_object_resource
      /\ node.tag = tag /\ node.version = c.rdfa_version
      /\ node.host = c.host_language
  OBVIOUS
<1> HIDE DEF node
<1>10. PICK id \in Nat : id = Len(tree) + 1
  BY <1>1
<1>11. id = 1 <=> Top.depth + 1 = 1
  BY <1>1, <1>3, <1>10 DEF StartElement
<1>12. /\ tree'[id] = node
       /\ \A n \in Elements' : n \in Elements \/ n = id
       /\ \A n \in Elements : /\ tree'[n] = tree[n]
                              /\ TypedBlank(n)' => TypedBlank(n)
                              /\ HangsAlone(n)' => HangsAlone(n)
  BY <1>1, <1>7, <1>8, <1>10, NewNodeAnonymous
<1>13. Top' = c
  BY <1>1, <1>7 DEF Top
<1>14. PICK v : v = name
  OBVIOUS
<1> HIDE DEF old
<1>15. \A i \in DOMAIN stack' :
         stack'[i].underscore_colon_bnode_name \in {NULL, name}
  <2>1. \A i \in DOMAIN stack' :
          stack'[i] = c \/ (i \in DOMAIN stack /\ stack'[i] = stack[i])
    BY <1>1, <1>7
  <2> QED BY <1>2, <1>5, <2>1 DEF NamedOnce
<1> HIDE DEF name
<1>16. ASSUME NEW n \in Elements
       PROVE  /\ tree'[n].tag.about = Anonymous =>
                   name # NULL /\ tree'[n].subject = name
              /\ name # NULL => /\ TypedBlank(n)' => tree'[n].subject # name
                                /\ HangsAlone(n)' => tree'[n].object # name
  <2>1. CASE name = old
    BY <1>2, <1>12, <2>1 DEF NamedOnce
  <2>2. CASE old = NULL /\ \E j \in Nat : k <= j /\ name = Bnode(j)
    <3>1. tree[n].tag.about # Anonymous
      BY <1>2, <2>2 DEF NamedOnce
    <3>2. ~Drawn(name, k)
      BY <1>3, <2>2, NextIsDrawn
    <3>3. name \notin {tree[n].subject, tree[n].object}
      BY <1>3, <3>2
    <3> QED BY <1>12, <3>1, <3>3
  <2> QED BY <1>5, <2>1, <2>2
<1>17. /\ node.tag.about = Anonymous => name # NULL /\ node.subject = name
       /\ TypedBlank(id)' => node.subject # name
       /\ HangsAlone(id)' => node.object # name
  <2>1. \A n \in Nat : l <= n => Bnode(n) # name
    BY <1>5, NextIsDrawn
  <2>2. ASSUME TypedBlank(id)' PROVE node.subject # name
    <3>1. /\ tag.typeof \notin {NULL, << >>}
          /\ \A f \in {"src", "resource", "href", "rel", "rev", "property"} :
               tag[f] = NULL
          /\ ~AboutGiven(tag, c.host_language, Top.depth + 1)
      BY <1>9, <1>11, <1>12, <2>2 DEF TypedBlank, HasAbout, Unset, AboutGiven
    <3> QED BY <1>5, <1>9, <2>1, <3>1
  <2>3. ASSUME HangsAlone(id)' PROVE node.object # name
    <3>1. LeavesOpen(tag, c.rdfa_version, c.host_language, Top.depth + 1)
      BY <1>9, <1>11, <1>12, <2>3
      DEF HangsAlone, Hangs, HasAbout, Unset, LeavesOpen, AboutGiven
    <3>2. ~TakenByList(tag, c.rdfa_version)
      BY <1>9, <1>12, <2>3 DEF HangsAlone, HangsInList, TakenByList
    <3> QED BY <1>6, <1>9, <2>1, <3>1, <3>2
  <2> QED BY <1>5, <1>9, <2>2, <2>3
<1>18. NamedOnce(Top.underscore_colon_bnode_name)'
  <2>1. Top'.underscore_colon_bnode_name = v
    BY <1>13, <1>14 DEF name
  <2>2. \A n \in Elements' :
          /\ tree'[n].tag.about = Anonymous => v # NULL /\ tree'[n].subject = v
          /\ v # NULL => /\ TypedBlank(n)' => tree'[n].subject # v
                         /\ HangsAlone(n)' => tree'[n].object # v
    BY <1>12, <1>16, <1>17, <1>14
  <2>3. \A i \in DOMAIN stack' :
          stack'[i].underscore_colon_bnode_name \in {NULL, v}
    BY <1>15, <1>14
  <2> QED BY <2>1, <2>2, <2>3 DEF NamedOnce
<1>19. AnonymousIsOneNode'
  BY <1>18, NamedOnceIsOneNode, PTL
<1> QED BY <1>2, <1>18, <1>19 DEF AnonymousInv

\* A step without a new element that leaves the name of "_:" on top.
LEMMA SameAnonymous ==
  ASSUME AnonymousInv, NamesInv', UNCHANGED tree, status # "ended",
         LET name == Top.underscore_colon_bnode_name
         IN  /\ Top'.underscore_colon_bnode_name = name
             /\ \A i \in DOMAIN stack' :
                  stack'[i].underscore_colon_bnode_name \in {NULL, name}
  PROVE  AnonymousInv'
<1>1. PICK v : v = Top.underscore_colon_bnode_name
  OBVIOUS
<1>2. /\ Elements' = Elements
      /\ \A n \in Elements : /\ TypedBlank(n)' => TypedBlank(n)
                             /\ HangsAlone(n)' => HangsAlone(n)
      /\ AnonymousIsOneNode'
  BY SameTreeAnonymous DEF AnonymousInv
<1>3. /\ Top'.underscore_colon_bnode_name = v
      /\ \A i \in DOMAIN stack' :
           stack'[i].underscore_colon_bnode_name \in {NULL, v}
      /\ \A n \in Elements :
           /\ tree'[n].tag.about = Anonymous => v # NULL /\ tree'[n].subject = v
           /\ v # NULL => /\ TypedBlank(n)' => tree'[n].subject # v
                          /\ HangsAlone(n)' => tree'[n].object # v
  BY <1>1, <1>2 DEF AnonymousInv, NamedOnce
<1>4. NamedOnce(Top.underscore_colon_bnode_name)'
  BY <1>2, <1>3 DEF NamedOnce
<1> QED BY <1>2, <1>4 DEF AnonymousInv

\* end_element: the parent takes the name of "_:" back.
LEMMA EndElementAnonymous ==
  ASSUME AnonymousInv, NamesInv', EndElement
  PROVE  AnonymousInv'
<1> DEFINE c      == AfterProperty(CloseLiteral(Top))
           parent == Len(stack) - 1
           back   == ReturnTo(stack[parent], c)
           name   == Top.underscore_colon_bnode_name
<1>1. /\ Inv /\ status = "parsing" /\ stack \in Seq(Contexts)
      /\ parent \in Nat /\ parent > 0
      /\ Top \in Contexts /\ Top.new_subject # NULL
      /\ stack[parent] \in Contexts
  BY InvStack DEF AnonymousInv, NamesInv, EndElement, StackOK, Top
<1>2. c.underscore_colon_bnode_name = name
  BY <1>1, AfterPropertyNames
<1>3. /\ stack' = [i \in 1 .. parent |-> IF i = parent THEN back ELSE stack[i]]
      /\ UNCHANGED tree
  BY DEF EndElement
<1> HIDE DEF c
<1>4. back.underscore_colon_bnode_name = name
  BY <1>1, <1>2
  DEF ReturnTo, ListsReturned, NamesReturned, TextReturned, Contexts
<1> HIDE DEF back
<1>5. /\ stack' \in Seq(Contexts) /\ parent \in 1 .. parent
      /\ \A i \in 1 .. parent : i \in DOMAIN stack
  BY <1>1 DEF NamesInv, Inv, TypeOK
<1>6. Len(stack') = parent /\ DOMAIN stack' = 1 .. parent
  BY <1>1, <1>3, <1>5
<1>7. Top' = back
  BY <1>3, <1>5, <1>6 DEF Top
<1>8. \A i \in DOMAIN stack' : stack'[i] \in {back, stack[i]}
  BY <1>3
<1>9. \A i \in DOMAIN stack' :
        stack'[i].underscore_colon_bnode_name \in {NULL, name}
  BY <1>1, <1>4, <1>5, <1>6, <1>8 DEF AnonymousInv, NamedOnce
<1> QED BY <1>1, <1>3, <1>4, <1>7, <1>9, SameAnonymous

\* No other step names a node.
LEMMA NextAnonymous ==
  ASSUME AnonymousInv, OwnNames, [Next]_vars
  PROVE  AnonymousInv'
<1> DEFINE Name(c) == c.underscore_colon_bnode_name
<1>1. NamesInv /\ NamesInv' /\ Inv
  <2>1. NamesInv
    BY DEF AnonymousInv
  <2>2. NamesInv'
    BY <2>1, NextNames
  <2> QED BY <2>1, <2>2 DEF NamesInv
<1>2. ASSUME UNCHANGED tree, status # "ended", stack # << >>,
             stack \in Seq(Contexts), DOMAIN stack' = DOMAIN stack,
             Len(stack') = Len(stack),
             \A i \in DOMAIN stack : Name(stack'[i]) = Name(stack[i])
      PROVE  AnonymousInv'
  <2>1. Len(stack) \in DOMAIN stack
    BY <1>2
  <2>2. Name(Top') = Name(Top)
    BY <1>2, <2>1 DEF Top
  <2>3. \A i \in DOMAIN stack' : Name(stack'[i]) \in {NULL, Name(Top)}
    BY <1>2 DEF AnonymousInv, NamedOnce
  <2> QED BY <1>1, <1>2, <2>2, <2>3, SameAnonymous
<1>3. ASSUME NEW t \in Texts, CharacterData(t) PROVE AnonymousInv'
  <2> DEFINE c == [Top EXCEPT !.plain_literal = Appended(@, <<t>>),
                              !.inner = InnerWithText(@, t)]
  <2>1. /\ stack \in Seq(Contexts) /\ Len(stack) > 0 /\ Top \in Contexts
        /\ status = "parsing" /\ UNCHANGED tree
    BY <1>1, <1>3, InvStack DEF CharacterData, StackOK
  <2>2. stack' = [stack EXCEPT ![Len(stack)] = c]
    BY <1>3 DEF CharacterData, WithText, Top
  <2>3. Name(c) = Name(Top)
    BY <2>1 DEF Contexts
  <2> HIDE DEF c, Name
  <2>4. \A i \in DOMAIN stack : Name(stack'[i]) = Name(stack[i])
    BY <2>1, <2>2, <2>3 DEF Top
  <2> QED BY <1>2, <2>1, <2>2, <2>4
<1>4. CASE ReportError
  <2>1. /\ stack \in Seq(Contexts) /\ Len(stack) > 0
        /\ status = "parsing" /\ UNCHANGED tree
    BY <1>1, <1>4, InvStack DEF ReportError, StackOK
  <2>2. CASE UNCHANGED stack
    BY <1>2, <2>1, <2>2
  <2>3. CASE ~UNCHANGED stack
    <3> DEFINE root == [stack[1] EXCEPT !.bnode_count = @ + 2]
    <3>1. stack' = [stack EXCEPT ![1] = root]
      BY <1>4, <2>3 DEF ReportError
    <3>2. Name(root) = Name(stack[1])
      BY <2>1 DEF Contexts
    <3> HIDE DEF root, Name
    <3>3. \A i \in DOMAIN stack : Name(stack'[i]) = Name(stack[i])
      BY <2>1, <3>1, <3>2
    <3> QED BY <1>2, <2>1, <3>1, <3>3
  <2> QED BY <2>2, <2>3
<1>5. CASE ParseEnd
  BY <1>1, <1>5, SameTreeAnonymous DEF ParseEnd, AnonymousInv
<1>6. CASE ReadNullLiteral
  <2>1. UNCHANGED <<stack, tree>> /\ status = "parsing"
    BY <1>6 DEF ReadNullLiteral
  <2>2. stack \in Seq(Contexts) /\ Len(stack) > 0
    BY <1>1, <2>1, InvStack DEF StackOK
  <2> QED BY <1>2, <2>1, <2>2
<1>7. CASE UNCHANGED vars
  <2>1. CASE status = "ended"
    BY <1>1, <1>7, <2>1, SameTreeAnonymous DEF vars, AnonymousInv
  <2>2. CASE status # "ended"
    <3>1. stack \in Seq(Contexts) /\ Len(stack) > 0
      BY <1>1, <2>2, InvStack DEF StackOK
    <3> QED BY <1>2, <1>7, <2>2, <3>1 DEF vars
  <2> QED BY <2>1, <2>2
<1>8. CASE EndElement
  BY <1>1, <1>8, EndElementAnonymous
<1> QED
  BY <1>3, <1>4, <1>5, <1>6, <1>7, <1>8, StartElementAnonymous DEF Next

\* At the start nothing has a name.
LEMMA InitAnonymous == Init => AnonymousInv
<1> SUFFICES ASSUME Init PROVE AnonymousInv
  OBVIOUS
<1>1. PICK d \in Documents : stack = <<RootContext(d)>>
  BY DEF Init
<1>2. /\ \A i \in DOMAIN stack : stack[i] = RootContext(d)
      /\ Elements = {}
  BY <1>1 DEF Init, Elements
<1>3. RootContext(d).underscore_colon_bnode_name = NULL
  BY DEF RootContext
<1> QED BY <1>2, <1>3, InitNames, NamedOnceIsOneNode
    DEF AnonymousInv, NamedOnce

(***************************************************************************)
(* In every document whose author names no generated node, "_:" names one  *)
(* node: each context copies the name to its children and takes it back    *)
(* from them, so the name that is on top of the stack is the only one, and *)
(* what is drawn for @typeof or for a relation left open is another node.  *)
(***************************************************************************)
THEOREM AnonymousAlwaysOneNode ==
  ASSUME OwnNames
  PROVE  Spec => []AnonymousIsOneNode
<1>1. AnonymousInv /\ [Next]_vars => AnonymousInv'
  BY NextAnonymous
<1>2. AnonymousInv => AnonymousIsOneNode
  BY DEF AnonymousInv
<1> QED BY <1>1, <1>2, InitAnonymous, PTL DEF Spec
=============================================================================
