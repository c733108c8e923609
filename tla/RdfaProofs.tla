----------------------------- MODULE RdfaProofs -----------------------------
(***************************************************************************)
(* Proofs about the processor for every document, every set of IRIs and    *)
(* every bound: types, subjects and the stack.  The lemmas follow the      *)
(* modules from RdfaContext up to RdfaProcessor: what each operator        *)
(* returns; the last section proves the invariant step by step.            *)
(***************************************************************************)
EXTENDS RdfaProperties, FiniteSetTheorems, SequenceTheorems, TLAPS

\* FirstSet returns a member of a short chain of candidates, and one that is
\* not null if there is one.
LEMMA FirstSetFinds ==
  ASSUME NEW s, NEW V, s \in Seq(V), Len(s) <= 5
  PROVE  /\ \/ FirstSet(s) = NULL
            \/ \E i \in 1 .. Len(s) : FirstSet(s) = s[i]
         /\ (\E i \in 1 .. Len(s) : s[i] # NULL) => FirstSet(s) # NULL
<1> DEFINE First(i) == s[i] # NULL /\ \A j \in 1 .. i - 1 : s[j] = NULL
<1>1. CASE \E i \in 1 .. Len(s) : s[i] # NULL
  <2>1. \E i \in 1 .. Len(s) : First(i)
    BY <1>1
  <2> DEFINE n == CHOOSE i \in DOMAIN s : First(i)
  <2>2. n \in 1 .. Len(s) /\ s[n] # NULL
    BY <2>1
  <2>3. FirstSet(s) = s[n]
    BY <1>1 DEF FirstSet
  <2> QED BY <2>2, <2>3
<1>2. CASE ~ \E i \in 1 .. Len(s) : s[i] # NULL
  BY <1>2 DEF FirstSet
<1> QED BY <1>1, <1>2

\* The null pointer is not a resource.
LEMMA NullIsNoResource == NULL \notin Resources
BY NullAssumption, NullBnodeAssumption DEF Resources

\* A generated blank node is a resource and not null.
LEMMA BnodeIsResource ==
  ASSUME NEW n \in Nat
  PROVE  Bnode(n) \in Resources /\ Bnode(n) # NULL
BY NullBnodeAssumption DEF Bnode, Bnodes, Resources

\* FirstSet stays in the set the candidates are from.
LEMMA FirstSetType ==
  ASSUME NEW S, NULL \notin S, NEW s \in Seq(Maybe(S)), Len(s) <= 5
  PROVE  /\ FirstSet(s) \in Maybe(S)
         /\ (\E i \in 1 .. Len(s) : s[i] # NULL) => FirstSet(s) \in S
<1>1. \A i \in 1 .. Len(s) : s[i] \in Maybe(S)
  OBVIOUS
<1>2. FirstSet(s) = NULL \/ \E i \in 1 .. Len(s) : FirstSet(s) = s[i]
  BY FirstSetFinds
<1>3. FirstSet(s) \in Maybe(S)
  BY <1>1, <1>2 DEF Maybe
<1> QED BY <1>3, FirstSetFinds DEF Maybe

\* rdfa_create_context and rdfa_parse_start leave a well-typed root context,
\* whatever the head of the document says.
LEMMA RootContextType ==
  ASSUME NEW d \in Prologues
  PROVE  RootContext(d) \in Contexts
<1>1. Base \in Iris
  BY IriAssumption DEF Vocabulary
<1>2. FirstSet(<<d.base, Base>>) \in Iris
  <2> DEFINE s == <<d.base, Base>>
  <2>1. s \in Seq(Maybe(Iris)) /\ Len(s) <= 5 /\ \E i \in 1 .. Len(s) : s[i] # NULL
    BY <1>1, NullAssumption DEF Prologues, Maybe
  <2> HIDE DEF s
  <2>2. FirstSet(s) \in Iris
    BY <2>1, FirstSetType, NullAssumption
  <2> QED BY <2>2 DEF s
<1>3. NoAttributes \in Attributes
  BY DEF NoAttributes, Attributes, Maybe
<1>4. IsFiniteSet({})
  BY FS_EmptySet
<1> QED
  BY <1>1, <1>2, <1>3, <1>4 DEF RootContext, Contexts, Inners, Prologues, Maybe,
     Resources

\* A value that may be null, with a default that is not, gives a value.
LEMMA FirstOfTwoIn ==
  ASSUME NEW S, NULL \notin S, NEW first \in Maybe(S), NEW last \in S
  PROVE  FirstSet(<<first, last>>) \in S
<1> DEFINE s == <<first, last>>
<1>1. last \in Maybe(S) /\ last # NULL
  BY DEF Maybe
<1>2. /\ s \in Seq(Maybe(S)) /\ Len(s) <= 5
      /\ \E i \in 1 .. Len(s) : s[i] # NULL
  BY <1>1
<1> HIDE DEF s
<1>3. FirstSet(s) \in S
  BY <1>2, FirstSetType
<1> QED BY <1>3 DEF s

\* The same for resources.
LEMMA FirstOfTwo ==
  ASSUME NEW first \in Maybe(Resources), NEW last \in Resources
  PROVE  FirstSet(<<first, last>>) \in Resources
BY FirstOfTwoIn, NullIsNoResource

\* What a child inherits is well typed, and it has a parent object unless the
\* parent is skipped and has none itself.
LEMMA InheritedTypes ==
  ASSUME NEW c \in Contexts
  PROVE  /\ InheritedSubject(c) \in Resources
         /\ InheritedObject(c) \in Maybe(Resources)
         /\ InheritedIncompletes(c) \in Seq(Incompletes)
         /\ c.skip_element = FALSE => InheritedObject(c) # NULL
         /\ c.parent_object # NULL => InheritedObject(c) # NULL
<1>1. /\ c.parent_subject \in Resources /\ c.parent_subject # NULL
      /\ c.new_subject \in Maybe(Resources)
      /\ c.parent_object \in Maybe(Resources)
      /\ c.current_object_resource \in Maybe(Resources)
      /\ c.skip_element \in BOOLEAN
      /\ c.incomplete_triples \in Seq(Incompletes)
      /\ c.local_incomplete_triples \in Seq(Incompletes)
  BY NullIsNoResource DEF Contexts
<1>2. FirstSet(<<c.new_subject, c.parent_subject>>) \in Resources
  BY <1>1, FirstOfTwo
<1>3. FirstSet(<<c.current_object_resource, c.new_subject, c.parent_subject>>)
        \in Resources
  <2> DEFINE s == <<c.current_object_resource, c.new_subject, c.parent_subject>>
  <2>1. s \in Seq(Maybe(Resources)) /\ Len(s) <= 5 /\ \E i \in 1 .. Len(s) : s[i] # NULL
    BY <1>1 DEF Maybe
  <2> HIDE DEF s
  <2>2. FirstSet(s) \in Resources
    BY <2>1, FirstSetType, NullIsNoResource
  <2> QED BY <2>2 DEF s
<1> QED
  BY <1>1, <1>2, <1>3, NullIsNoResource
  DEF InheritedSubject, InheritedObject, InheritedIncompletes, Maybe

\* rdfa_create_new_element_context makes a well-typed child of a well-typed
\* parent.
LEMMA NewElementContextType ==
  ASSUME NEW parent \in Contexts
  PROVE  NewElementContext(parent) \in Contexts
<1>1. NoAttributes \in Attributes
  BY DEF NoAttributes, Attributes, Maybe
<1>2. /\ InheritedSubject(parent) \in Resources
      /\ InheritedObject(parent) \in Maybe(Resources)
      /\ InheritedIncompletes(parent) \in Seq(Incompletes)
  BY InheritedTypes
<1> QED
  BY <1>1, <1>2 DEF NewElementContext, Contexts, Inners, Maybe

-----------------------------------------------------------------------------

\* The resolved attributes of a context have their types.
LEMMA AttributeTypes ==
  ASSUME NEW c \in Contexts
  PROVE  /\ c.attrs \in Attributes
         /\ c.attrs.about \in Maybe(Resources)
         /\ c.attrs.src \in Maybe(Resources)
         /\ c.attrs.resource \in Maybe(Resources)
         /\ c.attrs.href \in Maybe(Resources)
         /\ c.attrs.typeof \in Maybe(Seq(Iris))
         /\ c.attrs.rel \in Maybe(Seq(Iris))
         /\ c.attrs.rev \in Maybe(Seq(Iris))
         /\ c.attrs.property \in Maybe(Seq(Iris))
         /\ c.attrs.content \in Maybe(Seq(Texts))
         /\ c.attrs.datatype \in Maybe(DatatypeValues)
         /\ c.attrs.inlist \in BOOLEAN
BY DEF Contexts, Attributes

\* A chain of resources that ends in one that is not null gives a resource.
LEMMA FirstResource ==
  ASSUME NEW s \in Seq(Maybe(Resources)), Len(s) <= 4, NEW last \in Resources
  PROVE  /\ FirstSet(s) \in Maybe(Resources)
         /\ FirstSet(Append(s, last)) \in Resources
<1>1. last \in Maybe(Resources) /\ last # NULL
  BY NullIsNoResource DEF Maybe
<1>2. FirstSet(s) \in Maybe(Resources)
  BY FirstSetType, NullIsNoResource
<1> DEFINE t == Append(s, last)
<1>3. /\ t \in Seq(Maybe(Resources)) /\ Len(t) <= 5
      /\ \E i \in 1 .. Len(t) : t[i] # NULL
  <2>1. Len(t) = Len(s) + 1 /\ t[Len(s) + 1] = last /\ Len(s) \in Nat
    BY <1>1
  <2>2. t \in Seq(Maybe(Resources))
    BY <1>1
  <2> QED BY <1>1, <2>1, <2>2
<1> HIDE DEF t
<1>4. FirstSet(t) \in Resources
  BY <1>3, FirstSetType, NullIsNoResource
<1> QED BY <1>2, <1>4 DEF t

\* Drawing a blank node leaves a counter and gives a resource.
LEMMA DrawType ==
  ASSUME NEW c \in Contexts, NEW drawn \in BOOLEAN
  PROVE  /\ Draw(c, drawn) \in Nat
         /\ NextBnode(c) \in Resources
<1>1. c.bnode_count \in Nat
  BY DEF Contexts
<1> QED BY <1>1, BnodeIsResource DEF Draw, NextBnode

\* e is a context with a subject, and in the same place as c.
Established(c, e) ==
  /\ e \in Contexts /\ e.new_subject # NULL
  /\ e.parent_object = c.parent_object /\ e.depth = c.depth

\* RDFa 1.0, neither @rel nor @rev: the element gets a subject.
LEMMA New10SubjectType ==
  ASSUME NEW c \in Contexts, c.parent_object # NULL
  PROVE  Established(c, EstablishNew10Subject(c))
<1> DEFINE a     == c.attrs
           named == <<a.about, a.src, a.resource, a.href>>
           drawn == NoneOf(named) /\ HasTypes(a)
           subject == IF drawn THEN NextBnode(c)
                      ELSE FirstSet(Append(named, c.parent_object))
<1>1. c.parent_object \in Resources
  BY DEF Contexts, Maybe
<1>2. named \in Seq(Maybe(Resources)) /\ Len(named) <= 4
  BY AttributeTypes
<1>3. subject \in Resources
  <2> HIDE DEF named
  <2>1. FirstSet(Append(named, c.parent_object)) \in Resources
    BY <1>1, <1>2, FirstResource
  <2> QED BY <2>1, DrawType
<1>4. Draw(c, drawn) \in Nat
  BY DrawType DEF NoneOf, HasTypes
<1>5. EstablishNew10Subject(c) =
        [c EXCEPT !.new_subject = subject, !.bnode_count = Draw(c, drawn)]
  BY DEF EstablishNew10Subject
<1> HIDE DEF subject, drawn
<1>6. subject \in Maybe(Resources) /\ subject # NULL
  BY <1>3, NullIsNoResource DEF Maybe
<1> QED BY <1>4, <1>5, <1>6, ZenonT(60) DEF Contexts, Established

\* RDFa 1.1, @property alone: the element gets a subject.
LEMMA PropertySubjectType ==
  ASSUME NEW c \in Contexts, c.parent_object # NULL
  PROVE  Established(c, EstablishPropertySubject(c))
<1> DEFINE a     == c.attrs
           named == <<a.about, a.resource, a.href, a.src>>
           typed == a.typeof # NULL
           drawn == typed /\ NoneOf(named)
           type  == IF drawn THEN NextBnode(c) ELSE FirstSet(named)
           subject  == FirstSet(<<a.about, c.parent_object>>)
           resource == IF typed THEN type ELSE NULL
           object   == IF typed /\ a.about = NULL THEN type ELSE NULL
<1>1. c.parent_object \in Resources
  BY DEF Contexts, Maybe
<1>2. named \in Seq(Maybe(Resources)) /\ Len(named) <= 4
  BY AttributeTypes
<1>3. resource \in Maybe(Resources) /\ object \in Maybe(Resources)
  <2> HIDE DEF named
  <2>1. FirstSet(named) \in Maybe(Resources)
    BY <1>1, <1>2, FirstResource
  <2> QED BY <2>1, DrawType DEF Maybe
<1>4. subject \in Resources
  BY <1>1, AttributeTypes, FirstOfTwo
<1>5. Draw(c, drawn) \in Nat
  BY DrawType DEF NoneOf
<1>6. EstablishPropertySubject(c) =
        [c EXCEPT !.new_subject = subject, !.typed_resource = resource,
                  !.current_object_resource = object,
                  !.bnode_count = Draw(c, drawn)]
  BY DEF EstablishPropertySubject
<1> HIDE DEF subject, resource, object, drawn
<1>7. subject \in Maybe(Resources) /\ subject # NULL
  BY <1>4, NullIsNoResource DEF Maybe
<1> QED BY <1>3, <1>5, <1>6, <1>7, ZenonT(60) DEF Contexts, Established

\* RDFa 1.1, no @rel, @rev or such @property: the element gets a subject.
LEMMA ChainedSubjectType ==
  ASSUME NEW c \in Contexts, c.parent_object # NULL
  PROVE  Established(c, EstablishChainedSubject(c))
<1> DEFINE a     == c.attrs
           named == <<a.about, a.resource, a.href, a.src>>
           typed == a.typeof # NULL
           drawn == typed /\ NoneOf(named)
           inherits == ~typed /\ NoneOf(named) /\ c.parent_object # NULL
           subject == IF drawn THEN NextBnode(c)
                      ELSE FirstSet(Append(named, c.parent_object))
           resource == IF typed THEN subject ELSE NULL
           skips == c.skip_element \/ (inherits /\ a.property = NULL)
<1>1. c.parent_object \in Resources
  BY DEF Contexts, Maybe
<1>2. named \in Seq(Maybe(Resources)) /\ Len(named) <= 4
  BY AttributeTypes
<1>3. subject \in Resources
  <2> HIDE DEF named
  <2>1. FirstSet(Append(named, c.parent_object)) \in Resources
    BY <1>1, <1>2, FirstResource
  <2> QED BY <2>1, DrawType
<1>4. subject \in Maybe(Resources) /\ subject # NULL
  BY <1>3, NullIsNoResource DEF Maybe
<1>5. resource \in Maybe(Resources)
  BY <1>4 DEF Maybe
<1>6. Draw(c, drawn) \in Nat
  BY DrawType DEF NoneOf
<1>7. EstablishChainedSubject(c) =
        [c EXCEPT !.new_subject = subject, !.typed_resource = resource,
                  !.skip_element = skips, !.bnode_count = Draw(c, drawn)]
  BY DEF EstablishChainedSubject
<1>8. skips \in BOOLEAN
  BY DEF NoneOf, Contexts
<1> HIDE DEF subject, resource, skips, drawn
<1> QED BY <1>4, <1>5, <1>6, <1>7, <1>8, ZenonT(60) DEF Contexts, Established

\* RDFa 1.0 with @rel or @rev: the element gets a subject.
LEMMA New10SubjectWithRelRevType ==
  ASSUME NEW c \in Contexts, c.parent_object # NULL
  PROVE  Established(c, EstablishNew10SubjectWithRelRev(c))
<1> DEFINE a     == c.attrs
           named == <<a.about, a.src>>
           drawn == NoneOf(named) /\ HasTypes(a)
           subject == IF drawn THEN NextBnode(c)
                      ELSE FirstSet(Append(named, c.parent_object))
           targets == <<a.resource, a.href>>
           object  == FirstSet(targets)
<1>1. c.parent_object \in Resources
  BY DEF Contexts, Maybe
<1>2. named \in Seq(Maybe(Resources)) /\ Len(named) <= 4
  BY AttributeTypes
<1>3. subject \in Resources
  <2> HIDE DEF named
  <2>1. FirstSet(Append(named, c.parent_object)) \in Resources
    BY <1>1, <1>2, FirstResource
  <2> QED BY <2>1, DrawType
<1>4. subject \in Maybe(Resources) /\ subject # NULL
  BY <1>3, NullIsNoResource DEF Maybe
<1>5. object \in Maybe(Resources)
  <2>1. targets \in Seq(Maybe(Resources)) /\ Len(targets) <= 4
    BY AttributeTypes
  <2> HIDE DEF targets
  <2> QED BY <1>1, <2>1, FirstResource
<1>6. Draw(c, drawn) \in Nat
  BY DrawType DEF NoneOf, HasTypes
<1>7. EstablishNew10SubjectWithRelRev(c) =
        [c EXCEPT !.new_subject = subject, !.current_object_resource = object,
                  !.bnode_count = Draw(c, drawn)]
  BY DEF EstablishNew10SubjectWithRelRev
<1> HIDE DEF subject, object, drawn
<1> QED BY <1>4, <1>5, <1>6, <1>7, ZenonT(60) DEF Contexts, Established

\* RDFa 1.1 with @rel or @rev: the element gets a subject.
LEMMA New11SubjectWithRelRevType ==
  ASSUME NEW c \in Contexts, c.parent_object # NULL
  PROVE  Established(c, EstablishNew11SubjectWithRelRev(c))
<1> DEFINE a     == c.attrs
           named == <<a.resource, a.href, a.src>>
           typed == a.typeof # NULL /\ a.about = NULL
           drawn == typed /\ NoneOf(named)
           object == IF drawn THEN NextBnode(c) ELSE FirstSet(named)
           subject == FirstSet(<<a.about, c.parent_object>>)
           resource == IF typed THEN object
                       ELSE IF a.typeof # NULL THEN a.about ELSE NULL
<1>1. c.parent_object \in Resources
  BY DEF Contexts, Maybe
<1>2. named \in Seq(Maybe(Resources)) /\ Len(named) <= 4
  BY AttributeTypes
<1>3. object \in Maybe(Resources)
  <2> HIDE DEF named
  <2>1. FirstSet(named) \in Maybe(Resources)
    BY <1>1, <1>2, FirstResource
  <2> QED BY <2>1, DrawType DEF Maybe
<1>4. subject \in Resources
  BY <1>1, AttributeTypes, FirstOfTwo
<1>5. resource \in Maybe(Resources)
  BY <1>3, AttributeTypes DEF Maybe
<1>6. Draw(c, drawn) \in Nat
  BY DrawType DEF NoneOf
<1>7. EstablishNew11SubjectWithRelRev(c) =
        [c EXCEPT !.new_subject = subject, !.current_object_resource = object,
                  !.typed_resource = resource, !.bnode_count = Draw(c, drawn)]
  BY DEF EstablishNew11SubjectWithRelRev
<1> HIDE DEF subject, resource, object, drawn
<1>8. subject \in Maybe(Resources) /\ subject # NULL
  BY <1>4, NullIsNoResource DEF Maybe
<1> QED BY <1>3, <1>5, <1>6, <1>7, <1>8, ZenonT(60) DEF Contexts, Established

(***************************************************************************)
(* Whatever the attributes and the version, an element inside another one  *)
(* gets a subject.                                                         *)
(***************************************************************************)
LEMMA SubjectEstablished ==
  ASSUME NEW c \in Contexts, c.parent_object # NULL
  PROVE  Established(c, EstablishSubject(c))
BY New10SubjectType, PropertySubjectType, ChainedSubjectType,
   New10SubjectWithRelRevType, New11SubjectWithRelRevType
DEF EstablishSubject, EstablishNew11Subject

-----------------------------------------------------------------------------

\* The image of a finite set is finite.
LEMMA FiniteImage ==
  ASSUME NEW S, IsFiniteSet(S), NEW V, NEW f \in [S -> V]
  PROVE  IsFiniteSet({f[x] : x \in S})
<1>1. f \in Surjection(S, {f[x] : x \in S})
  BY DEF Surjection
<1> QED BY <1>1, FS_Surjection

\* The positions at which a loop finds a key.
Positions == {D \in SUBSET Nat : IsFiniteSet(D)}

\* Any set of positions of a sequence is finite.
LEMMA SequencePositions ==
  ASSUME NEW V, NEW s \in Seq(V), NEW D \in SUBSET DOMAIN s
  PROVE  D \in Positions
<1>1. DOMAIN s = 1 .. Len(s) /\ Len(s) \in Nat
  OBVIOUS
<1>2. IsFiniteSet(1 .. Len(s))
  BY <1>1, FS_Interval
<1>3. IsFiniteSet(D)
  BY <1>1, <1>2, FS_Subset
<1> QED BY <1>1, <1>3 DEF Positions

\* The keys a loop adds to the list mappings are finitely many, so the
\* counters they move stay natural numbers.
LEMMA FreshKeysFinite ==
  ASSUME NEW c, NEW D \in Positions, NEW keys \in [D -> Keys]
  PROVE  /\ FreshKeys(c, keys) \subseteq Keys
         /\ IsFiniteSet(FreshKeys(c, keys))
         /\ Cardinality(FreshKeys(c, keys)) \in Nat
         /\ \A k : FreshBefore(c, keys, k) \in Nat
<1> DEFINE all == {keys[i] : i \in D}
<1>1. DOMAIN keys = D /\ all \subseteq Keys
  OBVIOUS
<1>2. IsFiniteSet(all)
  BY FiniteImage DEF Positions
<1>3. FreshKeys(c, keys) \subseteq all
  BY <1>1 DEF FreshKeys
<1>4. \A T \in SUBSET all : IsFiniteSet(T) /\ Cardinality(T) \in Nat
  BY <1>2, FS_Subset, FS_CardinalityType
<1>5. \A k : {m \in FreshKeys(c, keys) : FirstAt(keys, m) < FirstAt(keys, k)}
               \in SUBSET all
  BY <1>3
<1> HIDE DEF all
<1>6. \A k : FreshBefore(c, keys, k) \in Nat
  BY <1>4, <1>5 DEF FreshBefore
<1> QED BY <1>1, <1>3, <1>4, <1>6

\* The fields of a context that the list mappings use have their types.
LEMMA ListFields ==
  ASSUME NEW c \in Contexts
  PROVE  /\ c.local_list_mappings \subseteq Lists
         /\ IsFiniteSet(c.local_list_mappings)
         /\ c.list_slots \in Nat /\ c.depth \in Nat /\ c.bnode_count \in Nat
BY DEF Contexts

\* e differs from c in its lists, its counter and its object only.
SameSubject(c, e) ==
  /\ e \in Contexts /\ e.new_subject = c.new_subject /\ e.depth = c.depth
  /\ e.parent_object = c.parent_object /\ e.rdfa_version = c.rdfa_version
  /\ e.skip_element = c.skip_element /\ e.attrs = c.attrs
  /\ e.parent_subject = c.parent_subject
  /\ e.host_language = c.host_language
  /\ e.default_vocabulary = c.default_vocabulary

\* rdfa_create_list_mapping, over a whole loop, disturbs nothing but lists
\* and counters.
LEMMA CreateListMappingsType ==
  ASSUME NEW c \in Contexts, NEW D \in Positions, NEW keys \in [D -> Keys]
  PROVE  SameSubject(c, CreateListMappings(c, keys))
<1> DEFINE fresh == FreshKeys(c, keys)
           entry(k) ==
             [key |-> k, slot |-> c.list_slots + FreshBefore(c, keys, k),
              depth |-> c.depth,
              head |-> Bnode(c.bnode_count + FreshBefore(c, keys, k)),
              items |-> << >>]
           added == {entry(k) : k \in fresh}
           lists == c.local_list_mappings \cup added
           slots == c.list_slots + Cardinality(fresh)
           count == c.bnode_count + Cardinality(fresh)
<1>1. /\ fresh \subseteq Keys /\ IsFiniteSet(fresh)
      /\ Cardinality(fresh) \in Nat /\ \A k : FreshBefore(c, keys, k) \in Nat
  BY FreshKeysFinite
<1>2. /\ c.local_list_mappings \subseteq Lists
      /\ IsFiniteSet(c.local_list_mappings)
      /\ c.list_slots \in Nat /\ c.depth \in Nat /\ c.bnode_count \in Nat
  BY ListFields
<1>3. \A k \in fresh : entry(k) \in Lists
  BY <1>1, <1>2 DEF Lists, Bnode, Bnodes
<1>4. IsFiniteSet(added)
  <2> DEFINE f == [k \in fresh |-> entry(k)]
  <2>1. f \in [fresh -> Lists] /\ added = {f[k] : k \in fresh}
    BY <1>3
  <2> HIDE DEF f, added, fresh
  <2> QED BY <1>1, <2>1, FiniteImage, ZenonT(60)
<1>5. lists \in {m \in SUBSET Lists : IsFiniteSet(m)}
  BY <1>2, <1>3, <1>4, FS_Union
<1>6. CreateListMappings(c, keys) =
        [c EXCEPT !.local_list_mappings = lists,
                  !.list_slots = slots, !.bnode_count = count]
  BY DEF CreateListMappings
<1>7. slots \in Nat /\ count \in Nat
  BY <1>1, <1>2
<1> HIDE DEF lists, fresh, slots, count
<1> QED BY <1>5, <1>6, <1>7, ZenonT(60) DEF Contexts, SameSubject

\* rdfa_append_to_list_mapping, over a whole loop, disturbs nothing but
\* lists.
LEMMA AppendToListMappingsType ==
  ASSUME NEW c \in Contexts, NEW D \in Positions, NEW keys \in [D -> Keys],
         NEW value \in Values
  PROVE  SameSubject(c, AppendToListMappings(c, keys, value))
<1> DEFINE entry(l) == [l EXCEPT !.items = @ \o Copies(keys, l.key, value)]
           old   == c.local_list_mappings
           lists == {entry(l) : l \in old}
<1>1. old \subseteq Lists /\ IsFiniteSet(old)
  BY ListFields
<1>2. \A k : Copies(keys, k, value) \in Seq(Values)
  <2> TAKE k
  <2> DEFINE at == {i \in DOMAIN keys : keys[i] = k}
  <2>1. at \in SUBSET D
    OBVIOUS
  <2>2. Cardinality(at) \in Nat
    BY <2>1, FS_Subset, FS_CardinalityType DEF Positions
  <2> QED BY <2>2 DEF Copies
<1>3. \A l \in old : entry(l) \in Lists
  <2> TAKE l \in old
  <2> DEFINE items == l.items \o Copies(keys, l.key, value)
  <2>1. l \in Lists /\ items \in Seq(Values)
    BY <1>1, <1>2 DEF Lists
  <2>2. entry(l) = [l EXCEPT !.items = items]
    OBVIOUS
  <2> HIDE DEF items
  <2> QED BY <2>1, <2>2 DEF Lists
<1>4. IsFiniteSet(lists)
  <2> DEFINE f == [l \in old |-> entry(l)]
  <2>1. f \in [old -> Lists] /\ lists = {f[l] : l \in old}
    BY <1>3
  <2> HIDE DEF f, lists, old
  <2> QED BY <1>1, <2>1, FiniteImage, ZenonT(60)
<1>5. lists \in {m \in SUBSET Lists : IsFiniteSet(m)}
  BY <1>3, <1>4
<1>6. AppendToListMappings(c, keys, value) =
        [c EXCEPT !.local_list_mappings = lists]
  BY DEF AppendToListMappings
<1> HIDE DEF lists
<1> QED BY <1>5, <1>6 DEF Contexts, SameSubject

\* The keys made of a subject and predicates are keys.
LEMMA KeysOfType ==
  ASSUME NEW subject \in Resources, NEW preds \in Seq(Iris)
  PROVE  /\ DOMAIN preds \in Positions
         /\ KeysOf(subject, preds) \in [DOMAIN preds -> Keys]
         /\ \A i \in DOMAIN preds : Reresolved[preds[i]] \in Iris
<1>1. DOMAIN preds \in Positions
  BY SequencePositions
<1>2. \A i \in DOMAIN preds : Reresolved[preds[i]] \in Iris
  BY ReresolvedAssumption
<1> QED BY <1>1, <1>2 DEF KeysOf, Keys

\* rdfa_establish_new_inlist_triples keeps the context well typed and its
\* subject.
LEMMA NewInlistType ==
  ASSUME NEW c \in Contexts, c.new_subject # NULL,
         NEW preds \in Seq(Iris), NEW value \in Values
  PROVE  SameSubject(c, EstablishNewInlistTriples(c, preds, value))
<1> DEFINE keys == KeysOf(c.new_subject, preds)
           d    == CreateListMappings(c, keys)
<1>1. c.new_subject \in Resources
  BY DEF Contexts, Maybe
<1>2. DOMAIN preds \in Positions /\ keys \in [DOMAIN preds -> Keys]
  BY <1>1, KeysOfType
<1> HIDE DEF keys
<1>3. SameSubject(c, d)
  BY <1>2, CreateListMappingsType
<1> HIDE DEF d
<1>4. SameSubject(d, AppendToListMappings(d, keys, value))
  BY <1>2, <1>3, AppendToListMappingsType DEF SameSubject
<1> QED BY <1>3, <1>4 DEF EstablishNewInlistTriples, SameSubject, keys, d

\* rdfa_save_incomplete_list_triples keeps the context well typed and its
\* subject.
LEMMA SaveIncompleteListType ==
  ASSUME NEW c \in Contexts, c.new_subject # NULL, NEW preds \in Seq(Iris)
  PROVE  SameSubject(c, SaveIncompleteListTriples(c, preds))
<1> DEFINE keys  == KeysOf(c.new_subject, preds)
           d     == CreateListMappings(c, keys)
           added == [i \in DOMAIN preds |->
                       [dir |-> "none", pred |-> Reresolved[preds[i]]]]
           all   == d.local_incomplete_triples \o added
<1>1. c.new_subject \in Resources
  BY DEF Contexts, Maybe
<1>2. DOMAIN preds \in Positions /\ keys \in [DOMAIN preds -> Keys]
  BY <1>1, KeysOfType
<1>3. added \in Seq(Incompletes)
  <2>1. DOMAIN preds = 1 .. Len(preds) /\ Len(preds) \in Nat
    OBVIOUS
  <2>2. added \in [1 .. Len(preds) -> Incompletes]
    BY <1>1, <2>1, KeysOfType DEF Incompletes
  <2> HIDE DEF added
  <2> QED BY <2>1, <2>2
<1> HIDE DEF keys, added
<1>4. SameSubject(c, d)
  BY <1>2, CreateListMappingsType
<1>5. SaveIncompleteListTriples(c, preds)
        = [d EXCEPT !.local_incomplete_triples = all]
  BY DEF SaveIncompleteListTriples, keys, added
<1> HIDE DEF d
<1>6. all \in Seq(Incompletes)
  BY <1>3, <1>4 DEF SameSubject, Contexts
<1> HIDE DEF all
<1> QED BY <1>4, <1>5, <1>6, ZenonT(60) DEF SameSubject, Contexts

\* rdfa_save_incomplete_triples keeps the context well typed and its subject.
LEMMA SaveIncompleteType ==
  ASSUME NEW c \in Contexts
  PROVE  SameSubject(c, SaveIncompleteTriples(c))
<1> DEFINE a   == c.attrs
           f   == [i \in DOMAIN Rels(a) |-> [dir |-> "forward", pred |-> Rels(a)[i]]]
           g   == [i \in DOMAIN Revs(a) |-> [dir |-> "reverse", pred |-> Revs(a)[i]]]
           all == c.local_incomplete_triples \o OpenPredicates(a)
           object == NextBnode(c)
           count  == c.bnode_count + 1
<1>1. Rels(a) \in Seq(Iris) /\ Revs(a) \in Seq(Iris)
  BY AttributeTypes DEF Rels, Revs, Maybe
<1>2. f \in Seq(Incompletes)
  <2>1. f \in [1 .. Len(Rels(a)) -> Incompletes] /\ Len(Rels(a)) \in Nat
    BY <1>1 DEF Incompletes
  <2> HIDE DEF f
  <2> QED BY <2>1
<1>3. g \in Seq(Incompletes)
  <2>1. g \in [1 .. Len(Revs(a)) -> Incompletes] /\ Len(Revs(a)) \in Nat
    BY <1>1 DEF Incompletes
  <2> HIDE DEF g
  <2> QED BY <2>1
<1>4. all \in Seq(Incompletes)
  <2>1. OpenPredicates(a) = f \o g
    BY DEF OpenPredicates
  <2>2. c.local_incomplete_triples \in Seq(Incompletes)
    BY DEF Contexts
  <2> HIDE DEF f, g
  <2> QED BY <1>2, <1>3, <2>1, <2>2
<1>5. object \in Maybe(Resources) /\ count \in Nat
  BY BnodeIsResource, ListFields DEF NextBnode, Maybe
<1>6. SaveIncompleteTriples(c) =
        [c EXCEPT !.current_object_resource = object, !.bnode_count = count,
                  !.local_incomplete_triples = all]
  BY DEF SaveIncompleteTriples
<1> HIDE DEF all, object, count
<1> QED BY <1>4, <1>5, <1>6, ZenonT(60) DEF SameSubject, Contexts

\* The object a listed @rel adds is a value.
LEMMA ListedObjectType ==
  ASSUME NEW c \in Contexts, c.current_object_resource # NULL
  PROVE  ListedObject(c) \in Values
<1>1. c.current_object_resource \in Resources /\ c.language \in Maybe(Languages)
  BY DEF Contexts, Maybe
<1> QED BY <1>1 DEF ListedObject, Values, Literals, Maybe

\* Step 8 of the processing rules keeps the context well typed and its
\* subject, whichever of its branches is taken.
LEMMA OpenRelationsType ==
  ASSUME NEW c \in Contexts, c.new_subject # NULL
  PROVE  SameSubject(c, OpenRelations(c))
<1>1. CASE ListsRel(c)
  <2>1. c.attrs.rel \in Seq(Iris)
    BY <1>1, AttributeTypes DEF ListsRel, Maybe
  <2>2. CASE c.current_object_resource # NULL
    BY <1>1, <2>1, <2>2, ListedObjectType, NewInlistType DEF OpenRelations
  <2>3. CASE c.current_object_resource = NULL
    BY <1>1, <2>1, <2>3, SaveIncompleteListType DEF OpenRelations
  <2> QED BY <2>2, <2>3
<1>2. CASE ~ListsRel(c)
  <2>1. SameSubject(c, c)
    BY DEF SameSubject
  <2> QED BY <1>2, <2>1, SaveIncompleteType DEF OpenRelations
<1> QED BY <1>1, <1>2

-----------------------------------------------------------------------------

\* A tag of the document is a start tag, and raises some number of reports.
LEMMA TagTypes ==
  ASSUME NEW tag \in Tags
  PROVE  tag \in StartTags /\ Reports(tag) \in Nat
BY TagsAssumption DEF StartTags, Reports

\* The name of _: is a blank node.
LEMMA AnonymousBnodeType ==
  ASSUME NEW c \in Contexts, NEW tag \in Tags
  PROVE  AnonymousBnode(c, tag) \in Bnodes
<1>1. c.underscore_colon_bnode_name \in Maybe(Bnodes) /\ c.bnode_count \in Nat
  BY DEF Contexts
<1>2. Bnode(c.bnode_count + 2 * Reports(tag)) \in Bnodes
  BY <1>1, TagTypes DEF Bnode, Bnodes
<1> QED
  BY <1>1, <1>2, FirstOfTwoIn, NullBnodeAssumption DEF AnonymousBnode

\* CURIE resolution gives well-typed attributes.
LEMMA ResolvedAttributesType ==
  ASSUME NEW c \in Contexts, NEW tag \in Tags, NEW version
  PROVE  ResolvedAttributes(c, tag, version) \in Attributes
<1>1. tag \in StartTags
  BY TagTypes
<1>2. c.base \in Maybe(Resources)
  BY DEF Contexts, Maybe, Resources
<1>3. \A value \in AttributeValues :
        Resolved(value, AnonymousBnode(c, tag)) \in Maybe(Resources)
  BY AnonymousBnodeType DEF AttributeValues, Resolved, Maybe, Resources
<1>4. /\ tag.about \in AttributeValues /\ tag.src \in AttributeValues
      /\ tag.resource \in AttributeValues /\ tag.href \in AttributeValues
      /\ tag.typeof \in Maybe(Seq(Iris)) /\ tag.rel \in Maybe(Seq(Iris))
      /\ tag.rev \in Maybe(Seq(Iris)) /\ tag.property \in Maybe(Seq(Iris))
      /\ tag.content \in Maybe(Seq(Texts))
      /\ tag.datatype \in Maybe(DatatypeValues)
      /\ tag.inlist \in BOOLEAN
  BY <1>1 DEF StartTags
<1> QED
  BY <1>2, <1>3, <1>4 DEF ResolvedAttributes, Attributes

\* Reading the attributes keeps the context well typed and in its place.
LEMMA ReadAttributesType ==
  ASSUME NEW c \in Contexts, NEW tag \in Tags
  PROVE  /\ ReadAttributes(c, tag) \in Contexts
         /\ ReadAttributes(c, tag).parent_object = c.parent_object
         /\ ReadAttributes(c, tag).depth = c.depth
<1> DEFINE version == FirstSet(<<tag.version, c.rdfa_version>>)
           vocabulary == UpdatedVocabulary(c.default_vocabulary, version, tag.vocab)
           a == ResolvedAttributes(c, tag, version)
           unnamed == Anonymous \in {tag.about, tag.src, tag.resource, tag.href}
           drawn == unnamed /\ c.underscore_colon_bnode_name = NULL
           language == UpdatedLanguage(c.language, tag.lang)
           name == IF unnamed THEN AnonymousBnode(c, tag)
                   ELSE c.underscore_colon_bnode_name
           count == c.bnode_count + 2 * Reports(tag) + (IF drawn THEN 1 ELSE 0)
           skips == Skips(a, vocabulary, tag)
<1>1. tag \in StartTags /\ Reports(tag) \in Nat
  BY TagTypes
<1>2. version \in Versions
  <2>1. tag.version \in Maybe(Versions) /\ c.rdfa_version \in Versions
    BY <1>1 DEF StartTags, Contexts
  <2> QED BY <2>1, FirstOfTwoIn, NullAssumption
<1>3. vocabulary \in Maybe(Iris)
  <2>1. /\ tag.vocab \in Maybe(Iris \cup {EmptyVocabulary})
        /\ c.default_vocabulary \in Maybe(Iris)
    BY <1>1 DEF StartTags, Contexts
  <2> HIDE DEF version
  <2> QED BY <2>1 DEF UpdatedVocabulary, Maybe
<1>4. a \in Attributes
  BY ResolvedAttributesType
<1>5. language \in Maybe(Languages)
  <2>1. /\ tag.lang \in Maybe(Languages \cup {EmptyLanguage})
        /\ c.language \in Maybe(Languages)
    BY <1>1 DEF StartTags, Contexts
  <2> QED BY <2>1 DEF UpdatedLanguage, Maybe
<1>6. name \in Maybe(Bnodes)
  BY AnonymousBnodeType DEF Maybe, Contexts
<1>7. count \in Nat
  BY <1>1, ListFields
<1>8. skips \in BOOLEAN
  BY <1>1 DEF Skips, StartTags
<1>9. ReadAttributes(c, tag) =
        [c EXCEPT !.rdfa_version = version, !.default_vocabulary = vocabulary,
                  !.language = language, !.attrs = a, !.inner = tag.torn,
                  !.skip_element = skips,
                  !.underscore_colon_bnode_name = name, !.bnode_count = count]
  BY DEF ReadAttributes
<1> HIDE DEF version, vocabulary, a, unnamed, drawn, language, name, count, skips
<1> DEFINE read ==
      [c EXCEPT !.rdfa_version = version, !.default_vocabulary = vocabulary,
                !.language = language, !.attrs = a, !.inner = tag.torn,
                !.skip_element = skips,
                !.underscore_colon_bnode_name = name, !.bnode_count = count]
<1>10. read \in Contexts /\ read.parent_object = c.parent_object
       /\ read.depth = c.depth
  <2>1. tag.torn \in Inners
    BY <1>1 DEF StartTags
  <2> QED BY <2>1, <1>2, <1>3, <1>4, <1>5, <1>6, <1>7, <1>8 DEF Contexts
<1> QED BY <1>9, <1>10

(***************************************************************************)
(* The context a start tag leaves on the stack.                            *)
(***************************************************************************)
LEMMA StartedContext ==
  ASSUME NEW parent \in Contexts, NEW tag \in Tags,
         InheritedObject(parent) # NULL
  PROVE  LET read == ReadAttributes(NewElementContext(parent), tag)
             set  == EstablishSubject(read)
             c    == OpenRelations(set)
         IN  /\ read \in Contexts
             /\ set \in Contexts /\ set.new_subject # NULL
             /\ c \in Contexts
             /\ c.new_subject # NULL /\ c.parent_object # NULL
             /\ c.depth = parent.depth + 1
<1> DEFINE new  == NewElementContext(parent)
           read == ReadAttributes(new, tag)
           set  == EstablishSubject(read)
           c    == OpenRelations(set)
<1>1. /\ new \in Contexts /\ new.parent_object # NULL
      /\ new.depth = parent.depth + 1
  BY NewElementContextType DEF NewElementContext
<1> HIDE DEF new
<1>2. /\ read \in Contexts /\ read.parent_object # NULL
      /\ read.depth = parent.depth + 1
  BY <1>1, ReadAttributesType
<1> HIDE DEF read
<1>3. /\ set \in Contexts /\ set.new_subject # NULL /\ set.parent_object # NULL
      /\ set.depth = parent.depth + 1
  BY <1>2, SubjectEstablished DEF Established
<1> HIDE DEF set
<1>4. /\ c \in Contexts /\ c.new_subject # NULL /\ c.parent_object # NULL
      /\ c.depth = parent.depth + 1
  BY <1>3, OpenRelationsType DEF SameSubject
<1> QED BY <1>2, <1>3, <1>4 DEF new, read, set

-----------------------------------------------------------------------------

\* An empty literal for a property element disturbs nothing else.
LEMMA CloseLiteralType ==
  ASSUME NEW c \in Contexts
  PROVE  SameSubject(c, CloseLiteral(c))
<1>1. << >> \in Maybe(Seq(Texts))
  BY DEF Maybe
<1>2. SameSubject(c, c)
  BY DEF SameSubject
<1> DEFINE closed == [c EXCEPT !.plain_literal = << >>]
<1>3. SameSubject(c, closed)
  BY <1>1 DEF SameSubject, Contexts
<1> HIDE DEF closed
<1>4. CloseLiteral(c) \in {c, closed}
  BY DEF CloseLiteral, closed
<1> QED BY <1>2, <1>3, <1>4

\* Literals made of text are values.
LEMMA LiteralTypes ==
  ASSUME NEW c \in Contexts, NEW kind \in {"plain", "typed", "xml"}
  PROVE  /\ \A words \in Seq(Texts) : Literal(words, kind, c.language) \in Values
         /\ \A words \in Maybe(Seq(Texts)) : LiteralOrNull(c, words, kind) \in Values
         /\ XmlText(c) \in Seq(Texts)
<1>1. c.language \in Maybe(Languages) /\ c.plain_literal \in Maybe(Seq(Texts))
  BY DEF Contexts
<1>2. \A words \in Seq(Texts) : Literal(words, kind, c.language) \in Values
  BY <1>1 DEF Literal, Values, Literals, Maybe
<1> QED BY <1>1, <1>2 DEF LiteralOrNull, XmlText, Maybe, Values

\* The text of a literal, from @content or from the document, is text or
\* null.
LEMMA LiteralText ==
  ASSUME NEW c \in Contexts
  PROVE  FirstSet(<<c.attrs.content, c.plain_literal>>) \in Maybe(Seq(Texts))
<1> DEFINE s == <<c.attrs.content, c.plain_literal>>
<1>1. /\ c.attrs.content \in Maybe(Seq(Texts))
      /\ c.plain_literal \in Maybe(Seq(Texts))
  BY AttributeTypes DEF Contexts
<1> DEFINE V == Maybe(Seq(Texts))
<1>2. s \in Seq(V) /\ Len(s) <= 5
  <2> HIDE DEF V
  <2> QED BY <1>1 DEF V
<1>3. \A i \in 1 .. Len(s) : s[i] \in Maybe(Seq(Texts))
  BY <1>1
<1> HIDE DEF s
<1>4. \/ FirstSet(s) = NULL
      \/ \E i \in 1 .. Len(s) : FirstSet(s) = s[i]
  <2> HIDE DEF V
  <2> QED BY <1>2, FirstSetFinds
<1>5. FirstSet(s) \in Maybe(Seq(Texts))
  BY <1>3, <1>4 DEF Maybe
<1> QED BY <1>5 DEF s

\* rdfa_complete_current_property_value_triples gives a value.
LEMMA PropertyValueType ==
  ASSUME NEW c \in Contexts
  PROVE  CurrentPropertyValue(c) \in Values
<1> DEFINE a    == c.attrs
           words == FirstSet(<<a.content, c.plain_literal>>)
           typed == IF a.about = NULL THEN c.typed_resource ELSE NULL
           named == <<a.resource, a.href, a.src, typed>>
           resource == IF a.rel # NULL \/ a.rev # NULL THEN NULL
                       ELSE FirstSet(named)
<1>1. words \in Maybe(Seq(Texts))
  BY LiteralText
<1>2. resource \in Maybe(Resources)
  <2>1. typed \in Maybe(Resources)
    BY DEF Contexts, Maybe
  <2> HIDE DEF typed
  <2>2. named \in Seq(Maybe(Resources)) /\ Len(named) <= 4
    BY <2>1, AttributeTypes
  <2> HIDE DEF named
  <2>3. FirstSet(named) \in Maybe(Resources)
    BY <2>2, FirstSetType, NullIsNoResource
  <2> QED BY <2>3 DEF Maybe
<1>3. resource # NULL => resource \in Values
  BY <1>2 DEF Values, Maybe
<1>4. CurrentPropertyValue(c) \in
        {Literal(XmlText(c), "xml", c.language), LiteralOrNull(c, words, "plain"),
         LiteralOrNull(c, words, "typed")} \cup ({resource} \ {NULL})
  <2> HIDE DEF words, resource
  <2>1. CurrentPropertyValue(c) =
          CASE a.datatype = XmlLiteral -> Literal(XmlText(c), "xml", c.language)
            [] a.datatype \notin {NULL, XmlLiteral} ->
                 LiteralOrNull(c, words, IF a.datatype = EmptyDatatype
                                         THEN "plain" ELSE "typed")
            [] a.datatype = NULL /\ a.content = NULL /\ resource # NULL -> resource
            [] OTHER -> LiteralOrNull(c, words, "plain")
    BY DEF CurrentPropertyValue, words, resource
  <2> QED BY <2>1
<1> HIDE DEF words, resource
<1> QED BY <1>1, <1>3, <1>4, LiteralTypes

\* rdfa_complete_object_literal_triples gives a value.
LEMMA ObjectLiteralType ==
  ASSUME NEW c \in Contexts
  PROVE  CurrentObjectLiteral(c) \in Values
<1> DEFINE words == FirstSet(<<c.attrs.content, c.plain_literal>>)
<1>1. words \in Maybe(Seq(Texts))
  BY LiteralText
<1>2. CurrentObjectLiteral(c) \in
        {Literal(XmlText(c), "xml", c.language), LiteralOrNull(c, words, "plain"),
         LiteralOrNull(c, words, "typed")}
  BY DEF CurrentObjectLiteral
<1> HIDE DEF words
<1> QED BY <1>1, <1>2, LiteralTypes

\* The value of @property keeps the context well typed and its subject,
\* listed or not.
LEMMA AfterPropertyType ==
  ASSUME NEW c \in Contexts, c.new_subject # NULL
  PROVE  SameSubject(c, AfterProperty(c))
<1>1. SameSubject(c, c)
  BY DEF SameSubject
<1>2. c.attrs.property # NULL => c.attrs.property \in Seq(Iris)
  BY AttributeTypes DEF Maybe
<1> QED BY <1>1, <1>2, PropertyValueType, NewInlistType DEF AfterProperty

\* rdfa_complete_incomplete_triples keeps the context well typed and its
\* subject.
LEMMA CompleteIncompleteType ==
  ASSUME NEW c \in Contexts, c.new_subject # NULL
  PROVE  SameSubject(c, CompleteIncompleteTriples(c))
<1> DEFINE listed == {i \in DOMAIN c.incomplete_triples :
                        c.incomplete_triples[i].dir = "none"}
           keys == [i \in listed |->
                      <<c.parent_subject, c.incomplete_triples[i].pred>>]
           d == CreateListMappings(c, keys)
           e == AppendToListMappings(d, keys, c.new_subject)
<1>1. /\ c.incomplete_triples \in Seq(Incompletes) /\ c.parent_subject \in Resources
      /\ c.new_subject \in Values
  BY DEF Contexts, Maybe, Values
<1>2. listed \in Positions
  BY <1>1, SequencePositions
<1>3. keys \in [listed -> Keys]
  <2>1. \A i \in DOMAIN c.incomplete_triples :
          c.incomplete_triples[i] \in Incompletes
    BY <1>1
  <2>2. \A inc \in Incompletes : inc.pred \in Iris
    BY DEF Incompletes
  <2>3. \A i \in listed :
          <<c.parent_subject, c.incomplete_triples[i].pred>> \in Keys
    BY <1>1, <2>1, <2>2 DEF Keys
  <2> QED BY <2>3
<1> HIDE DEF listed, keys
<1>4. SameSubject(c, d)
  BY <1>2, <1>3, CreateListMappingsType
<1> HIDE DEF d
<1>5. SameSubject(d, e)
  BY <1>1, <1>2, <1>3, <1>4, AppendToListMappingsType DEF SameSubject
<1>6. CompleteIncompleteTriples(c) = [e EXCEPT !.incomplete_triples = << >>]
  BY DEF CompleteIncompleteTriples, listed, keys, d
<1> HIDE DEF e
<1>7. << >> \in Seq(Incompletes)
  OBVIOUS
<1> QED BY <1>4, <1>5, <1>6, <1>7, ZenonT(60) DEF SameSubject, Contexts

\* The same, whether the element completes anything or not.
LEMMA AfterIncompleteType ==
  ASSUME NEW c \in Contexts
  PROVE  SameSubject(c, AfterIncomplete(c))
<1>1. SameSubject(c, c)
  BY DEF SameSubject
<1> QED BY <1>1, CompleteIncompleteType DEF AfterIncomplete, Completes

\* The list cells that are named at the end of an element are finitely many.
LEMMA CellsFinite ==
  ASSUME NEW c \in Contexts, NEW S \in SUBSET Cells(c)
  PROVE  IsFiniteSet(S) /\ Cardinality(S) \in Nat
<1> DEFINE cells(l) == {<<l.slot, i>> : i \in 2 .. Len(l.items)}
           done == Finished(c)
           f == [l \in done |-> cells(l)]
<1>1. IsFiniteSet(done) /\ done \subseteq Lists
  BY ListFields, FS_Subset DEF Finished
<1>2. \A l \in done : IsFiniteSet(cells(l))
  <2> TAKE l \in done
  <2>1. Len(l.items) \in Nat
    BY <1>1 DEF Lists
  <2> DEFINE g == [i \in 2 .. Len(l.items) |-> <<l.slot, i>>]
  <2>2. IsFiniteSet(2 .. Len(l.items))
    BY <2>1, FS_Interval
  <2>3. g \in [2 .. Len(l.items) -> cells(l)]
    OBVIOUS
  <2>4. IsFiniteSet({g[i] : i \in 2 .. Len(l.items)})
    <3> HIDE DEF g, cells
    <3> QED BY <2>2, <2>3, FiniteImage
  <2> QED BY <2>4
<1>3. Cells(c) = UNION {f[l] : l \in done}
  BY DEF Cells
<1>4. f \in [done -> {cells(l) : l \in done}]
  OBVIOUS
<1>5. \A l \in done : f[l] = cells(l)
  OBVIOUS
<1>6. IsFiniteSet(Cells(c))
  <2> HIDE DEF done, cells, f
  <2>1. IsFiniteSet({f[l] : l \in done})
    BY <1>1, <1>4, FiniteImage
  <2>2. \A T \in {f[l] : l \in done} : IsFiniteSet(T)
    BY <1>2, <1>5
  <2> QED BY <1>3, <2>1, <2>2, FS_UNION
<1> QED BY <1>6, FS_Subset, FS_CardinalityType

\* rdfa_complete_list_triples keeps the context well typed and its subject.
LEMMA AfterListsType ==
  ASSUME NEW c \in Contexts
  PROVE  SameSubject(c, AfterLists(c))
<1> DEFINE lists == c.local_list_mappings \ Finished(c)
           count == c.bnode_count + Cardinality(Cells(c))
<1>1. lists \in {m \in SUBSET Lists : IsFiniteSet(m)}
  BY ListFields, FS_Subset
<1>2. count \in Nat
  BY ListFields, CellsFinite
<1>3. AfterLists(c) = [c EXCEPT !.local_list_mappings = lists, !.bnode_count = count]
  BY DEF AfterLists
<1> HIDE DEF lists, count
<1> QED BY <1>1, <1>2, <1>3, ZenonT(60) DEF Contexts, SameSubject

\* Appending text to text, either of them possibly null, gives text or null.
LEMMA AppendedType ==
  ASSUME NEW old \in Maybe(Seq(Texts)), NEW new \in Maybe(Seq(Texts))
  PROVE  Appended(old, new) \in Maybe(Seq(Texts))
<1>1. old # NULL /\ new # NULL => old \o new \in Seq(Texts)
  BY DEF Maybe
<1> QED BY <1>1 DEF Appended, Maybe

(***************************************************************************)
(* What a parent keeps of itself when a child returns to it.               *)
(***************************************************************************)
LEMMA ReturnToType ==
  ASSUME NEW parent \in Contexts, NEW c \in Contexts
  PROVE  SameSubject(parent, ReturnTo(parent, c))
<1> DEFINE words == Appended(parent.plain_literal, c.plain_literal)
           named == NamesReturned(TextReturned(parent, c), c)
           done  == AfterLists(AfterIncomplete(c))
           lists == done.local_list_mappings
           slots == done.list_slots
           listed == [named EXCEPT !.local_list_mappings = lists,
                                   !.list_slots = slots]
<1>1. words \in Maybe(Seq(Texts))
  BY AppendedType DEF Contexts
<1>2. done \in Contexts
  BY AfterIncompleteType, AfterListsType DEF SameSubject
<1>3. lists \in {m \in SUBSET Lists : IsFiniteSet(m)} /\ slots \in Nat
  <2> HIDE DEF done
  <2> QED BY <1>2 DEF Contexts
<1>4. SameSubject(parent, named)
  <2>1. named = [parent EXCEPT
                   !.plain_literal = words, !.inner = "markup",
                   !.bnode_count = c.bnode_count,
                   !.underscore_colon_bnode_name = c.underscore_colon_bnode_name]
    BY DEF NamesReturned, TextReturned, Contexts
  <2>2. /\ c.bnode_count \in Nat
        /\ c.underscore_colon_bnode_name \in Maybe(Bnodes)
    BY DEF Contexts
  <2> HIDE DEF words
  <2>3. named \in Contexts
    BY <1>1, <2>1, <2>2, ZenonT(60) DEF Contexts, Inners
  <2>4. /\ named.new_subject = parent.new_subject
        /\ named.depth = parent.depth
        /\ named.parent_object = parent.parent_object
        /\ named.rdfa_version = parent.rdfa_version
        /\ named.skip_element = parent.skip_element
        /\ named.attrs = parent.attrs
        /\ named.parent_subject = parent.parent_subject
        /\ named.host_language = parent.host_language
        /\ named.default_vocabulary = parent.default_vocabulary
    BY <2>1 DEF Contexts
  <2> HIDE DEF named
  <2> QED BY <2>3, <2>4 DEF SameSubject
<1>5. ReturnTo(parent, c) \in {named, listed}
  BY DEF ReturnTo, ListsReturned
<1> HIDE DEF named, lists, slots, done
<1>6. SameSubject(parent, listed)
  BY <1>3, <1>4 DEF SameSubject, Contexts
<1> QED BY <1>4, <1>5, <1>6

-----------------------------------------------------------------------------

\* rdfa_create_triple makes a well-typed triple, complete or empty.
LEMMA TripleType ==
  ASSUME NEW by \in Senders, NEW s \in Maybe(Resources), NEW p \in Maybe(Iris),
         NEW o \in Values
  PROVE  Triple(by, s, p, o) \in Triples
BY DEF Triple, Triples, Maybe, Values

\* The subjects and objects of a context may be those of triples.
LEMMA SubjectsAreValues ==
  ASSUME NEW c \in Contexts
  PROVE  /\ c.new_subject \in Maybe(Resources) /\ c.new_subject \in Values
         /\ c.typed_resource \in Maybe(Resources)
         /\ c.parent_subject \in Maybe(Resources) /\ c.parent_subject \in Values
         /\ c.current_object_resource \in Maybe(Resources)
         /\ c.current_object_resource \in Values
BY DEF Contexts, Maybe, Values

\* The IRIs the code writes itself may be predicates and objects.
LEMMA VocabularyTypes ==
  {RdfType, RdfFirst, RdfRest, RdfNil, UsesVocabulary, RdfaContextOf}
    \subseteq Maybe(Iris) \cap Values
BY IriAssumption DEF Vocabulary, Maybe, Values, Resources

\* rdfa_complete_type_triples sends well-typed triples.
LEMMA TypeTriplesType ==
  ASSUME NEW c \in Contexts
  PROVE  TypeTriples(c) \subseteq Triples
<1> DEFINE subject == IF c.rdfa_version = RDFA_VERSION_1_0 THEN c.new_subject
                      ELSE c.typed_resource
<1>1. subject \in Maybe(Resources)
  BY SubjectsAreValues
<1>2. c.attrs.typeof # NULL =>
        \A i \in DOMAIN c.attrs.typeof : c.attrs.typeof[i] \in Values
  <2>1. c.attrs.typeof # NULL => c.attrs.typeof \in Seq(Iris)
    BY AttributeTypes DEF Maybe
  <2> QED BY <2>1 DEF Values, Resources, Maybe
<1>3. TypeTriples(c) =
        IF c.new_subject = NULL \/ c.attrs.typeof = NULL THEN {}
        ELSE {Triple("type", subject, RdfType, c.attrs.typeof[i]) :
                i \in DOMAIN c.attrs.typeof}
  BY DEF TypeTriples
<1> HIDE DEF subject
<1> QED BY <1>1, <1>2, <1>3, VocabularyTypes, TripleType DEF Senders

\* rdfa_complete_relrev_triples sends well-typed triples.
LEMMA RelRevTriplesType ==
  ASSUME NEW c \in Contexts
  PROVE  RelRevTriples(c) \subseteq Triples
<1>1. Rels(c.attrs) \in Seq(Iris) /\ Revs(c.attrs) \in Seq(Iris)
  BY AttributeTypes DEF Rels, Revs, Maybe
<1>2. /\ \A i \in DOMAIN Rels(c.attrs) : Rels(c.attrs)[i] \in Maybe(Iris)
      /\ \A i \in DOMAIN Revs(c.attrs) : Revs(c.attrs)[i] \in Maybe(Iris)
  BY <1>1 DEF Maybe
<1>3. RelRevPairs(c) \subseteq Triples
  BY <1>2, SubjectsAreValues, TripleType DEF RelRevPairs, Senders
<1> QED BY <1>3 DEF RelRevTriples

\* A report of the processor graph is a well-typed triple.
LEMMA ReportType ==
  ASSUME NEW n \in Nat, NEW by \in Senders
  PROVE  Report(by, n) \in Triples
<1>1. Bnode(n) \in Maybe(Resources) /\ Bnode(n + 1) \in Values
  BY BnodeIsResource DEF Maybe, Values
<1> QED BY <1>1, VocabularyTypes, TripleType DEF Report

\* What is sent while attributes are read is well typed.
LEMMA AttributeTriplesType ==
  ASSUME NEW c \in Contexts, NEW read, NEW tag \in Tags
  PROVE  AttributeTriples(c, read, tag) \subseteq Triples
<1>1. \A i \in 0 .. Reports(tag) - 1 : c.bnode_count + 2 * i \in Nat
  BY ListFields, TagTypes
<1>2. \A i \in 0 .. Reports(tag) - 1 :
        Report("warning", c.bnode_count + 2 * i) \in Triples
  BY <1>1, ReportType DEF Senders
<1>3. tag.vocab \notin {NULL, EmptyVocabulary} =>
        Triple("vocab", c.base, UsesVocabulary, tag.vocab) \in Triples
  <2>1. c.base \in Maybe(Resources)
    BY DEF Contexts, Maybe, Resources
  <2>2. tag.vocab \notin {NULL, EmptyVocabulary} => tag.vocab \in Values
    BY TagTypes DEF StartTags, Maybe, Values, Resources
  <2> QED BY <2>1, <2>2, VocabularyTypes, TripleType DEF Senders
<1>4. Triple("prefix", NULL, NULL, NULL) \in Triples
  BY TripleType DEF Senders, Maybe, Values
<1> QED BY <1>2, <1>3, <1>4 DEF AttributeTriples

\* The triples of @property are well typed.
LEMMA PropertyTriplesType ==
  ASSUME NEW c \in Contexts
  PROVE  PropertyTriples(c) \subseteq Triples
<1> DEFINE value == IF c.rdfa_version = RDFA_VERSION_1_0
                    THEN CurrentObjectLiteral(c) ELSE CurrentPropertyValue(c)
<1>1. value \in Values
  BY PropertyValueType, ObjectLiteralType
<1>2. c.attrs.property # NULL =>
        \A i \in DOMAIN c.attrs.property : c.attrs.property[i] \in Maybe(Iris)
  <2>1. c.attrs.property # NULL => c.attrs.property \in Seq(Iris)
    BY AttributeTypes DEF Maybe
  <2> QED BY <2>1 DEF Maybe
<1>3. PropertyTriples(c) =
        IF c.attrs.property = NULL \/ c.attrs.inlist THEN {}
        ELSE {Triple("property", c.new_subject, c.attrs.property[i], value) :
                i \in DOMAIN c.attrs.property}
  BY DEF PropertyTriples
<1> HIDE DEF value
<1> QED BY <1>1, <1>2, <1>3, SubjectsAreValues, TripleType DEF Senders

\* rdfa_complete_incomplete_triples sends well-typed triples.
LEMMA HangingTriplesType ==
  ASSUME NEW c \in Contexts
  PROVE  HangingTriples(c) \subseteq Triples
<1>1. \A i \in DOMAIN c.incomplete_triples :
        c.incomplete_triples[i] \in Incompletes
  BY DEF Contexts
<1>2. \A inc \in Incompletes : inc.pred \in Maybe(Iris)
  BY DEF Incompletes, Maybe
<1>3. \A inc \in Incompletes :
        /\ Triple("hanging", c.parent_subject, inc.pred, c.new_subject) \in Triples
        /\ Triple("hanging", c.new_subject, inc.pred, c.parent_subject) \in Triples
  BY <1>2, SubjectsAreValues, TripleType DEF Senders
<1> QED BY <1>1, <1>3 DEF HangingTriples

\* rdfa_complete_list_triples sends well-typed triples, for empty lists and
\* for chains of cells.
LEMMA ListTriplesType ==
  ASSUME NEW c \in Contexts
  PROVE  ListTriples(c) \subseteq Triples
<1>1. Finished(c) \subseteq Lists
  BY ListFields DEF Finished
<1>2. \A l \in Finished(c), i \in Nat :
        /\ CellName(c, l, i) \in Maybe(Resources)
        /\ CellName(c, l, i) \in Values
  <2> TAKE l \in Finished(c), i \in Nat
  <2>1. l.head \in Bnodes
    BY <1>1 DEF Lists
  <2>2. Cardinality({x \in Cells(c) : Earlier(x, <<l.slot, i>>)}) \in Nat
    BY CellsFinite
  <2>3. CellName(c, l, i) \in Bnodes
    BY <2>1, <2>2, ListFields DEF CellName, Bnode, Bnodes
  <2> QED BY <2>3 DEF Maybe, Values, Resources
<1>3. \A l \in Finished(c) :
        /\ l.key[1] \in Maybe(Resources) /\ l.key[2] \in Maybe(Iris)
        /\ l.head \in Values /\ l.items \in Seq(Values)
  BY <1>1 DEF Lists, Keys, Maybe, Values, Resources
<1>4. \A l \in Finished(c) : EmptyListTriples(c, l) \subseteq Triples
  BY <1>3, SubjectsAreValues, VocabularyTypes, TripleType
  DEF EmptyListTriples, Senders
<1>5. \A l \in Finished(c) : ChainTriples(c, l) \subseteq Triples
  <2> TAKE l \in Finished(c)
  <2>1. Len(l.items) \in Nat /\ \A i \in 1 .. Len(l.items) : l.items[i] \in Values
    BY <1>3
  <2>2. Triple("list", l.key[1], l.key[2], l.head) \in Triples
    BY <1>3, TripleType DEF Senders
  <2>3. \A i \in 1 .. Len(l.items) :
          [by |-> "first", s |-> CellName(c, l, i), p |-> RdfFirst,
           o |-> l.items[i]] \in Triples
    BY <1>2, <2>1, VocabularyTypes DEF Triples, Senders
  <2>4. \A i \in 1 .. Len(l.items) :
          (IF i < Len(l.items) THEN CellName(c, l, i + 1) ELSE RdfNil) \in Values
    BY <1>2, <2>1, VocabularyTypes
  <2>5. \A i \in 1 .. Len(l.items) :
          Triple("rest", CellName(c, l, i), RdfRest,
                 IF i < Len(l.items) THEN CellName(c, l, i + 1) ELSE RdfNil)
            \in Triples
    BY <1>2, <2>1, <2>4, VocabularyTypes, TripleType DEF Senders
  <2> QED BY <2>2, <2>3, <2>5 DEF ChainTriples
<1> QED BY <1>4, <1>5 DEF ListTriples

-----------------------------------------------------------------------------
(* The invariant and its proof.                                            *)

\* Types alone are not inductive: that a new context has a subject rests on
\* its parent object, which comes from the context below it on the stack.
Inv == TypeOK /\ SubjectsKnown /\ StackFollowsElements

\* A stack of contexts that has "height" levels and fits the elements.
StackOK(s, height) ==
  /\ s \in Seq(Contexts) /\ Len(s) = height /\ height > 0
  /\ \A i \in 1 .. height : s[i].depth = i - 1
  /\ \A i \in 2 .. height : s[i].new_subject # NULL /\ s[i].parent_object # NULL
  /\ ~s[1].skip_element

\* While the document is parsed the stack is well formed, and any element
\* that starts now has a parent object.
LEMMA InvStack ==
  ASSUME Inv, status # "ended"
  PROVE  /\ StackOK(stack, Len(open) + 1)
         /\ Len(open) \in Nat
         /\ Top \in Contexts
         /\ Top.depth = Len(open)
         /\ InheritedObject(Top) # NULL
<1>1. StackOK(stack, Len(open) + 1) /\ Len(open) \in Nat
  <2>1. stack \in Seq(Contexts) /\ Len(open) \in Nat
    BY DEF Inv, TypeOK
  <2>2. /\ Len(stack) = Len(open) + 1
        /\ \A i \in DOMAIN stack : stack[i].depth = i - 1
        /\ ~stack[1].skip_element
    BY DEF Inv, StackFollowsElements
  <2>3. \A i \in 2 .. Len(stack) : /\ stack[i].new_subject # NULL
                                   /\ stack[i].parent_object # NULL
    BY DEF Inv, SubjectsKnown
  <2> QED BY <2>1, <2>2, <2>3 DEF StackOK
<1>2. Top \in Contexts /\ Top.depth = Len(open)
  BY <1>1 DEF StackOK, Top
<1>3. Top.skip_element = FALSE \/ Top.parent_object # NULL
  BY <1>1 DEF StackOK, Top
<1> QED BY <1>1, <1>2, <1>3, InheritedTypes

\* A well-formed stack of the right height is what the invariant says beyond
\* types.
LEMMA StackInv ==
  ASSUME TypeOK', StackOK(stack', Len(open') + 1)
  PROVE  Inv'
BY DEF Inv, TypeOK, SubjectsKnown, StackFollowsElements, StackOK

\* The graph may only grow, with triples of an element.
GraphOK(g) == \A e \in g : e.at \in Nat /\ e.t \in Triples

\* Sending well-typed triples keeps the graph well typed.
LEMMA SentType ==
  ASSUME NEW g, GraphOK(g), NEW n \in Nat, NEW T \in SUBSET Triples
  PROVE  GraphOK(g \cup Sent(n, T))
BY DEF GraphOK, Sent

\* The invariant holds when parsing starts.
LEMMA InitInv == Init => Inv
<1> SUFFICES ASSUME Init PROVE Inv
  OBVIOUS
<1>1. PICK d \in Documents : stack = <<RootContext(d)>>
  BY DEF Init
<1>2. RootContext(d) \in Contexts
  BY TagsAssumption, RootContextType
<1>3. RootContext(d).depth = 0 /\ RootContext(d).skip_element = FALSE
  BY DEF RootContext
<1>4. TypeOK
  BY <1>1, <1>2, BoundsAssumption DEF Init, TypeOK
<1>5. SubjectsKnown
  BY <1>1 DEF SubjectsKnown
<1>6. StackFollowsElements
  BY <1>1, <1>3 DEF Init, StackFollowsElements
<1> QED BY <1>4, <1>5, <1>6 DEF Inv

\* start_element preserves the invariant.
LEMMA StartElementInv ==
  ASSUME Inv, NEW tag \in Tags, StartElement(tag)
  PROVE  Inv'
<1> DEFINE new  == NewElementContext(Top)
           read == ReadAttributes(new, tag)
           set  == EstablishSubject(read)
           c    == OpenRelations(set)
           id   == Len(tree) + 1
           sent == AttributeTriples(new, read, tag)
                   \cup TypeTriples(set) \cup RelRevTriples(set)
           node == [tag |-> tag, path |-> Append(open, id),
                    version |-> c.rdfa_version, host |-> c.host_language,
                    subject |-> c.new_subject,
                    object |-> c.current_object_resource]
<1>1. status = "parsing" /\ StackOK(stack, Len(open) + 1) /\ Len(open) \in Nat
  BY InvStack DEF StartElement
<1>2. /\ Top \in Contexts /\ InheritedObject(Top) # NULL
      /\ Top.depth = Len(open)
  BY <1>1, InvStack
<1>3. /\ read \in Contexts /\ set \in Contexts /\ c \in Contexts
      /\ c.new_subject # NULL /\ c.parent_object # NULL
      /\ c.depth = Len(open) + 1
  BY <1>2, StartedContext
<1>4. sent \in SUBSET Triples
  BY <1>2, <1>3, NewElementContextType, AttributeTriplesType,
     TypeTriplesType, RelRevTriplesType
<1>5. id \in Nat /\ open \in Seq(Nat) /\ tree \in Seq(Nodes)
  BY DEF Inv, TypeOK
<1>6. node \in Nodes
  BY <1>3, <1>5 DEF Nodes, Contexts
<1>7. /\ stack' = Append(stack, c)
      /\ graph' = graph \cup Sent(id, sent)
      /\ open' = Append(open, id)
      /\ tree' = Append(tree, node)
      /\ UNCHANGED <<status, text, errors>>
  BY DEF StartElement
<1> HIDE DEF new, read, set, c, id, sent, node
<1>8. StackOK(stack', Len(open') + 1)
  BY <1>1, <1>3, <1>5, <1>7, SMTT(30) DEF StackOK
<1>9. TypeOK'
  <2>1. GraphOK(graph')
    BY <1>4, <1>5, <1>7, SentType DEF Inv, TypeOK, GraphOK
  <2> QED
    BY <1>5, <1>6, <1>7, <1>8, <2>1 DEF Inv, TypeOK, StackOK, GraphOK
<1> QED BY <1>8, <1>9, StackInv

\* character_data preserves the invariant.
LEMMA CharacterDataInv ==
  ASSUME Inv, NEW t \in Texts, CharacterData(t)
  PROVE  Inv'
<1> DEFINE n == Len(stack)
           c == [Top EXCEPT !.plain_literal = Appended(@, <<t>>),
                            !.inner = InnerWithText(@, t)]
<1>1. /\ StackOK(stack, n) /\ n = Len(open) + 1 /\ n > 1 /\ Top \in Contexts
      /\ status = "parsing"
  BY InvStack DEF CharacterData, StackOK
<1>2. SameSubject(Top, c)
  <2>1. /\ Top.plain_literal \in Maybe(Seq(Texts))
        /\ <<t>> \in Seq(Texts)
    BY <1>1 DEF Contexts
  <2>2. <<t>> \in Maybe(Seq(Texts))
    BY <2>1 DEF Maybe
  <2>3. Appended(Top.plain_literal, <<t>>) \in Maybe(Seq(Texts))
    BY <2>1, <2>2, AppendedType
  <2>4. InnerWithText(Top.inner, t) \in Inners
    BY DEF InnerWithText, Inners
  <2> QED BY <1>1, <2>3, <2>4 DEF SameSubject, Contexts
<1>3. stack' = [stack EXCEPT ![n] = c]
  BY <1>1 DEF CharacterData, WithText, Top, StackOK
<1> HIDE DEF c
<1>4. StackOK(stack', n)
  BY <1>1, <1>2, <1>3 DEF StackOK, SameSubject, Top
<1>5. /\ text' = Append(text, [text |-> t, path |-> open])
      /\ UNCHANGED <<graph, status, open, tree, errors>>
  BY DEF CharacterData
<1>6. TypeOK'
  BY <1>4, <1>5 DEF Inv, TypeOK, StackOK
<1> QED BY <1>1, <1>4, <1>5, <1>6, StackInv

\* A sequence without its last element.
LEMMA AllButLast ==
  ASSUME NEW S, NEW s \in Seq(S), Len(s) > 0
  PROVE  /\ SubSeq(s, 1, Len(s) - 1) \in Seq(S)
         /\ Len(SubSeq(s, 1, Len(s) - 1)) = Len(s) - 1
<1> DEFINE n == Len(s) - 1
           t == SubSeq(s, 1, n)
<1>1. n \in Nat /\ \A i \in 1 .. n : s[i] \in S
  OBVIOUS
<1> HIDE DEF n
<1>2. t \in Seq(S) /\ Len(t) = IF 1 <= n THEN n - 1 + 1 ELSE 0
  BY <1>1, SubSeqProperties
<1> HIDE DEF t
<1>3. t \in Seq(S) /\ Len(t) = n
  BY <1>1, <1>2
<1> QED BY <1>3 DEF n, t

\* end_element preserves the invariant: the popped context needs no more than
\* the type of its parent, which keeps its own subject.
LEMMA EndElementInv ==
  ASSUME Inv, EndElement
  PROVE  Inv'
<1> DEFINE literal == CloseLiteral(Top)
           c       == AfterProperty(literal)
           parent  == Len(stack) - 1
           id      == open[Len(open)]
           done    == AfterIncomplete(c)
           sent    == PropertyTriples(literal)
                      \cup (IF Completes(c) THEN HangingTriples(c) ELSE {})
                      \cup (IF SendsLists(c) THEN ListTriples(done) ELSE {})
           back    == ReturnTo(stack[parent], c)
<1>1. /\ StackOK(stack, parent + 1) /\ parent = Len(open) /\ parent > 0
      /\ Top \in Contexts /\ Top.new_subject # NULL /\ status = "parsing"
      /\ parent \in Nat /\ stack[parent] \in Contexts
  BY InvStack DEF EndElement, StackOK, Top
<1>2. literal \in Contexts /\ literal.new_subject # NULL
  BY <1>1, CloseLiteralType DEF SameSubject
<1>3. c \in Contexts
  <2> HIDE DEF literal
  <2> QED BY <1>2, AfterPropertyType DEF SameSubject
<1>4. sent \in SUBSET Triples
  <2> HIDE DEF literal, c
  <2>1. done \in Contexts
    BY <1>3, AfterIncompleteType DEF SameSubject
  <2> HIDE DEF done
  <2> QED
    BY <1>2, <1>3, <2>1, PropertyTriplesType, HangingTriplesType, ListTriplesType
<1>5. SameSubject(stack[parent], back)
  <2> HIDE DEF c
  <2> QED BY <1>1, <1>3, ReturnToType
<1>6. /\ stack' = [i \in 1 .. parent |-> IF i = parent THEN back ELSE stack[i]]
      /\ graph' = graph \cup Sent(id, sent)
      /\ open' = SubSeq(open, 1, Len(open) - 1)
      /\ UNCHANGED <<status, tree, text, errors>>
  BY DEF EndElement
<1>7. /\ id \in Nat /\ open' \in Seq(Nat) /\ Len(open') = parent - 1
  <2>1. open \in Seq(Nat) /\ Len(open) \in Nat /\ Len(open) > 0
    BY <1>1 DEF Inv, TypeOK
  <2>2. open' = SubSeq(open, 1, Len(open) - 1)
    BY <1>6
  <2>3. open[Len(open)] \in Nat
    BY <2>1
  <2> HIDE DEF sent, back, parent
  <2>4. open' \in Seq(Nat) /\ Len(open') = Len(open) - 1
    BY <2>1, <2>2, AllButLast
  <2> QED BY <1>1, <2>3, <2>4
<1> HIDE DEF back, sent, id, parent
<1>8. StackOK(stack', Len(open') + 1)
  BY <1>1, <1>5, <1>6, <1>7 DEF StackOK, SameSubject
<1>9. TypeOK'
  <2>1. GraphOK(graph')
    BY <1>4, <1>6, <1>7, SentType DEF Inv, TypeOK, GraphOK
  <2> QED
    BY <1>6, <1>7, <1>8, <2>1 DEF Inv, TypeOK, StackOK, GraphOK
<1> QED BY <1>8, <1>9, StackInv

\* rdfa_report_error preserves the invariant, with and without a processor
\* graph handler.
LEMMA ReportErrorInv ==
  ASSUME Inv, ReportError
  PROVE  Inv'
<1>1. StackOK(stack, Len(open) + 1) /\ status = "parsing" /\ Len(open) \in Nat
  BY InvStack DEF ReportError
<1>2. errors' \in 0 .. MaxErrors
  BY BoundsAssumption DEF ReportError, Inv, TypeOK
<1>3. UNCHANGED <<status, open, tree, text>>
  BY DEF ReportError
<1>4. CASE HasProcessorGraph
  <2> DEFINE root == [stack[1] EXCEPT !.bnode_count = @ + 2]
             sent == {Report("error", stack[1].bnode_count)}
  <2>1. stack[1] \in Contexts /\ stack[1].bnode_count \in Nat
    BY <1>1, ListFields DEF StackOK
  <2>2. SameSubject(stack[1], root)
    <3> DEFINE c == stack[1]
               count == c.bnode_count + 2
    <3>1. c \in Contexts /\ count \in Nat
      BY <2>1
    <3>2. root = [c EXCEPT !.bnode_count = count]
      OBVIOUS
    <3> HIDE DEF c, count, root
    <3>3. SameSubject(c, root)
      BY <3>1, <3>2 DEF SameSubject, Contexts
    <3> QED BY <3>3 DEF c
  <2>3. sent \in SUBSET Triples
    BY <2>1, ReportType DEF Senders
  <2>4. stack' = [stack EXCEPT ![1] = root]
    BY <1>1, <1>4 DEF ReportError, StackOK
  <2>5. graph' = graph \cup Sent(Len(tree), sent)
    BY <1>4 DEF ReportError
  <2> HIDE DEF root, sent
  <2>6. StackOK(stack', Len(open') + 1)
    BY <1>1, <1>3, <2>2, <2>4 DEF StackOK, SameSubject
  <2>7. GraphOK(graph')
    <3>1. GraphOK(graph) /\ Len(tree) \in Nat
      BY DEF Inv, TypeOK, GraphOK
    <3> QED BY <2>3, <2>5, <3>1, SentType
  <2>8. TypeOK'
    BY <1>2, <1>3, <2>6, <2>7 DEF Inv, TypeOK, StackOK, GraphOK
  <2> QED BY <2>6, <2>8, StackInv
<1>5. CASE ~HasProcessorGraph
  <2>1. UNCHANGED <<stack, graph>>
    BY <1>5 DEF ReportError
  <2>2. TypeOK'
    BY <1>2, <1>3, <2>1 DEF Inv, TypeOK
  <2> QED BY <1>1, <1>3, <2>1, <2>2, StackInv
<1> QED BY <1>4, <1>5

\* Every step preserves the invariant.
LEMMA NextInv == Inv /\ [Next]_vars => Inv'
<1> SUFFICES ASSUME Inv, [Next]_vars PROVE Inv'
  OBVIOUS
<1>1. ASSUME NEW tag \in Tags, StartElement(tag) PROVE Inv'
  BY <1>1, StartElementInv
<1>2. ASSUME NEW t \in Texts, CharacterData(t) PROVE Inv'
  BY <1>2, CharacterDataInv
<1>3. CASE EndElement
  BY <1>3, EndElementInv
<1>4. CASE ReadNullLiteral
  BY <1>4
  DEF ReadNullLiteral, Inv, TypeOK, SubjectsKnown, StackFollowsElements
<1>5. CASE ReportError
  BY <1>5, ReportErrorInv
<1>6. CASE ParseEnd
  BY <1>6 DEF ParseEnd, Inv, TypeOK, SubjectsKnown, StackFollowsElements
<1>7. CASE UNCHANGED vars
  BY <1>7 DEF vars, Inv, TypeOK, SubjectsKnown, StackFollowsElements
<1> QED BY <1>1, <1>2, <1>3, <1>4, <1>5, <1>6, <1>7 DEF Next

(***************************************************************************)
(* Whatever the document, the contexts on the stack, the triples sent and  *)
(* the counters have their types.                                          *)
(***************************************************************************)
THEOREM TypeCorrect == Spec => []TypeOK
<1>1. Inv => TypeOK
  BY DEF Inv
<1> QED BY <1>1, InitInv, NextInv, PTL DEF Spec

(***************************************************************************)
(* Every element of every document has a subject and a parent object while *)
(* it is open, so the code below start_element and end_element that takes  *)
(* the length of these strings never meets a null pointer in their place.  *)
(***************************************************************************)
THEOREM SubjectsAlwaysKnown == Spec => []SubjectsKnown
<1>1. Inv => SubjectsKnown
  BY DEF Inv
<1> QED BY <1>1, InitInv, NextInv, PTL DEF Spec

(***************************************************************************)
(* In every document the stack holds the root context and one context per  *)
(* open element, so end_element always finds a parent.                     *)
(***************************************************************************)
THEOREM StackAlwaysFollows == Spec => []StackFollowsElements
<1>1. Inv => StackFollowsElements
  BY DEF Inv
<1> QED BY <1>1, InitInv, NextInv, PTL DEF Spec
=============================================================================
