-------------------------- MODULE RdfaTripleProofs --------------------------
(***************************************************************************)
(* Proofs about the triples that are sent, for every document.             *)
(*                                                                         *)
(* Relations that are left open are completed by the right elements: a     *)
(* context knows of the elements around it only what it was given when it  *)
(* was cloned; the argument relates what it was given to the tree.         *)
(* Reports are told apart by their nodes, and the next blank node is in no *)
(* triple: the counter on top of the stack is ahead of the names in use.   *)
(* No triple lacks a part, but where a property element has no value: what *)
(* open contexts and lists hold is complete before it is sent.             *)
(* A node that stands for a missing object is linked once it is described: *)
(* it comes to a descendant only through the contexts between the two.     *)
(* A literal holds the text of its element: what was read inside an open   *)
(* element is its context's text, then that of the contexts above it.      *)
(***************************************************************************)
EXTENDS RdfaNameProofs, WellFoundedInduction

(***************************************************************************)
(* When start_element skips an element exactly if it has none of the RDFa  *)
(* attributes.  In RDFa 1.0 an element whose name has a prefix is not      *)
(* skipped, nor is one where a vocabulary is left from RDFa 1.1 markup     *)
(* around it: each of the two is ruled out unless everything is RDFa 1.1.  *)
(***************************************************************************)
NoPrefixes     == \A tag \in Tags : ~tag.prefixed
NoVocabularies == \A tag \in Tags : tag.vocab \in {NULL, EmptyVocabulary}
OneVersion     == \A tag \in Tags : tag.version = NULL
OnlyRdfa11     == /\ \A d \in Documents : d.version = RDFA_VERSION_1_1
                  /\ \A tag \in Tags : tag.version # RDFA_VERSION_1_0
SkipsBareElements ==
  OnlyRdfa11 \/ (NoPrefixes /\ (OneVersion \/ NoVocabularies))

\* What that says of one context: in RDFa 1.0 there is no vocabulary.
ModeOK(c) ==
  /\ OnlyRdfa11 => c.rdfa_version = RDFA_VERSION_1_1
  /\ NoVocabularies => c.default_vocabulary = NULL
  /\ OneVersion => \/ c.rdfa_version = RDFA_VERSION_1_1
                   \/ c.default_vocabulary = NULL

\* The tag has none of the attributes: what Transparent says of the element.
Bare(tag, depth) ==
  /\ depth # 1
  /\ tag.about = NULL /\ tag.src = NULL /\ tag.resource = NULL
  /\ tag.href = NULL /\ tag.typeof = NULL /\ tag.rel = NULL
  /\ tag.rev = NULL /\ tag.property = NULL

-----------------------------------------------------------------------------
(* Which elements are skipped.                                             *)

\* The vocabulary and the version a start tag leaves.
LEMMA ModeRead ==
  ASSUME NEW c \in Contexts, NEW tag \in Tags, ModeOK(c)
  PROVE  LET read == ReadAttributes(c, tag)
         IN  /\ ModeOK(read)
             /\ read.skip_element =
                  Skips(read.attrs, read.default_vocabulary, tag)
             /\ read.incomplete_triples = c.incomplete_triples
             /\ read.local_incomplete_triples = c.local_incomplete_triples
             /\ read.parent_subject = c.parent_subject
<1> DEFINE version == FirstSet(<<tag.version, c.rdfa_version>>)
           vocabulary ==
             UpdatedVocabulary(c.default_vocabulary, version, tag.vocab)
           a == ResolvedAttributes(c, tag, version)
           read == ReadAttributes(c, tag)
<1>1. /\ read.rdfa_version = version /\ read.default_vocabulary = vocabulary
      /\ read.attrs = a /\ read.skip_element = Skips(a, vocabulary, tag)
      /\ read.incomplete_triples = c.incomplete_triples
      /\ read.local_incomplete_triples = c.local_incomplete_triples
      /\ read.parent_subject = c.parent_subject
  BY DEF ReadAttributes, Contexts
<1>2. version = IF tag.version # NULL THEN tag.version ELSE c.rdfa_version
  BY FirstOfTwoIs
<1>3. c.rdfa_version \in Versions /\ tag.version \in Maybe(Versions)
  BY TagTypes DEF Contexts, StartTags
<1> HIDE DEF version, read, a
<1>4. ModeOK(read)
  <2>1. OnlyRdfa11 => version = RDFA_VERSION_1_1
    BY <1>2, <1>3 DEF OnlyRdfa11, ModeOK, Versions, Maybe
  <2>2. NoVocabularies => vocabulary = NULL
    BY DEF NoVocabularies, ModeOK, UpdatedVocabulary
  <2>3. OneVersion => version = RDFA_VERSION_1_1 \/ vocabulary = NULL
    BY <1>2, <1>3 DEF OneVersion, ModeOK, UpdatedVocabulary, Versions
  <2> QED BY <1>1, <2>1, <2>2, <2>3 DEF ModeOK
<1> QED BY <1>1, <1>4 DEF read

\* A chain of four.
LEMMA NoneOfFour ==
  ASSUME NEW u, NEW v, NEW w, NEW x
  PROVE  FirstSet(<<u, v, w, x>>) = NULL <=>
           u = NULL /\ v = NULL /\ w = NULL /\ x = NULL
<1> DEFINE s == <<u, v, w, x>>
           V == {u, v, w, x}
<1>1. u \in V /\ v \in V /\ w \in V /\ x \in V
  OBVIOUS
<1> HIDE DEF V
<1>2. s \in Seq(V)
  BY <1>1
<1>3. Len(s) = 4 /\ s[1] = u /\ s[2] = v /\ s[3] = w /\ s[4] = x
  OBVIOUS
<1> HIDE DEF s
<1>4. (\E i \in 1 .. Len(s) : s[i] # NULL) => FirstSet(s) # NULL
  <2>1. s \in Seq(V) /\ Len(s) <= 5
    BY <1>2, <1>3
  <2> QED BY ONLY <2>1, FirstSetFinds, Zenon
<1>5. (\A i \in DOMAIN s : s[i] = NULL) => FirstSet(s) = NULL
  BY DEF FirstSet
<1>6. FirstSet(s) = NULL <=> u = NULL /\ v = NULL /\ w = NULL /\ x = NULL
  BY <1>2, <1>3, <1>4, <1>5
<1> QED BY <1>6 DEF s

\* start_element and the subject rules skip an element exactly if its tag has
\* none of the attributes.
LEMMA BareIsSkipped ==
  ASSUME NEW c \in Contexts, NEW tag \in Tags, c.parent_object # NULL,
         SkipsBareElements, ModeOK(c)
  PROVE  EstablishSubject(ReadAttributes(c, tag)).skip_element <=>
           Bare(tag, c.depth)
<1> DEFINE read == ReadAttributes(c, tag)
           a == read.attrs
           set == EstablishSubject(read)
           bare == Bare(tag, c.depth)
<1>1. read \in Contexts /\ read.parent_object # NULL
      /\ read.rdfa_version \in Versions /\ read.skip_element \in BOOLEAN
  BY ReadAttributesType DEF Contexts
<1>2. /\ a.rel = tag.rel /\ a.rev = tag.rev /\ a.typeof = tag.typeof
      /\ a.property = tag.property
      /\ a.resource = NULL <=> tag.resource = NULL
      /\ a.href = NULL <=> tag.href = NULL
      /\ a.src = NULL <=> tag.src = NULL
      /\ a.about # NULL <=> AboutGiven(tag, c.host_language, c.depth)
  BY AttributesOfTag
<1>3. ModeOK(read)
      /\ read.skip_element = Skips(a, read.default_vocabulary, tag)
  BY ModeRead
<1> HIDE DEF read
<1>4. bare <=>
        /\ a.about = NULL /\ a.src = NULL /\ a.typeof = NULL /\ a.rel = NULL
        /\ a.rev = NULL /\ a.property = NULL /\ a.resource = NULL
        /\ a.href = NULL
  BY <1>2 DEF Bare, AboutGiven
<1>5. read.skip_element => bare
  BY <1>3, <1>4 DEF Skips
<1> HIDE DEF a
<1>6. CASE a.rel # NULL \/ a.rev # NULL
  <2>1. set.skip_element = read.skip_element
    BY <1>1, <1>6 DEF EstablishSubject, EstablishNew10SubjectWithRelRev,
       EstablishNew11SubjectWithRelRev, Contexts, a
  <2> QED BY <1>4, <1>5, <1>6, <2>1 DEF read
<1>7. CASE /\ a.rel = NULL /\ a.rev = NULL
           /\ read.rdfa_version = RDFA_VERSION_1_0
  <2>1. set.skip_element = read.skip_element
    BY <1>1, <1>7 DEF EstablishSubject, EstablishNew10Subject, Contexts, a
  <2>2. ~tag.prefixed /\ read.default_vocabulary = NULL
    BY <1>3, <1>7
    DEF ModeOK, SkipsBareElements, NoPrefixes, RDFA_VERSION_1_0, RDFA_VERSION_1_1
  <2>3. bare => read.skip_element
    BY <1>3, <1>4, <2>2 DEF Skips
  <2> QED BY <1>5, <2>1, <2>3 DEF read
<1>8. CASE /\ a.rel = NULL /\ a.rev = NULL
           /\ read.rdfa_version # RDFA_VERSION_1_0
  <2>1. set = EstablishNew11Subject(read)
    BY <1>8 DEF EstablishSubject, a
  <2>2. CASE a.property # NULL /\ a.content = NULL /\ a.datatype = NULL
    <3>1. set.skip_element = read.skip_element
      BY <1>1, <2>1, <2>2
      DEF EstablishNew11Subject, EstablishPropertySubject, Contexts, a
    <3> QED BY <1>4, <1>5, <2>2, <3>1 DEF read
  <2>3. CASE ~(a.property # NULL /\ a.content = NULL /\ a.datatype = NULL)
    <3> DEFINE none == FirstSet(<<a.about, a.resource, a.href, a.src>>) = NULL
    <3>1. set = EstablishChainedSubject(read)
      BY <2>1, <2>3 DEF EstablishNew11Subject, a
    <3>2. set.skip_element =
            (read.skip_element \/
               ((~(a.typeof # NULL) /\ none /\ read.parent_object # NULL)
                /\ a.property = NULL))
      BY <1>1, <3>1 DEF EstablishChainedSubject, NoneOf, Contexts, a
    <3>3. none <=> /\ a.about = NULL /\ a.resource = NULL /\ a.href = NULL
                   /\ a.src = NULL
      BY NoneOfFour
    <3> HIDE DEF none, set, bare
    <3>4. set.skip_element <=> bare
      BY <1>1, <1>4, <1>5, <1>8, <3>2, <3>3
    <3> QED BY <3>4 DEF set, bare, read
  <2> QED BY <2>2, <2>3
<1> QED BY <1>6, <1>7, <1>8

-----------------------------------------------------------------------------
(* What is left open, and what is completed with it.                       *)

\* h is the concatenation of f and g, sequences of elements of S.
Joins(h, f, g, S) == f \in Seq(S) /\ g \in Seq(S) /\ h = f \o g

\* h holds what f and g hold.
HoldsBoth(h, f, g) ==
  \A x : (\E i \in DOMAIN h : x = h[i]) <=>
           \/ \E i \in DOMAIN f : x = f[i]
           \/ \E i \in DOMAIN g : x = g[i]

\* A concatenation holds what its parts hold.
LEMMA ElementsOfBoth ==
  ASSUME NEW S, NEW f, NEW g, NEW h, Joins(h, f, g, S)
  PROVE  HoldsBoth(h, f, g)
<1> DEFINE m == Len(f)
           n == Len(g)
<1>1. m \in Nat /\ n \in Nat /\ DOMAIN f = 1 .. m /\ DOMAIN g = 1 .. n
  BY DEF Joins
<1>2. /\ h \in Seq(S) /\ Len(h) = m + n
      /\ \A i \in 1 .. m : h[i] = f[i]
      /\ \A i \in 1 .. n : h[m + i] = g[i]
  BY DEF Joins
<1>3. DOMAIN h = 1 .. m + n
  BY <1>2
<1> HIDE DEF m, n
<1>4. \A i \in 1 .. m : i \in 1 .. m + n
  BY <1>1
<1>5. \A i \in 1 .. n : m + i \in 1 .. m + n
  BY <1>1
<1>6. \A i \in 1 .. m + n : i \in 1 .. m \/ (i - m \in 1 .. n /\ i = m + (i - m))
  BY <1>1
<1>7. \A i \in 1 .. m + n : \/ \E j \in 1 .. m : h[i] = f[j]
                            \/ \E j \in 1 .. n : h[i] = g[j]
  BY <1>2, <1>6
<1>8. \A x : (\E i \in 1 .. m + n : x = h[i]) <=>
               (\E i \in 1 .. m : x = f[i]) \/ \E i \in 1 .. n : x = g[i]
  <2>1. \A x : \A i \in 1 .. m : x = f[i] => x = h[i] /\ i \in 1 .. m + n
    BY <1>2, <1>4
  <2>2. \A x : \A i \in 1 .. n : x = g[i] => x = h[m + i] /\ m + i \in 1 .. m + n
    BY <1>2, <1>5
  <2>3. \A x : \A i \in 1 .. m + n : x = h[i] =>
          (\E j \in 1 .. m : x = f[j]) \/ \E j \in 1 .. n : x = g[j]
    BY <1>7
  <2> QED BY ONLY <2>1, <2>2, <2>3, ZenonT(30)
<1> QED BY ONLY <1>1, <1>3, <1>8, ZenonT(30) DEF HoldsBoth

\* rdfa_save_incomplete_triples saves each predicate with its direction.
LEMMA OpenPredicatesAre ==
  ASSUME NEW a, a.rel \in Maybe(Seq(Iris)), a.rev \in Maybe(Seq(Iris))
  PROVE  LET p == OpenPredicates(a)
         IN  /\ p \in Seq(Incompletes)
             /\ {p[i] : i \in DOMAIN p} =
                  {[dir |-> "forward", pred |-> Rels(a)[i]] : i \in DOMAIN Rels(a)}
                  \cup
                  {[dir |-> "reverse", pred |-> Revs(a)[i]] : i \in DOMAIN Revs(a)}
<1> DEFINE r == Rels(a)
           v == Revs(a)
           f == [i \in DOMAIN r |-> [dir |-> "forward", pred |-> r[i]]]
           g == [i \in DOMAIN v |-> [dir |-> "reverse", pred |-> v[i]]]
<1>1. r \in Seq(Iris) /\ v \in Seq(Iris)
  BY DEF Rels, Revs, Maybe
<1>2. OpenPredicates(a) = f \o g
  BY DEF OpenPredicates
<1> HIDE DEF r, v
<1>3. f \in Seq(Incompletes)
  <2>1. f \in [1 .. Len(r) -> Incompletes] /\ Len(r) \in Nat
    BY <1>1 DEF Incompletes
  <2> HIDE DEF f
  <2> QED BY <2>1
<1>4. g \in Seq(Incompletes)
  <2>1. g \in [1 .. Len(v) -> Incompletes] /\ Len(v) \in Nat
    BY <1>1 DEF Incompletes
  <2> HIDE DEF g
  <2> QED BY <2>1
<1> DEFINE F == {[dir |-> "forward", pred |-> r[i]] : i \in DOMAIN r}
           G == {[dir |-> "reverse", pred |-> v[i]] : i \in DOMAIN v}
<1>5. \A x : /\ (\E i \in DOMAIN f : x = f[i]) <=> x \in F
             /\ (\E i \in DOMAIN g : x = g[i]) <=> x \in G
  OBVIOUS
<1> HIDE DEF f, g
<1> DEFINE h == f \o g
<1>7. \A x : (\E i \in DOMAIN h : x = h[i]) <=>
               \/ \E i \in DOMAIN f : x = f[i]
               \/ \E i \in DOMAIN g : x = g[i]
  <2>1. Joins(h, f, g, Incompletes)
    BY <1>3, <1>4 DEF Joins
  <2> HIDE DEF h
  <2>2. HoldsBoth(h, f, g)
    BY ONLY <2>1, ElementsOfBoth
  <2> QED BY ONLY <2>2 DEF HoldsBoth
<1> HIDE DEF F, G
<1>6. h \in Seq(Incompletes)
  BY <1>3, <1>4
<1>8. {h[i] : i \in DOMAIN h} = F \cup G
  <2>1. \A x : x \in {h[i] : i \in DOMAIN h} <=> \E i \in DOMAIN h : x = h[i]
    OBVIOUS
  <2> QED BY <1>5, <1>7, <2>1
<1> HIDE DEF h
<1> QED BY <1>2, <1>6, <1>8 DEF h, r, v, F, G

-----------------------------------------------------------------------------
(* What a start tag leaves open.                                           *)

\* The incomplete triples of a @rel whose objects go to lists.
ListedPredicates(rel) ==
  [i \in DOMAIN rel |-> [dir |-> "none", pred |-> Reresolved[rel[i]]]]

\* The incomplete triples that an element leaves, given its tag.
LeftByTag(tag, version, host, depth, left) ==
  IF ~LeavesOpen(tag, version, host, depth) THEN left = << >>
  ELSE IF version = RDFA_VERSION_1_1 /\ tag.inlist /\ tag.rel # NULL
  THEN left = ListedPredicates(tag.rel)
  ELSE left = OpenPredicates(tag)

\* The subject rules do not touch what was left open.
LEMMA EstablishedRelations ==
  ASSUME NEW c \in Contexts
  PROVE  LET set == EstablishSubject(c)
         IN  /\ set.incomplete_triples = c.incomplete_triples
             /\ set.local_incomplete_triples = c.local_incomplete_triples
             /\ set.parent_subject = c.parent_subject
             /\ set.default_vocabulary = c.default_vocabulary
BY DEF Contexts, EstablishSubject, EstablishNew11Subject,
       EstablishNew10Subject, EstablishPropertySubject,
       EstablishChainedSubject, EstablishNew10SubjectWithRelRev,
       EstablishNew11SubjectWithRelRev

\* Starting lists and adding to them does not either.
LEMMA ListsKeepRelations ==
  ASSUME NEW c \in Contexts, NEW keys, NEW value
  PROVE  LET e == AppendToListMappings(CreateListMappings(c, keys), keys, value)
         IN  /\ e.incomplete_triples = c.incomplete_triples
             /\ e.local_incomplete_triples = c.local_incomplete_triples
<1> DEFINE d == CreateListMappings(c, keys)
<1>1. /\ d.incomplete_triples = c.incomplete_triples
      /\ d.local_incomplete_triples = c.local_incomplete_triples
      /\ DOMAIN d = DOMAIN c
  BY DEF CreateListMappings, Contexts
<1>2. DOMAIN c = DOMAIN NewElementContext(c)
  BY DEF Contexts, NewElementContext
<1> HIDE DEF d
<1>3. LET e == AppendToListMappings(d, keys, value)
      IN  /\ e.incomplete_triples = d.incomplete_triples
          /\ e.local_incomplete_triples = d.local_incomplete_triples
  BY <1>1, <1>2 DEF AppendToListMappings, NewElementContext
<1> QED BY <1>1, <1>3 DEF d

\* rdfa_save_incomplete_triples, rdfa_save_incomplete_list_triples or neither.
LEMMA OpenRelationsLeave ==
  ASSUME NEW c \in Contexts, c.new_subject # NULL,
         c.local_incomplete_triples = << >>
  PROVE  LET e == OpenRelations(c)
             opens == /\ c.attrs.rel # NULL \/ c.attrs.rev # NULL
                      /\ c.current_object_resource = NULL
         IN  /\ e.incomplete_triples = c.incomplete_triples
             /\ ~opens => e.local_incomplete_triples = << >>
             /\ opens /\ ListsRel(c) =>
                  e.local_incomplete_triples = ListedPredicates(c.attrs.rel)
             /\ opens /\ ~ListsRel(c) =>
                  e.local_incomplete_triples = OpenPredicates(c.attrs)
<1> DEFINE e == OpenRelations(c)
           rel == c.attrs.rel
           left == e.local_incomplete_triples
           opens == /\ rel # NULL \/ c.attrs.rev # NULL
                    /\ c.current_object_resource = NULL
<1> SUFFICES /\ e.incomplete_triples = c.incomplete_triples
             /\ ~opens => left = << >>
             /\ opens /\ ListsRel(c) => left = ListedPredicates(rel)
             /\ opens /\ ~ListsRel(c) => left = OpenPredicates(c.attrs)
  OBVIOUS
<1> HIDE DEF e
<1>1. ListsRel(c) => rel # NULL
  BY DEF ListsRel
<1>2. CASE ListsRel(c) /\ c.current_object_resource # NULL
  <2>1. e = AppendToListMappings(
              CreateListMappings(c, KeysOf(c.new_subject, rel)),
              KeysOf(c.new_subject, rel), ListedObject(c))
    BY <1>2 DEF e, OpenRelations, EstablishNewInlistTriples
  <2> QED BY <1>2, <2>1, ListsKeepRelations
<1>3. CASE ListsRel(c) /\ c.current_object_resource = NULL
  <2> DEFINE d == CreateListMappings(c, KeysOf(c.new_subject, rel))
             none == ListedPredicates(rel)
  <2>1. e = [d EXCEPT !.local_incomplete_triples = @ \o none]
    BY <1>3 DEF e, OpenRelations, SaveIncompleteListTriples, ListedPredicates
  <2>2. /\ d.incomplete_triples = c.incomplete_triples
        /\ d.local_incomplete_triples = << >>
        /\ DOMAIN d = DOMAIN c
    BY DEF CreateListMappings, Contexts
  <2>3. {"incomplete_triples", "local_incomplete_triples"} \subseteq DOMAIN c
    BY DEF Contexts
  <2> HIDE DEF d
  <2>4. /\ e.incomplete_triples = c.incomplete_triples
        /\ e.local_incomplete_triples = << >> \o none
    BY <2>1, <2>2, <2>3
  <2>5. rel \in Seq(Iris)
    BY <1>1, <1>3 DEF Contexts, Attributes, Maybe
  <2>6. none \in Seq([dir : {"none"}, pred : {Reresolved[rel[i]] : i \in DOMAIN rel}])
    <3> DEFINE n == Len(rel)
    <3>1. n \in Nat /\ DOMAIN rel = 1 .. n
      BY <2>5
    <3> HIDE DEF n
    <3> QED BY <3>1 DEF ListedPredicates
  <2>7. << >> \o none = none
    <3> HIDE DEF none
    <3> QED BY <2>6
  <2> HIDE DEF none
  <2>8. /\ e.incomplete_triples = c.incomplete_triples
        /\ e.local_incomplete_triples = none
    BY <2>4, <2>7
  <2> QED BY <1>1, <1>3, <2>8 DEF none
<1>4. CASE /\ ~ListsRel(c) /\ c.current_object_resource = NULL
           /\ rel # NULL \/ c.attrs.rev # NULL
  <2> DEFINE p == OpenPredicates(c.attrs)
  <2>1. e = SaveIncompleteTriples(c)
    BY <1>4 DEF e, OpenRelations
  <2>2. /\ e.incomplete_triples = c.incomplete_triples
        /\ e.local_incomplete_triples = c.local_incomplete_triples \o p
    BY <2>1 DEF SaveIncompleteTriples, Contexts
  <2>3. p \in Seq(Incompletes)
    BY AttributeTypes, OpenPredicatesAre
  <2> HIDE DEF p
  <2>4. << >> \o p = p
    BY <2>3
  <2> QED BY <1>4, <2>2, <2>4 DEF p
<1>5. CASE /\ ~ListsRel(c)
           /\ ~(/\ c.current_object_resource = NULL
                /\ rel # NULL \/ c.attrs.rev # NULL)
  <2>1. e = c
    BY <1>5 DEF e, OpenRelations
  <2> QED BY <1>5, <2>1
<1> QED BY <1>2, <1>3, <1>4, <1>5

(***************************************************************************)
(* What a start tag does to the relations of its context: it is given what *)
(* the parent leaves, leaves what its own attributes say, and is skipped   *)
(* if it has none.                                                         *)
(***************************************************************************)
LEMMA StartedRelations ==
  ASSUME NEW parent \in Contexts, NEW tag \in Tags,
         SkipsBareElements, ModeOK(parent), InheritedObject(parent) # NULL,
         parent.skip_element => parent.local_incomplete_triples = << >>
  PROVE  LET c == OpenRelations(EstablishSubject(
                    ReadAttributes(NewElementContext(parent), tag)))
         IN  /\ ModeOK(c)
             /\ c.skip_element <=> Bare(tag, parent.depth + 1)
             /\ c.parent_subject = InheritedSubject(parent)
             /\ c.incomplete_triples = InheritedIncompletes(parent)
             /\ LeftByTag(tag, c.rdfa_version, c.host_language,
                          parent.depth + 1, c.local_incomplete_triples)
<1> DEFINE new  == NewElementContext(parent)
           read == ReadAttributes(new, tag)
           set  == EstablishSubject(read)
           c    == OpenRelations(set)
<1>1. /\ new \in Contexts /\ new.parent_object # NULL
      /\ new.depth = parent.depth + 1
      /\ ModeOK(new)
      /\ new.parent_subject = InheritedSubject(parent)
      /\ new.incomplete_triples = InheritedIncompletes(parent)
      /\ new.local_incomplete_triples = << >>
  BY NewElementContextType DEF NewElementContext, ModeOK
<1> HIDE DEF new
<1>2. /\ read \in Contexts /\ read.parent_object # NULL
      /\ ModeOK(read)
      /\ read.parent_subject = new.parent_subject
      /\ read.incomplete_triples = new.incomplete_triples
      /\ read.local_incomplete_triples = << >>
  BY <1>1, ReadAttributesType, ModeRead
<1>3. set.skip_element <=> Bare(tag, new.depth)
  BY <1>1, BareIsSkipped
<1>4. (tag.rel # NULL \/ tag.rev # NULL) =>
        (set.current_object_resource = NULL <=>
           LeavesOpen(tag, read.rdfa_version, new.host_language, new.depth))
  BY <1>1, OpenHasNoObject
<1>5. /\ read.attrs.rel = tag.rel /\ read.attrs.rev = tag.rev
      /\ read.attrs.inlist =
           (tag.inlist /\ read.rdfa_version = RDFA_VERSION_1_1)
      /\ read.host_language = new.host_language
  BY <1>1, AttributesOfTag
<1> HIDE DEF read
<1>6. /\ set \in Contexts /\ set.new_subject # NULL
      /\ set.attrs = read.attrs /\ set.rdfa_version = read.rdfa_version
      /\ set.host_language = read.host_language
      /\ set.parent_subject = read.parent_subject
      /\ set.incomplete_triples = read.incomplete_triples
      /\ set.local_incomplete_triples = << >>
      /\ set.default_vocabulary = read.default_vocabulary
  BY <1>2, SubjectEstablished, EstablishedAttributes, EstablishedRelations
  DEF Established
<1> HIDE DEF set
<1> DEFINE opens == /\ tag.rel # NULL \/ tag.rev # NULL
                    /\ set.current_object_resource = NULL
           listed == /\ set.rdfa_version = RDFA_VERSION_1_1
                     /\ tag.rel # NULL /\ tag.inlist
           left == c.local_incomplete_triples
<1>7. /\ c.skip_element = set.skip_element
      /\ c.rdfa_version = set.rdfa_version
      /\ c.host_language = set.host_language
      /\ c.parent_subject = set.parent_subject
      /\ c.default_vocabulary = set.default_vocabulary
  BY <1>6, OpenRelationsType DEF SameSubject
<1>8. ListsRel(set) <=> listed
  BY <1>5, <1>6 DEF ListsRel
<1>9. OpenPredicates(set.attrs) = OpenPredicates(tag)
  BY <1>5, <1>6 DEF OpenPredicates, Rels, Revs
<1>10. /\ c.incomplete_triples = set.incomplete_triples
       /\ ~opens => left = << >>
       /\ opens /\ ListsRel(set) => left = ListedPredicates(set.attrs.rel)
       /\ opens /\ ~ListsRel(set) => left = OpenPredicates(set.attrs)
  BY <1>5, <1>6, OpenRelationsLeave
<1>11. opens <=> LeavesOpen(tag, set.rdfa_version, new.host_language, new.depth)
  BY <1>4, <1>6 DEF LeavesOpen
<1> HIDE DEF c, opens, left
<1>12. LeftByTag(tag, c.rdfa_version, c.host_language, new.depth, left)
  BY <1>5, <1>6, <1>7, <1>8, <1>9, <1>10, <1>11 DEF LeftByTag
<1>13. ModeOK(c)
  BY <1>2, <1>6, <1>7 DEF ModeOK
<1> QED BY <1>1, <1>2, <1>3, <1>6, <1>7, <1>10, <1>12, <1>13
        DEF c, set, read, new, left

-----------------------------------------------------------------------------
(* Which function sends which triples.                                     *)

\* A triple keeps the name of its sender, complete or not.
LEMMA TripleBy ==
  ASSUME NEW by, NEW s, NEW p, NEW o
  PROVE  Triple(by, s, p, o).by = by
BY DEF Triple

\* Those sent at a start tag.
LEMMA StartSenders ==
  ASSUME NEW c, NEW read, NEW set, NEW tag
  PROVE  /\ \A t \in AttributeTriples(c, read, tag) :
              t.by \in {"warning", "vocab", "prefix"}
         /\ \A t \in TypeTriples(set) : t.by = "type"
         /\ \A t \in RelRevTriples(set) : t.by = "relrev"
<1>1. \A t \in AttributeTriples(c, read, tag) :
        t.by \in {"warning", "vocab", "prefix"}
  BY TripleBy DEF AttributeTriples, Report
<1>2. \A t \in TypeTriples(set) : t.by = "type"
  BY TripleBy DEF TypeTriples
<1>3. \A t \in RelRevTriples(set) : t.by = "relrev"
  BY TripleBy DEF RelRevTriples, RelRevPairs
<1> QED BY <1>1, <1>2, <1>3

\* Those sent at an end tag.
LEMMA EndSenders ==
  ASSUME NEW c
  PROVE  /\ \A t \in PropertyTriples(c) : t.by = "property"
         /\ \A t \in HangingTriples(c) : t.by = "hanging"
         /\ \A t \in ListTriples(c) : t.by \in {"nil", "list", "first", "rest"}
<1>1. \A t \in PropertyTriples(c) : t.by = "property"
  BY TripleBy DEF PropertyTriples
<1>2. \A t \in HangingTriples(c) : t.by = "hanging"
  BY TripleBy DEF HangingTriples
<1>3. \A l : \A t \in EmptyListTriples(c, l) : t.by = "nil"
  BY TripleBy DEF EmptyListTriples
<1>4. \A l : \A t \in ChainTriples(c, l) : t.by \in {"list", "first", "rest"}
  BY TripleBy DEF ChainTriples
<1>5. \A t \in ListTriples(c) : t.by \in {"nil", "list", "first", "rest"}
  BY <1>3, <1>4 DEF ListTriples
<1> QED BY <1>1, <1>2, <1>5

\* The completed relations among the triples sent at element n.
HangingAt(n, T) ==
  {[at |-> n, s |-> t.s, p |-> t.p, o |-> t.o] :
     t \in {u \in T : u.by = "hanging"}}

\* The graph only grows.
LEMMA SentHangingGrows ==
  ASSUME NEW n, NEW T, graph' = graph \cup Sent(n, T)
  PROVE  SentHanging' = SentHanging \cup HangingAt(n, T)
<1>1. \A x : x \in SentHanging' <=>
        \E e \in graph' : /\ e.t.by = "hanging"
                          /\ x = [at |-> e.at, s |-> e.t.s, p |-> e.t.p, o |-> e.t.o]
  BY DEF SentHanging, By
<1>2. \A x : x \in SentHanging <=>
        \E e \in graph : /\ e.t.by = "hanging"
                         /\ x = [at |-> e.at, s |-> e.t.s, p |-> e.t.p, o |-> e.t.o]
  BY DEF SentHanging, By
<1>3. \A x : x \in HangingAt(n, T) <=>
        \E e \in Sent(n, T) :
          /\ e.t.by = "hanging"
          /\ x = [at |-> e.at, s |-> e.t.s, p |-> e.t.p, o |-> e.t.o]
  <2>1. \A x : x \in HangingAt(n, T) <=>
          \E t \in T : /\ t.by = "hanging"
                       /\ x = [at |-> n, s |-> t.s, p |-> t.p, o |-> t.o]
    BY DEF HangingAt
  <2>2. /\ \A e \in Sent(n, T) : e.at = n /\ e.t \in T
        /\ \A t \in T : \E e \in Sent(n, T) : e.at = n /\ e.t = t
    <3>1. \A t \in T : [at |-> n, t |-> t] \in Sent(n, T)
      BY DEF Sent
    <3>2. \A e \in Sent(n, T) : e.at = n /\ e.t \in T
      BY DEF Sent
    <3>3. \A t : [at |-> n, t |-> t].at = n /\ [at |-> n, t |-> t].t = t
      OBVIOUS
    <3> QED BY ONLY <3>1, <3>2, <3>3, Zenon
  <2>3. ASSUME NEW x, x \in HangingAt(n, T)
        PROVE  \E e \in Sent(n, T) :
                 /\ e.t.by = "hanging"
                 /\ x = [at |-> e.at, s |-> e.t.s, p |-> e.t.p, o |-> e.t.o]
    <3>1. PICK t \in T : /\ t.by = "hanging"
                         /\ x = [at |-> n, s |-> t.s, p |-> t.p, o |-> t.o]
      BY ONLY <2>1, <2>3, Zenon
    <3>2. PICK e \in Sent(n, T) : e.at = n /\ e.t = t
      BY <2>2
    <3> QED BY <3>1, <3>2
  <2>4. ASSUME NEW e \in Sent(n, T), e.t.by = "hanging"
        PROVE  [at |-> e.at, s |-> e.t.s, p |-> e.t.p, o |-> e.t.o]
                 \in HangingAt(n, T)
    BY <2>1, <2>2, <2>4
  <2> QED BY <2>3, <2>4
<1>4. \A x : x \in SentHanging' <=> x \in SentHanging \/ x \in HangingAt(n, T)
  BY <1>1, <1>2, <1>3
<1> QED BY <1>4

\* What completing the relations of m with the subject of n gives.
Completion(n, m) ==
  {[at |-> n, s |-> tree[m].subject, p |-> p, o |-> tree[n].subject] :
     p \in Predicates(m, "rel")}
  \cup
  {[at |-> n, s |-> tree[n].subject, p |-> p, o |-> tree[m].subject] :
     p \in Predicates(m, "rev")}

\* What an element leaves open, and which elements complete what is around.
LeftBy(n, left) ==
  IF ~Hangs(n) THEN left = << >>
  ELSE IF HangsInList(n) THEN left = ListedPredicates(tree[n].tag.rel)
  ELSE left = OpenPredicates(tree[n].tag)

Completing(n) ==
  /\ ~Transparent(n) /\ Enclosing(n) # 0 /\ Hangs(Enclosing(n))
  /\ ~HangsInList(Enclosing(n))

\* The predicates of a tag are those that rdfa_save_incomplete_triples saves.
LEMMA PredicatesOfTag ==
  ASSUME NEW m, tree[m] \in Nodes
  PROVE  /\ tree[m].tag.rel \in Maybe(Seq(Iris))
         /\ tree[m].tag.rev \in Maybe(Seq(Iris))
         /\ \A p : p \in Predicates(m, "rel") <=>
              \E i \in DOMAIN Rels(tree[m].tag) : p = Rels(tree[m].tag)[i]
         /\ \A p : p \in Predicates(m, "rev") <=>
              \E i \in DOMAIN Revs(tree[m].tag) : p = Revs(tree[m].tag)[i]
<1> DEFINE tag == tree[m].tag
<1>1. tag \in StartTags
  BY TagsAssumption DEF Nodes
<1>2. tag.rel \in Maybe(Seq(Iris)) /\ tag.rev \in Maybe(Seq(Iris))
  BY <1>1 DEF StartTags
<1> HIDE DEF tag
<1>3. \A p : p \in Predicates(m, "rel") <=>
             \E i \in DOMAIN Rels(tag) : p = Rels(tag)[i]
  BY <1>2 DEF Predicates, Rels, ToSet, Maybe, tag
<1>4. \A p : p \in Predicates(m, "rev") <=>
             \E i \in DOMAIN Revs(tag) : p = Revs(tag)[i]
  BY <1>2 DEF Predicates, Revs, ToSet, Maybe, tag
<1> QED BY <1>2, <1>3, <1>4 DEF tag

\* A triple with all three parts.
LEMMA WholeTriple ==
  ASSUME NEW by, NEW s, s # NULL, NEW p, p # NULL, NEW o, o # NULL
  PROVE  Triple(by, s, p, o) = [by |-> by, s |-> s, p |-> p, o |-> o]
BY DEF Triple

(***************************************************************************)
(* rdfa_complete_incomplete_triples sends exactly the completion of the    *)
(* relations that were left for it.                                        *)
(***************************************************************************)
LEMMA CompletionSent ==
  ASSUME NEW c \in Contexts, c.new_subject # NULL, NEW n, NEW m,
         tree[m] \in Nodes, LeftBy(m, c.incomplete_triples),
         c.parent_subject = tree[m].subject, c.new_subject = tree[n].subject
  PROVE  HangingAt(n, HangingTriples(c)) =
           IF Hangs(m) /\ ~HangsInList(m) THEN Completion(n, m) ELSE {}
<1> DEFINE incs == c.incomplete_triples
           live == {incs[i] : i \in {j \in DOMAIN incs : incs[j].dir # "none"}}
           s == c.parent_subject
           o == c.new_subject
           sent(inc) == CASE inc.dir = "forward" -> Triple("hanging", s, inc.pred, o)
                          [] OTHER -> Triple("hanging", o, inc.pred, s)
<1>1. HangingTriples(c) = {sent(inc) : inc \in live}
  BY DEF HangingTriples
<1>2. s # NULL /\ o # NULL
  BY NullIsNoResource DEF Contexts
<1>3. CASE ~Hangs(m) \/ HangsInList(m)
  <2>1. \A i \in DOMAIN incs : incs[i].dir = "none"
    <3>1. CASE ~Hangs(m)
      <4>1. incs = << >>
        BY <3>1 DEF LeftBy
      <4> HIDE DEF incs
      <4> QED BY <4>1
    <3>2. CASE Hangs(m)
      BY <1>3, <3>2 DEF LeftBy, ListedPredicates
    <3> QED BY <3>1, <3>2
  <2>2. live = {}
    BY <2>1
  <2> HIDE DEF live, sent
  <2>3. HangingTriples(c) = {}
    BY <1>1, <2>2
  <2> QED BY <1>3, <2>3 DEF HangingAt
<1>4. CASE Hangs(m) /\ ~HangsInList(m)
  <2> DEFINE tag == tree[m].tag
             F == {[dir |-> "forward", pred |-> Rels(tag)[i]] : i \in DOMAIN Rels(tag)}
             G == {[dir |-> "reverse", pred |-> Revs(tag)[i]] : i \in DOMAIN Revs(tag)}
  <2>1. incs = OpenPredicates(tag)
    BY <1>4 DEF LeftBy
  <2>2. tag.rel \in Maybe(Seq(Iris)) /\ tag.rev \in Maybe(Seq(Iris))
    BY PredicatesOfTag
  <2>3. incs \in Seq(Incompletes) /\ {incs[i] : i \in DOMAIN incs} = F \cup G
    BY <2>1, <2>2, OpenPredicatesAre
  <2> HIDE DEF incs, tag
  <2>4. \A x : x \in live <=> x \in F \/ x \in G
    <3>1. \A x : x \in {incs[i] : i \in DOMAIN incs} <=>
                 \E i \in DOMAIN incs : x = incs[i]
      OBVIOUS
    <3>2. \A x : x \in live <=> (\E i \in DOMAIN incs : x = incs[i]) /\ x.dir # "none"
      OBVIOUS
    <3>3. \A x \in F \cup G : x.dir # "none"
      OBVIOUS
    <3> HIDE DEF live, F, G
    <3> QED BY <2>3, <3>1, <3>2, <3>3
  <2>5. \A p : /\ sent([dir |-> "forward", pred |-> p]) = Triple("hanging", s, p, o)
               /\ sent([dir |-> "reverse", pred |-> p]) = Triple("hanging", o, p, s)
    OBVIOUS
  <2>6. /\ \A i \in DOMAIN Rels(tag) : Rels(tag)[i] # NULL
        /\ \A i \in DOMAIN Revs(tag) : Revs(tag)[i] # NULL
    <3>1. Rels(tag) \in Seq(Iris) /\ Revs(tag) \in Seq(Iris)
      BY <2>2 DEF Rels, Revs, Maybe
    <3> QED BY <3>1, NullAssumption
  <2> HIDE DEF sent, live
  <2>7. \A t : t \in HangingTriples(c) <=>
          \/ \E i \in DOMAIN Rels(tag) : t = Triple("hanging", s, Rels(tag)[i], o)
          \/ \E i \in DOMAIN Revs(tag) : t = Triple("hanging", o, Revs(tag)[i], s)
    <3>1. \A t : t \in HangingTriples(c) <=>
                 \E inc : inc \in live /\ t = sent(inc)
      BY <1>1
    <3>2. \A t : t \in HangingTriples(c) <=>
                 \/ \E inc \in F : t = sent(inc)
                 \/ \E inc \in G : t = sent(inc)
      BY <2>4, <3>1
    <3>3. /\ \A inc : inc \in F <=> \E i \in DOMAIN Rels(tag) :
                          inc = [dir |-> "forward", pred |-> Rels(tag)[i]]
          /\ \A inc : inc \in G <=> \E i \in DOMAIN Revs(tag) :
                          inc = [dir |-> "reverse", pred |-> Revs(tag)[i]]
      OBVIOUS
    <3> HIDE DEF F, G
    <3>4. \A t : (\E inc \in F : t = sent(inc)) <=>
                 \E i \in DOMAIN Rels(tag) : t = Triple("hanging", s, Rels(tag)[i], o)
      <4>1. \A t : (\E inc \in F : t = sent(inc)) <=>
                   \E i \in DOMAIN Rels(tag) :
                     t = sent([dir |-> "forward", pred |-> Rels(tag)[i]])
        BY ONLY <3>3, Zenon
      <4>2. \A i : sent([dir |-> "forward", pred |-> Rels(tag)[i]])
                     = Triple("hanging", s, Rels(tag)[i], o)
        BY ONLY <2>5
      <4> QED BY ONLY <4>1, <4>2, ZenonT(30)
    <3>5. \A t : (\E inc \in G : t = sent(inc)) <=>
                 \E i \in DOMAIN Revs(tag) : t = Triple("hanging", o, Revs(tag)[i], s)
      <4>1. \A t : (\E inc \in G : t = sent(inc)) <=>
                   \E i \in DOMAIN Revs(tag) :
                     t = sent([dir |-> "reverse", pred |-> Revs(tag)[i]])
        BY ONLY <3>3, ZenonT(30)
      <4>2. \A i : sent([dir |-> "reverse", pred |-> Revs(tag)[i]])
                     = Triple("hanging", o, Revs(tag)[i], s)
        BY ONLY <2>5
      <4> QED BY ONLY <4>1, <4>2, ZenonT(30)
    <3> QED BY <3>2, <3>4, <3>5
  <2>8. \A t : t \in HangingTriples(c) <=>
          \/ \E i \in DOMAIN Rels(tag) :
               t = [by |-> "hanging", s |-> s, p |-> Rels(tag)[i], o |-> o]
          \/ \E i \in DOMAIN Revs(tag) :
               t = [by |-> "hanging", s |-> o, p |-> Revs(tag)[i], o |-> s]
    BY <1>2, <2>6, <2>7, WholeTriple
  <2> HIDE DEF F, G, s, o
  <2>9. \A x : x \in HangingAt(n, HangingTriples(c)) <=>
          \/ \E i \in DOMAIN Rels(tag) :
               x = [at |-> n, s |-> s, p |-> Rels(tag)[i], o |-> o]
          \/ \E i \in DOMAIN Revs(tag) :
               x = [at |-> n, s |-> o, p |-> Revs(tag)[i], o |-> s]
    <3>1. \A x : x \in HangingAt(n, HangingTriples(c)) <=>
            \E t \in HangingTriples(c) :
              t.by = "hanging" /\ x = [at |-> n, s |-> t.s, p |-> t.p, o |-> t.o]
      BY DEF HangingAt
    <3> HIDE DEF tag
    <3>2. ASSUME NEW x, x \in HangingAt(n, HangingTriples(c))
          PROVE  \/ \E i \in DOMAIN Rels(tag) :
                      x = [at |-> n, s |-> s, p |-> Rels(tag)[i], o |-> o]
                 \/ \E i \in DOMAIN Revs(tag) :
                      x = [at |-> n, s |-> o, p |-> Revs(tag)[i], o |-> s]
      <4>1. PICK t \in HangingTriples(c) :
              x = [at |-> n, s |-> t.s, p |-> t.p, o |-> t.o]
        BY <3>1, <3>2
      <4> QED BY <2>8, <4>1
    <3>3. ASSUME NEW i \in DOMAIN Rels(tag)
          PROVE  [at |-> n, s |-> s, p |-> Rels(tag)[i], o |-> o]
                   \in HangingAt(n, HangingTriples(c))
      <4> DEFINE t == [by |-> "hanging", s |-> s, p |-> Rels(tag)[i], o |-> o]
      <4>1. t \in HangingTriples(c)
        BY <2>8
      <4> QED BY <3>1, <4>1
    <3>4. ASSUME NEW i \in DOMAIN Revs(tag)
          PROVE  [at |-> n, s |-> o, p |-> Revs(tag)[i], o |-> s]
                   \in HangingAt(n, HangingTriples(c))
      <4> DEFINE t == [by |-> "hanging", s |-> o, p |-> Revs(tag)[i], o |-> s]
      <4>1. t \in HangingTriples(c)
        BY <2>8
      <4> QED BY <3>1, <4>1
    <3> QED BY <3>2, <3>3, <3>4
  <2>10. \A x : x \in Completion(n, m) <=>
          \/ \E p \in Predicates(m, "rel") :
               x = [at |-> n, s |-> tree[m].subject, p |-> p, o |-> tree[n].subject]
          \/ \E p \in Predicates(m, "rev") :
               x = [at |-> n, s |-> tree[n].subject, p |-> p, o |-> tree[m].subject]
    BY DEF Completion
  <2>11. s = tree[m].subject /\ o = tree[n].subject
    BY DEF s, o
  <2>12. \A x : x \in HangingAt(n, HangingTriples(c)) <=> x \in Completion(n, m)
    <3>0. /\ \A p : p \in Predicates(m, "rel") <=>
                    \E i \in DOMAIN Rels(tag) : p = Rels(tag)[i]
          /\ \A p : p \in Predicates(m, "rev") <=>
                    \E i \in DOMAIN Revs(tag) : p = Revs(tag)[i]
      BY PredicatesOfTag DEF tag
    <3>1. \A x : (\E p \in Predicates(m, "rel") :
                    x = [at |-> n, s |-> s, p |-> p, o |-> o]) <=>
                 \E i \in DOMAIN Rels(tag) :
                    x = [at |-> n, s |-> s, p |-> Rels(tag)[i], o |-> o]
      BY ONLY <3>0
    <3>2. \A x : (\E p \in Predicates(m, "rev") :
                    x = [at |-> n, s |-> o, p |-> p, o |-> s]) <=>
                 \E i \in DOMAIN Revs(tag) :
                    x = [at |-> n, s |-> o, p |-> Revs(tag)[i], o |-> s]
      BY ONLY <3>0
    <3> QED BY <2>9, <2>10, <2>11, <3>1, <3>2
  <2> QED BY <1>4, <2>12
<1> QED BY <1>3, <1>4

-----------------------------------------------------------------------------
(* The tree of elements.                                                   *)

\* The elements around an element come before it, and so does the one whose
\* relations it may complete.
TreeOK ==
  \A n \in Elements :
    /\ \A i \in DOMAIN tree[n].path : tree[n].path[i] \in 1 .. n
    /\ Enclosing(n) \in 0 .. n

\* The open elements are nested in each other.
OpenOK ==
  \A i \in DOMAIN open :
    /\ open[i] \in Elements
    /\ Len(tree[open[i]].path) = i
    /\ \A k \in 1 .. i : tree[open[i]].path[k] = open[k]
    /\ \A k \in 1 .. i - 1 : open[k] < open[i]

\* The elements around n that are not skipped.
Opaque(n) ==
  {m \in {tree[n].path[i] : i \in 1 .. Len(tree[n].path) - 1} : ~Transparent(m)}

\* A new element changes nothing that is said of the earlier ones.
LEMMA EarlierElements ==
  ASSUME TreeOK, tree \in Seq(Nodes), NEW node \in Nodes,
         tree' = Append(tree, node), NEW n \in Elements
  PROVE  /\ tree'[n] = tree[n] /\ n \in Elements'
         /\ Transparent(n)' <=> Transparent(n)
         /\ Hangs(n)' <=> Hangs(n)
         /\ HangsInList(n)' <=> HangsInList(n)
         /\ Enclosing(n)' = Enclosing(n)
<1>1. /\ n \in 1 .. Len(tree) /\ Len(tree) \in Nat
      /\ \A m \in 1 .. Len(tree) : tree'[m] = tree[m]
      /\ Elements' = 1 .. Len(tree) + 1
  BY DEF Elements
<1>2. \A m \in Elements : /\ Transparent(m)' <=> Transparent(m)
                          /\ Hangs(m)' <=> Hangs(m)
                          /\ HangsInList(m)' <=> HangsInList(m)
  BY <1>1 DEF Elements, Transparent, Hangs, HangsInList, HasAbout, Unset
<1> DEFINE path == tree[n].path
           around == {path[i] : i \in 1 .. Len(path) - 1}
<1>3. path \in Seq(Nat) /\ tree'[n].path = path
  <2>1. tree[n] \in Nodes /\ tree'[n] = tree[n]
    BY <1>1
  <2>2. tree[n].path \in Seq(Nat)
    BY <2>1 DEF Nodes
  <2> QED BY <2>1, <2>2
<1>4. \A m \in around : m \in Elements
  <2>1. \A i \in DOMAIN path : path[i] \in 1 .. n
    BY DEF TreeOK
  <2> HIDE DEF path
  <2>2. \A i \in 1 .. Len(path) - 1 : i \in DOMAIN path
    BY <1>3
  <2>3. \A m \in 1 .. n : m \in Elements
    BY <1>1 DEF Elements
  <2> QED BY <2>1, <2>2, <2>3
<1>5. Opaque(n)' = Opaque(n)
  <2>1. Opaque(n)' = {m \in around : ~Transparent(m)'}
    BY <1>3 DEF Opaque
  <2>2. Opaque(n) = {m \in around : ~Transparent(m)}
    BY DEF Opaque
  <2> HIDE DEF around
  <2> QED BY <1>2, <1>4, <2>1, <2>2
<1>6. Enclosing(n)' = Enclosing(n)
  <2>1. Enclosing(n) = IF Opaque(n) = {} THEN 0
                       ELSE CHOOSE m \in Opaque(n) : \A k \in Opaque(n) : k <= m
    BY DEF Enclosing, Opaque
  <2>2. Enclosing(n)' = IF Opaque(n)' = {} THEN 0
          ELSE CHOOSE m \in Opaque(n)' : \A k \in Opaque(n)' : k <= m
    BY DEF Enclosing, Opaque
  <2> QED BY <1>5, <2>1, <2>2
<1> QED BY <1>1, <1>2, <1>6

(***************************************************************************)
(* The nearest element that is not skipped, around one that starts: the    *)
(* innermost open element, or the one that is nearest to that.             *)
(***************************************************************************)
LEMMA EnclosingNew ==
  ASSUME TreeOK, OpenOK, tree \in Seq(Nodes), open \in Seq(Nat),
         NEW node \in Nodes, NEW id \in Nat, id = Len(tree) + 1,
         node.path = Append(open, id), tree' = Append(tree, node)
  PROVE  Enclosing(id)' =
           IF open = << >> THEN 0
           ELSE LET p == open[Len(open)]
                IN  IF Transparent(p) THEN Enclosing(p) ELSE p
<1> DEFINE h == Len(open)
           p == open[h]
           O == Opaque(id)'
<1>1. tree'[id] = node
  OBVIOUS
<1>2. /\ h \in Nat /\ Len(Append(open, id)) = h + 1
      /\ \A i \in 1 .. h : Append(open, id)[i] = open[i] /\ open[i] \in Nat
  OBVIOUS
<1>3. O = {m \in {open[i] : i \in 1 .. h} : ~Transparent(m)'}
  <2>1. O = {m \in {Append(open, id)[i] : i \in 1 .. Len(Append(open, id)) - 1} :
              ~Transparent(m)'}
    BY <1>1 DEF Opaque
  <2>2. Len(Append(open, id)) - 1 = h
    BY <1>2
  <2>3. {Append(open, id)[i] : i \in 1 .. h} = {open[i] : i \in 1 .. h}
    BY <1>2
  <2> QED BY <2>1, <2>2, <2>3
<1>4. \A m \in {open[i] : i \in 1 .. h} :
        m \in Elements /\ (Transparent(m)' <=> Transparent(m))
  <2>1. \A i \in 1 .. h : open[i] \in Elements
    BY DEF OpenOK
  <2>2. \A n \in Elements : Transparent(n)' <=> Transparent(n)
    BY EarlierElements
  <2> QED BY <2>1, <2>2
<1>5. O = {m \in {open[i] : i \in 1 .. h} : ~Transparent(m)}
  BY <1>3, <1>4
<1>6. Enclosing(id)' = IF O = {} THEN 0
                       ELSE CHOOSE m \in O : \A k \in O : k <= m
  BY DEF Enclosing, Opaque
<1> HIDE DEF O
<1>7. CASE open = << >>
  <2>1. O = {}
    BY <1>5, <1>7
  <2> QED BY <1>6, <1>7, <2>1
<1>8. CASE open # << >>
  <2>1. h > 0 /\ h \in 1 .. h /\ h \in DOMAIN open
    BY <1>8
  <2>2. \A k \in 1 .. h - 1 : open[k] < p
    BY <2>1 DEF OpenOK
  <2>3. \A k \in 1 .. h : open[k] <= p
    BY <1>2, <2>1, <2>2, SMTT(30)
  <2>4. CASE ~Transparent(p)
    <3>1. p \in O /\ \A k \in O : k <= p /\ k \in Nat
      BY <1>2, <1>5, <2>1, <2>3, <2>4
    <3>2. (CHOOSE m \in O : \A k \in O : k <= m) = p
      <4> DEFINE top == CHOOSE m \in O : \A k \in O : k <= m
      <4>1. top \in O /\ \A k \in O : k <= top
        BY <3>1
      <4>2. top <= p /\ p <= top /\ top \in Nat /\ p \in Nat
        BY <3>1, <4>1
      <4> HIDE DEF top, p
      <4>3. top = p
        BY <4>2
      <4> QED BY <4>3 DEF top
    <3> QED BY <1>6, <1>8, <2>4, <3>1, <3>2
  <2>5. CASE Transparent(p)
    <3>1. O = Opaque(p)
      <4>1. Len(tree[p].path) = h /\ \A k \in 1 .. h : tree[p].path[k] = open[k]
        BY <2>1 DEF OpenOK
      <4>2. Opaque(p) = {m \in {tree[p].path[i] : i \in 1 .. h - 1} : ~Transparent(m)}
        BY <4>1 DEF Opaque
      <4>3. \A i \in 1 .. h - 1 : i \in 1 .. h /\ tree[p].path[i] = open[i]
        BY <1>2, <4>1
      <4>4. \A i \in 1 .. h : i = h \/ i \in 1 .. h - 1
        BY <1>2
      <4> HIDE DEF h
      <4>5. \A m : m \in O <=> m \in Opaque(p)
        <5>1. \A m : m \in O <=> (\E i \in 1 .. h : m = open[i]) /\ ~Transparent(m)
          BY <1>5
        <5>2. \A m : m \in Opaque(p) <=>
                (\E i \in 1 .. h - 1 : m = open[i]) /\ ~Transparent(m)
          BY <4>2, <4>3
        <5> QED BY <2>5, <4>3, <4>4, <5>1, <5>2
      <4> QED BY <4>5
    <3>2. Enclosing(p) = IF Opaque(p) = {} THEN 0
                         ELSE CHOOSE m \in Opaque(p) : \A k \in Opaque(p) : k <= m
      BY DEF Enclosing, Opaque
    <3> QED BY <1>6, <1>8, <2>5, <3>1, <3>2
  <2> QED BY <2>4, <2>5
<1> QED BY <1>7, <1>8

-----------------------------------------------------------------------------
(* The invariant.                                                          *)

\* A context knows its element's subject and whether it is skipped, what it
\* leaves open, and the subject and the relations of the nearest element
\* around it that is not skipped.
ContextFollows(c, n) ==
  /\ c.new_subject = tree[n].subject
  /\ c.skip_element <=> Transparent(n)
  /\ LeftBy(n, c.local_incomplete_triples)
  /\ IF Enclosing(n) = 0 THEN c.incomplete_triples = << >>
     ELSE /\ c.parent_subject = tree[Enclosing(n)].subject
          /\ LeftBy(Enclosing(n), c.incomplete_triples)

RelationsFollow ==
  /\ \A i \in DOMAIN stack : ModeOK(stack[i])
  /\ stack[1].local_incomplete_triples = << >>
  /\ \A i \in DOMAIN open : ContextFollows(stack[i + 1], open[i])

RelationsInv ==
  /\ Inv /\ TreeOK /\ OpenOK
  /\ status # "ended" => RelationsFollow
  /\ HangingRelationsCompleted

-----------------------------------------------------------------------------
(* What stays as it is.                                                    *)

\* Nothing that is said of an element changes while the tree does not.
LEMMA SameTree ==
  ASSUME UNCHANGED tree
  PROVE  /\ Elements' = Elements
         /\ TreeOK => TreeOK'
         /\ \A n : /\ Enclosing(n)' = Enclosing(n)
                   /\ Completing(n)' <=> Completing(n)
         /\ \A n, m : Completion(n, m)' = Completion(n, m)
         /\ \A c, n : ContextFollows(c, n)' <=> ContextFollows(c, n)
<1>1. \A n : /\ Transparent(n)' <=> Transparent(n)
             /\ Hangs(n)' <=> Hangs(n)
             /\ HangsInList(n)' <=> HangsInList(n)
  BY DEF Transparent, Hangs, HangsInList, HasAbout, Unset
<1>2. \A n : Opaque(n)' = Opaque(n)
  BY <1>1 DEF Opaque
<1>3. ASSUME NEW n
      PROVE  Enclosing(n)' = Enclosing(n)
  <2>1. Enclosing(n) = IF Opaque(n) = {} THEN 0
          ELSE CHOOSE m \in Opaque(n) : \A k \in Opaque(n) : k <= m
    BY DEF Enclosing, Opaque
  <2>2. Enclosing(n)' = IF Opaque(n)' = {} THEN 0
          ELSE CHOOSE m \in Opaque(n)' : \A k \in Opaque(n)' : k <= m
    BY DEF Enclosing, Opaque
  <2>3. Opaque(n)' = Opaque(n)
    BY <1>2
  <2> QED BY <2>1, <2>2, <2>3
<1>4. \A n, left : LeftBy(n, left)' <=> LeftBy(n, left)
  BY <1>1 DEF LeftBy
<1>5. Elements' = Elements
  BY DEF Elements
<1>6. \A n : Completing(n)' <=> Completing(n)
  BY <1>1, <1>3 DEF Completing
<1>7. \A n, m : Completion(n, m)' = Completion(n, m)
  BY DEF Completion, Predicates
<1>8. \A c, n : ContextFollows(c, n)' <=> ContextFollows(c, n)
  BY <1>1, <1>3, <1>4 DEF ContextFollows
<1>9. TreeOK => TreeOK'
  BY <1>3, <1>5 DEF TreeOK
<1> QED BY <1>3, <1>5, <1>6, <1>7, <1>8, <1>9

\* Nor does anything that was said of an element when a new one comes.
LEMMA EarlierContexts ==
  ASSUME TreeOK, tree \in Seq(Nodes), NEW node \in Nodes,
         tree' = Append(tree, node), NEW n \in Elements
  PROVE  /\ Completing(n)' <=> Completing(n)
         /\ Completing(n) =>
              Completion(n, Enclosing(n))' = Completion(n, Enclosing(n))
         /\ \A c : ContextFollows(c, n)' <=> ContextFollows(c, n)
<1> DEFINE m == Enclosing(n)
<1>1. \A k \in Elements : /\ tree'[k] = tree[k]
                          /\ Transparent(k)' <=> Transparent(k)
                          /\ Hangs(k)' <=> Hangs(k)
                          /\ HangsInList(k)' <=> HangsInList(k)
  BY EarlierElements
<1>2. Enclosing(n)' = m
  BY EarlierElements
<1>3. m = 0 \/ m \in Elements
  BY DEF TreeOK, Elements
<1> HIDE DEF m
<1>4. \A k \in Elements : \A left : LeftBy(k, left)' <=> LeftBy(k, left)
  BY <1>1 DEF LeftBy
<1>5. Completing(n)' <=> Completing(n)
  BY <1>1, <1>2, <1>3 DEF Completing, m
<1>6. Completing(n) => Completion(n, Enclosing(n))' = Completion(n, Enclosing(n))
  <2>1. \A k \in Elements : Completion(n, k)' = Completion(n, k)
    BY <1>1, ZenonT(60) DEF Completion, Predicates
  <2>2. Completing(n) => m \in Elements
    BY <1>3 DEF Completing, m
  <2> QED BY <1>2, <2>1, <2>2 DEF m
<1>7. \A c : ContextFollows(c, n)' <=> ContextFollows(c, n)
  BY <1>1, <1>2, <1>3, <1>4 DEF ContextFollows, m
<1> QED BY <1>2, <1>5, <1>6, <1>7 DEF m

\* What the closed elements must have completed.
ExpectedIs ==
  \A x : x \in ExpectedHanging <=>
    \E n \in Closed : Completing(n) /\ x \in Completion(n, Enclosing(n))

LEMMA ExpectedCompletions == ExpectedIs
BY DEF ExpectedIs, ExpectedHanging, Completing, Completion

\* A context that is changed in nothing that its children are told.
SameRelations(c, e) ==
  /\ SameSubject(c, e)
  /\ e.incomplete_triples = c.incomplete_triples
  /\ e.local_incomplete_triples = c.local_incomplete_triples

LEMMA StillFollows ==
  ASSUME NEW c, NEW e, SameRelations(c, e), NEW n
  PROVE  /\ ContextFollows(c, n) => ContextFollows(e, n)
         /\ ModeOK(c) => ModeOK(e)
BY DEF SameRelations, SameSubject, ContextFollows, ModeOK

-----------------------------------------------------------------------------
(* Every action preserves the invariant.                                   *)

\* A new element is open and nested in the others.
LEMMA StartNesting ==
  ASSUME TreeOK, OpenOK, tree \in Seq(Nodes), open \in Seq(Nat),
         NEW node \in Nodes, NEW id \in Nat, id = Len(tree) + 1,
         node.path = Append(open, id), tree' = Append(tree, node),
         open' = Append(open, id)
  PROVE  TreeOK' /\ OpenOK' /\ Closed' = Closed
<1> DEFINE h == Len(open)
<1>1. /\ h \in Nat /\ h + 1 \in Nat /\ DOMAIN open = 1 .. h
      /\ DOMAIN open' = 1 .. h + 1 /\ open'[h + 1] = id
      /\ \A i \in 1 .. h : open'[i] = open[i] /\ open[i] \in Nat
  OBVIOUS
<1>2. /\ tree'[id] = node /\ Elements' = 1 .. id /\ Elements = 1 .. id - 1
  BY DEF Elements
<1>3. \A n \in Elements : /\ tree'[n] = tree[n] /\ n \in Elements'
                          /\ Enclosing(n)' = Enclosing(n)
  BY EarlierElements
<1>4. Enclosing(id)' = IF open = << >> THEN 0
                       ELSE LET p == open[Len(open)]
                            IN  IF Transparent(p) THEN Enclosing(p) ELSE p
  BY EnclosingNew
<1>5. \A i \in 1 .. h : /\ open[i] \in Elements /\ open[i] < id
                        /\ Len(tree[open[i]].path) = i
                        /\ \A k \in 1 .. i : tree[open[i]].path[k] = open[k]
                        /\ \A k \in 1 .. i - 1 : open[k] < open[i]
  <2>1. \A i \in DOMAIN open :
          /\ open[i] \in Elements
          /\ Len(tree[open[i]].path) = i
          /\ \A k \in 1 .. i : tree[open[i]].path[k] = open[k]
          /\ \A k \in 1 .. i - 1 : open[k] < open[i]
    BY DEF OpenOK
  <2>2. \A n \in Elements : n < id
    BY <1>2
  <2> QED BY <1>1, <2>1, <2>2
<1> HIDE DEF h
<1>6. node.path = open' /\ Len(open') = h + 1
  BY <1>1 DEF h
<1>7. TreeOK'
  <2>1. \A n \in Elements : /\ \A i \in DOMAIN tree[n].path : tree[n].path[i] \in 1 .. n
                            /\ Enclosing(n) \in 0 .. n
    BY DEF TreeOK
  <2>2. \A i \in 1 .. h + 1 : open'[i] \in 1 .. id
    <3>1. \A i \in 1 .. h : open'[i] \in 1 .. id
      BY <1>1, <1>2, <1>5
    <3>2. open'[h + 1] \in 1 .. id
      BY <1>1
    <3>3. \A i \in 1 .. h + 1 : i \in 1 .. h \/ i = h + 1
      BY <1>1
    <3> QED BY <3>1, <3>2, <3>3
  <2>3. Enclosing(id)' \in 0 .. id
    <3>1. CASE open = << >>
      BY <1>4, <3>1
    <3>2. CASE open # << >>
      <4>1. h \in 1 .. h /\ open[h] \in 1 .. id
        BY <1>1, <1>2, <1>5, <3>2 DEF h
      <4>2. Enclosing(open[h]) \in 0 .. open[h]
        BY <1>5, <2>1, <4>1
      <4>3. Enclosing(id)' = open[h] \/ Enclosing(id)' = Enclosing(open[h])
        BY <1>4, <3>2 DEF h
      <4> QED BY <4>1, <4>2, <4>3
    <3> QED BY <3>1, <3>2
  <2>4. \A i \in DOMAIN tree'[id].path : tree'[id].path[i] \in 1 .. id
    BY <1>1, <1>2, <1>6, <2>2
  <2>5. \A n \in Elements' : n \in Elements \/ n = id
    BY <1>2
  <2> QED BY <1>3, <2>1, <2>3, <2>4, <2>5 DEF TreeOK
<1>8. OpenOK'
  <2>1. \A i \in 1 .. h :
          /\ open'[i] \in Elements'
          /\ Len(tree'[open'[i]].path) = i
          /\ \A k \in 1 .. i : tree'[open'[i]].path[k] = open'[k]
          /\ \A k \in 1 .. i - 1 : open'[k] < open'[i]
    <3> TAKE i \in 1 .. h
    <3>1. /\ open'[i] = open[i]
          /\ \A k \in 1 .. i : k \in 1 .. h /\ open'[k] = open[k]
          /\ \A k \in 1 .. i - 1 : k \in 1 .. h /\ open'[k] = open[k]
      BY <1>1
    <3>2. tree'[open[i]] = tree[open[i]] /\ open[i] \in Elements'
      BY <1>3, <1>5
    <3> QED BY <1>5, <3>1, <3>2, ZenonT(60)
  <2>2. ASSUME NEW j, j = h + 1
        PROVE  /\ open'[j] \in Elements'
               /\ Len(tree'[open'[j]].path) = j
               /\ \A k \in 1 .. j : tree'[open'[j]].path[k] = open'[k]
               /\ \A k \in 1 .. j - 1 : open'[k] < open'[j]
    <3>1. tree'[open'[j]].path = open' /\ id \in Elements' /\ open'[j] = id
      BY <1>1, <1>2, <1>6, <2>2
    <3>2. \A k \in 1 .. j - 1 : open'[k] < id
      <4>1. 1 .. j - 1 = 1 .. h
        BY <1>1, <2>2
      <4> QED BY <1>1, <1>5, <4>1
    <3> QED BY <1>6, <2>2, <3>1, <3>2
  <2>3. \A i \in 1 .. h + 1 : i \in 1 .. h \/ i = h + 1
    BY <1>1
  <2> QED BY <1>1, <2>1, <2>2, <2>3 DEF OpenOK
<1>9. Closed' = Closed
  <2>1. \A n : n \in ToSet(open') <=> n \in ToSet(open) \/ n = id
    <3>1. \A n : n \in ToSet(open') <=> \E i \in 1 .. h + 1 : n = open'[i]
      BY <1>1 DEF ToSet
    <3>2. \A n : n \in ToSet(open) <=> \E i \in 1 .. h : n = open[i]
      BY <1>1 DEF ToSet, h
    <3>3. /\ h + 1 \in 1 .. h + 1
          /\ \A i \in 1 .. h + 1 : i \in 1 .. h \/ i = h + 1
          /\ \A i \in 1 .. h : i \in 1 .. h + 1
      BY <1>1
    <3> QED BY <1>1, <3>1, <3>2, <3>3
  <2>2. \A n : n \in Elements' <=> n \in Elements \/ n = id
    BY <1>2
  <2>3. id \notin Elements
    BY <1>2
  <2> QED BY <2>1, <2>2, <2>3 DEF Closed
<1> QED BY <1>7, <1>8, <1>9

\* The context below an element that starts: it leaves nothing if skipped.
LEMMA TopRelations ==
  ASSUME Inv, status # "ended", RelationsFollow
  PROVE  /\ Top \in Contexts /\ ModeOK(Top)
         /\ open = << >> => Top = stack[1] /\ ~Top.skip_element
                            /\ Top.local_incomplete_triples = << >>
         /\ open # << >> => ContextFollows(Top, open[Len(open)])
         /\ Top.skip_element => Top.local_incomplete_triples = << >>
<1>1. /\ stack \in Seq(Contexts) /\ Len(stack) = Len(open) + 1
      /\ open \in Seq(Nat) /\ Len(open) \in Nat /\ ~stack[1].skip_element
      /\ Top \in Contexts
  BY InvStack DEF StackOK, Inv, TypeOK
<1>2. ModeOK(Top)
  BY <1>1 DEF RelationsFollow, Top
<1>3. open = << >> => Top = stack[1] /\ ~Top.skip_element
                      /\ Top.local_incomplete_triples = << >>
  BY <1>1 DEF RelationsFollow, Top
<1>4. open # << >> => ContextFollows(Top, open[Len(open)])
  <2>1. ASSUME open # << >> PROVE Len(open) \in DOMAIN open
    BY <1>1, <2>1
  <2>2. Top = stack[Len(open) + 1]
    BY <1>1 DEF Top
  <2> QED BY <2>1, <2>2 DEF RelationsFollow
<1>5. ASSUME NEW n, Transparent(n) PROVE ~Hangs(n)
  BY <1>5 DEF Transparent, Hangs, Unset
<1>6. Top.skip_element => Top.local_incomplete_triples = << >>
  BY <1>3, <1>4, <1>5 DEF ContextFollows, LeftBy
<1> QED BY <1>1, <1>2, <1>3, <1>4, <1>6

\* What a start tag leaves is what the new element of the tree leaves.
LEMMA NewElementLeaves ==
  ASSUME NEW tag, NEW node, NEW id, tree'[id] = node, node.tag = tag,
         NEW depth, id = 1 <=> depth = 1, NEW left,
         LeftByTag(tag, node.version, node.host, depth, left)
  PROVE  /\ LeftBy(id, left)'
         /\ Transparent(id)' <=> Bare(tag, depth)
<1>1. Hangs(id)' <=> LeavesOpen(tag, node.version, node.host, depth)
  BY DEF Hangs, HasAbout, Unset, LeavesOpen, AboutGiven
<1>2. HangsInList(id)' <=> /\ Hangs(id)' /\ node.version = RDFA_VERSION_1_1
                           /\ tag.inlist /\ tag.rel # NULL
  BY DEF HangsInList
<1>3. LeftBy(id, left)'
  BY <1>1, <1>2 DEF LeftBy, LeftByTag
<1>4. Transparent(id)' <=> Bare(tag, depth)
  BY DEF Transparent, Unset, Bare
<1> QED BY <1>3, <1>4

\* The context of a new element follows the tree.
LEMMA NewContextFollows ==
  ASSUME Inv, TreeOK, OpenOK, RelationsFollow, status # "ended",
         SkipsBareElements, NEW tag \in Tags, NEW c, NEW node \in Nodes,
         NEW id \in Nat, id = Len(tree) + 1, id = 1 <=> open = << >>,
         c = OpenRelations(EstablishSubject(
               ReadAttributes(NewElementContext(Top), tag))),
         node.tag = tag, node.version = c.rdfa_version,
         node.host = c.host_language, node.subject = c.new_subject,
         node.path = Append(open, id), tree' = Append(tree, node)
  PROVE  ModeOK(c) /\ ContextFollows(c, id)'
<1> DEFINE p == open[Len(open)]
<1>0. PICK E : E = Enclosing(id)'
  OBVIOUS
<1>1. /\ tree \in Seq(Nodes) /\ open \in Seq(Nat) /\ tree'[id] = node
      /\ Top.depth = Len(open) /\ Top \in Contexts
      /\ InheritedObject(Top) # NULL
  BY InvStack DEF Inv, TypeOK
<1>2. /\ ModeOK(Top)
      /\ open = << >> => Top = stack[1] /\ ~Top.skip_element
                         /\ Top.local_incomplete_triples = << >>
      /\ open # << >> => ContextFollows(Top, p)
      /\ Top.skip_element => Top.local_incomplete_triples = << >>
  BY TopRelations
<1>3. /\ ModeOK(c)
      /\ c.skip_element <=> Bare(tag, Top.depth + 1)
      /\ c.parent_subject = InheritedSubject(Top)
      /\ c.incomplete_triples = InheritedIncompletes(Top)
      /\ LeftByTag(tag, c.rdfa_version, c.host_language, Top.depth + 1,
                   c.local_incomplete_triples)
  BY <1>1, <1>2, StartedRelations
<1>4. id = 1 <=> Top.depth + 1 = 1
  BY <1>1
<1>5. /\ LeftBy(id, c.local_incomplete_triples)'
      /\ Transparent(id)' <=> Bare(tag, Top.depth + 1)
  <2>1. tree'[id] = node /\ node.tag = tag
    BY <1>1
  <2>2. LeftByTag(tag, node.version, node.host, Top.depth + 1,
                  c.local_incomplete_triples)
    BY <1>3
  <2> QED BY ONLY <1>4, <2>1, <2>2, NewElementLeaves
<1>6. E = IF open = << >> THEN 0
          ELSE IF Transparent(p) THEN Enclosing(p) ELSE p
  BY <1>0, <1>1, EnclosingNew
<1>7. \A k \in Elements :
        /\ tree'[k] = tree[k]
        /\ \A left : LeftBy(k, left)' <=> LeftBy(k, left)
  <2>1. \A k \in Elements : /\ tree'[k] = tree[k]
                            /\ Hangs(k)' <=> Hangs(k)
                            /\ HangsInList(k)' <=> HangsInList(k)
    BY <1>1, EarlierElements
  <2> QED BY <2>1 DEF LeftBy
<1>8. open # << >> => p \in Elements /\ p # 0
  BY <1>1 DEF OpenOK, Elements
<1>9. open # << >> => Enclosing(p) = 0 \/ Enclosing(p) \in Elements
  BY <1>8 DEF TreeOK, Elements
<1>10. open # << >> => Top.new_subject # NULL
  <2>1. StackOK(stack, Len(open) + 1)
    BY InvStack
  <2> QED BY <1>1, <2>1 DEF StackOK, Top
<1> HIDE DEF p
<1>11. E = 0 => c.incomplete_triples = << >>
  BY <1>2, <1>3, <1>6, <1>8 DEF InheritedIncompletes, ContextFollows
<1>12. E # 0 => /\ c.parent_subject = tree'[E].subject
                /\ LeftBy(E, c.incomplete_triples)'
  <2>1. CASE open = << >>
    BY <1>6, <2>1
  <2>2. CASE open # << >> /\ Transparent(p)
    BY <1>2, <1>3, <1>6, <1>7, <1>9, <2>2
    DEF InheritedIncompletes, InheritedSubject, ContextFollows
  <2>3. CASE open # << >> /\ ~Transparent(p)
    <3>1. FirstSet(<<Top.new_subject, Top.parent_subject>>) = Top.new_subject
      BY <1>10, <2>3, FirstOfTwoIs
    <3> QED
      BY <1>2, <1>3, <1>6, <1>7, <1>8, <2>3, <3>1
      DEF InheritedIncompletes, InheritedSubject, ContextFollows
  <2> QED BY <2>1, <2>2, <2>3
<1>13. c.new_subject = tree'[id].subject
  BY <1>1
<1> QED BY <1>0, <1>3, <1>5, <1>11, <1>12, <1>13 DEF ContextFollows

\* start_element.
LEMMA StartElementRelations ==
  ASSUME RelationsInv, SkipsBareElements, NEW tag \in Tags, StartElement(tag)
  PROVE  RelationsInv'
<1> DEFINE new  == NewElementContext(Top)
           read == ReadAttributes(new, tag)
           set  == EstablishSubject(read)
           e    == OpenRelations(set)
           node == [tag |-> tag, path |-> Append(open, Len(tree) + 1),
                    version |-> e.rdfa_version, host |-> e.host_language,
                    subject |-> e.new_subject,
                    object |-> e.current_object_resource]
           sent == AttributeTriples(new, read, tag)
                   \cup TypeTriples(set) \cup RelRevTriples(set)
<1>1. /\ Inv /\ Inv' /\ status = "parsing" /\ RelationsFollow
      /\ TreeOK /\ OpenOK /\ HangingRelationsCompleted
      /\ tree \in Seq(Nodes) /\ open \in Seq(Nat) /\ stack \in Seq(Contexts)
      /\ Len(stack) = Len(open) + 1
  BY StartElementInv, InvStack
  DEF RelationsInv, StartElement, StackOK, Inv, TypeOK
<1>2. PICK id \in Nat : id = Len(tree) + 1
  BY <1>1
<1>3. PICK c : c = e
  OBVIOUS
<1>4. /\ stack' = Append(stack, e) /\ tree' = Append(tree, node)
      /\ open' = Append(open, Len(tree) + 1)
      /\ graph' = graph \cup Sent(Len(tree) + 1, sent)
      /\ status' = status
  BY DEF StartElement
<1>5. id = 1 <=> open = << >>
  <2>1. Len(stack) = 1 => tree = << >>
    BY DEF StartElement
  <2>2. open # << >> => open[1] \in 1 .. Len(tree)
    <3>1. open # << >> => 1 \in DOMAIN open
      BY <1>1
    <3> QED BY <1>1, <3>1 DEF OpenOK, Elements
  <2> QED BY <1>1, <1>2, <2>1, <2>2
<1>6. \A t \in sent : t.by \in {"warning", "vocab", "prefix", "type", "relrev"}
  BY StartSenders
<1>7. Top \in Contexts /\ InheritedObject(Top) # NULL
  BY <1>1, InvStack
<1>8. c \in Contexts
  BY <1>3, <1>7, StartedContext
<1>9. node \in Nodes
  BY <1>1, <1>3, <1>8 DEF Nodes, Contexts
<1>10. /\ node.tag = tag /\ node.path = Append(open, id)
       /\ node.version = c.rdfa_version /\ node.host = c.host_language
       /\ node.subject = c.new_subject
  BY <1>2, <1>3
<1> HIDE DEF sent, node
<1>11. ModeOK(c) /\ ContextFollows(c, id)'
  BY <1>1, <1>2, <1>3, <1>4, <1>5, <1>9, <1>10, NewContextFollows
<1> HIDE DEF e
<1>12. TreeOK' /\ OpenOK' /\ Closed' = Closed
  BY <1>1, <1>2, <1>4, <1>9, <1>10, StartNesting
<1>13. \A n \in Elements :
         /\ Completing(n)' <=> Completing(n)
         /\ Completing(n) =>
              Completion(n, Enclosing(n))' = Completion(n, Enclosing(n))
         /\ \A d : ContextFollows(d, n)' <=> ContextFollows(d, n)
  BY <1>1, <1>4, <1>9, EarlierContexts
<1>14. RelationsFollow'
  <2>1. \A i \in DOMAIN stack' :
          (i \in DOMAIN stack /\ stack'[i] = stack[i]) \/ stack'[i] = c
    BY <1>1, <1>3, <1>4, <1>8
  <2>2. \A i \in DOMAIN stack' : ModeOK(stack'[i])
    BY <1>1, <1>11, <2>1 DEF RelationsFollow
  <2>3. stack'[1] = stack[1]
    BY <1>1, <1>3, <1>4, <1>8
  <2>4. \A i \in DOMAIN open' :
          \/ /\ i \in DOMAIN open /\ open'[i] = open[i]
             /\ stack'[i + 1] = stack[i + 1] /\ open[i] \in Elements
          \/ open'[i] = id /\ stack'[i + 1] = c
    <3>1. /\ DOMAIN open' = 1 .. Len(open) + 1 /\ open'[Len(open) + 1] = id
          /\ \A i \in 1 .. Len(open) : open'[i] = open[i]
          /\ DOMAIN open = 1 .. Len(open) /\ Len(open) \in Nat
      BY <1>1, <1>2, <1>4
    <3>2. /\ stack'[Len(open) + 1 + 1] = c
          /\ \A i \in 1 .. Len(open) : stack'[i + 1] = stack[i + 1]
      BY <1>1, <1>3, <1>4, <1>8
    <3>3. \A i \in 1 .. Len(open) : open[i] \in Elements
      BY <1>1, <3>1 DEF OpenOK
    <3>4. \A i \in 1 .. Len(open) + 1 : i \in 1 .. Len(open) \/ i = Len(open) + 1
      BY <3>1
    <3> QED BY <3>1, <3>2, <3>3, <3>4
  <2>5. ASSUME NEW i \in DOMAIN open'
        PROVE  ContextFollows(stack[i + 1], open[i])'
    <3>1. CASE /\ i \in DOMAIN open /\ open'[i] = open[i]
               /\ stack'[i + 1] = stack[i + 1] /\ open[i] \in Elements
      <4>1. ContextFollows(stack[i + 1], open[i])
        BY <1>1, <3>1 DEF RelationsFollow
      <4> QED BY <1>13, <3>1, <4>1
    <3>2. CASE open'[i] = id /\ stack'[i + 1] = c
      BY <1>11, <3>2
    <3> QED BY <2>4, <3>1, <3>2
  <2>6. stack'[1].local_incomplete_triples = << >>
    BY <1>1, <2>3 DEF RelationsFollow
  <2> QED BY <2>2, <2>5, <2>6 DEF RelationsFollow
<1>15. HangingRelationsCompleted'
  <2>1. HangingAt(id, sent) = {}
    BY <1>6 DEF HangingAt
  <2>2. SentHanging' = SentHanging
    BY <1>2, <1>4, <2>1, SentHangingGrows
  <2>3. \A x : x \in ExpectedHanging <=>
          \E n \in Closed : Completing(n) /\ x \in Completion(n, Enclosing(n))
    BY ExpectedCompletions DEF ExpectedIs
  <2>4. ExpectedIs'
    BY ExpectedCompletions, PTL
  <2>5. \A x : x \in ExpectedHanging' <=>
          \E n \in Closed' :
            Completing(n)' /\ x \in Completion(n, Enclosing(n))'
    BY <2>4 DEF ExpectedIs
  <2>6. \A n \in Closed : n \in Elements
    BY DEF Closed
  <2>7. ExpectedHanging' = ExpectedHanging
    BY <1>12, <1>13, <2>3, <2>5, <2>6
  <2> QED BY <1>1, <2>2, <2>7 DEF HangingRelationsCompleted
<1> QED BY <1>1, <1>4, <1>12, <1>14, <1>15 DEF RelationsInv

\* What end_element does to a context before its relations are completed, and
\* to the context below, changes no relations.
LEMMA EndKeepsRelations ==
  ASSUME NEW c \in Contexts, c.new_subject # NULL, NEW parent \in Contexts
  PROVE  LET e == AfterProperty(CloseLiteral(c))
         IN  SameRelations(c, e) /\ SameRelations(parent, ReturnTo(parent, e))
<1> DEFINE literal == CloseLiteral(c)
           e == AfterProperty(literal)
           back == ReturnTo(parent, e)
<1>1. SameSubject(c, literal)
  BY CloseLiteralType
<1>2. /\ literal.incomplete_triples = c.incomplete_triples
      /\ literal.local_incomplete_triples = c.local_incomplete_triples
  BY DEF CloseLiteral, Contexts
<1> HIDE DEF literal
<1>3. literal \in Contexts /\ literal.new_subject # NULL
  BY <1>1 DEF SameSubject
<1>4. SameSubject(literal, e)
  BY <1>3, AfterPropertyType
<1>5. /\ e.incomplete_triples = literal.incomplete_triples
      /\ e.local_incomplete_triples = literal.local_incomplete_triples
  BY <1>3, ListsKeepRelations DEF AfterProperty, EstablishNewInlistTriples
<1> HIDE DEF e
<1>6. e \in Contexts
  BY <1>4 DEF SameSubject
<1>7. SameSubject(parent, back)
  BY <1>6, ReturnToType
<1>8. /\ back.incomplete_triples = parent.incomplete_triples
      /\ back.local_incomplete_triples = parent.local_incomplete_triples
  BY DEF ReturnTo, ListsReturned, NamesReturned, TextReturned, Contexts
<1> HIDE DEF back
<1> QED BY <1>1, <1>2, <1>4, <1>5, <1>7, <1>8
        DEF SameRelations, SameSubject, literal, e, back

\* The innermost element is closed.
LEMMA EndNesting ==
  ASSUME OpenOK, TreeOK, open \in Seq(Nat), open # << >>, UNCHANGED tree,
         open' = SubSeq(open, 1, Len(open) - 1)
  PROVE  /\ OpenOK' /\ TreeOK' /\ open[Len(open)] \in Elements
         /\ Closed' = Closed \cup {open[Len(open)]}
         /\ DOMAIN open' = 1 .. Len(open) - 1
         /\ \A i \in 1 .. Len(open) - 1 : open'[i] = open[i]
<1> DEFINE h == Len(open) - 1
           id == open[Len(open)]
<1>1. /\ h \in Nat /\ Len(open) = h + 1 /\ DOMAIN open = 1 .. h + 1
      /\ id = open[h + 1]
  OBVIOUS
<1>2. Len(open') = h /\ open' \in Seq(Nat)
  BY AllButLast
<1>3. DOMAIN open' = 1 .. h /\ \A i \in 1 .. h : open'[i] = open[i]
  <2>1. open' \in Seq(Nat)
    BY <1>2
  <2>2. \A i \in 1 .. h : SubSeq(open, 1, h)[i] = open[i]
    OBVIOUS
  <2> QED BY <1>2, <2>1, <2>2
<1>4. \A i \in 1 .. h + 1 :
        /\ open[i] \in Elements
        /\ Len(tree[open[i]].path) = i
        /\ \A k \in 1 .. i : tree[open[i]].path[k] = open[k]
        /\ \A k \in 1 .. i - 1 : open[k] < open[i]
  BY <1>1 DEF OpenOK
<1>5. Elements' = Elements /\ TreeOK'
  BY SameTree
<1> HIDE DEF h, id
<1>6. OpenOK'
  <2>1. ASSUME NEW i \in 1 .. h
        PROVE  /\ open'[i] \in Elements'
               /\ Len(tree'[open'[i]].path) = i
               /\ \A k \in 1 .. i : tree'[open'[i]].path[k] = open'[k]
               /\ \A k \in 1 .. i - 1 : open'[k] < open'[i]
    <3>1. /\ i \in 1 .. h + 1 /\ \A k \in 1 .. i : k \in 1 .. h
          /\ \A k \in 1 .. i - 1 : k \in 1 .. h
      BY <1>1
    <3>2. open'[i] = open[i] /\ tree' = tree
      BY <1>3
    <3> QED BY <1>3, <1>4, <1>5, <3>1, <3>2
  <2> QED BY <1>3, <2>1 DEF OpenOK
<1>7. Closed' = Closed \cup {id}
  <2>1. \A n : n \in ToSet(open) <=> \E i \in 1 .. h + 1 : n = open[i]
    BY <1>1 DEF ToSet
  <2>2. \A n : n \in ToSet(open') <=> \E i \in 1 .. h : n = open[i]
    BY <1>3 DEF ToSet
  <2>3. id \in Elements /\ \A i \in 1 .. h : open[i] # id
    <3>1. PICK j \in 1 .. h + 1 : j = h + 1
      BY <1>1
    <3>2. /\ open[j] \in Elements
          /\ \A i \in 1 .. j - 1 : open[i] < open[j]
      BY ONLY <1>4, <3>1
    <3>3. \A i \in 1 .. h : i \in 1 .. j - 1 /\ open[i] \in Nat
      BY <1>1, <3>1
    <3>4. open[j] \in Nat /\ open[j] = id
      BY <1>1, <3>1
    <3> QED BY <1>1, <3>2, <3>3, <3>4
  <2>4. \A i \in 1 .. h + 1 : i \in 1 .. h \/ i = h + 1
    BY <1>1
  <2>5. \A i \in 1 .. h : i \in 1 .. h + 1
    BY <1>1
  <2>6. \A n : n \in ToSet(open) <=> n \in ToSet(open') \/ n = id
    <3>1. h + 1 \in 1 .. h + 1
      BY <1>1
    <3> QED BY <1>1, <2>1, <2>2, <2>4, <2>5, <3>1
  <2>7. id \notin ToSet(open')
    BY <2>2, <2>3
  <2> QED BY <1>5, <2>3, <2>6, <2>7 DEF Closed
<1>8. id \in Elements
  <2>1. h + 1 \in 1 .. h + 1
    BY <1>1
  <2> QED BY <1>1, <1>4, <2>1
<1> QED BY <1>3, <1>5, <1>6, <1>7, <1>8 DEF h, id

\* At the end of an element its subject completes what is around it.
LEMMA EndCompletes ==
  ASSUME TreeOK, tree \in Seq(Nodes), NEW c \in Contexts,
         c.new_subject # NULL, NEW n \in Elements, ContextFollows(c, n)
  PROVE  HangingAt(n, IF Completes(c) THEN HangingTriples(c) ELSE {})
           = IF Completing(n) THEN Completion(n, Enclosing(n)) ELSE {}
<1> DEFINE T == IF Completes(c) THEN HangingTriples(c) ELSE {}
<1> SUFFICES HangingAt(n, T) =
               IF Completing(n) THEN Completion(n, Enclosing(n)) ELSE {}
  OBVIOUS
<1>1. PICK m : m = Enclosing(n)
  OBVIOUS
<1>2. m = 0 \/ m \in Elements
  BY <1>1 DEF TreeOK, Elements
<1>3. Completes(c) <=> ~Transparent(n)
  BY DEF Completes, ContextFollows
<1>4. Completing(n) <=> /\ ~Transparent(n) /\ m # 0 /\ Hangs(m)
                        /\ ~HangsInList(m)
  BY <1>1 DEF Completing
<1>5. HangingAt(n, {}) = {}
  BY DEF HangingAt
<1>6. CASE Transparent(n)
  <2>1. T = {}
    BY <1>3, <1>6
  <2> HIDE DEF T
  <2> QED BY <1>4, <1>5, <1>6, <2>1
<1>7. CASE ~Transparent(n) /\ m = 0
  <2>1. c.incomplete_triples = << >>
    BY <1>1, <1>7 DEF ContextFollows
  <2>2. T = HangingTriples(c)
    BY <1>3, <1>7
  <2>3. HangingTriples(c) = {}
    BY <2>1 DEF HangingTriples
  <2> HIDE DEF T
  <2> QED BY <1>4, <1>5, <1>7, <2>2, <2>3
<1>8. CASE ~Transparent(n) /\ m # 0
  <2>1. m \in Elements /\ tree[m] \in Nodes
    BY <1>2, <1>8 DEF Elements
  <2>2. /\ LeftBy(m, c.incomplete_triples)
        /\ c.parent_subject = tree[m].subject
        /\ c.new_subject = tree[n].subject
    BY <1>1, <1>8 DEF ContextFollows
  <2>3. T = HangingTriples(c)
    BY <1>3, <1>8
  <2> HIDE DEF T
  <2>4. HangingAt(n, HangingTriples(c)) =
          IF Hangs(m) /\ ~HangsInList(m) THEN Completion(n, m) ELSE {}
    BY <2>1, <2>2, CompletionSent
  <2> QED BY <1>1, <1>4, <1>8, <2>3, <2>4
<1> QED BY <1>6, <1>7, <1>8

\* end_element.
LEMMA EndElementRelations ==
  ASSUME RelationsInv, EndElement
  PROVE  RelationsInv'
<1> DEFINE literal == CloseLiteral(Top)
           e       == AfterProperty(literal)
           parent  == Len(stack) - 1
           id      == open[Len(open)]
           lists   == IF SendsLists(e) THEN ListTriples(AfterIncomplete(e)) ELSE {}
           hanging == IF Completes(e) THEN HangingTriples(e) ELSE {}
           sent    == PropertyTriples(literal) \cup hanging \cup lists
           back    == ReturnTo(stack[parent], e)
<1>1. /\ Inv /\ Inv' /\ status = "parsing" /\ RelationsFollow
      /\ TreeOK /\ OpenOK /\ HangingRelationsCompleted
      /\ tree \in Seq(Nodes) /\ open \in Seq(Nat) /\ stack \in Seq(Contexts)
      /\ Len(stack) = Len(open) + 1 /\ open # << >>
      /\ Top \in Contexts /\ Top.new_subject # NULL
      /\ parent \in Nat /\ parent > 0 /\ parent = Len(open)
      /\ stack[parent] \in Contexts
  <2>1. /\ Inv /\ Inv' /\ status = "parsing" /\ Len(stack) > 1
        /\ RelationsFollow /\ TreeOK /\ OpenOK /\ HangingRelationsCompleted
    BY EndElementInv DEF RelationsInv, EndElement
  <2>2. /\ StackOK(stack, Len(open) + 1) /\ Len(open) \in Nat
        /\ tree \in Seq(Nodes) /\ open \in Seq(Nat)
    BY <2>1, InvStack DEF Inv, TypeOK
  <2>3. /\ stack \in Seq(Contexts) /\ Len(stack) = Len(open) + 1
        /\ open # << >> /\ Top \in Contexts /\ Top.new_subject # NULL
        /\ parent \in Nat /\ parent > 0 /\ parent = Len(open)
        /\ stack[parent] \in Contexts
    BY <2>1, <2>2 DEF StackOK, Top
  <2> QED BY <2>1, <2>2, <2>3
<1>2. /\ stack' = [i \in 1 .. parent |-> IF i = parent THEN back ELSE stack[i]]
      /\ graph' = graph \cup Sent(id, sent)
      /\ open' = SubSeq(open, 1, Len(open) - 1)
      /\ status' = status /\ UNCHANGED tree
  BY DEF EndElement
<1>3. SameRelations(Top, e) /\ SameRelations(stack[parent], back)
  BY <1>1, EndKeepsRelations
<1>4. ContextFollows(Top, id)
  BY <1>1, TopRelations
<1>5. e \in Contexts /\ e.new_subject # NULL /\ ContextFollows(e, id)
  BY <1>1, <1>3, <1>4, StillFollows DEF SameRelations, SameSubject
<1>6. /\ OpenOK' /\ TreeOK' /\ id \in Elements
      /\ Closed' = Closed \cup {id}
      /\ DOMAIN open' = 1 .. Len(open) - 1
      /\ \A i \in 1 .. Len(open) - 1 : open'[i] = open[i]
  BY <1>1, <1>2, EndNesting
<1>7. PICK n : n = id
  OBVIOUS
<1>8. /\ \A t \in PropertyTriples(literal) : t.by # "hanging"
      /\ \A t \in lists : t.by # "hanging"
  <2> HIDE DEF literal, e
  <2> QED BY EndSenders
<1> HIDE DEF literal, e, back, id
<1>9. HangingAt(n, hanging) =
        IF Completing(n) THEN Completion(n, Enclosing(n)) ELSE {}
  BY <1>1, <1>5, <1>6, <1>7, EndCompletes
<1>10. HangingAt(n, sent) = HangingAt(n, hanging)
  <2> HIDE DEF hanging, lists
  <2>1. {t \in sent : t.by = "hanging"} = {t \in hanging : t.by = "hanging"}
    BY <1>8
  <2> QED BY <2>1 DEF HangingAt
<1> HIDE DEF hanging, lists, sent
<1>11. /\ \A k : /\ Enclosing(k)' = Enclosing(k)
                 /\ Completing(k)' <=> Completing(k)
       /\ \A k, m : Completion(k, m)' = Completion(k, m)
       /\ \A c, k : ContextFollows(c, k)' <=> ContextFollows(c, k)
  BY <1>2, SameTree
<1>12. HangingRelationsCompleted'
  <2>1. SentHanging' = SentHanging \cup HangingAt(n, sent)
    BY <1>2, <1>7, SentHangingGrows
  <2>2. \A x : x \in ExpectedHanging <=>
          \E k \in Closed : Completing(k) /\ x \in Completion(k, Enclosing(k))
    BY ExpectedCompletions DEF ExpectedIs
  <2>3. ExpectedIs'
    BY ExpectedCompletions, PTL
  <2>4. \A x : x \in ExpectedHanging' <=>
          \E k \in Closed' :
            Completing(k)' /\ x \in Completion(k, Enclosing(k))'
    BY <2>3 DEF ExpectedIs
  <2>5. \A k : Completion(k, Enclosing(k))' = Completion(k, Enclosing(k))
    BY <1>11
  <2>6. \A x : x \in ExpectedHanging' <=>
          \E k \in Closed \cup {n} :
            Completing(k) /\ x \in Completion(k, Enclosing(k))
    BY <1>6, <1>7, <1>11, <2>4, <2>5
  <2>7. \A x : x \in ExpectedHanging' <=>
          x \in ExpectedHanging \/ x \in HangingAt(n, sent)
    BY <1>9, <1>10, <2>2, <2>6
  <2> QED BY <1>1, <2>1, <2>7 DEF HangingRelationsCompleted
<1>13. RelationsFollow'
  <2>1. \A i \in 1 .. parent : i \in DOMAIN stack /\ SameRelations(stack[i], stack'[i])
    <3>1. \A c : c \in Contexts => SameRelations(c, c)
      BY DEF SameRelations, SameSubject
    <3>2. \A i \in 1 .. parent : i \in DOMAIN stack /\ stack[i] \in Contexts
      BY <1>1
    <3> QED BY <1>2, <1>3, <3>1, <3>2
  <2>2. DOMAIN stack' = 1 .. parent /\ 1 \in 1 .. parent
    <3>1. 1 \in 1 .. parent
      BY <1>1
    <3>2. DOMAIN stack' = 1 .. parent
      <4> HIDE DEF parent
      <4> QED BY ONLY <1>2
    <3> QED BY <3>1, <3>2
  <2> HIDE DEF parent
  <2>3. \A i \in DOMAIN stack' : ModeOK(stack'[i])
    BY <1>1, <2>1, <2>2, StillFollows DEF RelationsFollow
  <2>4. stack'[1].local_incomplete_triples = << >>
    BY <1>1, <2>1, <2>2 DEF RelationsFollow, SameRelations
  <2>5. ASSUME NEW i \in DOMAIN open'
        PROVE  ContextFollows(stack[i + 1], open[i])'
    <3>1. /\ i \in DOMAIN open /\ open'[i] = open[i] /\ i + 1 \in 1 .. parent
      BY <1>1, <1>6
    <3>2. ContextFollows(stack[i + 1], open[i])
      BY <1>1, <3>1 DEF RelationsFollow
    <3>3. ContextFollows(stack'[i + 1], open[i])
      BY <2>1, <3>1, <3>2, StillFollows
    <3> QED BY <1>11, <3>1, <3>3
  <2> QED BY <2>3, <2>4, <2>5 DEF RelationsFollow
<1> QED BY <1>1, <1>2, <1>6, <1>12, <1>13 DEF RelationsInv

\* An action that neither starts nor ends an element, nor completes anything.
LEMMA OtherRelations ==
  ASSUME RelationsInv, Inv', UNCHANGED <<open, tree>>,
         SentHanging' = SentHanging,
         status' # "ended" =>
           /\ status # "ended" /\ DOMAIN stack' = DOMAIN stack
           /\ \A i \in DOMAIN stack : SameRelations(stack[i], stack'[i])
  PROVE  RelationsInv'
<1>1. /\ \A k : /\ Enclosing(k)' = Enclosing(k)
                /\ Completing(k)' <=> Completing(k)
      /\ \A k, m : Completion(k, m)' = Completion(k, m)
      /\ \A c, k : ContextFollows(c, k)' <=> ContextFollows(c, k)
      /\ Elements' = Elements /\ TreeOK'
  BY SameTree DEF RelationsInv
<1>2. OpenOK'
  BY <1>1 DEF RelationsInv, OpenOK
<1>3. HangingRelationsCompleted'
  <2>1. \A x : x \in ExpectedHanging <=>
          \E k \in Closed : Completing(k) /\ x \in Completion(k, Enclosing(k))
    BY ExpectedCompletions DEF ExpectedIs
  <2>2. ExpectedIs'
    BY ExpectedCompletions, PTL
  <2>3. \A x : x \in ExpectedHanging' <=>
          \E k \in Closed' :
            Completing(k)' /\ x \in Completion(k, Enclosing(k))'
    BY <2>2 DEF ExpectedIs
  <2>4. Closed' = Closed
    BY <1>1 DEF Closed
  <2>5. \A k : Completion(k, Enclosing(k))' = Completion(k, Enclosing(k))
    BY <1>1
  <2>6. ExpectedHanging' = ExpectedHanging
    BY <1>1, <2>1, <2>3, <2>4, <2>5
  <2> QED BY <2>6 DEF RelationsInv, HangingRelationsCompleted
<1>4. ASSUME status' # "ended" PROVE RelationsFollow'
  <2>1. /\ Inv /\ RelationsFollow /\ DOMAIN stack' = DOMAIN stack
        /\ \A i \in DOMAIN stack : SameRelations(stack[i], stack'[i])
    BY <1>4 DEF RelationsInv
  <2>2. /\ Len(stack) = Len(open) + 1 /\ stack \in Seq(Contexts)
        /\ open \in Seq(Nat)
    BY <1>4, <2>1, InvStack DEF StackOK, Inv, TypeOK
  <2>3. \A i \in DOMAIN stack' : ModeOK(stack'[i])
    BY <2>1, StillFollows DEF RelationsFollow
  <2>4. stack'[1].local_incomplete_triples = << >>
    <3>1. 1 \in DOMAIN stack
      BY <2>2
    <3> QED BY <2>1, <3>1 DEF RelationsFollow, SameRelations
  <2>5. ASSUME NEW i \in DOMAIN open'
        PROVE  ContextFollows(stack[i + 1], open[i])'
    <3>1. i \in DOMAIN open /\ open'[i] = open[i] /\ i + 1 \in DOMAIN stack
      BY <2>2
    <3>2. ContextFollows(stack[i + 1], open[i])
      BY <2>1, <3>1 DEF RelationsFollow
    <3>3. ContextFollows(stack'[i + 1], open[i])
      BY <2>1, <3>1, <3>2, StillFollows
    <3> QED BY <1>1, <3>1, <3>3
  <2> QED BY <2>3, <2>4, <2>5 DEF RelationsFollow
<1> QED BY <1>1, <1>2, <1>3, <1>4 DEF RelationsInv

\* Character data and errors change no relations.
LEMMA CharacterDataRelations ==
  ASSUME RelationsInv, NEW t \in Texts, CharacterData(t)
  PROVE  RelationsInv'
<1> DEFINE c == [Top EXCEPT !.plain_literal = Appended(@, <<t>>),
                            !.inner = InnerWithText(@, t)]
<1>1. Inv /\ Inv' /\ status = "parsing"
  BY CharacterDataInv DEF RelationsInv, CharacterData
<1>2. /\ stack \in Seq(Contexts) /\ Len(stack) > 0 /\ Top \in Contexts
  BY <1>1, InvStack DEF StackOK
<1>3. /\ stack' = [stack EXCEPT ![Len(stack)] = c]
      /\ UNCHANGED <<graph, status, open, tree>>
  BY DEF CharacterData, WithText, Top
<1>4. /\ c.new_subject = Top.new_subject /\ c.depth = Top.depth
      /\ c.parent_object = Top.parent_object
      /\ c.rdfa_version = Top.rdfa_version
      /\ c.skip_element = Top.skip_element /\ c.attrs = Top.attrs
      /\ c.parent_subject = Top.parent_subject
      /\ c.host_language = Top.host_language
      /\ c.default_vocabulary = Top.default_vocabulary
      /\ c.incomplete_triples = Top.incomplete_triples
      /\ c.local_incomplete_triples = Top.local_incomplete_triples
  BY <1>2 DEF Contexts
<1> HIDE DEF c
<1>5. \A i \in DOMAIN stack : stack'[i] = stack[i] \/ (stack[i] = Top /\ stack'[i] = c)
  BY <1>2, <1>3 DEF Top
<1>6. DOMAIN stack' = DOMAIN stack /\ \A i \in DOMAIN stack : stack'[i] \in Contexts
  <2>1. DOMAIN stack' = DOMAIN stack
    BY <1>2, <1>3
  <2>2. stack' \in Seq(Contexts)
    BY <1>1 DEF Inv, TypeOK
  <2> QED BY <2>1, <2>2
<1>7. \A i \in DOMAIN stack : SameRelations(stack[i], stack'[i])
  BY <1>4, <1>5, <1>6 DEF SameRelations, SameSubject
<1>8. SentHanging' = SentHanging
  BY <1>3 DEF SentHanging, By
<1> QED BY <1>1, <1>3, <1>6, <1>7, <1>8, OtherRelations

\* An error sends reports, which complete no relation.
LEMMA ReportErrorRelations ==
  ASSUME RelationsInv, ReportError
  PROVE  RelationsInv'
<1> DEFINE r == [stack[1] EXCEPT !.bnode_count = @ + 2]
           sent == {Report("error", stack[1].bnode_count)}
<1>1. Inv /\ Inv' /\ status = "parsing"
  BY ReportErrorInv DEF RelationsInv, ReportError
<1>2. /\ stack \in Seq(Contexts) /\ Len(stack) > 0 /\ stack[1] \in Contexts
  BY <1>1, InvStack DEF StackOK
<1>3. UNCHANGED <<status, open, tree>>
  BY DEF ReportError
<1>4. \A c : c \in Contexts => SameRelations(c, c)
  BY DEF SameRelations, SameSubject
<1>5. CASE ~HasProcessorGraph
  <2>1. UNCHANGED <<stack, graph>>
    BY <1>5 DEF ReportError
  <2>2. SentHanging' = SentHanging
    BY <2>1 DEF SentHanging, By
  <2>3. \A i \in DOMAIN stack : SameRelations(stack[i], stack'[i])
    BY <1>2, <1>4, <2>1
  <2> QED BY <1>1, <1>3, <2>1, <2>2, <2>3, OtherRelations
<1>6. CASE HasProcessorGraph
  <2>1. /\ stack' = [stack EXCEPT ![1] = r]
        /\ graph' = graph \cup Sent(Len(tree), sent)
    BY <1>6 DEF ReportError
  <2>2. \A t \in sent : t.by = "error"
    BY TripleBy DEF Report
  <2>3. /\ r.new_subject = stack[1].new_subject /\ r.depth = stack[1].depth
        /\ r.parent_object = stack[1].parent_object
        /\ r.rdfa_version = stack[1].rdfa_version
        /\ r.skip_element = stack[1].skip_element /\ r.attrs = stack[1].attrs
        /\ r.parent_subject = stack[1].parent_subject
        /\ r.host_language = stack[1].host_language
        /\ r.default_vocabulary = stack[1].default_vocabulary
        /\ r.incomplete_triples = stack[1].incomplete_triples
        /\ r.local_incomplete_triples = stack[1].local_incomplete_triples
    BY <1>2 DEF Contexts
  <2> HIDE DEF r, sent
  <2>4. HangingAt(Len(tree), sent) = {}
    BY <2>2 DEF HangingAt
  <2>5. SentHanging' = SentHanging
    BY <2>1, <2>4, SentHangingGrows
  <2>6. \A i \in DOMAIN stack : stack'[i] = stack[i] \/ (i = 1 /\ stack'[i] = r)
    BY <1>2, <2>1
  <2>7. DOMAIN stack' = DOMAIN stack /\ \A i \in DOMAIN stack : stack'[i] \in Contexts
    <3>1. DOMAIN stack' = DOMAIN stack
      BY <1>2, <2>1
    <3>2. stack' \in Seq(Contexts)
      BY <1>1 DEF Inv, TypeOK
    <3> QED BY <3>1, <3>2
  <2>8. \A i \in DOMAIN stack : SameRelations(stack[i], stack'[i])
    BY <1>2, <1>4, <2>3, <2>6, <2>7 DEF SameRelations, SameSubject
  <2> QED BY <1>1, <1>3, <2>5, <2>7, <2>8, OtherRelations
<1> QED BY <1>5, <1>6

\* At the start nothing is open and nothing is sent.
LEMMA InitRelations == Init => RelationsInv
<1> SUFFICES ASSUME Init PROVE RelationsInv
  OBVIOUS
<1>1. PICK d \in Documents : stack = <<RootContext(d)>>
  BY DEF Init
<1>2. /\ tree = << >> /\ open = << >> /\ graph = {} /\ Inv
  BY InitInv DEF Init
<1>3. /\ RootContext(d).local_incomplete_triples = << >>
      /\ RootContext(d).default_vocabulary = NULL
      /\ RootContext(d).rdfa_version = d.version
  BY DEF RootContext
<1>4. ModeOK(RootContext(d))
  BY <1>3 DEF ModeOK, OnlyRdfa11
<1>5. RelationsFollow
  BY <1>1, <1>2, <1>3, <1>4 DEF RelationsFollow
<1>6. TreeOK /\ OpenOK
  BY <1>2 DEF TreeOK, OpenOK, Elements
<1>7. HangingRelationsCompleted
  <2>1. SentHanging = {}
    BY <1>2 DEF SentHanging, By
  <2>2. Closed = {}
    BY <1>2 DEF Closed, Elements
  <2>3. ExpectedHanging = {}
    BY <2>2, ExpectedCompletions DEF ExpectedIs
  <2> QED BY <2>1, <2>3 DEF HangingRelationsCompleted
<1> QED BY <1>2, <1>5, <1>6, <1>7 DEF RelationsInv

\* Every step keeps what contexts know of the relations around them.
LEMMA NextRelations ==
  ASSUME RelationsInv, SkipsBareElements, [Next]_vars
  PROVE  RelationsInv'
<1>1. Inv /\ Inv'
  BY NextInv DEF RelationsInv
<1>2. ASSUME UNCHANGED <<stack, graph, open, tree>>,
             status' # "ended" => status # "ended"
      PROVE  RelationsInv'
  <2>1. SentHanging' = SentHanging
    BY <1>2 DEF SentHanging, By
  <2>2. \A i \in DOMAIN stack : SameRelations(stack[i], stack'[i])
    BY <1>1, <1>2 DEF Inv, TypeOK, SameRelations, SameSubject
  <2> QED BY <1>1, <1>2, <2>1, <2>2, OtherRelations
<1>3. CASE ParseEnd
  <2>1. /\ UNCHANGED <<graph, open, tree>> /\ status' = "ended"
    BY <1>3 DEF ParseEnd
  <2>2. SentHanging' = SentHanging
    BY <2>1 DEF SentHanging, By
  <2> QED BY <1>1, <2>1, <2>2, OtherRelations
<1>4. CASE ReadNullLiteral
  BY <1>2, <1>4 DEF ReadNullLiteral
<1>5. CASE UNCHANGED vars
  BY <1>2, <1>5 DEF vars
<1> QED
  BY <1>3, <1>4, <1>5, StartElementRelations, CharacterDataRelations,
     EndElementRelations, ReportErrorRelations
  DEF Next

(***************************************************************************)
(* In every document in which the elements that start_element skips are    *)
(* those without RDFa attributes, rdfa_complete_incomplete_triples sends   *)
(* exactly the relations it should: each predicate an element leaves open  *)
(* is completed once by every nearest descendant with attributes, across   *)
(* any number of skipped elements, from the subject of the element that    *)
(* left it, and nothing else is; errors and character data in between make *)
(* no difference.                                                          *)
(***************************************************************************)
THEOREM RelationsAlwaysCompleted ==
  ASSUME SkipsBareElements
  PROVE  Spec => []HangingRelationsCompleted
<1>1. RelationsInv => HangingRelationsCompleted
  BY DEF RelationsInv
<1>2. RelationsInv /\ [Next]_vars => RelationsInv'
  BY NextRelations
<1> QED BY <1>1, <1>2, InitRelations, PTL DEF Spec

-----------------------------------------------------------------------------
(* How the counter on top of the stack advances, whatever the names.       *)

\* No error of the XML parser is reported.
NoErrorReports == ~HasProcessorGraph \/ MaxErrors = 0

-----------------------------------------------------------------------------
(* The reports of warnings.                                                *)

\* A report describes a node that a counter at n has drawn.
Reported(t, n) ==
  t.by \in {"warning", "error"} => \E m \in Nat : m < n /\ t.s = Bnode(m)

ReportsInv ==
  /\ Inv
  /\ status # "ended" => \A e \in graph : Reported(e.t, Top.bnode_count)
  /\ ReportsAreDistinct

\* The warnings of a start tag describe nodes that its parent's counter had
\* yet to draw.
LEMMA WarningNames ==
  ASSUME NEW c \in Contexts, NEW read, NEW tag \in Tags,
         NEW t \in AttributeTriples(c, read, tag), t.by = "warning"
  PROVE  \E m \in Nat : /\ c.bnode_count <= m /\ t.s = Bnode(m)
                        /\ m < c.bnode_count + 2 * Reports(tag)
<1>1. c.bnode_count \in Nat /\ Reports(tag) \in Nat
  BY ListFields, TagTypes
<1>2. PICK i \in 0 .. Reports(tag) - 1 : t = Report("warning", c.bnode_count + 2 * i)
  BY TripleBy DEF AttributeTriples
<1> DEFINE m == c.bnode_count + 2 * i
<1>3. /\ m \in Nat /\ c.bnode_count <= m
      /\ m < c.bnode_count + 2 * Reports(tag)
  BY <1>1
<1>4. t.s = Bnode(m)
  <2>1. Bnode(m) # NULL /\ Bnode(m + 1) # NULL /\ RdfaContextOf # NULL
    BY <1>3, NextIsDrawn, NullBnodeAssumption, IriAssumption, NullAssumption
    DEF Vocabulary
  <2> HIDE DEF m
  <2> QED BY <1>2, <2>1, WholeTriple DEF Report, m
<1> QED BY <1>3, <1>4

\* Reports that come together are of one element; earlier ones describe
\* other nodes.
LEMMA NewReports ==
  ASSUME ReportsAreDistinct, NEW k \in Nat, NEW l \in Nat, k <= l,
         NEW n, NEW T, graph' = graph \cup Sent(n, T),
         \A e \in graph : Reported(e.t, k),
         \A t \in T :
           /\ t.by # "error"
           /\ t.by = "warning" =>
                \E m \in Nat : k <= m /\ m < l /\ t.s = Bnode(m)
  PROVE  ReportsAreDistinct' /\ \A e \in graph' : Reported(e.t, l)
<1>1. \A e \in graph' : e \in graph \/ (e.at = n /\ e.t \in T)
  BY DEF Sent
<1>2. ASSUME NEW e \in graph' PROVE Reported(e.t, l)
  <2>1. CASE e \in graph
    BY <2>1 DEF Reported
  <2>2. CASE e.t \in T
    BY <2>2 DEF Reported
  <2> QED BY <1>1, <2>1, <2>2
<1>3. ASSUME NEW d \in graph', NEW e \in graph',
             d.t.by \in {"warning", "error"}, e.t.by \in {"warning", "error"},
             d.at # e.at \/ d.t.by # e.t.by
      PROVE  d.t.s # e.t.s
  <2>1. \A m, i \in Nat : Bnode(m) = Bnode(i) => m = i
    BY DEF Bnode
  <2>2. CASE d \in graph /\ e \in graph
    BY <1>3, <2>2 DEF ReportsAreDistinct, By
  <2>3. CASE d \in graph /\ e.t \in T
    BY <1>3, <2>1, <2>3 DEF Reported
  <2>4. CASE d.t \in T /\ e \in graph
    BY <1>3, <2>1, <2>4 DEF Reported
  <2>5. CASE d.at = n /\ e.at = n /\ d.t \in T /\ e.t \in T
    BY <1>3, <2>5
  <2> QED BY <1>1, <2>2, <2>3, <2>4, <2>5
<1> QED BY <1>2, <1>3 DEF ReportsAreDistinct, By

\* start_element: its warnings are the only new reports, and the counter it
\* leaves has passed them.
LEMMA StartElementReports ==
  ASSUME ReportsInv, NEW tag \in Tags, StartElement(tag)
  PROVE  ReportsInv'
<1> DEFINE new  == NewElementContext(Top)
           read == ReadAttributes(new, tag)
           set  == EstablishSubject(read)
           c    == OpenRelations(set)
           T    == AttributeTriples(new, read, tag)
                     \cup TypeTriples(set) \cup RelRevTriples(set)
           id   == Len(tree) + 1
           k    == Top.bnode_count
           l    == c.bnode_count
<1>1. /\ Inv /\ Inv' /\ status = "parsing"
      /\ \A e \in graph : Reported(e.t, k)
      /\ Top \in Contexts /\ InheritedObject(Top) # NULL
      /\ stack \in Seq(Contexts) /\ Len(stack) > 0
  BY InvStack, StartElementInv DEF ReportsInv, StartElement, StackOK
<1>2. /\ k + 2 * Reports(tag) <= read.bnode_count /\ read.bnode_count <= l
      /\ l \in Nat /\ read.bnode_count \in Nat
  BY <1>1, StartedCounter
<1>3. k \in Nat /\ Reports(tag) \in Nat /\ new \in Contexts /\ new.bnode_count = k
  BY <1>1, ListFields, TagTypes, NewElementContextType DEF NewElementContext
<1>4. stack' = Append(stack, c) /\ graph' = graph \cup Sent(id, T)
  BY DEF StartElement
<1>5. Top' = c
  BY <1>1, <1>4 DEF Top
<1> HIDE DEF l, k, c, set, read, new
<1>6. ASSUME NEW t \in T
      PROVE  /\ t.by # "error"
             /\ t.by = "warning" =>
                  \E m \in Nat : k <= m /\ m < l /\ t.s = Bnode(m)
  <2>1. CASE t \in AttributeTriples(new, read, tag)
    <3>1. t.by # "error"
      BY <2>1, StartSenders
    <3>2. ASSUME t.by = "warning"
          PROVE  \E m \in Nat : k <= m /\ m < l /\ t.s = Bnode(m)
      <4>1. PICK m \in Nat : /\ new.bnode_count <= m /\ t.s = Bnode(m)
                             /\ m < new.bnode_count + 2 * Reports(tag)
        BY <1>3, <2>1, <3>2, WarningNames
      <4> QED BY <1>2, <1>3, <4>1
    <3> QED BY <3>1, <3>2
  <2>2. CASE t \in TypeTriples(set) \cup RelRevTriples(set)
    BY <2>2, StartSenders
  <2> QED BY <2>1, <2>2
<1> HIDE DEF T, id
<1>7. k <= l
  BY <1>2, <1>3
<1>8. ReportsAreDistinct' /\ \A e \in graph' : Reported(e.t, l)
  BY <1>1, <1>2, <1>3, <1>4, <1>6, <1>7, NewReports DEF ReportsInv
<1> QED BY <1>1, <1>5, <1>8 DEF ReportsInv, l

\* end_element reports nothing, and the parent takes the counter over.
LEMMA EndElementReports ==
  ASSUME ReportsInv, EndElement
  PROVE  ReportsInv'
<1> DEFINE literal == CloseLiteral(Top)
           c == AfterProperty(literal)
           parent == Len(stack) - 1
           back == ReturnTo(stack[parent], c)
           id == open[Len(open)]
           T == PropertyTriples(literal)
                \cup (IF Completes(c) THEN HangingTriples(c) ELSE {})
                \cup (IF SendsLists(c) THEN ListTriples(AfterIncomplete(c)) ELSE {})
           k == Top.bnode_count
           l == c.bnode_count
<1>1. /\ Inv /\ Inv' /\ status = "parsing" /\ stack \in Seq(Contexts)
      /\ parent \in Nat /\ parent > 0
      /\ Top \in Contexts /\ Top.new_subject # NULL
      /\ stack[parent] \in Contexts
      /\ \A e \in graph : Reported(e.t, k)
  BY InvStack, EndElementInv DEF ReportsInv, EndElement, StackOK, Top
<1>2. c \in Contexts /\ k <= l
  BY <1>1, AfterPropertyNames
<1>3. k \in Nat /\ l \in Nat
  BY <1>1, <1>2, ListFields
<1>4. /\ stack' = [i \in 1 .. parent |-> IF i = parent THEN back ELSE stack[i]]
      /\ graph' = graph \cup Sent(id, T)
  BY DEF EndElement
<1>5. back.bnode_count = l
  BY <1>1 DEF ReturnTo, ListsReturned, NamesReturned, TextReturned, Contexts
<1>6. Top'.bnode_count = l
  <2>1. Len(stack') = parent
    <3>1. stack' \in Seq(Contexts)
      BY <1>1 DEF Inv, TypeOK
    <3> QED BY <1>1, <1>4, <3>1
  <2>2. stack'[parent] = back
    <3>1. parent \in 1 .. parent
      BY <1>1
    <3> HIDE DEF back
    <3> QED BY <1>4, <3>1
  <2> HIDE DEF back, l
  <2> QED BY <1>5, <2>1, <2>2 DEF Top
<1> HIDE DEF l, k, c, literal, back
<1>7. \A t \in T : t.by # "error" /\ t.by # "warning"
  BY EndSenders
<1> HIDE DEF T, id
<1>8. ReportsAreDistinct' /\ \A e \in graph' : Reported(e.t, l)
  BY <1>1, <1>2, <1>3, <1>4, <1>7, NewReports, ZenonT(60) DEF ReportsInv
<1> QED BY <1>1, <1>6, <1>8 DEF ReportsInv

\* No other step sends a report or lowers the counter on top.
LEMMA NextReports ==
  ASSUME ReportsInv, NoErrorReports, [Next]_vars
  PROVE  ReportsInv'
<1>1. Inv /\ Inv'
  BY NextInv DEF ReportsInv
<1>2. ASSUME UNCHANGED graph,
             status' # "ended" =>
               status # "ended" /\ Top'.bnode_count = Top.bnode_count
      PROVE  ReportsInv'
  BY <1>1, <1>2 DEF ReportsInv, ReportsAreDistinct, By
<1>3. ASSUME NEW t \in Texts, CharacterData(t) PROVE ReportsInv'
  <2> DEFINE c == [Top EXCEPT !.plain_literal = Appended(@, <<t>>),
                              !.inner = InnerWithText(@, t)]
  <2>1. /\ stack \in Seq(Contexts) /\ Len(stack) > 0 /\ Top \in Contexts
        /\ status = "parsing" /\ UNCHANGED graph
    BY <1>1, <1>3, InvStack DEF CharacterData, StackOK
  <2>2. stack' = [stack EXCEPT ![Len(stack)] = c]
    BY <1>3 DEF CharacterData, WithText, Top
  <2>3. c.bnode_count = Top.bnode_count
    BY <2>1 DEF Contexts
  <2> HIDE DEF c
  <2>4. Top' = c
    BY <2>1, <2>2 DEF Top
  <2> QED BY <1>2, <2>1, <2>3, <2>4
<1>4. CASE ReportError
  <2>1. ~HasProcessorGraph
    BY <1>1, <1>4, BoundsAssumption DEF NoErrorReports, ReportError, Inv, TypeOK
  <2>2. UNCHANGED <<stack, graph, status>>
    BY <1>4, <2>1 DEF ReportError
  <2> QED BY <1>2, <2>2 DEF Top
<1>5. CASE ParseEnd
  BY <1>2, <1>5 DEF ParseEnd
<1>6. CASE ReadNullLiteral
  <2>1. UNCHANGED <<stack, graph>> /\ status # "ended"
    BY <1>6 DEF ReadNullLiteral
  <2> QED BY <1>2, <2>1 DEF Top
<1>7. CASE UNCHANGED vars
  BY <1>2, <1>7 DEF vars, Top
<1> QED
  BY <1>3, <1>4, <1>5, <1>6, <1>7, StartElementReports, EndElementReports
  DEF Next

(***************************************************************************)
(* If no errors are reported, rdfa_processor_triples gives the reports of  *)
(* any two elements different nodes, in every document: warnings come      *)
(* while the counter of the new context is copied, and neither lists nor   *)
(* generated names written by the author bring it back.                    *)
(***************************************************************************)
THEOREM ReportsAlwaysDistinct ==
  ASSUME NoErrorReports
  PROVE  Spec => []ReportsAreDistinct
<1>1. Init => ReportsInv
  BY InitInv DEF Init, ReportsInv, ReportsAreDistinct, By
<1>2. ReportsInv /\ [Next]_vars => ReportsInv'
  BY NextReports
<1>3. ReportsInv => ReportsAreDistinct
  BY DEF ReportsInv
<1> QED BY <1>1, <1>2, <1>3, PTL DEF Spec

-----------------------------------------------------------------------------
(* The names in triples, and the next one.                                 *)

\* Nothing is listed.
NoLists == \A tag \in Tags : ~tag.inlist

TripleDrawn(t, n) == Drawn(t.s, n) /\ Drawn(t.o, n)

\* An incomplete triple without a direction is an item for a list.
Directed(s) == \A i \in DOMAIN s : s[i].dir # "none"

\* What a context may yet send or pass on, beyond NamesDrawn: no name that a
\* counter at n has yet to draw, and no list.
NothingNew(c, n) ==
  /\ Drawn(c.typed_resource, n) /\ AttributesDrawn(c.attrs, n)
  /\ c.local_list_mappings = {} /\ ~c.attrs.inlist
  /\ Directed(c.incomplete_triples) /\ Directed(c.local_incomplete_triples)

FreshInv ==
  /\ NamesInv
  /\ status = "ended" => stack = << >>
  /\ status # "ended" =>
       /\ \A i \in DOMAIN stack : NothingNew(stack[i], Top.bnode_count)
       /\ \A e \in graph : TripleDrawn(e.t, Top.bnode_count)

\* A triple has the names it is made of or none, and a literal is no name.
LEMMA MadeOfDrawn ==
  ASSUME NEW n
  PROVE  /\ \A by, s, p, o : Drawn(s, n) /\ Drawn(o, n) =>
              TripleDrawn(Triple(by, s, p, o), n)
         /\ \A words, kind, language :
              Drawn(Literal(words, kind, language), n)
<1>1. ASSUME NEW by, NEW s, NEW p, NEW o, Drawn(s, n), Drawn(o, n)
      PROVE  TripleDrawn(Triple(by, s, p, o), n)
  BY <1>1, OthersAreDrawn DEF Triple, TripleDrawn
<1>2. ASSUME NEW words, NEW kind, NEW language
      PROVE  Literal(words, kind, language) \notin Bnodes
  BY DEF Literal, Bnodes
<1> QED BY <1>1, <1>2 DEF Drawn

\* The resource that @typeof describes is the subject, the object or @about.
LEMMA TypedResourceIs ==
  ASSUME NEW c \in Contexts
  PROVE  LET e == EstablishSubject(c)
         IN  e.typed_resource \in {c.typed_resource, NULL, e.new_subject,
                                   e.current_object_resource, c.attrs.about}
<1> DEFINE a == c.attrs
           Typed(e) == e.typed_resource \in
             {c.typed_resource, NULL, e.new_subject,
              e.current_object_resource, a.about}
<1>1. Typed(EstablishNew10Subject(c))
  BY DEF Contexts, EstablishNew10Subject
<1>2. Typed(EstablishPropertySubject(c))
  <2> DEFINE named == <<a.about, a.resource, a.href, a.src>>
             typed == a.typeof # NULL
             drawn == typed /\ NoneOf(named)
             type  == IF drawn THEN NextBnode(c) ELSE FirstSet(named)
             e == EstablishPropertySubject(c)
  <2>1. /\ e.typed_resource = (IF typed THEN type ELSE NULL)
        /\ e.current_object_resource =
             (IF typed /\ a.about = NULL THEN type ELSE NULL)
    BY DEF Contexts, EstablishPropertySubject
  <2>2. a.about # NULL => type = a.about
    <3>1. /\ named \in Seq(Maybe(Resources))
          /\ Len(named) > 0 /\ named[1] = a.about
      BY AttributeTypes
    <3> HIDE DEF named
    <3> QED BY <3>1, FirstIs DEF NoneOf
  <2> HIDE DEF type, e
  <2>3. CASE a.about # NULL
    BY <2>1, <2>2, <2>3 DEF e
  <2>4. CASE a.about = NULL
    BY <2>1, <2>4 DEF e
  <2> QED BY <2>3, <2>4
<1>3. Typed(EstablishChainedSubject(c))
  BY DEF Contexts, EstablishChainedSubject
<1>4. Typed(EstablishNew10SubjectWithRelRev(c))
  BY DEF Contexts, EstablishNew10SubjectWithRelRev
<1>5. Typed(EstablishNew11SubjectWithRelRev(c))
  BY DEF Contexts, EstablishNew11SubjectWithRelRev
<1> QED
  BY <1>1, <1>2, <1>3, <1>4, <1>5 DEF EstablishSubject, EstablishNew11Subject

\* The first half of start_element keeps lists and incomplete triples.
LEMMA StartKeepsLists ==
  ASSUME NEW c \in Contexts, NEW tag \in Tags
  PROVE  LET read == ReadAttributes(c, tag)
             set  == EstablishSubject(read)
         IN  /\ read.typed_resource = c.typed_resource
             /\ set.local_list_mappings = c.local_list_mappings
             /\ set.incomplete_triples = c.incomplete_triples
             /\ set.local_incomplete_triples = c.local_incomplete_triples
<1> DEFINE read == ReadAttributes(c, tag)
           set  == EstablishSubject(read)
<1>1. /\ read \in Contexts
      /\ read.typed_resource = c.typed_resource
      /\ read.local_list_mappings = c.local_list_mappings
      /\ read.incomplete_triples = c.incomplete_triples
      /\ read.local_incomplete_triples = c.local_incomplete_triples
  <2>1. read \in Contexts
    BY ReadAttributesType
  <2> QED BY <2>1 DEF ReadAttributes, Contexts
<1> HIDE DEF read
<1>2. /\ set.incomplete_triples = read.incomplete_triples
      /\ set.local_incomplete_triples = read.local_incomplete_triples
  BY <1>1, EstablishedRelations
<1>3. set.local_list_mappings = read.local_list_mappings
  BY <1>1 DEF Contexts, EstablishSubject, EstablishNew11Subject,
       EstablishNew10Subject, EstablishPropertySubject,
       EstablishChainedSubject, EstablishNew10SubjectWithRelRev,
       EstablishNew11SubjectWithRelRev
<1> QED BY <1>1, <1>2, <1>3 DEF read, set

\* Relations left open have a direction when nothing is listed.
LEMMA OpenRelationsDirected ==
  ASSUME NEW c \in Contexts, ~ListsRel(c), Directed(c.local_incomplete_triples)
  PROVE  LET e == OpenRelations(c)
         IN  /\ e.local_list_mappings = c.local_list_mappings
             /\ e.incomplete_triples = c.incomplete_triples
             /\ e.typed_resource = c.typed_resource
             /\ Directed(e.local_incomplete_triples)
<1> DEFINE e == SaveIncompleteTriples(c)
           p == OpenPredicates(c.attrs)
<1>1. OpenRelations(c) = c \/ OpenRelations(c) = e
  BY DEF OpenRelations
<1>2. /\ e.local_list_mappings = c.local_list_mappings
      /\ e.incomplete_triples = c.incomplete_triples
      /\ e.typed_resource = c.typed_resource
      /\ e.local_incomplete_triples = c.local_incomplete_triples \o p
  BY DEF SaveIncompleteTriples, Contexts
<1>3. p \in Seq(Incompletes) /\ Directed(p)
  <2>1. /\ p \in Seq(Incompletes)
        /\ {p[i] : i \in DOMAIN p} =
             {[dir |-> "forward", pred |-> Rels(c.attrs)[i]] :
                i \in DOMAIN Rels(c.attrs)}
             \cup
             {[dir |-> "reverse", pred |-> Revs(c.attrs)[i]] :
                i \in DOMAIN Revs(c.attrs)}
    BY AttributeTypes, OpenPredicatesAre
  <2> HIDE DEF p
  <2>2. \A i \in DOMAIN p : p[i].dir \in {"forward", "reverse"}
    BY <2>1
  <2> QED BY <2>1, <2>2 DEF Directed
<1>4. c.local_incomplete_triples \in Seq(Incompletes)
  BY DEF Contexts
<1> HIDE DEF e, p
<1>5. Directed(c.local_incomplete_triples \o p)
  <2> DEFINE f == c.local_incomplete_triples
             s == f \o p
  <2>1. ASSUME NEW i \in DOMAIN s PROVE s[i].dir # "none"
    <3>1. \/ \E j \in DOMAIN f : s[i] = f[j]
          \/ \E j \in DOMAIN p : s[i] = p[j]
      <4>1. Joins(s, f, p, Incompletes)
        BY <1>3, <1>4 DEF Joins
      <4>2. i \in DOMAIN s
        OBVIOUS
      <4> HIDE DEF f, s
      <4>3. HoldsBoth(s, f, p)
        BY ONLY <4>1, ElementsOfBoth
      <4> QED BY ONLY <4>2, <4>3 DEF HoldsBoth
    <3> HIDE DEF f, s
    <3> QED BY <1>3, <3>1 DEF Directed, f
  <2> QED BY <2>1 DEF Directed
<1> QED BY <1>1, <1>2, <1>5

\* What a new context inherits.
LEMMA NewElementNothingNew ==
  ASSUME NEW parent \in Contexts, NEW n, NothingNew(parent, n)
  PROVE  LET new == NewElementContext(parent)
         IN  /\ new.local_list_mappings = {} /\ new.typed_resource = NULL
             /\ Directed(new.incomplete_triples)
             /\ Directed(new.local_incomplete_triples)
BY DEF NewElementContext, InheritedIncompletes, NothingNew, Directed

\* The context a start tag leaves, and the triples it sends, have no names
\* but those its counter has drawn.
LEMMA StartedNothingNew ==
  ASSUME NEW parent \in Contexts, NEW tag \in Tags, OwnNames, NoLists,
         InheritedObject(parent) # NULL,
         NamesDrawn(parent, parent.bnode_count),
         NothingNew(parent, parent.bnode_count)
  PROVE  LET new  == NewElementContext(parent)
             read == ReadAttributes(new, tag)
             set  == EstablishSubject(read)
             c    == OpenRelations(set)
         IN  /\ NothingNew(c, c.bnode_count)
             /\ \A t \in AttributeTriples(new, read, tag) \cup TypeTriples(set)
                           \cup RelRevTriples(set) :
                  TripleDrawn(t, c.bnode_count)
<1> DEFINE new  == NewElementContext(parent)
           read == ReadAttributes(new, tag)
           set  == EstablishSubject(read)
           c    == OpenRelations(set)
           k    == parent.bnode_count
           l    == c.bnode_count
<1>1. /\ new \in Contexts /\ new.parent_object # NULL /\ new.bnode_count = k
      /\ NamesDrawn(new, k) /\ k \in Nat
      /\ new.local_list_mappings = {} /\ new.typed_resource = NULL
      /\ Directed(new.incomplete_triples)
      /\ Directed(new.local_incomplete_triples)
  BY NewElementContextType, NewElementNames, NewElementNothingNew, ListFields
  DEF NewElementContext
<1> HIDE DEF new
<1>2. /\ Ready(read) /\ read \in Contexts
      /\ ~read.attrs.inlist
  BY <1>1, ReadAttributesNames, ReadAttributesType, AttributesOfTag
  DEF Ready, Advances, NoLists
<1>3. /\ read.typed_resource = NULL /\ set.local_list_mappings = {}
      /\ Directed(set.incomplete_triples)
      /\ Directed(set.local_incomplete_triples)
  BY <1>1, StartKeepsLists
<1>4. k + 2 * Reports(tag) <= read.bnode_count /\ read.bnode_count \in Nat
  BY StartedCounter DEF new
<1> HIDE DEF read
<1>5. /\ Advances(read, set) /\ set \in Contexts /\ set.new_subject # NULL
      /\ set.attrs = read.attrs
  BY <1>2, EstablishSubjectNames, SubjectEstablished, EstablishedAttributes
  DEF Ready, Established
<1>6. set.typed_resource \in {read.typed_resource, NULL, set.new_subject,
                              set.current_object_resource, read.attrs.about}
  BY <1>2, TypedResourceIs
<1> HIDE DEF set
<1>7. set.bnode_count \in Nat /\ read.bnode_count <= set.bnode_count
  BY <1>5, ListFields DEF Advances
<1>8. AttributesDrawn(set.attrs, set.bnode_count)
  BY <1>2, <1>4, <1>5, <1>7, NamesDrawnLater DEF Ready
<1>9. Drawn(set.typed_resource, set.bnode_count)
  BY <1>3, <1>5, <1>6, <1>8, OthersAreDrawn
  DEF Advances, NamesDrawn, AttributesDrawn
<1>10. ~ListsRel(set)
  BY <1>2, <1>5 DEF ListsRel
<1>11. /\ Advances(set, c) /\ c.attrs = set.attrs
       /\ c.local_list_mappings = {} /\ c.typed_resource = set.typed_resource
       /\ Directed(c.incomplete_triples) /\ Directed(c.local_incomplete_triples)
  BY <1>3, <1>5, <1>10, OpenRelationsNames, OpenRelationsType,
     OpenRelationsDirected DEF Advances, SameSubject
<1> HIDE DEF c
<1>12. /\ l \in Nat /\ set.bnode_count <= l /\ read.bnode_count <= l
       /\ k + 2 * Reports(tag) <= l
  BY <1>1, <1>4, <1>7, <1>11, ListFields, TagTypes DEF Advances
<1>13. /\ AttributesDrawn(set.attrs, l) /\ Drawn(set.typed_resource, l)
       /\ NamesDrawn(set, l)
  BY <1>5, <1>7, <1>8, <1>9, <1>12, NamesDrawnLater, DrawnLater DEF Advances
<1>14. NothingNew(c, l)
  BY <1>2, <1>5, <1>11, <1>13 DEF NothingNew
<1> HIDE DEF l, k
<1>15. ASSUME NEW t \in AttributeTriples(new, read, tag)
       PROVE  TripleDrawn(t, l)
  <2>1. ASSUME NEW i \in 0 .. Reports(tag) - 1
        PROVE  TripleDrawn(Report("warning", new.bnode_count + 2 * i), l)
    <3> DEFINE m == new.bnode_count + 2 * i
    <3>1. Reports(tag) \in Nat /\ k \in Nat
      BY <1>1, TagTypes DEF k
    <3>2. m \in Nat /\ m + 1 \in Nat /\ m < l /\ m + 1 < l
      BY <1>1, <1>12, <3>1 DEF k
    <3> HIDE DEF m
    <3>3. Drawn(Bnode(m), l) /\ Drawn(Bnode(m + 1), l)
      BY <1>12, <3>2, NextIsDrawn
    <3>4. TripleDrawn(Report("warning", m), l)
      BY <3>3, MadeOfDrawn DEF Report
    <3> QED BY <3>4 DEF m
  <2>2. tag.vocab \notin {NULL, EmptyVocabulary} =>
          TripleDrawn(Triple("vocab", new.base, UsesVocabulary, tag.vocab), l)
    <3>1. tag.vocab \notin {NULL, EmptyVocabulary} => tag.vocab \in Iris
      BY TagTypes DEF StartTags, Maybe
    <3>2. new.base \in Iris
      BY <1>1 DEF Contexts
    <3> QED BY <3>1, <3>2, OthersAreDrawn, MadeOfDrawn
  <2>3. TripleDrawn(Triple("prefix", NULL, NULL, NULL), l)
    BY OthersAreDrawn, MadeOfDrawn
  <2> QED BY <2>1, <2>2, <2>3 DEF AttributeTriples
<1>16. ASSUME NEW t \in TypeTriples(set) PROVE TripleDrawn(t, l)
  <2>1. Drawn(set.new_subject, l)
    BY <1>13 DEF NamesDrawn
  <2>2. set.attrs.typeof # NULL =>
          \A i \in DOMAIN set.attrs.typeof : Drawn(set.attrs.typeof[i], l)
    <3>1. set.attrs.typeof # NULL => set.attrs.typeof \in Seq(Iris)
      BY <1>5, AttributeTypes DEF Maybe
    <3>2. set.attrs.typeof # NULL =>
            \A i \in DOMAIN set.attrs.typeof : set.attrs.typeof[i] \in Iris
      BY <3>1
    <3> QED BY <3>2, OthersAreDrawn
  <2> QED BY <1>13, <2>1, <2>2, MadeOfDrawn DEF TypeTriples
<1>17. ASSUME NEW t \in RelRevTriples(set) PROVE TripleDrawn(t, l)
  <2>1. Drawn(set.new_subject, l) /\ Drawn(set.current_object_resource, l)
    BY <1>13 DEF NamesDrawn
  <2> QED BY <2>1, MadeOfDrawn DEF RelRevTriples, RelRevPairs
<1> QED BY <1>14, <1>15, <1>16, <1>17 DEF c, set, read, new, l

\* The value of a property is a literal or a name of its context.
LEMMA PropertyValueDrawn ==
  ASSUME NEW c \in Contexts, NEW n,
         Drawn(c.typed_resource, n), AttributesDrawn(c.attrs, n)
  PROVE  Drawn(CurrentPropertyValue(c), n) /\ Drawn(CurrentObjectLiteral(c), n)
<1> DEFINE a    == c.attrs
           words == FirstSet(<<a.content, c.plain_literal>>)
           typed == IF a.about = NULL THEN c.typed_resource ELSE NULL
           named == <<a.resource, a.href, a.src, typed>>
           resource == IF a.rel # NULL \/ a.rev # NULL THEN NULL
                       ELSE FirstSet(named)
<1>1. Drawn(FirstSet(named), n)
  <2>1. typed \in Maybe(Resources) /\ Drawn(typed, n)
    BY OthersAreDrawn DEF Contexts, Maybe
  <2> HIDE DEF typed
  <2>2. /\ named \in Seq(Maybe(Resources)) /\ Len(named) <= 5
        /\ \A i \in 1 .. Len(named) : Drawn(named[i], n)
    BY <2>1, AttributeTypes DEF AttributesDrawn
  <2> HIDE DEF named
  <2> QED BY <2>2, FirstSetDrawn
<1>2. Drawn(resource, n)
  BY <1>1, OthersAreDrawn
<1>3. \A kind : /\ Drawn(LiteralOrNull(c, words, kind), n)
                /\ Drawn(Literal(XmlText(c), kind, c.language), n)
  BY MadeOfDrawn, OthersAreDrawn DEF LiteralOrNull
<1>4. Drawn(CurrentPropertyValue(c), n)
  <2> HIDE DEF words, resource
  <2>1. CurrentPropertyValue(c) =
          CASE a.datatype = XmlLiteral -> Literal(XmlText(c), "xml", c.language)
            [] a.datatype \notin {NULL, XmlLiteral} ->
                 LiteralOrNull(c, words, IF a.datatype = EmptyDatatype
                                         THEN "plain" ELSE "typed")
            [] a.datatype = NULL /\ a.content = NULL /\ resource # NULL -> resource
            [] OTHER -> LiteralOrNull(c, words, "plain")
    BY DEF CurrentPropertyValue, words, resource
  <2>2. CurrentPropertyValue(c) \in
          {Literal(XmlText(c), "xml", c.language),
           LiteralOrNull(c, words, "plain"), LiteralOrNull(c, words, "typed"),
           resource}
    BY <2>1
  <2> QED BY <1>2, <1>3, <2>2
<1>5. Drawn(CurrentObjectLiteral(c), n)
  <2>1. CurrentObjectLiteral(c) \in
          {Literal(XmlText(c), "xml", c.language),
           LiteralOrNull(c, words, "plain"), LiteralOrNull(c, words, "typed")}
    BY DEF CurrentObjectLiteral
  <2> HIDE DEF words
  <2> QED BY <1>3, <2>1
<1> QED BY <1>4, <1>5

\* An element without lists neither sends one nor gives one back.
LEMMA EndWithoutLists ==
  ASSUME NEW c \in Contexts, c.local_list_mappings = {},
         Directed(c.incomplete_triples)
  PROVE  /\ ListTriples(AfterIncomplete(c)) = {}
         /\ AfterLists(AfterIncomplete(c)).local_list_mappings = {}
<1> DEFINE listed == {i \in DOMAIN c.incomplete_triples :
                        c.incomplete_triples[i].dir = "none"}
           keys == [i \in listed |->
                      <<c.parent_subject, c.incomplete_triples[i].pred>>]
           d == CreateListMappings(c, keys)
           e == AfterIncomplete(c)
<1>1. listed = {}
  BY DEF Directed
<1>2. FreshKeys(c, keys) = {}
  BY <1>1 DEF FreshKeys
<1>3. d.local_list_mappings = {}
  <2> DEFINE fresh == FreshKeys(c, keys)
  <2>1. d.local_list_mappings = c.local_list_mappings \cup
          {[key |-> k, slot |-> c.list_slots + FreshBefore(c, keys, k),
            depth |-> c.depth,
            head |-> Bnode(c.bnode_count + FreshBefore(c, keys, k)),
            items |-> << >>] : k \in fresh}
    BY DEF CreateListMappings, Contexts
  <2> HIDE DEF d, keys
  <2> QED BY <1>2, <2>1
<1>4. DOMAIN d = DOMAIN c
  BY DEF CreateListMappings
<1> HIDE DEF d, keys, listed
<1>5. CompleteIncompleteTriples(c).local_list_mappings = {}
  <2> DEFINE f == AppendToListMappings(d, keys, c.new_subject)
  <2>1. CompleteIncompleteTriples(c) = [f EXCEPT !.incomplete_triples = << >>]
    BY DEF CompleteIncompleteTriples, listed, keys, d
  <2>2. f = [d EXCEPT !.local_list_mappings =
               {[l EXCEPT !.items = @ \o Copies(keys, l.key, c.new_subject)] :
                  l \in d.local_list_mappings}]
    BY DEF AppendToListMappings
  <2>3. "local_list_mappings" \in DOMAIN d
    BY <1>4 DEF Contexts
  <2>4. f.local_list_mappings = {} /\ DOMAIN f = DOMAIN d
    BY <1>3, <2>2, <2>3
  <2> HIDE DEF f
  <2> QED BY <2>1, <2>3, <2>4
<1>6. e.local_list_mappings = {}
  BY <1>5 DEF AfterIncomplete
<1>7. e \in Contexts
  BY AfterIncompleteType DEF SameSubject
<1> HIDE DEF e
<1>8. Finished(e) = {}
  BY <1>6 DEF Finished
<1>9. ListTriples(e) = {}
  BY <1>8 DEF ListTriples
<1>10. AfterLists(e).local_list_mappings = {}
  BY <1>6, <1>7 DEF AfterLists, Contexts
<1> QED BY <1>9, <1>10 DEF e

\* start_element: the new context and the triples use names drawn by now.
LEMMA StartElementFresh ==
  ASSUME FreshInv, OwnNames, NoLists, NEW tag \in Tags, StartElement(tag)
  PROVE  FreshInv'
<1> DEFINE new  == NewElementContext(Top)
           read == ReadAttributes(new, tag)
           set  == EstablishSubject(read)
           c    == OpenRelations(set)
           T    == AttributeTriples(new, read, tag)
                     \cup TypeTriples(set) \cup RelRevTriples(set)
           id   == Len(tree) + 1
           k    == Top.bnode_count
           l    == c.bnode_count
<1>1. /\ NamesInv /\ status = "parsing"
      /\ \A i \in DOMAIN stack : NothingNew(stack[i], k)
      /\ \A e \in graph : TripleDrawn(e.t, k)
  BY DEF FreshInv, StartElement
<1>2. NamesInv'
  BY <1>1, StartElementNames
<1>3. /\ Top \in Contexts /\ InheritedObject(Top) # NULL
      /\ stack \in Seq(Contexts) /\ Len(stack) > 0 /\ NamesDrawn(Top, k)
      /\ NothingNew(Top, k)
  BY <1>1, InvStack DEF NamesInv, StackOK, NamesBehind, Top
<1>4. k \in Nat /\ l \in Nat /\ k <= l
  <2>1. k \in Nat /\ Reports(tag) \in Nat
    BY <1>3, ListFields, TagTypes
  <2>2. /\ k + 2 * Reports(tag) <= read.bnode_count /\ read.bnode_count <= l
        /\ l \in Nat /\ read.bnode_count \in Nat
    BY <1>3, StartedCounter
  <2> HIDE DEF k, l, read
  <2> QED BY <2>1, <2>2
<1>5. /\ NothingNew(c, l) /\ \A t \in T : TripleDrawn(t, l)
  BY <1>3, StartedNothingNew
<1>6. /\ stack' = Append(stack, c) /\ graph' = graph \cup Sent(id, T)
      /\ status' = "parsing"
  BY <1>1 DEF StartElement
<1> HIDE DEF c, T, id, k
<1>7. Top' = c
  BY <1>3, <1>6 DEF Top
<1> HIDE DEF l
<1>8. \A s : NothingNew(s, k) => NothingNew(s, l)
  BY <1>4, DrawnLater, NamesDrawnLater DEF NothingNew
<1>9. \A i \in DOMAIN stack' : NothingNew(stack'[i], l)
  <2>1. \A i \in DOMAIN stack' :
          stack'[i] = c \/ (i \in DOMAIN stack /\ stack'[i] = stack[i])
    BY <1>3, <1>6
  <2> QED BY <1>1, <1>5, <1>8, <2>1
<1>10. \A e \in graph' : TripleDrawn(e.t, l)
  <2>1. \A e \in graph : TripleDrawn(e.t, l)
    BY <1>1, <1>4, DrawnLater DEF TripleDrawn
  <2>2. \A e \in graph' : e \in graph \/ e.t \in T
    BY <1>6 DEF Sent
  <2> QED BY <1>5, <2>1, <2>2
<1> QED BY <1>2, <1>6, <1>7, <1>9, <1>10 DEF FreshInv, l

\* end_element sends names of the context that ends, and draws none.
LEMMA EndElementFresh ==
  ASSUME FreshInv, EndElement
  PROVE  FreshInv'
<1> DEFINE c == CloseLiteral(Top)
           parent == Len(stack) - 1
           back == ReturnTo(stack[parent], c)
           id == open[Len(open)]
           T == PropertyTriples(c)
                \cup (IF Completes(c) THEN HangingTriples(c) ELSE {})
                \cup (IF SendsLists(c) THEN ListTriples(AfterIncomplete(c)) ELSE {})
           k == Top.bnode_count
<1>1. /\ NamesInv /\ status = "parsing"
      /\ \A i \in DOMAIN stack : NothingNew(stack[i], k)
      /\ \A e \in graph : TripleDrawn(e.t, k)
  BY DEF FreshInv, EndElement
<1>2. NamesInv'
  BY <1>1, EndElementNames
<1>3. /\ stack \in Seq(Contexts) /\ parent \in Nat /\ parent > 0
      /\ Top \in Contexts /\ stack[parent] \in Contexts
      /\ NamesDrawn(Top, k) /\ NothingNew(Top, k)
      /\ NothingNew(stack[parent], k)
  <2>1. /\ stack \in Seq(Contexts) /\ parent \in Nat /\ parent > 0
        /\ Top \in Contexts
    BY <1>1, InvStack DEF NamesInv, EndElement, StackOK
  <2>2. Len(stack) \in DOMAIN stack /\ parent \in DOMAIN stack
    BY <2>1
  <2> QED BY <1>1, <2>1, <2>2 DEF NamesInv, NamesBehind, Top
<1>4. /\ c \in Contexts /\ c.bnode_count = k /\ c.attrs = Top.attrs
      /\ c.new_subject = Top.new_subject
      /\ c.parent_subject = Top.parent_subject
      /\ c.typed_resource = Top.typed_resource
      /\ c.local_list_mappings = {} /\ Directed(c.incomplete_triples)
  <2>1. c \in Contexts
    BY <1>3, CloseLiteralType DEF SameSubject
  <2> QED BY <1>3, <2>1 DEF CloseLiteral, Contexts, NothingNew
<1>5. AfterProperty(c) = c
  BY <1>3, <1>4 DEF AfterProperty, NothingNew
<1>6. /\ stack' = [i \in 1 .. parent |-> IF i = parent THEN back ELSE stack[i]]
      /\ graph' = graph \cup Sent(id, T) /\ status' = "parsing"
  BY <1>1, <1>5 DEF EndElement
<1> HIDE DEF c
<1>7. /\ ListTriples(AfterIncomplete(c)) = {}
      /\ AfterLists(AfterIncomplete(c)).local_list_mappings = {}
  BY <1>4, EndWithoutLists
<1>8. back.bnode_count = k /\ NothingNew(back, k)
  <2>1. /\ back.bnode_count = k
        /\ back.typed_resource = stack[parent].typed_resource
        /\ back.attrs = stack[parent].attrs
        /\ back.incomplete_triples = stack[parent].incomplete_triples
        /\ back.local_incomplete_triples = stack[parent].local_incomplete_triples
        /\ back.local_list_mappings \in
             {stack[parent].local_list_mappings,
              AfterLists(AfterIncomplete(c)).local_list_mappings}
    BY <1>3, <1>4
    DEF ReturnTo, ListsReturned, NamesReturned, TextReturned, Contexts
  <2> HIDE DEF back
  <2> QED BY <1>3, <1>7, <2>1 DEF NothingNew
<1>9. Top'.bnode_count = k /\ DOMAIN stack' = 1 .. parent
  <2>1. Len(stack') = parent /\ DOMAIN stack' = 1 .. parent
    <3>1. stack' \in Seq(Contexts)
      BY <1>2 DEF NamesInv, Inv, TypeOK
    <3> QED BY <1>3, <1>6, <3>1
  <2>2. stack'[parent] = back
    <3>1. parent \in 1 .. parent
      BY <1>3
    <3> HIDE DEF back
    <3> QED BY <1>6, <3>1
  <2> HIDE DEF back
  <2> QED BY <1>8, <2>1, <2>2 DEF Top
<1> HIDE DEF back, k
<1>10. \A i \in DOMAIN stack' : NothingNew(stack'[i], k)
  <2>1. \A i \in 1 .. parent : i \in DOMAIN stack
    BY <1>3
  <2>2. \A i \in 1 .. parent : stack'[i] \in {back, stack[i]}
    BY <1>6
  <2> QED BY <1>1, <1>8, <1>9, <2>1, <2>2
<1>11. ASSUME NEW t \in T PROVE TripleDrawn(t, k)
  <2>1. Drawn(c.new_subject, k) /\ Drawn(c.parent_subject, k)
    BY <1>3, <1>4 DEF NamesDrawn
  <2>2. CASE t \in PropertyTriples(c)
    <3>1. Drawn(CurrentPropertyValue(c), k) /\ Drawn(CurrentObjectLiteral(c), k)
      BY <1>3, <1>4, PropertyValueDrawn DEF NothingNew
    <3> QED BY <2>1, <2>2, <3>1, MadeOfDrawn DEF PropertyTriples
  <2>3. CASE t \in HangingTriples(c)
    BY <2>1, <2>3, MadeOfDrawn DEF HangingTriples
  <2>4. t \in PropertyTriples(c) \/ t \in HangingTriples(c)
    BY <1>7
  <2> QED BY <2>2, <2>3, <2>4
<1>12. \A e \in graph' : TripleDrawn(e.t, k)
  <2>1. \A e \in graph' : e \in graph \/ e.t \in T
    BY <1>6 DEF Sent
  <2> QED BY <1>1, <1>11, <2>1
<1> QED BY <1>2, <1>6, <1>9, <1>10, <1>12 DEF FreshInv

\* No other step draws or sends a name.
LEMMA NextFresh ==
  ASSUME FreshInv, OwnNames, NoLists, NoErrorReports, [Next]_vars
  PROVE  FreshInv'
<1>1. NamesInv /\ Inv /\ Inv' /\ NamesInv'
  <2>1. NamesInv
    BY DEF FreshInv
  <2>2. NamesInv'
    BY <2>1, NextNames
  <2> QED BY <2>1, <2>2 DEF NamesInv
<1>2. ASSUME UNCHANGED graph,
             status' # "ended" =>
               /\ status # "ended" /\ Top'.bnode_count = Top.bnode_count
               /\ DOMAIN stack' = DOMAIN stack
               /\ \A i \in DOMAIN stack : \A n :
                    NothingNew(stack[i], n) => NothingNew(stack'[i], n),
             status' = "ended" => stack' = << >>
      PROVE  FreshInv'
  BY <1>1, <1>2 DEF FreshInv
<1>3. ASSUME NEW t \in Texts, CharacterData(t) PROVE FreshInv'
  <2> DEFINE c == [Top EXCEPT !.plain_literal = Appended(@, <<t>>),
                              !.inner = InnerWithText(@, t)]
  <2>1. /\ stack \in Seq(Contexts) /\ Len(stack) > 0 /\ Top \in Contexts
        /\ status = "parsing" /\ UNCHANGED <<graph, status>>
    BY <1>1, <1>3, InvStack DEF CharacterData, StackOK
  <2>2. stack' = [stack EXCEPT ![Len(stack)] = c]
    BY <1>3 DEF CharacterData, WithText, Top
  <2>3. /\ c.bnode_count = Top.bnode_count
        /\ \A n : NothingNew(Top, n) => NothingNew(c, n)
    BY <2>1 DEF Contexts, NothingNew
  <2> HIDE DEF c
  <2>4. Top' = c /\ DOMAIN stack' = DOMAIN stack
    BY <2>1, <2>2 DEF Top
  <2>5. \A i \in DOMAIN stack :
          stack'[i] = stack[i] \/ (stack[i] = Top /\ stack'[i] = c)
    BY <2>1, <2>2 DEF Top
  <2> QED BY <1>2, <2>1, <2>3, <2>4, <2>5
<1>4. CASE ReportError
  <2>1. ~HasProcessorGraph
    BY <1>1, <1>4, BoundsAssumption DEF NoErrorReports, ReportError, Inv, TypeOK
  <2>2. UNCHANGED <<stack, graph, status>> /\ status = "parsing"
    BY <1>4, <2>1 DEF ReportError
  <2> QED BY <1>2, <2>2 DEF Top
<1>5. CASE ParseEnd
  BY <1>2, <1>5 DEF ParseEnd
<1>6. CASE ReadNullLiteral
  <2>1. UNCHANGED <<stack, graph>> /\ status # "ended" /\ status' # "ended"
    BY <1>6 DEF ReadNullLiteral
  <2> QED BY <1>2, <2>1 DEF Top
<1>7. CASE UNCHANGED vars
  BY <1>2, <1>7 DEF vars, Top, FreshInv
<1>8. CASE EndElement
  BY <1>8, EndElementFresh DEF FreshInv
<1> QED
  BY <1>3, <1>4, <1>5, <1>6, <1>7, <1>8, StartElementFresh DEF Next

\* The root context has drawn nothing and nothing has been sent.
LEMMA InitFresh == Init => FreshInv
<1> SUFFICES ASSUME Init PROVE FreshInv
  OBVIOUS
<1>1. PICK d \in Documents : stack = <<RootContext(d)>>
  BY DEF Init
<1>2. NamesInv /\ graph = {}
  BY InitNames DEF Init
<1>3. \A n : NothingNew(RootContext(d), n)
  BY OthersAreDrawn
  DEF NothingNew, RootContext, NoAttributes, AttributesDrawn, Directed
<1>4. \A i \in DOMAIN stack : stack[i] = RootContext(d)
  BY <1>1
<1> QED BY <1>2, <1>3, <1>4 DEF FreshInv, Init

(***************************************************************************)
(* In every document whose author names no generated node and in which     *)
(* nothing is listed, the name that rdfa_create_bnode would draw next for  *)
(* the innermost element is in no triple that was sent and in no open      *)
(* context, if no errors are reported.  (List cells and the reports of     *)
(* errors do draw from other counters; both hypotheses are needed.)        *)
(***************************************************************************)
THEOREM NextBnodeAlwaysNew ==
  ASSUME OwnNames, NoLists, NoErrorReports
  PROVE  Spec => []NextBnodeIsNew
<1>1. FreshInv => NextBnodeIsNew
  <2> SUFFICES ASSUME FreshInv, stack # << >>,
                      NEW b \in TripleNames \cup
                        UNION {ContextNames(stack[i]) : i \in DOMAIN stack}
               PROVE  b.bnode < Top.bnode_count
    BY DEF NextBnodeIsNew
  <2> DEFINE k == Top.bnode_count
  <2>1. status # "ended"
    BY DEF FreshInv
  <2> HIDE DEF k
  <2>2. CASE b \in TripleNames
    <3>1. PICK e \in graph : b \in NamesIn({e.t.s, e.t.o})
      BY <2>2 DEF TripleNames
    <3>2. b \in Bnodes /\ (b = e.t.s \/ b = e.t.o)
      BY <3>1 DEF NamesIn
    <3>3. Drawn(b, Top.bnode_count)
      BY <2>1, <3>2 DEF FreshInv, TripleDrawn
    <3> QED BY <3>2, <3>3 DEF Drawn
  <2>3. ASSUME NEW i \in DOMAIN stack, b \in ContextNames(stack[i])
        PROVE  b.bnode < Top.bnode_count
    <3> DEFINE c == stack[i]
    <3>1. /\ NothingNew(c, Top.bnode_count) /\ NamesDrawn(c, Top.bnode_count)
      BY <2>1 DEF FreshInv, NamesInv, NamesBehind, Top
    <3> HIDE DEF c
    <3>2. b \in NamesIn({c.new_subject, c.current_object_resource,
                         c.typed_resource, c.parent_subject, c.parent_object,
                         c.underscore_colon_bnode_name})
      BY <2>3, <3>1 DEF ContextNames, NothingNew, c
    <3>3. b \in Bnodes /\ Drawn(b, Top.bnode_count)
      BY <3>1, <3>2 DEF NamesIn, NothingNew, NamesDrawn
    <3> QED BY <3>3 DEF Drawn
  <2> QED BY <2>2, <2>3
<1>2. FreshInv /\ [Next]_vars => FreshInv'
  BY NextFresh
<1> QED BY <1>1, <1>2, InitFresh, PTL DEF Spec

-----------------------------------------------------------------------------
(* Triples without a value.                                                *)

\* @typeof, in RDFa 1.1, describes a resource.
TypeKnown(c) ==
  c.rdfa_version = RDFA_VERSION_1_1 /\ c.attrs.typeof # NULL =>
    c.typed_resource # NULL

\* The attributes of a context are those of the tag of element n.
AttributesOf(c, n) ==
  LET a   == c.attrs
      tag == tree[n].tag
  IN  /\ c.rdfa_version = tree[n].version
      /\ a.property = tag.property /\ a.content = tag.content
      /\ a.datatype = tag.datatype /\ a.typeof = tag.typeof
      /\ a.rel = tag.rel /\ a.rev = tag.rev
      /\ (a.resource = NULL) <=> (tag.resource = NULL)
      /\ (a.href = NULL) <=> (tag.href = NULL)
      /\ (a.src = NULL) <=> (tag.src = NULL)
      /\ (a.about # NULL) <=> HasAbout(n)
      /\ a.inlist => tag.inlist /\ c.rdfa_version = RDFA_VERSION_1_1

\* What the context of the open element n knows of it.
ContextTells(c, n) == AttributesOf(c, n) /\ TypeKnown(c)

\* What it knows of what is between the tags of n.
InnerTells(c, n) ==
  /\ c.inner = "markup" => HasMarkup(n)
  /\ c.inner = "text" => tree[n].tag.torn = "text" \/ c.plain_literal # NULL
  /\ c.inner = "empty" => tree[n].tag.torn = "empty" /\ c.plain_literal = NULL

\* An element has noticed its markup when nothing inside it is open.
MarkupFollows ==
  open # << >> /\ HasMarkup(open[Len(open)]) => Top.inner = "markup"

InnersTell ==
  /\ \A i \in DOMAIN open : InnerTells(stack[i + 1], open[i])
  /\ MarkupFollows

\* Text is inside elements that exist, and is still held by one of those
\* that are open around it.
TextOK == \A run \in ToSet(text) : ToSet(run.path) \subseteq Elements
TextHeld ==
  \A run \in ToSet(text), i \in DOMAIN open :
    open[i] \in ToSet(run.path) =>
      \E j \in i .. Len(open) : stack[j + 1].plain_literal # NULL

\* A list holds an item without a value only if a property element listed it.
HoldsNull(c) ==
  \E l \in c.local_list_mappings : \E i \in DOMAIN l.items : l.items[i] = NULL
NullWasListed == \E n \in Elements : EndsWithoutValue(n) /\ tree[n].tag.inlist

ContextsTell ==
  /\ \A i \in DOMAIN open : ContextTells(stack[i + 1], open[i])
  /\ \A i \in DOMAIN stack : HoldsNull(stack[i]) => NullWasListed

WholeInv ==
  /\ Inv /\ TreeOK /\ OpenOK /\ TextOK
  /\ status # "ended" => ContextsTell /\ TextHeld /\ InnersTell
  /\ TriplesAreComplete

\* Neither text nor a literal is the null pointer.
LEMMA LiteralIsSet ==
  ASSUME NEW c \in Contexts, NEW kind \in {"plain", "typed", "xml"}
  PROVE  /\ \A words \in Seq(Texts) : Literal(words, kind, c.language) # NULL
         /\ \A words \in Maybe(Seq(Texts)) :
              LiteralOrNull(c, words, kind) = NULL => words = NULL
         /\ XmlText(c) \in Seq(Texts)
<1>1. c.language \in Maybe(Languages)
  BY DEF Contexts
<1>2. ASSUME NEW words \in Seq(Texts)
      PROVE  Literal(words, kind, c.language) # NULL
  <2>1. Literal(words, kind, c.language) \in Literals
    BY <1>1 DEF Literal, Literals
  <2> QED BY <2>1, NullTextAssumption
<1>3. XmlText(c) \in Seq(Texts)
  BY LiteralTypes
<1> QED BY <1>2, <1>3 DEF LiteralOrNull, Maybe

\* When rdfa_complete_current_property_value_triples has no value to give.
LEMMA PropertyWithoutValue ==
  ASSUME NEW c \in Contexts, CurrentPropertyValue(c) = NULL
  PROVE  LET a == c.attrs
         IN  /\ a.datatype # XmlLiteral
             /\ a.content = NULL /\ c.plain_literal = NULL
             /\ a.datatype = NULL /\ a.rel = NULL /\ a.rev = NULL =>
                  /\ a.resource = NULL /\ a.href = NULL /\ a.src = NULL
                  /\ a.about # NULL \/ c.typed_resource = NULL
<1> DEFINE a     == c.attrs
           words == FirstSet(<<a.content, c.plain_literal>>)
           typed == IF a.about = NULL THEN c.typed_resource ELSE NULL
           named == FirstSet(<<a.resource, a.href, a.src, typed>>)
           resource == IF a.rel # NULL \/ a.rev # NULL THEN NULL ELSE named
<1>1. words \in Maybe(Seq(Texts))
  BY LiteralText
<1>2. words = NULL <=> a.content = NULL /\ c.plain_literal = NULL
  BY NoneOfThem
<1>3. named = NULL <=> /\ a.resource = NULL /\ a.href = NULL /\ a.src = NULL
                       /\ typed = NULL
  BY NoneOfFour
<1>4. CurrentPropertyValue(c) =
        CASE a.datatype = XmlLiteral -> Literal(XmlText(c), "xml", c.language)
          [] a.datatype \notin {NULL, XmlLiteral} ->
               LiteralOrNull(c, words, IF a.datatype = EmptyDatatype
                                       THEN "plain" ELSE "typed")
          [] a.datatype = NULL /\ a.content = NULL /\ resource # NULL -> resource
          [] OTHER -> LiteralOrNull(c, words, "plain")
  BY DEF CurrentPropertyValue
<1> HIDE DEF words, named
<1>5. /\ \A kind \in {"plain", "typed", "xml"} :
           LiteralOrNull(c, words, kind) = NULL => words = NULL
      /\ Literal(XmlText(c), "xml", c.language) # NULL
  BY <1>1, LiteralIsSet
<1>6. a.datatype # XmlLiteral
  BY <1>4, <1>5
<1> DEFINE kind == IF a.datatype = EmptyDatatype THEN "plain" ELSE "typed"
<1>7. kind \in {"plain", "typed", "xml"} /\ "plain" \in {"plain", "typed", "xml"}
  OBVIOUS
<1>8. CASE a.datatype # NULL
  <2>1. LiteralOrNull(c, words, kind) = NULL
    BY <1>4, <1>6, <1>8
  <2>2. words = NULL
    BY <1>5, <1>7, <2>1
  <2> QED BY <1>2, <1>6, <1>8, <2>2
<1>9. CASE a.datatype = NULL
  <2>1. ~(a.content = NULL /\ resource # NULL)
    BY <1>4, <1>6, <1>9
  <2>2. LiteralOrNull(c, words, "plain") = NULL
    BY <1>4, <1>6, <1>9, <2>1
  <2>3. words = NULL
    BY <1>5, <2>2
  <2>4. resource = NULL
    BY <1>2, <2>1, <2>3
  <2> QED BY <1>2, <1>3, <1>6, <2>3, <2>4
<1> QED BY <1>8, <1>9

\* When rdfa_complete_object_literal_triples has no value to give.
LEMMA ObjectWithoutValue ==
  ASSUME NEW c \in Contexts, CurrentObjectLiteral(c) = NULL
  PROVE  c.attrs.content = NULL /\ c.plain_literal = NULL
<1> DEFINE words == FirstSet(<<c.attrs.content, c.plain_literal>>)
<1>1. words \in Maybe(Seq(Texts))
  BY LiteralText
<1>2. words = NULL <=> c.attrs.content = NULL /\ c.plain_literal = NULL
  BY NoneOfThem
<1>3. CurrentObjectLiteral(c) \in
        {Literal(XmlText(c), "xml", c.language), LiteralOrNull(c, words, "plain"),
         LiteralOrNull(c, words, "typed")}
  BY DEF CurrentObjectLiteral
<1> HIDE DEF words
<1>4. /\ LiteralOrNull(c, words, "plain") = NULL => words = NULL
      /\ LiteralOrNull(c, words, "typed") = NULL => words = NULL
      /\ Literal(XmlText(c), "xml", c.language) # NULL
  BY <1>1, LiteralIsSet
<1> QED BY <1>2, <1>3, <1>4

\* An element whose @typeof counts has a resource that it describes.
LEMMA TypeIsKnown ==
  ASSUME NEW c \in Contexts, c.parent_object # NULL
  PROVE  TypeKnown(EstablishSubject(c))
<1> DEFINE a == c.attrs
           set == EstablishSubject(c)
           four == <<a.about, a.resource, a.href, a.src>>
           three == <<a.resource, a.href, a.src>>
<1>1. set.attrs = a /\ set.rdfa_version = c.rdfa_version
  BY EstablishedAttributes
<1>2. NextBnode(c) # NULL
  BY ListFields, BnodeIsResource DEF NextBnode
<1> SUFFICES ASSUME c.rdfa_version = RDFA_VERSION_1_1, a.typeof # NULL
             PROVE  set.typed_resource # NULL
  BY <1>1 DEF TypeKnown
<1>3. c.rdfa_version # RDFA_VERSION_1_0
  BY DEF RDFA_VERSION_1_0, RDFA_VERSION_1_1
<1>4. CASE a.rel # NULL \/ a.rev # NULL
  <2> DEFINE object == IF a.about = NULL /\ NoneOf(three) THEN NextBnode(c)
                       ELSE FirstSet(three)
  <2>1. set = EstablishNew11SubjectWithRelRev(c)
    BY <1>3, <1>4 DEF EstablishSubject
  <2>2. set.typed_resource = IF a.about = NULL THEN object ELSE a.about
    BY <2>1 DEF EstablishNew11SubjectWithRelRev, Contexts
  <2>3. a.about = NULL => object # NULL
    BY <1>2 DEF NoneOf
  <2> HIDE DEF object, set
  <2> QED BY <2>2, <2>3
<1>5. CASE ~(a.rel # NULL \/ a.rev # NULL)
  <2>1. set = EstablishNew11Subject(c)
    BY <1>3, <1>5 DEF EstablishSubject
  <2>2. CASE a.property # NULL /\ a.content = NULL /\ a.datatype = NULL
    <3> DEFINE type == IF NoneOf(four) THEN NextBnode(c) ELSE FirstSet(four)
    <3>1. set.typed_resource = type
      BY <2>1, <2>2 DEF EstablishNew11Subject, EstablishPropertySubject, Contexts
    <3>2. type # NULL
      BY <1>2 DEF NoneOf
    <3> QED BY <3>1, <3>2
  <2>3. CASE ~(a.property # NULL /\ a.content = NULL /\ a.datatype = NULL)
    <3>1. set = EstablishChainedSubject(c)
      BY <2>1, <2>3 DEF EstablishNew11Subject
    <3>2. set.typed_resource = set.new_subject
      BY <3>1 DEF EstablishChainedSubject, Contexts
    <3>3. set.new_subject # NULL
      BY SubjectEstablished DEF Established
    <3> QED BY <3>2, <3>3
  <2> QED BY <2>2, <2>3
<1> QED BY <1>4, <1>5

\* A triple made of three parts is complete.
LEMMA MadeComplete ==
  ASSUME NEW by, NEW s, s # NULL, NEW p, p # NULL, NEW o, o # NULL
  PROVE  Complete(Triple(by, s, p, o))
BY DEF Triple, Complete

\* The parts that triples are made of.
LEMMA PartsAreSet ==
  /\ {RdfType, RdfFirst, RdfRest, RdfNil, UsesVocabulary, RdfaContextOf}
       \cap {NULL} = {}
  /\ \A r \in Resources : r # NULL
  /\ \A p \in Iris : p # NULL
BY IriAssumption, NullAssumption, NullIsNoResource DEF Vocabulary

\* The triples of a start tag are complete, but for a prefix without an IRI.
LEMMA StartTriplesComplete ==
  ASSUME NEW new \in Contexts, NEW read, NEW tag \in Tags,
         NEW set \in Contexts, set.new_subject # NULL, TypeKnown(set)
  PROVE  \A t \in AttributeTriples(new, read, tag) \cup TypeTriples(set)
                    \cup RelRevTriples(set) :
           Complete(t) \/ (t.by = "prefix" /\ UnboundPrefix(read, tag))
<1>1. ASSUME NEW t \in AttributeTriples(new, read, tag)
      PROVE  Complete(t) \/ (t.by = "prefix" /\ UnboundPrefix(read, tag))
  <2>1. ASSUME NEW i \in 0 .. Reports(tag) - 1
        PROVE  Complete(Report("warning", new.bnode_count + 2 * i))
    <3> DEFINE m == new.bnode_count + 2 * i
    <3>1. m \in Nat /\ m + 1 \in Nat
      BY ListFields, TagTypes
    <3> HIDE DEF m
    <3>2. Bnode(m) # NULL /\ Bnode(m + 1) # NULL
      BY <3>1, BnodeIsResource
    <3>3. Complete(Report("warning", m))
      BY <3>2, PartsAreSet, MadeComplete DEF Report
    <3> QED BY <3>3 DEF m
  <2>2. tag.vocab \notin {NULL, EmptyVocabulary} =>
          Complete(Triple("vocab", new.base, UsesVocabulary, tag.vocab))
    <3>1. new.base # NULL
      BY PartsAreSet DEF Contexts
    <3> QED BY <3>1, PartsAreSet, MadeComplete
  <2> QED BY <2>1, <2>2, TripleBy DEF AttributeTriples
<1>2. ASSUME NEW t \in TypeTriples(set) PROVE Complete(t)
  <2> DEFINE types == set.attrs.typeof
             subject == IF set.rdfa_version = RDFA_VERSION_1_0
                        THEN set.new_subject ELSE set.typed_resource
  <2>1. types # NULL /\ \E i \in DOMAIN types :
          t = Triple("type", subject, RdfType, types[i])
    BY <1>2 DEF TypeTriples
  <2>2. PICK i \in DOMAIN types : t = Triple("type", subject, RdfType, types[i])
    BY <2>1
  <2>3. types \in Seq(Iris)
    BY <2>1, AttributeTypes DEF Maybe
  <2>4. types[i] # NULL
    BY <2>3, PartsAreSet
  <2>5. subject # NULL
    <3>1. set.rdfa_version \in {RDFA_VERSION_1_0, RDFA_VERSION_1_1}
      BY DEF Contexts, Versions
    <3> QED BY <2>1, <3>1 DEF TypeKnown
  <2> HIDE DEF types, subject
  <2> QED BY <2>2, <2>4, <2>5, PartsAreSet, MadeComplete
<1>3. ASSUME NEW t \in RelRevTriples(set) PROVE Complete(t)
  <2> DEFINE rels == Rels(set.attrs)
             revs == Revs(set.attrs)
             object == set.current_object_resource
  <2>1. rels \in Seq(Iris) /\ revs \in Seq(Iris)
    BY AttributeTypes DEF Rels, Revs, Maybe
  <2> HIDE DEF rels, revs
  <2>2. /\ \A i \in DOMAIN rels : rels[i] # NULL
        /\ \A i \in DOMAIN revs : revs[i] # NULL
    BY <2>1, PartsAreSet
  <2>3. object # NULL /\ t \in RelRevPairs(set)
    BY <1>3 DEF RelRevTriples
  <2>4. \/ \E i \in DOMAIN rels : t = Triple("relrev", set.new_subject, rels[i], object)
        \/ \E i \in DOMAIN revs : t = Triple("relrev", object, revs[i], set.new_subject)
    BY <2>3 DEF RelRevPairs, rels, revs
  <2> QED BY <2>2, <2>3, <2>4, MadeComplete
<1> QED BY <1>1, <1>2, <1>3

\* The relations that are completed are complete.
LEMMA HangingTriplesComplete ==
  ASSUME NEW c \in Contexts, c.new_subject # NULL
  PROVE  \A t \in HangingTriples(c) : Complete(t)
<1>1. \A i \in DOMAIN c.incomplete_triples :
        c.incomplete_triples[i] \in Incompletes
  BY DEF Contexts
<1>2. \A inc \in Incompletes : inc.pred # NULL
  BY PartsAreSet DEF Incompletes
<1>3. c.parent_subject # NULL
  BY PartsAreSet DEF Contexts
<1>4. \A inc \in Incompletes :
        /\ Complete(Triple("hanging", c.parent_subject, inc.pred, c.new_subject))
        /\ Complete(Triple("hanging", c.new_subject, inc.pred, c.parent_subject))
  BY <1>2, <1>3, MadeComplete
<1> QED BY <1>1, <1>4 DEF HangingTriples

\* The triples of a list are complete, but for the items it was given.
LEMMA ListTriplesComplete ==
  ASSUME NEW c \in Contexts, c.new_subject # NULL
  PROVE  \A t \in ListTriples(c) :
           ~Complete(t) => t.by = "first" /\ HoldsNull(c)
<1>1. Finished(c) \subseteq Lists /\ Finished(c) \subseteq c.local_list_mappings
  BY ListFields DEF Finished
<1>2. \A l \in Finished(c) :
        /\ l.key[1] # NULL /\ l.key[2] # NULL /\ l.head # NULL
        /\ l.items \in Seq(Values)
  <2>1. \A b \in Bnodes : b # NULL
    BY NullBnodeAssumption
  <2> QED BY <1>1, <2>1, PartsAreSet DEF Lists, Keys
<1>3. \A l \in Finished(c), i \in Nat : CellName(c, l, i) # NULL
  <2> TAKE l \in Finished(c), i \in Nat
  <2> DEFINE n == Cardinality({x \in Cells(c) : Earlier(x, <<l.slot, i>>)})
  <2>1. n \in Nat /\ c.bnode_count \in Nat
    BY CellsFinite, ListFields
  <2> HIDE DEF n
  <2>2. Bnode(c.bnode_count + n) # NULL
    BY <2>1, BnodeIsResource
  <2> QED BY <1>2, <2>2 DEF CellName, n
<1>4. ASSUME NEW l \in Finished(c), NEW t \in EmptyListTriples(c, l)
      PROVE  Complete(t)
  BY <1>2, <1>4, PartsAreSet, MadeComplete DEF EmptyListTriples
<1>5. ASSUME NEW l \in Finished(c), NEW t \in ChainTriples(c, l), ~Complete(t)
      PROVE  t.by = "first" /\ HoldsNull(c)
  <2> DEFINE last == Len(l.items)
             next(i) == IF i < last THEN CellName(c, l, i + 1) ELSE RdfNil
  <2>1. last \in Nat /\ DOMAIN l.items = 1 .. last
    BY <1>2
  <2> HIDE DEF last
  <2>2. \A i \in 1 .. last : i \in Nat /\ i + 1 \in Nat
    BY <2>1
  <2>3. \A i \in 1 .. last : next(i) # NULL
    BY <1>3, <2>2, PartsAreSet
  <2> HIDE DEF next
  <2>4. \A i \in 1 .. last :
          Complete(Triple("rest", CellName(c, l, i), RdfRest, next(i)))
    BY <1>3, <2>2, <2>3, PartsAreSet, MadeComplete
  <2>5. Complete(Triple("list", l.key[1], l.key[2], l.head))
    BY <1>2, MadeComplete
  <2>6. \/ t = Triple("list", l.key[1], l.key[2], l.head)
        \/ \E i \in 1 .. last :
             t = [by |-> "first", s |-> CellName(c, l, i), p |-> RdfFirst,
                  o |-> l.items[i]]
        \/ \E i \in 1 .. last :
             t = Triple("rest", CellName(c, l, i), RdfRest, next(i))
    BY DEF ChainTriples, last, next
  <2>7. PICK i \in 1 .. last :
          t = [by |-> "first", s |-> CellName(c, l, i), p |-> RdfFirst,
               o |-> l.items[i]]
    BY <1>5, <2>4, <2>5, <2>6
  <2>8. t.by = "first" /\ t.s # NULL /\ t.p # NULL /\ t.o = l.items[i]
    BY <1>3, <2>2, <2>7, PartsAreSet
  <2>9. l.items[i] = NULL
    BY <1>5, <2>8 DEF Complete
  <2>10. HoldsNull(c)
    BY <1>1, <2>1, <2>9 DEF HoldsNull
  <2> QED BY <2>8, <2>10
<1> QED BY <1>4, <1>5 DEF ListTriples

\* A list that is started holds nothing yet.
LEMMA CreatedHoldsNull ==
  ASSUME NEW c \in Contexts, NEW keys
  PROVE  HoldsNull(CreateListMappings(c, keys)) => HoldsNull(c)
<1> DEFINE d == CreateListMappings(c, keys)
           fresh == FreshKeys(c, keys)
           entry(k) ==
             [key |-> k, slot |-> c.list_slots + FreshBefore(c, keys, k),
              depth |-> c.depth,
              head |-> Bnode(c.bnode_count + FreshBefore(c, keys, k)),
              items |-> << >>]
<1>1. d.local_list_mappings = c.local_list_mappings \cup {entry(k) : k \in fresh}
  BY DEF CreateListMappings, Contexts
<1>2. \A k : entry(k).items = << >>
  OBVIOUS
<1> HIDE DEF entry, fresh, d
<1>3. \A l \in d.local_list_mappings :
        l \in c.local_list_mappings \/ l.items = << >>
  BY <1>1, <1>2
<1> QED BY <1>3 DEF HoldsNull, d

\* A list holds what it held and what it is given.
LEMMA AppendedHoldsNull ==
  ASSUME NEW c \in Contexts, NEW D \in Positions, NEW keys \in [D -> Keys],
         NEW value \in Values, value # NULL
  PROVE  HoldsNull(AppendToListMappings(c, keys, value)) => HoldsNull(c)
<1> DEFINE d == AppendToListMappings(c, keys, value)
           old == c.local_list_mappings
           given(l) == Copies(keys, l.key, value)
           entry(l) == [l EXCEPT !.items = @ \o given(l)]
<1>1. d.local_list_mappings = {entry(l) : l \in old}
  BY DEF AppendToListMappings, Contexts
<1>2. old \subseteq Lists
  BY ListFields
<1>3. \A l \in old : given(l) \in Seq({value})
  <2> TAKE l \in old
  <2> DEFINE at == {i \in DOMAIN keys : keys[i] = l.key}
  <2>1. at \in SUBSET D
    OBVIOUS
  <2>2. Cardinality(at) \in Nat
    BY <2>1, FS_Subset, FS_CardinalityType DEF Positions
  <2> HIDE DEF at
  <2>3. given(l) = [n \in 1 .. Cardinality(at) |-> value]
    BY DEF Copies, at
  <2> QED BY <2>2, <2>3
<1>4. \A l \in old : entry(l).items = l.items \o given(l) /\ l.items \in Seq(Values)
  BY <1>2 DEF Lists
<1> HIDE DEF entry, given, old, d
<1>5. ASSUME NEW l \in old, NEW i \in DOMAIN (l.items \o given(l)),
             (l.items \o given(l))[i] = NULL
      PROVE  \E j \in DOMAIN l.items : l.items[j] = NULL
  <2>1. l.items \in Seq(Values) /\ given(l) \in Seq(Values)
    <3>1. given(l) \in Seq({value})
      BY <1>3
    <3>2. given(l) \in Seq(Values)
      BY <3>1
    <3> QED BY <1>4, <3>2
  <2> DEFINE f == l.items
             g == given(l)
  <2>2. \/ \E j \in DOMAIN f : NULL = f[j]
        \/ \E j \in DOMAIN g : NULL = g[j]
    <3> HIDE DEF f, g
    <3>1. f \in Seq(Values) /\ g \in Seq(Values)
      BY <2>1 DEF f, g
    <3>2. PICK h : Joins(h, f, g, Values)
      BY <3>1 DEF Joins
    <3>3. i \in DOMAIN h /\ NULL = h[i]
      BY <1>5, <3>2 DEF f, g, Joins
    <3>4. HoldsBoth(h, f, g)
      BY ONLY <3>2, ElementsOfBoth
    <3> QED BY ONLY <3>3, <3>4 DEF HoldsBoth
  <2>3. \A j \in DOMAIN g : g[j] = value
    BY <1>3
  <2> QED BY <2>2, <2>3
<1>6. \A m \in d.local_list_mappings :
        \E l \in old : m.items = l.items \o given(l)
  BY <1>1, <1>4
<1> QED BY <1>5, <1>6 DEF HoldsNull, d, old

\* So do the lists that predicates start and add to.
LEMMA ListedHoldsNull ==
  ASSUME NEW c \in Contexts, NEW D \in Positions, NEW keys \in [D -> Keys],
         NEW value \in Values, value # NULL
  PROVE  HoldsNull(AppendToListMappings(CreateListMappings(c, keys), keys, value))
           => HoldsNull(c)
<1> DEFINE d == CreateListMappings(c, keys)
<1>1. d \in Contexts
  BY CreateListMappingsType DEF SameSubject
<1>2. HoldsNull(d) => HoldsNull(c)
  BY CreatedHoldsNull
<1> HIDE DEF d
<1>3. HoldsNull(AppendToListMappings(d, keys, value)) => HoldsNull(d)
  BY <1>1, AppendedHoldsNull
<1> QED BY <1>2, <1>3 DEF d

\* What is neither a list, a counter, an object nor a relation.
SameContent(c, e) ==
  /\ SameSubject(c, e) /\ e.typed_resource = c.typed_resource
  /\ e.plain_literal = c.plain_literal /\ e.inner = c.inner
  /\ e.language = c.language

\* Starting lists and adding to them touches none of it.
LEMMA ListsKeepContent ==
  ASSUME NEW c \in Contexts, NEW D \in Positions, NEW keys \in [D -> Keys],
         NEW value \in Values
  PROVE  LET d == CreateListMappings(c, keys)
         IN  /\ SameContent(c, d)
             /\ SameContent(c, AppendToListMappings(d, keys, value))
<1> DEFINE d == CreateListMappings(c, keys)
           e == AppendToListMappings(d, keys, value)
<1>1. SameSubject(c, d)
  BY CreateListMappingsType
<1>2. /\ d.typed_resource = c.typed_resource
      /\ d.plain_literal = c.plain_literal /\ d.inner = c.inner
      /\ d.language = c.language
  BY DEF CreateListMappings, Contexts
<1> HIDE DEF d
<1>3. d \in Contexts
  BY <1>1 DEF SameSubject
<1>4. SameSubject(d, e)
  BY <1>3, AppendToListMappingsType
<1>5. /\ e.typed_resource = d.typed_resource
      /\ e.plain_literal = d.plain_literal /\ e.inner = d.inner
      /\ e.language = d.language
  BY <1>3 DEF AppendToListMappings, Contexts
<1> HIDE DEF e
<1> QED BY <1>1, <1>2, <1>4, <1>5 DEF SameContent, SameSubject, d, e

\* Step 8 lists the object of the element, which is not null.
LEMMA OpenRelationsContent ==
  ASSUME NEW c \in Contexts, c.new_subject # NULL
  PROVE  LET e == OpenRelations(c)
         IN  SameContent(c, e) /\ (HoldsNull(e) => HoldsNull(c))
<1> DEFINE e == OpenRelations(c)
           rel == c.attrs.rel
           keys == KeysOf(c.new_subject, rel)
           D == DOMAIN rel
           d == CreateListMappings(c, keys)
<1>1. SameContent(c, c)
  BY DEF SameContent, SameSubject
<1>2. CASE ListsRel(c)
  <2>1. rel \in Seq(Iris) /\ c.new_subject \in Resources
    BY <1>2, AttributeTypes DEF ListsRel, Maybe, Contexts
  <2>2. D \in Positions /\ keys \in [D -> Keys]
    BY <2>1, KeysOfType
  <2> HIDE DEF D
  <2>3. CASE c.current_object_resource # NULL
    <3>1. e = AppendToListMappings(d, keys, ListedObject(c))
      BY <1>2, <2>3 DEF OpenRelations, EstablishNewInlistTriples
    <3>2. ListedObject(c) \in Values
      BY <2>3, ListedObjectType
    <3>3. ListedObject(c) # NULL
      <4>1. c.current_object_resource \in Resources /\ c.language \in Maybe(Languages)
        BY <2>3 DEF Contexts, Maybe
      <4> DEFINE object == [lit |-> c.current_object_resource,
               kind |-> IF c.attrs.datatype = NULL THEN "plain" ELSE "typed",
               lang |-> c.language]
      <4>2. object \in Literals
        BY <4>1 DEF Literals
      <4>3. object # NULL
        BY <4>2, NullTextAssumption
      <4> HIDE DEF object
      <4>4. ListedObject(c) \in {c.current_object_resource, object}
        BY DEF ListedObject, object
      <4> QED BY <2>3, <4>3, <4>4
    <3> HIDE DEF keys
    <3>4. SameContent(c, e)
      BY <2>2, <3>1, <3>2, ListsKeepContent
    <3>5. HoldsNull(e) => HoldsNull(c)
      BY <2>2, <3>1, <3>2, <3>3, ListedHoldsNull
    <3> QED BY <3>4, <3>5
  <2>4. CASE c.current_object_resource = NULL
    <3> DEFINE left == d.local_incomplete_triples \o
                 [i \in DOMAIN rel |->
                    [dir |-> "none", pred |-> Reresolved[rel[i]]]]
    <3>1. e = [d EXCEPT !.local_incomplete_triples = left]
      BY <1>2, <2>4 DEF OpenRelations, SaveIncompleteListTriples
    <3>2. NULL \in Values
      BY DEF Values, Maybe
    <3> HIDE DEF keys, left
    <3>3. SameContent(c, d)
      BY <2>2, <3>2, ListsKeepContent
    <3>4. HoldsNull(d) => HoldsNull(c)
      BY CreatedHoldsNull
    <3>5. SameSubject(c, e)
      BY OpenRelationsType
    <3> HIDE DEF d, e
    <3>6. d \in Contexts
      BY <3>3 DEF SameContent, SameSubject
    <3>7. /\ e.typed_resource = d.typed_resource
          /\ e.plain_literal = d.plain_literal /\ e.inner = d.inner
          /\ e.language = d.language
          /\ e.local_list_mappings = d.local_list_mappings
      BY <3>1, <3>6 DEF Contexts
    <3> QED BY <3>3, <3>4, <3>5, <3>7 DEF SameContent, HoldsNull, e
  <2> QED BY <2>3, <2>4
<1>3. CASE ~ListsRel(c)
  <2> DEFINE s == SaveIncompleteTriples(c)
  <2>1. e \in {c, s}
    BY <1>3 DEF OpenRelations
  <2>2. SameSubject(c, s)
    BY SaveIncompleteType
  <2>3. /\ s.typed_resource = c.typed_resource
        /\ s.plain_literal = c.plain_literal /\ s.inner = c.inner
        /\ s.language = c.language
        /\ s.local_list_mappings = c.local_list_mappings
    BY DEF SaveIncompleteTriples, Contexts
  <2> HIDE DEF s, e
  <2>4. SameContent(c, s) /\ (HoldsNull(s) => HoldsNull(c))
    BY <2>2, <2>3 DEF SameContent, HoldsNull
  <2> QED BY <1>1, <2>1, <2>4 DEF e
<1> QED BY <1>2, <1>3

\* @property lists its value.
LEMMA AfterPropertyContent ==
  ASSUME NEW c \in Contexts, c.new_subject # NULL
  PROVE  LET e == AfterProperty(c)
         IN  /\ SameContent(c, e)
             /\ HoldsNull(e) =>
                  \/ HoldsNull(c)
                  \/ /\ c.attrs.property # NULL /\ c.attrs.inlist
                     /\ CurrentPropertyValue(c) = NULL
<1> DEFINE e == AfterProperty(c)
           preds == c.attrs.property
           value == CurrentPropertyValue(c)
           keys == KeysOf(c.new_subject, preds)
           D == DOMAIN preds
<1>1. CASE preds = NULL \/ ~c.attrs.inlist
  <2>1. e = c
    BY <1>1 DEF AfterProperty
  <2> QED BY <2>1 DEF SameContent, SameSubject
<1>2. CASE preds # NULL /\ c.attrs.inlist
  <2>1. preds \in Seq(Iris) /\ c.new_subject \in Resources
    BY <1>2, AttributeTypes DEF Maybe, Contexts
  <2>2. D \in Positions /\ keys \in [D -> Keys]
    BY <2>1, KeysOfType
  <2>3. e = AppendToListMappings(CreateListMappings(c, keys), keys, value)
    BY <1>2 DEF AfterProperty, EstablishNewInlistTriples
  <2>4. value \in Values
    BY PropertyValueType
  <2> HIDE DEF D, keys, value
  <2>5. SameContent(c, e)
    BY <2>2, <2>3, <2>4, ListsKeepContent
  <2>6. value # NULL => (HoldsNull(e) => HoldsNull(c))
    BY <2>2, <2>3, <2>4, ListedHoldsNull
  <2> HIDE DEF e
  <2> QED BY <1>2, <2>5, <2>6 DEF e, value
<1> QED BY <1>1, <1>2

\* Relations that are completed list the subject of the element.
LEMMA AfterIncompleteHoldsNull ==
  ASSUME NEW c \in Contexts
  PROVE  /\ AfterIncomplete(c) \in Contexts
         /\ AfterIncomplete(c).new_subject = c.new_subject
         /\ HoldsNull(AfterIncomplete(c)) => HoldsNull(c)
         /\ HoldsNull(AfterLists(AfterIncomplete(c))) => HoldsNull(c)
<1> DEFINE e == AfterIncomplete(c)
<1>1. SameSubject(c, e)
  BY AfterIncompleteType
<1>2. HoldsNull(e) => HoldsNull(c)
  <2>1. CASE ~Completes(c)
    BY <2>1 DEF AfterIncomplete
  <2>2. CASE Completes(c)
    <3> DEFINE listed == {i \in DOMAIN c.incomplete_triples :
                            c.incomplete_triples[i].dir = "none"}
               keys == [i \in listed |->
                          <<c.parent_subject, c.incomplete_triples[i].pred>>]
               f == AppendToListMappings(CreateListMappings(c, keys), keys,
                                         c.new_subject)
    <3>1. /\ c.incomplete_triples \in Seq(Incompletes)
          /\ c.parent_subject \in Resources
          /\ c.new_subject # NULL /\ c.new_subject \in Values
      BY <2>2, SubjectsAreValues DEF Contexts, Completes
    <3>2. listed \in Positions
      BY <3>1, SequencePositions
    <3>3. keys \in [listed -> Keys]
      <4>1. \A i \in DOMAIN c.incomplete_triples :
              c.incomplete_triples[i] \in Incompletes
        BY <3>1
      <4>2. \A inc \in Incompletes : inc.pred \in Iris
        BY DEF Incompletes
      <4>3. \A i \in listed :
              <<c.parent_subject, c.incomplete_triples[i].pred>> \in Keys
        BY <3>1, <4>1, <4>2 DEF Keys
      <4> QED BY <4>3
    <3>4. e = [f EXCEPT !.incomplete_triples = << >>]
      BY <2>2 DEF AfterIncomplete, CompleteIncompleteTriples
    <3> HIDE DEF listed, keys, e
    <3>5. HoldsNull(f) => HoldsNull(c)
      BY <3>1, <3>2, <3>3, ListedHoldsNull
    <3>6. f \in Contexts
      BY <3>1, <3>2, <3>3, ListsKeepContent DEF SameContent, SameSubject
    <3> HIDE DEF f
    <3>7. e.local_list_mappings = f.local_list_mappings
      BY <3>4, <3>6 DEF Contexts
    <3> QED BY <3>5, <3>7 DEF HoldsNull
  <2> QED BY <2>1, <2>2
<1> HIDE DEF e
<1>3. AfterLists(e).local_list_mappings \subseteq e.local_list_mappings
  BY <1>1 DEF AfterLists, SameSubject, Contexts
<1>4. HoldsNull(AfterLists(e)) => HoldsNull(e)
  BY <1>3 DEF HoldsNull
<1> QED BY <1>1, <1>2, <1>4 DEF SameSubject, e

\* What a parent takes back: text, markup and lists.
LEMMA ReturnToContent ==
  ASSUME NEW parent \in Contexts, NEW c \in Contexts
  PROVE  LET back == ReturnTo(parent, c)
         IN  /\ SameSubject(parent, back)
             /\ back.typed_resource = parent.typed_resource
             /\ back.language = parent.language /\ back.inner = "markup"
             /\ back.plain_literal =
                  Appended(parent.plain_literal, c.plain_literal)
             /\ parent.plain_literal # NULL \/ c.plain_literal # NULL =>
                  back.plain_literal # NULL
             /\ HoldsNull(back) => HoldsNull(parent) \/ HoldsNull(c)
<1> DEFINE back == ReturnTo(parent, c)
           done == AfterLists(AfterIncomplete(c))
           words == Appended(parent.plain_literal, c.plain_literal)
<1>1. SameSubject(parent, back)
  BY ReturnToType
<1>2. HoldsNull(done) => HoldsNull(c)
  BY AfterIncompleteHoldsNull
<1> HIDE DEF done
<1>3. /\ back.typed_resource = parent.typed_resource
      /\ back.plain_literal = words
      /\ back.language = parent.language /\ back.inner = "markup"
      /\ back.local_list_mappings \in
           {parent.local_list_mappings, done.local_list_mappings}
  BY DEF ReturnTo, ListsReturned, NamesReturned, TextReturned, Contexts, done
<1>4. parent.plain_literal # NULL \/ c.plain_literal # NULL => words # NULL
  <2>1. /\ parent.plain_literal \in Maybe(Seq(Texts))
        /\ c.plain_literal \in Maybe(Seq(Texts))
    BY DEF Contexts
  <2>2. ASSUME parent.plain_literal # NULL, c.plain_literal # NULL
        PROVE  parent.plain_literal \o c.plain_literal # NULL
    <3>1. /\ parent.plain_literal \in Seq(Texts) /\ c.plain_literal \in Seq(Texts)
      BY <2>1, <2>2 DEF Maybe
    <3>2. parent.plain_literal \o c.plain_literal \in Seq(Texts)
      BY <3>1
    <3> QED BY <3>2, NullTextAssumption
  <2> QED BY <2>2 DEF Appended
<1> HIDE DEF back
<1> QED BY <1>1, <1>2, <1>3, <1>4 DEF HoldsNull, back

\* Closing the literal of an element gives it a literal or finds something.
LEMMA CloseLiteralContent ==
  ASSUME NEW c \in Contexts, c.inner = "empty" => c.plain_literal = NULL
  PROVE  LET e == CloseLiteral(c)
         IN  /\ SameSubject(c, e) /\ e.typed_resource = c.typed_resource
             /\ e.inner = c.inner /\ e.language = c.language
             /\ XmlText(e) = XmlText(c)
             /\ HoldsNull(e) <=> HoldsNull(c)
             /\ c.plain_literal # NULL => e.plain_literal # NULL
             /\ e.attrs.property # NULL /\ e.plain_literal = NULL =>
                  e.inner # "empty"
<1> DEFINE e == CloseLiteral(c)
           d == [c EXCEPT !.plain_literal = << >>]
<1>1. SameSubject(c, e)
  BY CloseLiteralType
<1>2. << >> # NULL
  <2>1. << >> \in Seq(Texts)
    OBVIOUS
  <2> QED BY <2>1, NullTextAssumption
<1>3. /\ d.typed_resource = c.typed_resource /\ d.inner = c.inner
      /\ d.language = c.language /\ d.local_list_mappings = c.local_list_mappings
      /\ d.plain_literal = << >> /\ d.attrs = c.attrs
  BY DEF Contexts
<1>4. e = IF c.attrs.property # NULL /\ c.inner = "empty" THEN d ELSE c
  BY DEF CloseLiteral
<1> HIDE DEF d, e
<1> QED BY <1>1, <1>2, <1>3, <1>4 DEF HoldsNull, XmlText, e

\* The context that a start tag leaves tells of its tag.
LEMMA StartedContent ==
  ASSUME NEW parent \in Contexts, NEW tag \in Tags,
         InheritedObject(parent) # NULL
  PROVE  LET new  == NewElementContext(parent)
             read == ReadAttributes(new, tag)
             set  == EstablishSubject(read)
             c    == OpenRelations(set)
             a    == c.attrs
         IN  /\ new \in Contexts
             /\ set \in Contexts /\ set.new_subject # NULL /\ TypeKnown(set)
             /\ c \in Contexts /\ TypeKnown(c)
             /\ c.rdfa_version = read.rdfa_version
             /\ c.plain_literal = NULL /\ c.inner = tag.torn
             /\ c.language = UpdatedLanguage(parent.language, tag.lang)
             /\ HoldsNull(c) => HoldsNull(parent)
             /\ a.property = tag.property /\ a.content = tag.content
             /\ a.datatype = tag.datatype /\ a.typeof = tag.typeof
             /\ a.rel = tag.rel /\ a.rev = tag.rev
             /\ (a.resource = NULL) <=> (tag.resource = NULL)
             /\ (a.href = NULL) <=> (tag.href = NULL)
             /\ (a.src = NULL) <=> (tag.src = NULL)
             /\ (a.about # NULL) <=>
                  AboutGiven(tag, c.host_language, parent.depth + 1)
             /\ a.inlist => tag.inlist /\ c.rdfa_version = RDFA_VERSION_1_1
<1> DEFINE new  == NewElementContext(parent)
           read == ReadAttributes(new, tag)
           set  == EstablishSubject(read)
           c    == OpenRelations(set)
<1>1. /\ new \in Contexts /\ new.parent_object # NULL
      /\ new.depth = parent.depth + 1
      /\ new.plain_literal = NULL
      /\ new.language = parent.language
      /\ new.local_list_mappings = parent.local_list_mappings
  BY NewElementContextType DEF NewElementContext
<1> HIDE DEF new
<1>2. /\ read \in Contexts /\ read.parent_object # NULL
      /\ read.host_language = new.host_language
  BY <1>1, ReadAttributesType, AttributesOfTag
<1>3. /\ read.plain_literal = NULL /\ read.inner = tag.torn
      /\ read.language = UpdatedLanguage(parent.language, tag.lang)
  <2>1. /\ read.plain_literal = new.plain_literal /\ read.inner = tag.torn
        /\ read.language = UpdatedLanguage(new.language, tag.lang)
    BY <1>1 DEF ReadAttributes, Contexts
  <2> QED BY <1>1, <2>1
<1>4. /\ read.attrs.property = tag.property
      /\ read.attrs.content = tag.content
      /\ read.attrs.datatype = tag.datatype /\ read.attrs.typeof = tag.typeof
      /\ read.attrs.rel = tag.rel /\ read.attrs.rev = tag.rev
      /\ (read.attrs.resource = NULL) <=> (tag.resource = NULL)
      /\ (read.attrs.href = NULL) <=> (tag.href = NULL)
      /\ (read.attrs.src = NULL) <=> (tag.src = NULL)
      /\ (read.attrs.about # NULL) <=>
           AboutGiven(tag, new.host_language, parent.depth + 1)
      /\ read.attrs.inlist =>
           tag.inlist /\ read.rdfa_version = RDFA_VERSION_1_1
  BY <1>1, AttributesOfTag
<1>5. set.local_list_mappings = new.local_list_mappings
  BY <1>1, StartKeepsLists
<1> HIDE DEF read
<1>6. /\ set \in Contexts /\ set.new_subject # NULL /\ TypeKnown(set)
  BY <1>2, SubjectEstablished, TypeIsKnown DEF Established
<1>7. /\ set.attrs = read.attrs /\ set.rdfa_version = read.rdfa_version
      /\ set.host_language = read.host_language
  BY <1>2, EstablishedAttributes
<1>8. /\ set.plain_literal = NULL /\ set.inner = tag.torn
      /\ set.language = read.language
  <2>1. /\ set.plain_literal = read.plain_literal /\ set.inner = read.inner
        /\ set.language = read.language
    BY <1>2 DEF Contexts, EstablishSubject, EstablishNew11Subject,
       EstablishNew10Subject, EstablishPropertySubject,
       EstablishChainedSubject, EstablishNew10SubjectWithRelRev,
       EstablishNew11SubjectWithRelRev
  <2> QED BY <1>3, <2>1
<1> HIDE DEF set
<1>9. SameContent(set, c) /\ (HoldsNull(c) => HoldsNull(set))
  BY <1>6, OpenRelationsContent
<1> HIDE DEF c
<1>10. HoldsNull(c) => HoldsNull(parent)
  BY <1>1, <1>5, <1>9 DEF HoldsNull
<1>11. /\ c \in Contexts /\ c.attrs = set.attrs
       /\ c.rdfa_version = set.rdfa_version
       /\ c.host_language = set.host_language
       /\ c.plain_literal = NULL /\ c.inner = tag.torn
       /\ c.language = UpdatedLanguage(parent.language, tag.lang)
  BY <1>3, <1>8, <1>9 DEF SameContent, SameSubject
<1>12. TypeKnown(c)
  BY <1>6, <1>9 DEF SameContent, SameSubject, TypeKnown
<1>13. /\ c.attrs = read.attrs /\ c.host_language = new.host_language
       /\ c.rdfa_version = read.rdfa_version
  BY <1>2, <1>7, <1>11
<1> QED
  BY <1>1, <1>4, <1>6, <1>10, <1>11, <1>12, <1>13 DEF c, set, read, new

\* The members of a sequence that grows.
LEMMA ToSetAppend ==
  ASSUME NEW S, NEW s \in Seq(S), NEW x \in S
  PROVE  ToSet(Append(s, x)) = ToSet(s) \cup {x}
<1> DEFINE t == Append(s, x)
<1>1. /\ DOMAIN t = 1 .. Len(s) + 1 /\ t[Len(s) + 1] = x
      /\ \A i \in 1 .. Len(s) : t[i] = s[i]
      /\ DOMAIN s = 1 .. Len(s) /\ Len(s) \in Nat
  OBVIOUS
<1> HIDE DEF t
<1>2. \A i \in 1 .. Len(s) + 1 : i \in 1 .. Len(s) \/ i = Len(s) + 1
  BY <1>1
<1>3. /\ \A i \in 1 .. Len(s) : i \in 1 .. Len(s) + 1
      /\ Len(s) + 1 \in 1 .. Len(s) + 1
  BY <1>1
<1> QED BY <1>1, <1>2, <1>3 DEF ToSet, t

\* What is said of a closed element stays true.
LEMMA StaysWithoutValue ==
  ASSUME NEW n, EndsWithoutValue(n), n \in Closed', tree'[n] = tree[n],
         Below(n)' = Below(n),
         \A run \in ToSet(text') : run \in ToSet(text) \/ n \notin ToSet(run.path)
  PROVE  EndsWithoutValue(n)'
<1>1. RunsWithin(n) = {}
  BY DEF EndsWithoutValue
<1>2. RunsWithin(n)' = {}
  BY <1>1 DEF RunsWithin
<1> QED BY <1>1, <1>2 DEF EndsWithoutValue, HasAbout, Unset

\* A prefix of the tag of element n has no IRI.
PrefixUnbound(n) ==
  n \in Elements /\ tree[n].tag.unbound /\ tree[n].version = RDFA_VERSION_1_1

\* Nothing is said of an element that does not end without a value.
LEMMA CompleteStays ==
  ASSUME TriplesAreComplete, NEW id, NEW T, graph' = graph \cup Sent(id, T),
         \A n : EndsWithoutValue(n) => EndsWithoutValue(n)',
         NullWasListed => NullWasListed',
         \A n : PrefixUnbound(n) => PrefixUnbound(n)',
         \A t \in T : ~Complete(t) =>
           \/ t.by = "property" /\ EndsWithoutValue(id)'
           \/ t.by = "first" /\ NullWasListed'
           \/ t.by = "prefix" /\ PrefixUnbound(id)'
  PROVE  TriplesAreComplete'
<1>1. \A e \in graph' : e \in graph \/ (e.at = id /\ e.t \in T)
  BY DEF Sent
<1>2. NullWasListed <=> \E n \in Elements : EndsWithoutValue(n) /\ tree[n].tag.inlist
  BY DEF NullWasListed
<1>3. NullWasListed' <=> \E n \in Elements' : EndsWithoutValue(n)' /\ tree'[n].tag.inlist
  BY DEF NullWasListed
<1>4. ASSUME NEW e \in graph', ~Complete(e.t)
      PROVE  \/ e.t.by = "property" /\ EndsWithoutValue(e.at)'
             \/ e.t.by = "first" /\ NullWasListed'
             \/ e.t.by = "prefix" /\ PrefixUnbound(e.at)'
  <2>1. CASE e \in graph
    <3>1. \/ e.t.by = "property" /\ EndsWithoutValue(e.at)
          \/ e.t.by = "first" /\ NullWasListed
          \/ e.t.by = "prefix" /\ PrefixUnbound(e.at)
      BY <1>2, <1>4, <2>1 DEF TriplesAreComplete, PrefixUnbound
    <3> QED BY <3>1
  <2>2. CASE e.at = id /\ e.t \in T
    BY <1>4, <2>2
  <2> QED BY <1>1, <2>1, <2>2
<1>5. \A e \in graph' : ~Complete(e.t) =>
        \/ e.t.by = "property" /\ EndsWithoutValue(e.at)'
        \/ e.t.by = "first" /\ NullWasListed'
        \/ e.t.by = "prefix" /\ PrefixUnbound(e.at)'
  BY <1>4
<1> QED BY <1>3, <1>5 DEF TriplesAreComplete, Complete, PrefixUnbound

\* A new element is below the open ones.
LEMMA BelowNew ==
  ASSUME tree \in Seq(Nodes), open \in Seq(Nat), NEW node \in Nodes,
         NEW id \in Nat, id = Len(tree) + 1, node.path = Append(open, id),
         tree' = Append(tree, node), NEW n
  PROVE  Below(n)' = Below(n) \cup
           (IF n \in ToSet(open) \/ n = id THEN {id} ELSE {})
<1>1. /\ Elements = 1 .. Len(tree) /\ Elements' = 1 .. Len(tree) + 1
      /\ Len(tree) \in Nat /\ tree'[id] = node
      /\ \A m \in 1 .. Len(tree) : tree'[m] = tree[m]
  BY DEF Elements
<1>2. \A m : m \in Elements' <=> m \in Elements \/ m = id
  BY <1>1
<1>3. id \notin Elements /\ \A m \in Elements : tree'[m] = tree[m]
  BY <1>1
<1>4. ToSet(node.path) = ToSet(open) \cup {id}
  BY ToSetAppend
<1>5. \A m : m \in Below(n)' <=> m \in Elements' /\ n \in ToSet(tree'[m].path)
  BY DEF Below
<1>6. \A m : m \in Below(n) <=> m \in Elements /\ n \in ToSet(tree[m].path)
  BY DEF Below
<1> QED BY <1>1, <1>2, <1>3, <1>4, <1>5, <1>6

\* Markup that is inside an element stays inside it.
LEMMA MarkupStays ==
  ASSUME NEW n, HasMarkup(n), tree'[n] = tree[n],
         Below(n) # {n} => Below(n)' # {n},
         \A run \in ToSet(text) : run \in ToSet(text')
  PROVE  HasMarkup(n)'
<1>1. \A run \in RunsWithin(n) : run \in RunsWithin(n)'
  BY DEF RunsWithin
<1> QED BY <1>1 DEF HasMarkup

\* Nothing new is inside an element that is as it was.
LEMMA MarkupSame ==
  ASSUME NEW n, tree'[n] = tree[n], Below(n)' = Below(n),
         \A run \in ToSet(text) : run \in ToSet(text'),
         \A run \in ToSet(text') : run \in ToSet(text) \/ n \notin ToSet(run.path)
  PROVE  HasMarkup(n)' <=> HasMarkup(n)
<1>1. \A run : run \in RunsWithin(n)' <=> run \in RunsWithin(n)
  BY DEF RunsWithin
<1> QED BY <1>1 DEF HasMarkup

\* Contexts that keep what they hold keep what they tell of it.
LEMMA InnersKept ==
  ASSUME InnersTell, UNCHANGED <<open, tree, text>>,
         open \in Seq(Nat), Len(stack) = Len(open) + 1, Len(stack') = Len(stack),
         \A i \in 1 .. Len(stack) :
           /\ stack'[i].inner = stack[i].inner
           /\ stack'[i].plain_literal = stack[i].plain_literal
  PROVE  InnersTell'
<1>1. /\ \A i \in DOMAIN open : i + 1 \in 1 .. Len(stack)
      /\ Len(stack) \in 1 .. Len(stack)
  OBVIOUS
<1>2. \A n : HasMarkup(n)' <=> HasMarkup(n)
  BY DEF HasMarkup, RunsWithin, Below, Elements
<1>3. ASSUME NEW i \in DOMAIN open'
      PROVE  InnerTells(stack[i + 1], open[i])'
  <2>1. PICK n, c, d : n = open[i] /\ c = stack[i + 1] /\ d = stack'[i + 1]
    OBVIOUS
  <2>2. InnerTells(c, n) /\ d.inner = c.inner /\ d.plain_literal = c.plain_literal
    BY <1>1, <1>3, <2>1 DEF InnersTell
  <2>3. InnerTells(d, n)'
    BY <1>2, <2>2 DEF InnerTells
  <2> QED BY <2>1, <2>3
<1>4. MarkupFollows'
  <2>1. PICK n : n = open[Len(open)]
    OBVIOUS
  <2>2. Top'.inner = Top.inner
    BY <1>1 DEF Top
  <2> QED BY <1>2, <2>1, <2>2 DEF InnersTell, MarkupFollows
<1> QED BY <1>3, <1>4 DEF InnersTell

\* character_data: the text is inside every open element, and the innermost
\* one notices what it is.
LEMMA TextInners ==
  ASSUME InnersTell, OpenOK, UNCHANGED <<open, tree>>,
         open \in Seq(Nat), Len(stack) = Len(open) + 1,
         NEW t, NEW c, NEW run, c.inner = InnerWithText(Top.inner, t),
         c.plain_literal # NULL, run.path = open, run.text = t,
         run \in ToSet(text'), \A r \in ToSet(text) : r \in ToSet(text'),
         \A r \in ToSet(text') : r \in ToSet(text) \/ r = run,
         DOMAIN stack' = DOMAIN stack, Len(stack') = Len(stack),
         \A i \in DOMAIN stack :
           stack'[i] = IF i = Len(stack) THEN c ELSE stack[i]
  PROVE  InnersTell'
<1>1. /\ \A i \in DOMAIN open : i + 1 \in DOMAIN stack /\ open[i] \in ToSet(open)
      /\ Len(stack) \in DOMAIN stack /\ Len(open) \in Nat
  BY DEF ToSet
<1>2. ASSUME NEW n PROVE Below(n)' = Below(n) /\ tree'[n] = tree[n]
  BY DEF Below, Elements
<1>3. ASSUME NEW n, HasMarkup(n) PROVE HasMarkup(n)'
  BY <1>2, <1>3, MarkupStays
<1>4. ASSUME NEW n, n \in ToSet(open), t \in MarkupTexts PROVE HasMarkup(n)'
  BY <1>4 DEF HasMarkup, RunsWithin
<1>5. ASSUME NEW n, HasMarkup(n)', t \notin MarkupTexts PROVE HasMarkup(n)
  <2>1. \A r \in RunsWithin(n)' : r \in RunsWithin(n) \/ r.text \notin MarkupTexts
    BY <1>5 DEF RunsWithin
  <2> QED BY <1>2, <1>5, <2>1 DEF HasMarkup
<1>6. Top'.inner = InnerWithText(Top.inner, t)
  BY <1>1 DEF Top
<1>7. ASSUME NEW i \in DOMAIN open'
      PROVE  InnerTells(stack[i + 1], open[i])'
  <2>1. PICK n, d, e : n = open[i] /\ d = stack[i + 1] /\ e = stack'[i + 1]
    OBVIOUS
  <2>2. InnerTells(d, n) /\ n \in ToSet(open) /\ i + 1 \in DOMAIN stack
    BY <1>1, <1>7, <2>1 DEF InnersTell
  <2>3. CASE i + 1 = Len(stack)
    <3>1. e = c /\ d = Top
      BY <2>1, <2>2, <2>3 DEF Top
    <3>2. InnerTells(e, n)'
      BY <1>2, <1>3, <1>4, <2>2, <3>1 DEF InnerTells, InnerWithText
    <3> QED BY <2>1, <3>2
  <2>4. CASE i + 1 # Len(stack)
    <3>1. e = d
      BY <2>1, <2>2, <2>4
    <3>2. InnerTells(e, n)'
      BY <1>2, <1>3, <2>2, <3>1 DEF InnerTells
    <3> QED BY <2>1, <3>2
  <2> QED BY <2>3, <2>4
<1>8. MarkupFollows'
  <2>1. PICK n : n = open[Len(open)]
    OBVIOUS
  <2>2. open # << >> /\ HasMarkup(n) => Top.inner = "markup"
    BY <2>1 DEF InnersTell, MarkupFollows
  <2>3. open' # << >> /\ HasMarkup(n)' => Top'.inner = "markup"
    BY <1>5, <1>6, <2>2 DEF InnerWithText
  <2> QED BY <2>1, <2>3 DEF MarkupFollows
<1> QED BY <1>7, <1>8 DEF InnersTell

\* start_element: the new element has what its torn tag leaves.
LEMMA StartInners ==
  ASSUME InnersTell, TreeOK, TextOK, OpenOK,
         tree \in Seq(Nodes), open \in Seq(Nat), stack \in Seq(Contexts),
         Len(stack) = Len(open) + 1,
         NEW id \in Nat, id = Len(tree) + 1, NEW node \in Nodes,
         node.path = Append(open, id), tree' = Append(tree, node),
         open' = Append(open, id), text' = text,
         NEW c \in Contexts, stack' = Append(stack, c),
         c.inner = node.tag.torn, c.plain_literal = NULL
  PROVE  InnersTell'
<1>1. /\ tree'[id] = node /\ id \notin Elements
      /\ \A n \in Elements : tree'[n] = tree[n] /\ n \in Nat /\ n # id
  BY DEF Elements
<1>2. \A n : Below(n)' = Below(n) \cup
               (IF n \in ToSet(open) \/ n = id THEN {id} ELSE {})
  BY BelowNew
<1>3. Below(id)' = {id}
  <2>1. \A m \in Elements : id \notin ToSet(tree[m].path)
    <3> SUFFICES ASSUME NEW m \in Elements, id \in ToSet(tree[m].path)
                 PROVE  FALSE
      OBVIOUS
    <3>1. PICK i \in DOMAIN tree[m].path : id = tree[m].path[i]
      BY DEF ToSet
    <3>2. id \in 1 .. m
      BY <3>1 DEF TreeOK
    <3> QED BY <3>2 DEF Elements
  <2>2. Below(id) = {}
    BY <2>1 DEF Below
  <2> QED BY <1>2, <2>2
<1>4. RunsWithin(id)' = {}
  BY <1>1 DEF RunsWithin, TextOK
<1>5. HasMarkup(id)' <=> c.inner = "markup"
  BY <1>1, <1>3, <1>4 DEF HasMarkup
<1>6. /\ DOMAIN open' = 1 .. Len(open) + 1 /\ Len(open') = Len(open) + 1
      /\ open'[Len(open) + 1] = id
      /\ \A i \in 1 .. Len(open) : open'[i] = open[i] /\ open[i] \in Elements
      /\ DOMAIN open = 1 .. Len(open) /\ Len(open) \in Nat
      /\ stack'[Len(open) + 1 + 1] = c /\ Len(stack') = Len(open) + 1 + 1
      /\ \A i \in 1 .. Len(open) : stack'[i + 1] = stack[i + 1]
  <2>1. \A i \in DOMAIN open : open[i] \in Elements
    BY DEF OpenOK
  <2> QED BY <2>1
<1>7. \A i \in 1 .. Len(open) + 1 : i \in 1 .. Len(open) \/ i = Len(open) + 1
  BY <1>6
<1>8. ASSUME NEW i \in 1 .. Len(open)
      PROVE  InnerTells(stack[i + 1], open[i])'
  <2>1. PICK n, d : n = open[i] /\ d = stack[i + 1]
    OBVIOUS
  <2>2. InnerTells(d, n) /\ n \in Elements
    BY <1>6, <2>1 DEF InnersTell
  <2>3. tree'[n] = tree[n] /\ n # id
    BY <1>1, <2>2
  <2>4. Below(n) # {n} => Below(n)' # {n}
    BY <1>2, <2>3
  <2>5. HasMarkup(n) => HasMarkup(n)'
    BY <2>3, <2>4, MarkupStays
  <2>6. InnerTells(d, n)'
    BY <2>2, <2>3, <2>5 DEF InnerTells
  <2> QED BY <1>6, <2>1, <2>6
<1>9. InnerTells(c, id)'
  <2>1. c.inner \in Inners
    BY DEF Contexts
  <2> QED BY <1>1, <1>5, <2>1 DEF InnerTells, Inners
<1>10. \A i \in DOMAIN open' : InnerTells(stack[i + 1], open[i])'
  BY <1>6, <1>7, <1>8, <1>9
<1>11. MarkupFollows'
  BY <1>5, <1>6 DEF MarkupFollows, Top
<1> QED BY <1>10, <1>11 DEF InnersTell

\* start_element: the new context tells of the new element.
LEMMA StartElementWhole ==
  ASSUME WholeInv, NEW tag \in Tags, StartElement(tag)
  PROVE  WholeInv'
<1> DEFINE new  == NewElementContext(Top)
           read == ReadAttributes(new, tag)
           set  == EstablishSubject(read)
           e    == OpenRelations(set)
           node == [tag |-> tag, path |-> Append(open, Len(tree) + 1),
                    version |-> e.rdfa_version, host |-> e.host_language,
                    subject |-> e.new_subject,
                    object |-> e.current_object_resource]
           sent == AttributeTriples(new, read, tag)
                   \cup TypeTriples(set) \cup RelRevTriples(set)
<1>1. /\ Inv /\ Inv' /\ status = "parsing" /\ ContextsTell /\ TextHeld
      /\ InnersTell
      /\ TreeOK /\ OpenOK /\ TextOK /\ TriplesAreComplete
      /\ tree \in Seq(Nodes) /\ open \in Seq(Nat) /\ stack \in Seq(Contexts)
      /\ Len(stack) = Len(open) + 1
      /\ Top \in Contexts /\ InheritedObject(Top) # NULL
      /\ Top.depth = Len(open)
  BY StartElementInv, InvStack
  DEF WholeInv, StartElement, StackOK, Inv, TypeOK
<1>2. PICK id \in Nat : id = Len(tree) + 1
  BY <1>1
<1>3. PICK c : c = e
  OBVIOUS
<1>4. /\ stack' = Append(stack, e) /\ tree' = Append(tree, node)
      /\ open' = Append(open, Len(tree) + 1)
      /\ graph' = graph \cup Sent(Len(tree) + 1, sent)
      /\ status' = status /\ text' = text
  BY DEF StartElement
<1>5. id = 1 <=> Top.depth + 1 = 1
  <2>1. Len(stack) = 1 => tree = << >>
    BY DEF StartElement
  <2>2. open # << >> => open[1] \in 1 .. Len(tree)
    <3>1. open # << >> => 1 \in DOMAIN open
      BY <1>1
    <3> QED BY <1>1, <3>1 DEF OpenOK, Elements
  <2> QED BY <1>1, <1>2, <2>1, <2>2
<1>6. /\ c \in Contexts /\ TypeKnown(c)
      /\ c.plain_literal = NULL /\ c.inner = tag.torn
      /\ HoldsNull(c) => HoldsNull(Top)
      /\ c.attrs.property = tag.property /\ c.attrs.content = tag.content
      /\ c.attrs.datatype = tag.datatype /\ c.attrs.typeof = tag.typeof
      /\ c.attrs.rel = tag.rel /\ c.attrs.rev = tag.rev
      /\ (c.attrs.resource = NULL) <=> (tag.resource = NULL)
      /\ (c.attrs.href = NULL) <=> (tag.href = NULL)
      /\ (c.attrs.src = NULL) <=> (tag.src = NULL)
      /\ (c.attrs.about # NULL) <=>
           AboutGiven(tag, c.host_language, Top.depth + 1)
      /\ c.attrs.inlist => tag.inlist /\ c.rdfa_version = RDFA_VERSION_1_1
  BY <1>1, <1>3, StartedContent
<1>7. \A t \in sent :
        \/ Complete(t)
        \/ /\ t.by = "prefix" /\ tag.unbound
           /\ c.rdfa_version = RDFA_VERSION_1_1
  <2>1. /\ new \in Contexts /\ set \in Contexts /\ set.new_subject # NULL
        /\ TypeKnown(set) /\ c.rdfa_version = read.rdfa_version
    BY <1>1, <1>3, StartedContent
  <2> HIDE DEF new, read, set, e
  <2> QED BY <2>1, StartTriplesComplete DEF UnboundPrefix
<1>8. node \in Nodes
  BY <1>1, <1>3, <1>6 DEF Nodes, Contexts
<1>9. /\ node.tag = tag /\ node.path = Append(open, id)
      /\ node.version = c.rdfa_version /\ node.host = c.host_language
  BY <1>2, <1>3
<1>10. stack' = Append(stack, c) /\ open' = Append(open, id)
       /\ graph' = graph \cup Sent(id, sent) /\ tree' = Append(tree, node)
  BY <1>2, <1>3, <1>4
<1> HIDE DEF sent, node, e
<1>11. TreeOK' /\ OpenOK' /\ Closed' = Closed
  BY <1>1, <1>2, <1>8, <1>9, <1>10, StartNesting
<1>12. \A n : Below(n)' = Below(n) \cup
                (IF n \in ToSet(open) \/ n = id THEN {id} ELSE {})
  BY <1>1, <1>2, <1>8, <1>9, <1>10, BelowNew
<1>13. /\ tree'[id] = node /\ id \notin Elements
       /\ \A n \in Elements : tree'[n] = tree[n] /\ n \in Elements'
  BY <1>1, <1>2, <1>10 DEF Elements
<1>14. ASSUME NEW n, EndsWithoutValue(n)
       PROVE  EndsWithoutValue(n)'
  <2>1. n \in Closed /\ n \in Elements /\ n \notin ToSet(open) /\ n # id
    BY <1>13, <1>14 DEF EndsWithoutValue, Closed
  <2>2. Below(n)' = Below(n)
    BY <1>12, <2>1
  <2>3. \A run \in ToSet(text') : run \in ToSet(text)
    BY <1>4
  <2> QED BY <1>11, <1>13, <1>14, <2>1, <2>2, <2>3, StaysWithoutValue
<1>15. NullWasListed => NullWasListed'
  <2>1. \A n \in Elements : n \in Elements' /\ tree'[n] = tree[n]
    BY <1>13
  <2> QED BY <1>14, <2>1 DEF NullWasListed
<1>16. TriplesAreComplete'
  <2>1. \A n : PrefixUnbound(n) => PrefixUnbound(n)'
    BY <1>13 DEF PrefixUnbound
  <2>2. id \in Elements'
    BY <1>1, <1>2, <1>10 DEF Elements
  <2>3. \A t \in sent : ~Complete(t) => t.by = "prefix" /\ PrefixUnbound(id)'
    BY <1>7, <1>9, <1>13, <2>2 DEF PrefixUnbound
  <2> QED BY <1>1, <1>10, <1>14, <1>15, <2>1, <2>3, CompleteStays
<1>17. TextOK'
  BY <1>1, <1>4, <1>13 DEF TextOK
<1>18. /\ DOMAIN open' = 1 .. Len(open) + 1 /\ Len(open') = Len(open) + 1
       /\ open'[Len(open) + 1] = id
       /\ \A i \in 1 .. Len(open) : open'[i] = open[i] /\ open[i] \in Elements
       /\ DOMAIN open = 1 .. Len(open) /\ Len(open) \in Nat
       /\ stack'[Len(open) + 1 + 1] = c
       /\ \A i \in 1 .. Len(open) : stack'[i + 1] = stack[i + 1]
  <2>1. \A i \in DOMAIN open : open[i] \in Elements
    BY <1>1 DEF OpenOK
  <2> QED BY <1>1, <1>6, <1>10, <2>1
<1>19. \A i \in 1 .. Len(open) + 1 : i \in 1 .. Len(open) \/ i = Len(open) + 1
  BY <1>18
<1>20. ContextsTell'
  <2>1. ASSUME NEW i \in 1 .. Len(open)
        PROVE  ContextTells(stack[i + 1], open[i])'
    <3> DEFINE d == stack[i + 1]
               n == open[i]
    <3>1. ContextTells(d, n) /\ n \in Elements /\ n # id
      BY <1>1, <1>13, <1>18 DEF ContextsTell
    <3>2. stack'[i + 1] = d /\ open'[i] = n
      BY <1>18
    <3>3. PICK D, N : D = d /\ N = n
      OBVIOUS
    <3>4. AttributesOf(D, N)'
      BY <1>13, <3>1, <3>3 DEF ContextTells, AttributesOf, HasAbout, Unset
    <3>5. ContextTells(D, N)'
      BY <3>1, <3>3, <3>4 DEF ContextTells
    <3> QED BY <3>2, <3>3, <3>5
  <2>2. ContextTells(c, id)'
    <3>1. AttributesOf(c, id)'
      BY <1>5, <1>6, <1>9, <1>13 DEF AttributesOf, HasAbout, AboutGiven, Unset
    <3> QED BY <1>6, <3>1 DEF ContextTells
  <2>3. \A i \in DOMAIN open' : ContextTells(stack[i + 1], open[i])'
    BY <1>18, <1>19, <2>1, <2>2
  <2>4. ASSUME NEW i \in DOMAIN stack', HoldsNull(stack'[i])
        PROVE  NullWasListed'
    <3>1. stack'[i] = c \/ (i \in DOMAIN stack /\ stack'[i] = stack[i])
      BY <1>1, <1>6, <1>10
    <3>2. Top = stack[Len(stack)] /\ Len(stack) \in DOMAIN stack
      BY <1>1 DEF Top
    <3> QED BY <1>1, <1>6, <1>15, <2>4, <3>1, <3>2 DEF ContextsTell
  <2> QED BY <2>3, <2>4 DEF ContextsTell, HoldsNull
<1>21. TextHeld'
  <2>1. ASSUME NEW run \in ToSet(text), NEW i \in DOMAIN open',
               open'[i] \in ToSet(run.path)
        PROVE  \E j \in i .. Len(open') : stack'[j + 1].plain_literal # NULL
    <3>1. i \in 1 .. Len(open)
      <4>1. i = Len(open) + 1 => open'[i] \notin ToSet(run.path)
        BY <1>1, <1>13, <1>18 DEF TextOK
      <4> QED BY <1>18, <1>19, <2>1, <4>1
    <3>2. PICK j \in i .. Len(open) : stack[j + 1].plain_literal # NULL
      BY <1>1, <1>18, <2>1, <3>1 DEF TextHeld
    <3>3. j \in 1 .. Len(open) /\ j \in i .. Len(open')
      BY <1>18, <3>1, <3>2
    <3> QED BY <1>18, <3>2, <3>3
  <2> QED BY <1>4, <2>1 DEF TextHeld
<1>22. InnersTell'
  BY <1>1, <1>2, <1>4, <1>6, <1>8, <1>9, <1>10, StartInners
<1> QED BY <1>1, <1>4, <1>11, <1>16, <1>17, <1>20, <1>21, <1>22 DEF WholeInv

(***************************************************************************)
(* When the element that ends has no value: there is something between its *)
(* tags, or it would have the empty text; it has no text, or its context   *)
(* would hold it; and no attribute gives a value.                          *)
(***************************************************************************)
LEMMA EndsWithout ==
  ASSUME NEW c \in Contexts, NEW n, n \in Closed', UNCHANGED <<tree, text>>,
         AttributesOf(c, n), TypeKnown(c), c.inner = "markup" => HasMarkup(n),
         c.inner = "text" => tree[n].tag.torn = "text" \/ c.plain_literal # NULL,
         c.attrs.property # NULL, c.plain_literal = NULL => c.inner # "empty",
         c.plain_literal = NULL => RunsWithin(n) = {},
         c.rdfa_version = RDFA_VERSION_1_1, CurrentPropertyValue(c) = NULL
  PROVE  EndsWithoutValue(n)'
<1> DEFINE a == c.attrs
<1>1. /\ a.datatype # XmlLiteral
      /\ a.content = NULL /\ c.plain_literal = NULL
      /\ a.datatype = NULL /\ a.rel = NULL /\ a.rev = NULL =>
           /\ a.resource = NULL /\ a.href = NULL /\ a.src = NULL
           /\ a.about # NULL \/ c.typed_resource = NULL
  BY PropertyWithoutValue
<1>2. a.datatype = NULL /\ a.rel = NULL /\ a.rev = NULL /\ a.typeof # NULL =>
        a.about # NULL
  BY <1>1 DEF TypeKnown
<1>3. /\ tree[n].version = RDFA_VERSION_1_1 /\ tree[n].tag.property # NULL
      /\ tree[n].tag.content = NULL /\ tree[n].tag.datatype # XmlLiteral
      /\ tree[n].tag.datatype = NULL /\ Unset(n, {"rel", "rev"}) =>
           /\ Unset(n, {"resource", "href", "src"})
           /\ tree[n].tag.typeof # NULL => HasAbout(n)
  BY <1>1, <1>2 DEF AttributesOf, Unset
<1>4. Below(n)' = Below(n) /\ text' = text /\ tree' = tree
  BY DEF Below, Elements
<1>5. RunsWithin(n)' = {} /\ RunsWithin(n) = {}
  BY <1>1 DEF RunsWithin
<1>6. Below(n) # {n} \/ tree[n].tag.torn # "empty"
  <2>1. c.inner \in {"text", "markup"}
    BY <1>1 DEF Contexts, Inners
  <2> QED BY <1>1, <1>5, <2>1 DEF HasMarkup
<1> QED BY <1>3, <1>4, <1>5, <1>6 DEF EndsWithoutValue, HasAbout, Unset

\* In RDFa 1.0 there is no '<' either, or it would have ended the process.
LEMMA EndsWithoutText ==
  ASSUME NEW c \in Contexts, NEW n, n \in Closed', UNCHANGED <<tree, text>>,
         AttributesOf(c, n), HasMarkup(n) => c.inner = "markup",
         c.inner = "text" => tree[n].tag.torn = "text" \/ c.plain_literal # NULL,
         c.attrs.property # NULL, c.plain_literal = NULL => c.inner # "empty",
         c.plain_literal = NULL => RunsWithin(n) = {},
         c.rdfa_version = RDFA_VERSION_1_0, CurrentObjectLiteral(c) = NULL,
         ~ReadsNullLiteral(c)
  PROVE  EndsWithoutValue(n)'
<1>1. c.attrs.content = NULL /\ c.plain_literal = NULL
  BY ObjectWithoutValue
<1>2. c.inner = "text"
  BY <1>1 DEF ReadsNullLiteral, Contexts, Inners
<1>3. tree[n].tag.torn = "text" /\ Below(n) = {n}
  BY <1>1, <1>2 DEF HasMarkup
<1>4. /\ tree[n].version = RDFA_VERSION_1_0 /\ tree[n].tag.property # NULL
      /\ tree[n].tag.content = NULL
  BY <1>1 DEF AttributesOf
<1>5. Below(n)' = Below(n) /\ tree' = tree
  BY DEF Below, Elements
<1>6. RunsWithin(n)' = {}
  BY <1>1 DEF RunsWithin
<1> QED BY <1>3, <1>4, <1>5, <1>6 DEF EndsWithoutValue

\* The value of @property, before it is sent.
ValueToSend(c) ==
  IF c.rdfa_version = RDFA_VERSION_1_0
  THEN CurrentObjectLiteral(c) ELSE CurrentPropertyValue(c)

\* The triples of @property are complete if there is a value.
LEMMA PropertyTriplesComplete ==
  ASSUME NEW c \in Contexts, c.new_subject # NULL
  PROVE  \A t \in PropertyTriples(c) :
           ~Complete(t) =>
             /\ t.by = "property" /\ c.attrs.property # NULL
             /\ ValueToSend(c) = NULL
<1> DEFINE preds == c.attrs.property
           value == ValueToSend(c)
<1>1. preds # NULL => \A i \in DOMAIN preds : preds[i] # NULL
  <2>1. preds # NULL => preds \in Seq(Iris)
    BY AttributeTypes DEF Maybe
  <2> QED BY <2>1, PartsAreSet
<1>2. PropertyTriples(c) =
        IF preds = NULL \/ c.attrs.inlist THEN {}
        ELSE {Triple("property", c.new_subject, preds[i], value) :
                i \in DOMAIN preds}
  BY DEF PropertyTriples, ValueToSend
<1> HIDE DEF value, preds
<1> SUFFICES ASSUME NEW t \in PropertyTriples(c), ~Complete(t)
             PROVE  t.by = "property" /\ preds # NULL /\ value = NULL
  BY DEF preds, value
<1>3. PICK p : /\ preds # NULL /\ p # NULL
               /\ t = Triple("property", c.new_subject, p, value)
  BY <1>1, <1>2
<1>4. value = NULL
  BY <1>3, MadeComplete
<1> QED BY <1>3, <1>4, TripleBy

\* end_element: only the value of @property may be missing.
LEMMA EndElementWhole ==
  ASSUME WholeInv, EndElement
  PROVE  WholeInv'
<1> DEFINE literal == CloseLiteral(Top)
           e       == AfterProperty(literal)
           parent  == Len(stack) - 1
           id      == open[Len(open)]
           lists   == IF SendsLists(e) THEN ListTriples(AfterIncomplete(e)) ELSE {}
           hanging == IF Completes(e) THEN HangingTriples(e) ELSE {}
           sent    == PropertyTriples(literal) \cup hanging \cup lists
           back    == ReturnTo(stack[parent], e)
           value   == CurrentPropertyValue(literal)
<1>1. /\ Inv /\ Inv' /\ status = "parsing" /\ ContextsTell /\ TextHeld
      /\ InnersTell
      /\ TreeOK /\ OpenOK /\ TextOK /\ TriplesAreComplete
      /\ tree \in Seq(Nodes) /\ open \in Seq(Nat) /\ stack \in Seq(Contexts)
      /\ Len(stack) = Len(open) + 1 /\ open # << >>
      /\ Top \in Contexts /\ Top.new_subject # NULL
      /\ parent \in Nat /\ parent > 0 /\ parent = Len(open)
      /\ stack[parent] \in Contexts /\ ~ReadsNullLiteral(literal)
  <2>1. /\ Inv /\ Inv' /\ status = "parsing" /\ Len(stack) > 1
        /\ ContextsTell /\ TextHeld /\ InnersTell /\ TreeOK /\ OpenOK /\ TextOK
        /\ TriplesAreComplete /\ ~ReadsNullLiteral(literal)
    BY EndElementInv DEF WholeInv, EndElement
  <2>2. /\ StackOK(stack, Len(open) + 1) /\ Len(open) \in Nat
        /\ tree \in Seq(Nodes) /\ open \in Seq(Nat)
    BY <2>1, InvStack DEF Inv, TypeOK
  <2>3. /\ stack \in Seq(Contexts) /\ Len(stack) = Len(open) + 1
        /\ open # << >> /\ Top \in Contexts /\ Top.new_subject # NULL
        /\ parent \in Nat /\ parent > 0 /\ parent = Len(open)
        /\ stack[parent] \in Contexts
    BY <2>1, <2>2 DEF StackOK, Top
  <2> QED BY <2>1, <2>2, <2>3
<1>2. /\ stack' = [i \in 1 .. parent |-> IF i = parent THEN back ELSE stack[i]]
      /\ graph' = graph \cup Sent(id, sent)
      /\ open' = SubSeq(open, 1, Len(open) - 1)
      /\ status' = status /\ UNCHANGED <<tree, text>>
  BY DEF EndElement
<1>3. /\ OpenOK' /\ TreeOK' /\ id \in Elements
      /\ Closed' = Closed \cup {id}
      /\ DOMAIN open' = 1 .. Len(open) - 1
      /\ \A i \in 1 .. Len(open) - 1 : open'[i] = open[i]
  BY <1>1, <1>2, EndNesting
<1>4. PICK n : n = id
  OBVIOUS
<1>5. /\ SameSubject(Top, literal)
      /\ literal.typed_resource = Top.typed_resource
      /\ literal.inner = Top.inner
      /\ HoldsNull(literal) <=> HoldsNull(Top)
      /\ Top.plain_literal # NULL => literal.plain_literal # NULL
      /\ literal.attrs.property # NULL /\ literal.plain_literal = NULL =>
           literal.inner # "empty"
  <2>1. Top.inner = "empty" => Top.plain_literal = NULL
    <3>1. Top = stack[Len(open) + 1] /\ Len(open) \in DOMAIN open
      BY <1>1 DEF Top
    <3> QED BY <1>1, <3>1 DEF InnersTell, InnerTells
  <2> QED BY <1>1, <2>1, CloseLiteralContent
<1>6. PICK l : l = literal
  OBVIOUS
<1>7. l \in Contexts /\ l.new_subject # NULL
  BY <1>1, <1>5, <1>6 DEF SameSubject
<1>8. /\ SameContent(l, e)
      /\ HoldsNull(e) =>
           \/ HoldsNull(l)
           \/ /\ l.attrs.property # NULL /\ l.attrs.inlist
              /\ CurrentPropertyValue(l) = NULL
  BY <1>6, <1>7, AfterPropertyContent
<1>9. PICK c : c = e
  OBVIOUS
<1>10. c \in Contexts /\ c.new_subject # NULL
  BY <1>7, <1>8, <1>9 DEF SameContent, SameSubject
<1>11. /\ SameSubject(stack[parent], back)
       /\ back.typed_resource = stack[parent].typed_resource
       /\ stack[parent].plain_literal # NULL \/ c.plain_literal # NULL =>
            back.plain_literal # NULL
       /\ back.inner = "markup"
       /\ HoldsNull(back) => HoldsNull(stack[parent]) \/ HoldsNull(c)
  BY <1>1, <1>9, <1>10, ReturnToContent
<1>12. PICK b : b = back
  OBVIOUS
<1>13. /\ stack' = [i \in 1 .. parent |-> IF i = parent THEN b ELSE stack[i]]
       /\ graph' = graph \cup Sent(n, sent)
       /\ lists = IF SendsLists(c) THEN ListTriples(AfterIncomplete(c)) ELSE {}
       /\ hanging = IF Completes(c) THEN HangingTriples(c) ELSE {}
       /\ sent = PropertyTriples(l) \cup hanging \cup lists
  BY <1>2, <1>4, <1>6, <1>9, <1>12
<1>14. /\ Top = stack[parent + 1] /\ parent \in DOMAIN open
       /\ parent \in DOMAIN stack /\ parent + 1 \in DOMAIN stack
  BY <1>1 DEF Top
<1>15. /\ ContextTells(Top, n) /\ InnerTells(Top, n)
       /\ HasMarkup(n) => Top.inner = "markup"
  BY <1>1, <1>4, <1>14 DEF ContextsTell, InnersTell, MarkupFollows
<1> HIDE DEF literal, e, back, id, hanging, lists, sent
<1>16. /\ AttributesOf(l, n) /\ TypeKnown(l)
  BY <1>5, <1>6, <1>15 DEF ContextTells, AttributesOf, TypeKnown, SameSubject
<1>17. /\ l.inner = "markup" <=> HasMarkup(n)
       /\ l.inner = "text" => tree[n].tag.torn = "text" \/ l.plain_literal # NULL
       /\ l.attrs.property # NULL /\ l.plain_literal = NULL => l.inner # "empty"
  BY <1>5, <1>6, <1>15 DEF InnerTells
<1>18. l.plain_literal = NULL => RunsWithin(n) = {}
  <2>1. ASSUME NEW run \in ToSet(text), n \in ToSet(run.path)
        PROVE  Top.plain_literal # NULL
    <3>1. open[parent] \in ToSet(run.path)
      BY <1>1, <1>4, <2>1 DEF id
    <3>2. PICK j \in parent .. Len(open) : stack[j + 1].plain_literal # NULL
      BY <1>1, <1>14, <3>1 DEF TextHeld
    <3>3. j = parent
      BY <1>1, <3>2
    <3> QED BY <1>14, <3>2, <3>3
  <2> QED BY <1>5, <1>6, <2>1 DEF RunsWithin
<1>19. n \in Closed' /\ n \in Elements /\ UNCHANGED <<tree, text>>
  BY <1>2, <1>3, <1>4
<1>20. l.attrs.property # NULL /\ ValueToSend(l) = NULL => EndsWithoutValue(n)'
  <2>1. l.rdfa_version \in {RDFA_VERSION_1_0, RDFA_VERSION_1_1}
    BY <1>7 DEF Contexts, Versions
  <2>2. RDFA_VERSION_1_0 # RDFA_VERSION_1_1
    BY DEF RDFA_VERSION_1_0, RDFA_VERSION_1_1
  <2>3. ASSUME l.attrs.property # NULL, l.rdfa_version = RDFA_VERSION_1_0,
               CurrentObjectLiteral(l) = NULL
        PROVE  EndsWithoutValue(n)'
    <3>1. ~ReadsNullLiteral(l)
      BY <1>1, <1>6
    <3> QED BY <1>7, <1>16, <1>17, <1>18, <1>19, <2>3, <3>1, EndsWithoutText
  <2>4. ASSUME l.attrs.property # NULL, l.rdfa_version = RDFA_VERSION_1_1,
               CurrentPropertyValue(l) = NULL
        PROVE  EndsWithoutValue(n)'
    BY <1>7, <1>16, <1>17, <1>18, <1>19, <2>4, EndsWithout
  <2> QED BY <2>1, <2>2, <2>3, <2>4 DEF ValueToSend
<1>21. ASSUME NEW m, EndsWithoutValue(m)
       PROVE  EndsWithoutValue(m)'
  <2>1. m \in Closed'
    BY <1>3, <1>21 DEF EndsWithoutValue
  <2>2. Below(m)' = Below(m)
    BY <1>19 DEF Below, Elements
  <2> QED BY <1>19, <1>21, <2>1, <2>2, StaysWithoutValue
<1>22. Elements' = Elements
  BY <1>19 DEF Elements
<1>23. NullWasListed => NullWasListed'
  BY <1>19, <1>21, <1>22 DEF NullWasListed
<1>24. HoldsNull(c) => NullWasListed'
  <2>1. HoldsNull(l) => NullWasListed'
    BY <1>1, <1>5, <1>6, <1>14, <1>23 DEF ContextsTell
  <2>2. ASSUME l.attrs.property # NULL, l.attrs.inlist,
               CurrentPropertyValue(l) = NULL
        PROVE  NullWasListed'
    <3>1. tree[n].tag.inlist /\ l.rdfa_version = RDFA_VERSION_1_1
      BY <1>16, <2>2 DEF AttributesOf
    <3>2. EndsWithoutValue(n)'
      BY <1>20, <2>2, <3>1
      DEF ValueToSend, RDFA_VERSION_1_0, RDFA_VERSION_1_1
    <3> QED BY <1>19, <1>22, <3>1, <3>2 DEF NullWasListed
  <2> QED BY <1>8, <1>9, <1>20, <2>1, <2>2
<1>25. ASSUME NEW t \in sent, ~Complete(t)
       PROVE  \/ t.by = "property" /\ EndsWithoutValue(n)'
              \/ t.by = "first" /\ NullWasListed'
  <2>1. CASE t \in PropertyTriples(l)
    <3>1. /\ t.by = "property" /\ l.attrs.property # NULL
          /\ ValueToSend(l) = NULL
      BY <1>7, <1>25, <2>1, PropertyTriplesComplete
    <3> QED BY <1>20, <3>1
  <2>2. CASE t \in hanging
    BY <1>10, <1>13, <1>25, <2>2, HangingTriplesComplete
  <2>3. CASE t \in lists
    <3> DEFINE done == AfterIncomplete(c)
    <3>1. t \in ListTriples(done)
      BY <1>13, <2>3
    <3>2. /\ done \in Contexts /\ done.new_subject # NULL
          /\ HoldsNull(done) => HoldsNull(c)
      BY <1>10, AfterIncompleteHoldsNull
    <3> HIDE DEF done
    <3> QED BY <1>24, <1>25, <3>1, <3>2, ListTriplesComplete
  <2> QED BY <1>13, <2>1, <2>2, <2>3
<1>26. TriplesAreComplete'
  <2>1. \A m : PrefixUnbound(m) => PrefixUnbound(m)'
    BY <1>19, <1>22 DEF PrefixUnbound
  <2> QED BY <1>1, <1>13, <1>21, <1>23, <1>25, <2>1, CompleteStays
<1>27. TextOK'
  BY <1>1, <1>19, <1>22 DEF TextOK
<1>28. /\ DOMAIN stack' = 1 .. parent /\ stack'[parent] = b
       /\ \A i \in 1 .. parent : i # parent => stack'[i] = stack[i]
       /\ \A i \in 1 .. parent : i \in DOMAIN stack
  <2>1. parent \in 1 .. parent /\ \A i \in 1 .. parent : i \in DOMAIN stack
    BY <1>1
  <2> HIDE DEF parent
  <2>2. /\ DOMAIN stack' = 1 .. parent
        /\ \A i \in 1 .. parent :
             stack'[i] = IF i = parent THEN b ELSE stack[i]
    BY ONLY <1>13
  <2> QED BY <2>1, <2>2
<1>29. /\ SameSubject(stack[parent], b)
       /\ b.typed_resource = stack[parent].typed_resource
       /\ stack[parent].plain_literal # NULL \/ Top.plain_literal # NULL =>
            b.plain_literal # NULL
       /\ b.inner = "markup"
       /\ HoldsNull(b) => HoldsNull(stack[parent]) \/ HoldsNull(c)
  BY <1>5, <1>6, <1>8, <1>9, <1>11, <1>12 DEF SameContent
<1> HIDE DEF parent
<1>30. ASSUME NEW i \in DOMAIN open'
       PROVE  ContextTells(stack[i + 1], open[i])'
  <2>1. /\ i \in DOMAIN open /\ open'[i] = open[i]
        /\ i + 1 \in 1 .. parent /\ i \in Nat
    BY <1>1, <1>3
  <2>2. PICK D, N : D = stack[i + 1] /\ N = open[i]
    OBVIOUS
  <2>3. ContextTells(D, N)
    BY <1>1, <2>1, <2>2 DEF ContextsTell
  <2>4. /\ AttributesOf(D, N)' <=> AttributesOf(D, N)
        /\ TypeKnown(D)
    BY <1>19, <1>22, <2>3 DEF ContextTells, AttributesOf, HasAbout, Unset
  <2>5. CASE i + 1 # parent
    <3>1. stack'[i + 1] = D
      BY <1>28, <2>1, <2>2, <2>5
    <3>2. ContextTells(D, N)'
      BY <2>3, <2>4 DEF ContextTells
    <3> QED BY <2>1, <2>2, <3>1, <3>2
  <2>6. CASE i + 1 = parent
    <3>1. stack'[i + 1] = b /\ D = stack[parent]
      BY <1>28, <2>2, <2>6
    <3>2. AttributesOf(b, N) /\ TypeKnown(b)
      BY <1>29, <2>3, <2>4, <3>1
      DEF ContextTells, AttributesOf, TypeKnown, SameSubject
    <3>3. AttributesOf(b, N)'
      BY <1>19, <3>2 DEF AttributesOf, HasAbout, Unset
    <3>4. ContextTells(b, N)'
      BY <2>4, <3>2, <3>3 DEF ContextTells
    <3> QED BY <2>1, <2>2, <3>1, <3>4
  <2> QED BY <2>5, <2>6
<1>31. ASSUME NEW i \in DOMAIN stack', HoldsNull(stack'[i])
       PROVE  NullWasListed'
  <2>1. \A j \in DOMAIN stack : HoldsNull(stack[j]) => NullWasListed'
    BY <1>1, <1>23 DEF ContextsTell
  <2> QED BY <1>14, <1>24, <1>28, <1>29, <1>31, <2>1
<1>32. ContextsTell'
  BY <1>30, <1>31 DEF ContextsTell, HoldsNull
<1>33. TextHeld'
  <2>1. ASSUME NEW run \in ToSet(text), NEW i \in DOMAIN open',
               open'[i] \in ToSet(run.path)
        PROVE  \E j \in i .. Len(open') : stack'[j + 1].plain_literal # NULL
    <3>1. /\ i \in DOMAIN open /\ open'[i] = open[i] /\ i \in Nat
          /\ i \in 1 .. parent - 1
      BY <1>1, <1>3
    <3>2. PICK j \in i .. Len(open) : stack[j + 1].plain_literal # NULL
      BY <1>1, <2>1, <3>1 DEF TextHeld
    <3>3. Len(open') = parent - 1
      BY <1>1, <1>2
    <3>4. CASE j >= parent - 1
      <4>1. j = parent - 1 \/ j = parent
        BY <1>1, <3>1, <3>2, <3>4
      <4>2. stack[parent].plain_literal # NULL \/ Top.plain_literal # NULL
        <5>1. j = parent - 1 => j + 1 = parent
          BY <1>1
        <5> QED BY <1>14, <3>2, <4>1, <5>1
      <4>3. stack'[parent - 1 + 1].plain_literal # NULL
        <5>1. parent - 1 + 1 = parent
          BY <1>1
        <5> QED BY <1>28, <1>29, <4>2, <5>1
      <4>4. parent - 1 \in i .. Len(open')
        BY <1>1, <3>1, <3>3
      <4> QED BY <4>3, <4>4
    <3>5. CASE j < parent - 1
      <4>1. j + 1 \in 1 .. parent /\ j + 1 # parent /\ j \in i .. Len(open')
        BY <1>1, <3>1, <3>2, <3>3, <3>5
      <4>2. stack'[j + 1] = stack[j + 1]
        BY <1>28, <4>1
      <4> QED BY <3>2, <4>1, <4>2
    <3> QED BY <1>1, <3>1, <3>2, <3>4, <3>5
  <2> QED BY <1>19, <2>1 DEF TextHeld
<1>34. ASSUME NEW i \in DOMAIN open'
       PROVE  InnerTells(stack[i + 1], open[i])'
  <2>1. /\ i \in DOMAIN open /\ open'[i] = open[i]
        /\ i + 1 \in 1 .. parent /\ i \in Nat
    BY <1>1, <1>3
  <2>2. PICK D, N : D = stack[i + 1] /\ N = open[i]
    OBVIOUS
  <2>3. InnerTells(D, N)
    BY <1>1, <2>1, <2>2 DEF InnersTell
  <2>4. HasMarkup(N)' <=> HasMarkup(N)
    BY <1>19, <1>22 DEF HasMarkup, RunsWithin, Below
  <2>5. CASE i + 1 # parent
    <3>1. stack'[i + 1] = D
      BY <1>28, <2>1, <2>2, <2>5
    <3>2. InnerTells(D, N)'
      BY <1>19, <2>3, <2>4 DEF InnerTells
    <3> QED BY <2>1, <2>2, <3>1, <3>2
  <2>6. CASE i + 1 = parent
    <3>1. stack'[i + 1] = b
      BY <1>28, <2>6
    <3>2. n \in Below(N) /\ n # N
      <4>1. n = open[parent] /\ i \in 1 .. parent /\ i \in 1 .. parent - 1
        BY <1>1, <1>4, <2>1, <2>6 DEF id
      <4>2. /\ Len(tree[n].path) = parent /\ tree[n].path[i] = N /\ N < n
        <5>1. /\ Len(tree[open[parent]].path) = parent
              /\ \A k \in 1 .. parent : tree[open[parent]].path[k] = open[k]
              /\ \A k \in 1 .. parent - 1 : open[k] < open[parent]
          BY <1>1, <1>14 DEF OpenOK
        <5> QED BY <2>2, <4>1, <5>1
      <4>3. i \in DOMAIN tree[n].path
        <5>1. tree[n] \in Nodes
          BY <1>1, <1>19 DEF Elements
        <5>2. tree[n].path \in Seq(Nat)
          BY <5>1 DEF Nodes
        <5> QED BY <4>1, <4>2, <5>2
      <4>4. N \in Nat /\ n \in Nat
        BY <1>1, <1>14, <2>1, <2>2, <4>1
      <4> QED BY <1>19, <4>2, <4>3, <4>4 DEF Below, ToSet
    <3>3. HasMarkup(N)'
      BY <2>4, <3>2 DEF HasMarkup
    <3>4. InnerTells(b, N)'
      BY <1>29, <3>3 DEF InnerTells
    <3> QED BY <2>1, <2>2, <3>1, <3>4
  <2> QED BY <2>5, <2>6
<1>35. InnersTell'
  <2>1. parent \in Nat /\ parent > 0 /\ Len(stack') = parent
    BY <1>1, <1>28
  <2>2. Top'.inner = "markup"
    BY <1>28, <1>29, <2>1 DEF Top
  <2> QED BY <1>34, <2>2 DEF InnersTell, MarkupFollows
<1> QED BY <1>1, <1>2, <1>3, <1>26, <1>27, <1>32, <1>33, <1>35 DEF WholeInv

\* e differs from c in its text, its counter, its object and its relations.
KeepsWhole(c, e) ==
  /\ SameSubject(c, e) /\ e.typed_resource = c.typed_resource
  /\ e.local_list_mappings = c.local_list_mappings
  /\ c.plain_literal # NULL => e.plain_literal # NULL

LEMMA StillTells ==
  ASSUME NEW c, NEW e, NEW n, KeepsWhole(c, e), ContextTells(c, n)
  PROVE  ContextTells(e, n)
<1>1. /\ e.attrs = c.attrs /\ e.rdfa_version = c.rdfa_version
      /\ e.typed_resource = c.typed_resource
  BY DEF KeepsWhole, SameSubject
<1> QED BY <1>1 DEF ContextTells, AttributesOf, TypeKnown

\* An action that neither starts nor ends an element: complete triples, and
\* text for the element that is open.
LEMMA OtherWhole ==
  ASSUME WholeInv, Inv', UNCHANGED <<open, tree>>,
         NEW id, NEW T, graph' = graph \cup Sent(id, T),
         \A t \in T : Complete(t),
         \A run \in ToSet(text') :
           \/ run \in ToSet(text)
           \/ /\ ToSet(run.path) = ToSet(open)
              /\ stack'[Len(open) + 1].plain_literal # NULL,
         status' # "ended" =>
           /\ status # "ended" /\ DOMAIN stack' = DOMAIN stack
           /\ \A i \in DOMAIN stack : KeepsWhole(stack[i], stack'[i])
           /\ InnersTell'
  PROVE  WholeInv'
<1>1. /\ TreeOK' /\ Elements' = Elements /\ Closed' = Closed
      /\ \A n : Below(n)' = Below(n)
  BY SameTree DEF WholeInv, Closed, Below, Elements
<1>2. OpenOK'
  BY <1>1 DEF WholeInv, OpenOK
<1>3. open \in Seq(Nat) /\ OpenOK /\ TextOK /\ TriplesAreComplete
  BY DEF WholeInv, Inv, TypeOK
<1>4. TextOK'
  <2>1. ToSet(open) \subseteq Elements
    BY <1>3 DEF OpenOK, ToSet
  <2> QED BY <1>1, <1>3, <2>1 DEF TextOK
<1>5. ASSUME NEW n, EndsWithoutValue(n)
      PROVE  EndsWithoutValue(n)'
  <2>1. n \in Closed' /\ Below(n)' = Below(n) /\ n \notin ToSet(open)
    BY <1>1, <1>5 DEF EndsWithoutValue, Closed
  <2> QED BY <1>5, <2>1, StaysWithoutValue
<1>6. NullWasListed => NullWasListed'
  BY <1>1, <1>5 DEF NullWasListed
<1>7. TriplesAreComplete'
  <2>1. \A n : PrefixUnbound(n) => PrefixUnbound(n)'
    BY <1>1 DEF PrefixUnbound
  <2> QED BY <1>3, <1>5, <1>6, <2>1, CompleteStays
<1>8. ASSUME status' # "ended" PROVE ContextsTell' /\ TextHeld' /\ InnersTell'
  <2>1. /\ ContextsTell /\ TextHeld /\ DOMAIN stack' = DOMAIN stack
        /\ \A i \in DOMAIN stack : KeepsWhole(stack[i], stack'[i])
        /\ Len(stack) = Len(open) + 1 /\ stack \in Seq(Contexts)
    BY <1>8, InvStack DEF WholeInv, StackOK
  <2>2. ASSUME NEW i \in DOMAIN open'
        PROVE  ContextTells(stack[i + 1], open[i])'
    <3>1. i \in DOMAIN open /\ open'[i] = open[i] /\ i + 1 \in DOMAIN stack
      BY <1>3, <2>1
    <3>2. PICK D, N : D = stack'[i + 1] /\ N = open[i]
      OBVIOUS
    <3>3. ContextTells(stack[i + 1], N)
      BY <2>1, <3>1, <3>2 DEF ContextsTell
    <3>4. KeepsWhole(stack[i + 1], D)
      BY <2>1, <3>1, <3>2
    <3>5. ContextTells(D, N)
      BY <3>3, <3>4, StillTells
    <3>6. AttributesOf(D, N)' /\ Below(N)' = Below(N)
      BY <1>1, <3>5 DEF ContextTells, AttributesOf, HasAbout, Unset
    <3>7. ContextTells(D, N)'
      BY <3>5, <3>6 DEF ContextTells
    <3> QED BY <3>1, <3>2, <3>7
  <2>3. \A i \in DOMAIN stack : HoldsNull(stack'[i]) => NullWasListed'
    <3>1. \A i \in DOMAIN stack : HoldsNull(stack'[i]) => HoldsNull(stack[i])
      BY <2>1 DEF KeepsWhole, HoldsNull
    <3> QED BY <1>6, <2>1, <3>1 DEF ContextsTell
  <2>4. ContextsTell'
    BY <2>1, <2>2, <2>3 DEF ContextsTell, HoldsNull
  <2>5. ASSUME NEW run \in ToSet(text'), NEW i \in DOMAIN open,
               open[i] \in ToSet(run.path)
        PROVE  \E j \in i .. Len(open) : stack'[j + 1].plain_literal # NULL
    <3>1. CASE run \in ToSet(text)
      <4>1. PICK j \in i .. Len(open) : stack[j + 1].plain_literal # NULL
        BY <2>1, <2>5, <3>1 DEF TextHeld
      <4>2. j + 1 \in DOMAIN stack
        BY <1>3, <2>1, <4>1
      <4> QED BY <2>1, <4>1, <4>2 DEF KeepsWhole
    <3>2. CASE stack'[Len(open) + 1].plain_literal # NULL
      <4>1. Len(open) \in i .. Len(open)
        BY <1>3
      <4> QED BY <3>2, <4>1
    <3> QED BY <3>1, <3>2
  <2> QED BY <1>8, <2>4, <2>5 DEF TextHeld
<1> QED BY <1>1, <1>2, <1>4, <1>7, <1>8 DEF WholeInv

\* character_data: the text is held by the innermost open element.
LEMMA CharacterDataWhole ==
  ASSUME WholeInv, NEW t \in Texts, CharacterData(t)
  PROVE  WholeInv'
<1> DEFINE c == WithText(Top, t)
           run == [text |-> t, path |-> open]
<1>1. Inv /\ Inv' /\ status = "parsing"
  BY CharacterDataInv DEF WholeInv, CharacterData
<1>2. /\ stack \in Seq(Contexts) /\ Len(stack) = Len(open) + 1 /\ Top \in Contexts
      /\ Len(open) \in Nat /\ open \in Seq(Nat)
      /\ text \in Seq([text : Texts, path : Seq(Nat)])
  BY <1>1, InvStack DEF StackOK, Inv, TypeOK
<1>3. /\ stack' = [stack EXCEPT ![Len(stack)] = c]
      /\ text' = Append(text, run)
      /\ UNCHANGED <<graph, status, open, tree>>
  BY DEF CharacterData, WithText, Top
<1>4. /\ c.new_subject = Top.new_subject /\ c.depth = Top.depth
      /\ c.parent_object = Top.parent_object
      /\ c.rdfa_version = Top.rdfa_version
      /\ c.skip_element = Top.skip_element /\ c.attrs = Top.attrs
      /\ c.parent_subject = Top.parent_subject
      /\ c.host_language = Top.host_language
      /\ c.default_vocabulary = Top.default_vocabulary
      /\ c.typed_resource = Top.typed_resource
      /\ c.inner = InnerWithText(Top.inner, t)
      /\ c.local_list_mappings = Top.local_list_mappings
      /\ c.plain_literal = Appended(Top.plain_literal, <<t>>)
  BY <1>2 DEF WithText, Contexts
<1>5. c.plain_literal # NULL
  <2>1. Top.plain_literal \in Maybe(Seq(Texts)) /\ <<t>> \in Seq(Texts)
    BY <1>2 DEF Contexts
  <2>2. Top.plain_literal # NULL => Top.plain_literal \o <<t>> \in Seq(Texts)
    BY <2>1 DEF Maybe
  <2> QED BY <1>4, <2>1, <2>2, NullTextAssumption DEF Appended
<1>6. /\ \A r \in ToSet(text') : r \in ToSet(text) \/ r = run
      /\ \A r \in ToSet(text) : r \in ToSet(text')
      /\ run \in ToSet(text')
  <2> DEFINE Runs == [text : Texts, path : Seq(Nat)]
  <2>1. text \in Seq(Runs) /\ run \in Runs
    BY <1>2
  <2> HIDE DEF run, Runs
  <2>2. ToSet(Append(text, run)) = ToSet(text) \cup {run}
    BY ONLY <2>1, ToSetAppend
  <2> QED BY <1>3, <2>2
<1>7. run.path = open /\ run.text = t
  OBVIOUS
<1> HIDE DEF c, run
<1>8. /\ stack'[Len(open) + 1] = c /\ DOMAIN stack' = DOMAIN stack
      /\ \A i \in DOMAIN stack : stack'[i] = stack[i] \/ (stack[i] = Top /\ stack'[i] = c)
  BY <1>2, <1>3 DEF Top
<1>9. \A i \in DOMAIN stack : stack'[i] \in Contexts
  <2>1. stack' \in Seq(Contexts)
    BY <1>1 DEF Inv, TypeOK
  <2> QED BY <1>8, <2>1
<1>10. \A i \in DOMAIN stack : KeepsWhole(stack[i], stack'[i])
  BY <1>4, <1>5, <1>8, <1>9 DEF KeepsWhole, SameSubject
<1>11. graph' = graph \cup Sent(0, {})
  BY <1>3 DEF Sent
<1>12. \A r \in ToSet(text') :
         \/ r \in ToSet(text)
         \/ /\ ToSet(r.path) = ToSet(open)
            /\ stack'[Len(open) + 1].plain_literal # NULL
  BY <1>5, <1>6, <1>7, <1>8
<1>13. status' # "ended" =>
         /\ status # "ended" /\ DOMAIN stack' = DOMAIN stack
         /\ \A i \in DOMAIN stack : KeepsWhole(stack[i], stack'[i])
         /\ InnersTell'
  <2>1. InnersTell /\ OpenOK
    BY <1>1 DEF WholeInv
  <2>2. /\ DOMAIN stack' = DOMAIN stack /\ Len(stack') = Len(stack)
        /\ \A i \in DOMAIN stack :
             stack'[i] = IF i = Len(stack) THEN c ELSE stack[i]
    BY <1>2, <1>3
  <2>3. UNCHANGED <<open, tree>> /\ c.inner = InnerWithText(Top.inner, t)
    BY <1>3, <1>4
  <2>4. InnersTell'
    BY ONLY <1>2, <1>5, <1>6, <1>7, <2>1, <2>2, <2>3, TextInners
  <2> QED BY <1>1, <1>8, <1>10, <2>4
<1>14. UNCHANGED <<open, tree>> /\ \A x \in {} : Complete(x)
  BY <1>3
<1> QED BY ONLY WholeInv, <1>1, <1>11, <1>12, <1>13, <1>14, OtherWhole, SMTT(30)

\* An error sends a report, which is complete.
LEMMA ReportErrorWhole ==
  ASSUME WholeInv, ReportError
  PROVE  WholeInv'
<1> DEFINE r == [stack[1] EXCEPT !.bnode_count = @ + 2]
           m == stack[1].bnode_count
           T == IF HasProcessorGraph THEN {Report("error", m)} ELSE {}
<1>1. Inv /\ Inv' /\ status = "parsing"
  BY ReportErrorInv DEF WholeInv, ReportError
<1>2. /\ stack \in Seq(Contexts) /\ Len(stack) > 0 /\ stack[1] \in Contexts
  BY <1>1, InvStack DEF StackOK
<1>3. UNCHANGED <<status, open, tree, text>>
  BY DEF ReportError
<1>4. graph' = graph \cup Sent(Len(tree), T)
  BY DEF ReportError, Sent
<1>5. \A t \in T : Complete(t)
  <2>1. m \in Nat /\ m + 1 \in Nat
    BY <1>2, ListFields
  <2> HIDE DEF m
  <2>2. Bnode(m) # NULL /\ Bnode(m + 1) # NULL
    BY <2>1, BnodeIsResource
  <2>3. Complete(Report("error", m))
    BY <2>2, PartsAreSet, MadeComplete DEF Report
  <2> QED BY <2>3
<1>6. /\ r.new_subject = stack[1].new_subject /\ r.depth = stack[1].depth
      /\ r.parent_object = stack[1].parent_object
      /\ r.rdfa_version = stack[1].rdfa_version
      /\ r.skip_element = stack[1].skip_element /\ r.attrs = stack[1].attrs
      /\ r.parent_subject = stack[1].parent_subject
      /\ r.host_language = stack[1].host_language
      /\ r.default_vocabulary = stack[1].default_vocabulary
      /\ r.typed_resource = stack[1].typed_resource
      /\ r.inner = stack[1].inner /\ r.plain_literal = stack[1].plain_literal
      /\ r.local_list_mappings = stack[1].local_list_mappings
  BY <1>2 DEF Contexts
<1>7. stack' = stack \/ stack' = [stack EXCEPT ![1] = r]
  BY DEF ReportError
<1> HIDE DEF r, T
<1>8. /\ DOMAIN stack' = DOMAIN stack
      /\ \A i \in DOMAIN stack : stack'[i] = stack[i] \/ (i = 1 /\ stack'[i] = r)
  BY <1>2, <1>7
<1>9. \A i \in DOMAIN stack : stack'[i] \in Contexts
  <2>1. stack' \in Seq(Contexts)
    BY <1>1 DEF Inv, TypeOK
  <2> QED BY <1>8, <2>1
<1>10. \A i \in DOMAIN stack : KeepsWhole(stack[i], stack'[i])
  BY <1>6, <1>8, <1>9 DEF KeepsWhole, SameSubject
<1>11. InnersTell'
  <2>1. InnersTell /\ open \in Seq(Nat) /\ Len(stack) = Len(open) + 1
    BY <1>1, InvStack DEF WholeInv, Inv, TypeOK, StackOK
  <2>2. /\ Len(stack') = Len(stack)
        /\ \A i \in 1 .. Len(stack) :
             /\ stack'[i].inner = stack[i].inner
             /\ stack'[i].plain_literal = stack[i].plain_literal
    BY <1>2, <1>6, <1>7, <1>8
  <2> QED BY <1>3, <2>1, <2>2, InnersKept
<1> QED BY <1>1, <1>3, <1>4, <1>5, <1>8, <1>10, <1>11, OtherWhole

\* At the start nothing is open and nothing is sent.
LEMMA InitWhole == Init => WholeInv
<1> SUFFICES ASSUME Init PROVE WholeInv
  OBVIOUS
<1>1. PICK d \in Documents : stack = <<RootContext(d)>>
  BY DEF Init
<1>2. /\ tree = << >> /\ open = << >> /\ text = << >> /\ graph = {} /\ Inv
  BY InitInv DEF Init
<1>3. RootContext(d).local_list_mappings = {}
  BY DEF RootContext
<1>4. ToSet(text) = {} /\ DOMAIN open = {}
  BY <1>2 DEF ToSet
<1>5. ContextsTell
  BY <1>1, <1>3, <1>4 DEF ContextsTell, HoldsNull
<1>6. TreeOK /\ OpenOK /\ TextOK /\ TextHeld
  BY <1>2, <1>4 DEF TreeOK, OpenOK, Elements, TextOK, TextHeld
<1>7. TriplesAreComplete
  BY <1>2 DEF TriplesAreComplete
<1>8. InnersTell
  BY <1>2, <1>4 DEF InnersTell, MarkupFollows
<1> QED BY <1>2, <1>5, <1>6, <1>7, <1>8 DEF WholeInv

\* Every step sends complete triples, or those of an element without a value.
LEMMA NextWhole ==
  ASSUME WholeInv, [Next]_vars
  PROVE  WholeInv'
<1>1. Inv /\ Inv'
  BY NextInv DEF WholeInv
<1>2. ASSUME UNCHANGED <<graph, open, tree, text>>,
             status' # "ended" => status # "ended" /\ stack' = stack
      PROVE  WholeInv'
  <2>1. graph' = graph \cup Sent(0, {})
    BY <1>2 DEF Sent
  <2>2. \A c \in Contexts : KeepsWhole(c, c)
    BY DEF KeepsWhole, SameSubject
  <2>3. \A i \in DOMAIN stack : KeepsWhole(stack[i], stack[i])
    BY <1>1, <2>2 DEF Inv, TypeOK
  <2>4. \A x \in {} : Complete(x)
    OBVIOUS
  <2>5. UNCHANGED <<open, tree>> /\ \A run \in ToSet(text') : run \in ToSet(text)
    BY <1>2
  <2>6. status' # "ended" =>
          /\ status # "ended" /\ DOMAIN stack' = DOMAIN stack
          /\ \A i \in DOMAIN stack : KeepsWhole(stack[i], stack'[i])
          /\ InnersTell'
    <3>1. ASSUME status' # "ended" PROVE InnersTell'
      <4>1. InnersTell /\ open \in Seq(Nat) /\ Len(stack) = Len(open) + 1
        BY <1>1, <1>2, <3>1, InvStack DEF WholeInv, Inv, TypeOK, StackOK
      <4> QED BY <1>2, <3>1, <4>1, InnersKept
    <3> QED BY <1>2, <2>3, <3>1
  <2> QED BY ONLY WholeInv, <1>1, <2>1, <2>4, <2>5, <2>6, OtherWhole
<1>3. CASE ParseEnd
  BY <1>2, <1>3 DEF ParseEnd
<1>4. CASE ReadNullLiteral
  BY <1>2, <1>4 DEF ReadNullLiteral
<1>5. CASE UNCHANGED vars
  BY <1>2, <1>5 DEF vars
<1> QED
  BY <1>3, <1>4, <1>5, StartElementWhole, CharacterDataWhole,
     EndElementWhole, ReportErrorWhole
  DEF Next

(***************************************************************************)
(* The library sends no triple without a subject, a predicate or an object *)
(* but those of EndsWithoutValue -- a property element with no text in it, *)
(* but in RDFa 1.1 elements or the rest of a torn start tag, in RDFa 1.0   *)
(* that rest only -- or for its item in a list, and one for a prefix       *)
(* without an IRI, whatever else the document holds.                       *)
(***************************************************************************)
THEOREM TriplesAlwaysComplete == Spec => []TriplesAreComplete
<1>1. WholeInv => TriplesAreComplete
  BY DEF WholeInv
<1>2. WholeInv /\ [Next]_vars => WholeInv'
  BY NextWhole
<1> QED BY <1>1, <1>2, InitWhole, PTL DEF Spec

-----------------------------------------------------------------------------
(* Chaining: who comes to speak of the node that a hanging element leaves.  *)

\* A chain yields a value that none of its first members is only if the last
\* one is.
LEMMA OnlyTheLast ==
  ASSUME NEW v, v # NULL, NEW V, NEW s \in Seq(V), Len(s) <= 4,
         \A i \in 1 .. Len(s) : s[i] # v, NEW last \in V
  PROVE  /\ FirstSet(s) # v
         /\ FirstSet(Append(s, last)) = v => last = v
<1> DEFINE t == Append(s, last)
<1>1. /\ t \in Seq(V) /\ Len(t) = Len(s) + 1 /\ Len(s) \in Nat
      /\ \A i \in 1 .. Len(s) : t[i] = s[i]
      /\ t[Len(t)] = last
  OBVIOUS
<1> HIDE DEF t
<1>2. Len(s) <= 5 /\ Len(t) <= 5
  BY <1>1
<1>3. FirstSet(s) = NULL \/ \E i \in 1 .. Len(s) : FirstSet(s) = s[i]
  BY ONLY <1>2, s \in Seq(V), FirstSetFinds, Zenon
<1>4. FirstSet(t) = NULL \/ \E i \in 1 .. Len(t) : FirstSet(t) = t[i]
  BY ONLY <1>1, <1>2, FirstSetFinds, Zenon
<1>5. \A i \in 1 .. Len(t) : i \in 1 .. Len(s) \/ i = Len(t)
  BY <1>1
<1>6. FirstSet(t) = v => last = v
  BY <1>1, <1>4, <1>5
<1> QED BY <1>3, <1>6 DEF t

\* v comes out of a chain only as what follows the chain.
Passes(s, v, last) ==
  FirstSet(s) # v /\ (FirstSet(Append(s, last)) = v => last = v)

LEMMA ChainsPass ==
  ASSUME NEW v, v # NULL, NEW V, NEW w \in V, NEW x \in V, NEW y \in V,
         NEW z \in V, w # v, x # v, y # v, z # v, NEW last \in V
  PROVE  /\ Passes(<<w, x, y, z>>, v, last) /\ Passes(<<w, x, y>>, v, last)
         /\ Passes(<<w, x>>, v, last)
<1>1. ASSUME NEW s \in Seq(V), Len(s) <= 4, \A i \in 1 .. Len(s) : s[i] # v
      PROVE  Passes(s, v, last)
  BY ONLY <1>1, v # NULL, last \in V, OnlyTheLast, Zenon DEF Passes
<1>2. Passes(<<w, x, y, z>>, v, last)
  <2> DEFINE s == <<w, x, y, z>>
  <2>1. s \in Seq(V) /\ Len(s) <= 4 /\ \A i \in 1 .. Len(s) : s[i] # v
    OBVIOUS
  <2> HIDE DEF s
  <2>2. Passes(s, v, last)
    BY <1>1, <2>1
  <2> QED BY <2>2 DEF s
<1>3. Passes(<<w, x, y>>, v, last)
  <2> DEFINE s == <<w, x, y>>
  <2>1. s \in Seq(V) /\ Len(s) <= 4 /\ \A i \in 1 .. Len(s) : s[i] # v
    OBVIOUS
  <2> HIDE DEF s
  <2>2. Passes(s, v, last)
    BY <1>1, <2>1
  <2> QED BY <2>2 DEF s
<1>4. Passes(<<w, x>>, v, last)
  <2> DEFINE s == <<w, x>>
  <2>1. s \in Seq(V) /\ Len(s) <= 4 /\ \A i \in 1 .. Len(s) : s[i] # v
    OBVIOUS
  <2> HIDE DEF s
  <2>2. Passes(s, v, last)
    BY <1>1, <2>1
  <2> QED BY <2>2 DEF s
<1> QED BY <1>2, <1>3, <1>4

\* No attribute of the context resolves to v.
Unmentioned(v, c) ==
  v \notin {c.attrs.about, c.attrs.src, c.attrs.resource, c.attrs.href}

\* A node drawn earlier that the attributes do not mention reaches an element
\* from the element around it only, and as its subject.
LEMMA EarlierIsInherited ==
  ASSUME NEW c \in Contexts, NEW v \in Bnodes, v.bnode < c.bnode_count,
         Unmentioned(v, c), c.current_object_resource # v
  PROVE  LET e == EstablishSubject(c)
         IN  /\ e.current_object_resource # v
             /\ e.new_subject = v => c.parent_object = v
<1> DEFINE a == c.attrs
           e == EstablishSubject(c)
           M == Maybe(Resources)
           next == NextBnode(c)
<1>1. /\ a.about \in M /\ a.src \in M /\ a.resource \in M /\ a.href \in M
      /\ c.parent_object \in M
  BY AttributeTypes DEF Contexts
<1>2. v # NULL /\ a.about # v /\ a.src # v /\ a.resource # v /\ a.href # v
  BY NullBnodeAssumption DEF Unmentioned
<1>3. next # v
  <2>1. c.bnode_count \in Nat
    BY ListFields
  <2> QED BY <2>1 DEF NextBnode, Bnode
<1> HIDE DEF a, M, next
<1>4. /\ FirstSet(<<a.about, c.parent_object>>) = v => c.parent_object = v
      /\ FirstSet(<<a.resource, a.href>>) # v
  BY <1>2, FirstOfTwoIs
<1>5. /\ Passes(<<a.about, a.src, a.resource, a.href>>, v, c.parent_object)
      /\ Passes(<<a.about, a.resource, a.href, a.src>>, v, c.parent_object)
      /\ Passes(<<a.about, a.src>>, v, c.parent_object)
      /\ Passes(<<a.resource, a.href, a.src>>, v, c.parent_object)
  BY <1>1, <1>2, ChainsPass
<1> USE DEF Passes
<1>6. CASE e = EstablishNew10Subject(c)
  <2>1. /\ e.new_subject \in {next,
             FirstSet(Append(<<a.about, a.src, a.resource, a.href>>,
                             c.parent_object))}
        /\ e.current_object_resource = c.current_object_resource
    BY <1>6 DEF EstablishNew10Subject, Contexts, a, next
  <2> HIDE DEF e
  <2> QED BY <1>3, <1>5, <2>1 DEF e
<1>7. CASE e = EstablishPropertySubject(c)
  <2>1. /\ e.new_subject = FirstSet(<<a.about, c.parent_object>>)
        /\ e.current_object_resource \in
             {NULL, next, FirstSet(<<a.about, a.resource, a.href, a.src>>)}
    BY <1>7 DEF EstablishPropertySubject, Contexts, a, next
  <2> HIDE DEF e
  <2> QED BY <1>2, <1>3, <1>4, <1>5, <2>1 DEF e
<1>8. CASE e = EstablishChainedSubject(c)
  <2>1. /\ e.new_subject \in {next,
             FirstSet(Append(<<a.about, a.resource, a.href, a.src>>,
                             c.parent_object))}
        /\ e.current_object_resource = c.current_object_resource
    BY <1>8 DEF EstablishChainedSubject, Contexts, a, next
  <2> HIDE DEF e
  <2> QED BY <1>3, <1>5, <2>1 DEF e
<1>9. CASE e = EstablishNew10SubjectWithRelRev(c)
  <2>1. /\ e.new_subject \in
             {next, FirstSet(Append(<<a.about, a.src>>, c.parent_object))}
        /\ e.current_object_resource = FirstSet(<<a.resource, a.href>>)
    BY <1>9 DEF EstablishNew10SubjectWithRelRev, Contexts, a, next
  <2> HIDE DEF e
  <2> QED BY <1>3, <1>4, <1>5, <2>1 DEF e
<1>10. CASE e = EstablishNew11SubjectWithRelRev(c)
  <2>1. /\ e.new_subject = FirstSet(<<a.about, c.parent_object>>)
        /\ e.current_object_resource \in
             {next, FirstSet(<<a.resource, a.href, a.src>>)}
    BY <1>10 DEF EstablishNew11SubjectWithRelRev, Contexts, a, next
  <2> HIDE DEF e
  <2> QED BY <1>3, <1>4, <1>5, <2>1 DEF e
<1> QED BY <1>6, <1>7, <1>8, <1>9, <1>10
        DEF EstablishSubject, EstablishNew11Subject

\* What start_element makes of a node that was drawn earlier and is not the
\* one "_:" names: it is never the element's object, and its subject only as
\* the object of the element around it.
LEMMA EarlierReaches ==
  ASSUME NEW parent \in Contexts, NEW tag \in Tags, OwnNames,
         InheritedObject(parent) # NULL,
         NEW v \in Bnodes, v.bnode < parent.bnode_count,
         v # parent.underscore_colon_bnode_name
  PROVE  LET c == OpenRelations(EstablishSubject(
                    ReadAttributes(NewElementContext(parent), tag)))
         IN  /\ c.parent_object = InheritedObject(parent)
             /\ c.current_object_resource # v
             /\ c.new_subject = v => c.parent_object = v
<1> DEFINE new  == NewElementContext(parent)
           read == ReadAttributes(new, tag)
           set  == EstablishSubject(read)
           c    == OpenRelations(set)
           anonymous == AnonymousBnode(new, tag)
<1>1. /\ new \in Contexts /\ new.current_object_resource = NULL
      /\ new.parent_object = InheritedObject(parent)
      /\ new.bnode_count = parent.bnode_count
      /\ new.underscore_colon_bnode_name = parent.underscore_colon_bnode_name
      /\ new.base \in Iris
  BY NewElementContextType DEF NewElementContext, Contexts
<1> HIDE DEF new
<1>2. /\ read \in Contexts /\ read.parent_object = new.parent_object
      /\ set \in Contexts /\ set.new_subject # NULL
      /\ set.parent_object = new.parent_object
  BY <1>1, ReadAttributesType, SubjectEstablished DEF Established
<1>3. read.current_object_resource = NULL
  BY <1>1 DEF ReadAttributes, Contexts
<1>4. /\ parent.bnode_count <= read.bnode_count
      /\ read.bnode_count \in Nat /\ parent.bnode_count \in Nat
  <2>1. /\ parent.bnode_count + 2 * Reports(tag) <= read.bnode_count
        /\ read.bnode_count \in Nat /\ parent.bnode_count \in Nat
    BY StartedCounter, ListFields DEF new
  <2> HIDE DEF read
  <2> QED BY <2>1, TagTypes
<1>5. v.bnode \in Nat /\ v = Bnode(v.bnode) /\ v # NULL
  BY NullBnodeAssumption DEF Bnodes, Bnode
<1>6. anonymous # v
  <2>1. v # Bnode(new.bnode_count + 2 * Reports(tag))
    BY <1>1, <1>4, <1>5, TagTypes DEF Bnode
  <2> QED BY <1>1, <2>1, FirstOfTwoIs DEF AnonymousBnode
<1> HIDE DEF anonymous
<1>7. Unmentioned(v, read)
  <2>1. read.attrs = ResolvedAttributes(new, tag, read.rdfa_version)
    BY <1>1, AttributesOfTag
  <2> HIDE DEF read
  <2>2. \A x \in {tag.about, tag.src, tag.resource, tag.href} :
          Resolved(x, anonymous) # v
    BY <1>6 DEF Resolved, OwnNames
  <2>3. new.base # v
    BY <1>1, IriAssumption
  <2> QED BY <2>1, <2>2, <2>3
          DEF Unmentioned, ResolvedAttributes, anonymous
<1>8. /\ set.current_object_resource # v
      /\ set.new_subject = v => read.parent_object = v
  <2> HIDE DEF read
  <2>1. v.bnode < read.bnode_count
    BY <1>4, <1>5
  <2> QED BY <1>2, <1>3, <1>5, <1>7, <2>1, EarlierIsInherited
<1>9. set.bnode_count \in Nat /\ parent.bnode_count <= set.bnode_count
  <2>1. PICK drawn \in BOOLEAN : set.bnode_count = Draw(read, drawn)
    BY <1>2, SubjectDraws
  <2> HIDE DEF set, read
  <2> QED BY <1>4, <2>1 DEF Draw
<1> HIDE DEF set
<1>10. SameSubject(set, c)
  BY <1>2, OpenRelationsType
<1>11. c.current_object_resource # v
  <2>1. CASE ListsRel(set)
    BY <1>2, <1>8, <2>1, ListedRelationsKeep
  <2>2. CASE ~ListsRel(set)
    <3>1. c = set \/ c = SaveIncompleteTriples(set)
      BY <2>2 DEF OpenRelations
    <3>2. SaveIncompleteTriples(set).current_object_resource =
            Bnode(set.bnode_count)
      BY <1>2 DEF SaveIncompleteTriples, NextBnode, Contexts
    <3>3. Bnode(set.bnode_count) # v
      BY <1>4, <1>5, <1>9 DEF Bnode
    <3> QED BY <1>8, <3>1, <3>2, <3>3
  <2> QED BY <2>1, <2>2
<1> HIDE DEF c, read
<1>12. /\ c.parent_object = InheritedObject(parent)
       /\ c.new_subject = v => c.parent_object = v
  BY <1>1, <1>2, <1>8, <1>10 DEF SameSubject
<1> QED BY <1>11, <1>12 DEF c, set, read, new

\* The triples by which an element speaks of a subject.
Speaks == {"type", "relrev", "property"}

LEMMA SubjectOfTriple ==
  ASSUME NEW by, NEW s, NEW p, NEW o
  PROVE  Triple(by, s, p, o).s \in {NULL, s}
BY DEF Triple

\* Types and relations are said of the element's subject or of its object, by
\* an element that has an attribute for them.
LEMMA StartSpeaks ==
  ASSUME NEW parent \in Contexts, NEW tag \in Tags,
         InheritedObject(parent) # NULL
  PROVE  LET new  == NewElementContext(parent)
             read == ReadAttributes(new, tag)
             set  == EstablishSubject(read)
             c    == OpenRelations(set)
         IN  \A t \in AttributeTriples(new, read, tag) \cup TypeTriples(set)
                        \cup RelRevTriples(set) :
               t.by \in Speaks =>
                 /\ t.s \in {NULL, c.new_subject, c.current_object_resource}
                 /\ tag.typeof # NULL \/ tag.rel # NULL \/ tag.rev # NULL
<1> DEFINE new  == NewElementContext(parent)
           read == ReadAttributes(new, tag)
           set  == EstablishSubject(read)
           c    == OpenRelations(set)
           said == {NULL, c.new_subject, c.current_object_resource}
<1>1. /\ new \in Contexts /\ new.typed_resource = NULL
      /\ new.parent_object = InheritedObject(parent)
  BY NewElementContextType DEF NewElementContext
<1> HIDE DEF new
<1>2. /\ read \in Contexts /\ read.typed_resource = NULL
      /\ read.parent_object # NULL
      /\ read.attrs.typeof = tag.typeof
      /\ read.attrs.rel = tag.rel /\ read.attrs.rev = tag.rev
  BY <1>1, ReadAttributesType, StartKeepsLists, AttributesOfTag
<1> HIDE DEF read
<1>3. /\ set \in Contexts /\ set.new_subject # NULL /\ set.attrs = read.attrs
      /\ set.typed_resource \in {NULL, set.new_subject,
                                 set.current_object_resource, read.attrs.about}
      /\ read.attrs.about # NULL => set.new_subject = read.attrs.about
  BY <1>2, SubjectEstablished, EstablishedAttributes, TypedResourceIs,
     SubjectIsAbout DEF Established
<1> HIDE DEF set
<1>4. c.new_subject = set.new_subject
  BY <1>3, OpenRelationsType DEF SameSubject
<1>5. set.current_object_resource \in {NULL, c.current_object_resource}
  <2>1. CASE ListsRel(set)
    BY <1>3, <2>1, ListedRelationsKeep
  <2>2. CASE ~ListsRel(set) /\ set.current_object_resource # NULL
    BY <2>2 DEF OpenRelations
  <2> QED BY <2>1, <2>2
<1> HIDE DEF c
<1>6. {set.new_subject, set.typed_resource, set.current_object_resource}
        \subseteq said
  BY <1>3, <1>4, <1>5
<1> HIDE DEF said
<1>7. ASSUME NEW t \in TypeTriples(set)
      PROVE  t.s \in said /\ tag.typeof # NULL
  <2>1. \A x \in {set.new_subject, set.typed_resource, NULL} : x \in said
    BY <1>6 DEF said
  <2>2. PICK p, o : t \in {Triple("type", set.new_subject, p, o),
                           Triple("type", set.typed_resource, p, o)}
    BY DEF TypeTriples
  <2>3. set.attrs.typeof # NULL
    BY DEF TypeTriples
  <2> QED BY <1>2, <1>3, <2>1, <2>2, <2>3, SubjectOfTriple
<1>8. ASSUME NEW t \in RelRevTriples(set)
      PROVE  t.s \in said /\ (tag.rel # NULL \/ tag.rev # NULL)
  <2>1. \A x \in {set.new_subject, set.current_object_resource, NULL} : x \in said
    BY <1>6 DEF said
  <2>2. t \in RelRevPairs(set)
    BY DEF RelRevTriples
  <2>3. PICK p, o :
          \/ /\ t = Triple("relrev", set.new_subject, p, o)
             /\ DOMAIN Rels(set.attrs) # {}
          \/ /\ t = Triple("relrev", set.current_object_resource, p, o)
             /\ DOMAIN Revs(set.attrs) # {}
    BY <2>2 DEF RelRevPairs
  <2>4. set.attrs.rel # NULL \/ set.attrs.rev # NULL
    BY <2>3 DEF Rels, Revs
  <2> QED BY <1>2, <1>3, <2>1, <2>3, <2>4, SubjectOfTriple
<1>9. \A t \in AttributeTriples(new, read, tag) : t.by \notin Speaks
  BY StartSenders DEF Speaks
<1> QED BY <1>7, <1>8, <1>9 DEF said, c, set, read, new

\* Properties are said of the element's subject, by an element that has some.
LEMMA EndSpeaks ==
  ASSUME NEW c
  PROVE  \A t \in PropertyTriples(c) :
           t.s \in {NULL, c.new_subject} /\ c.attrs.property # NULL
<1>1. TAKE t \in PropertyTriples(c)
<1>2. c.attrs.property # NULL
  BY DEF PropertyTriples
<1>3. PICK p, o : t = Triple("property", c.new_subject, p, o)
  BY DEF PropertyTriples
<1> QED BY <1>2, <1>3, SubjectOfTriple

-----------------------------------------------------------------------------
(* The invariant of chaining.                                              *)

\* An element completes what m left open, and speaks of the node m left.
Taken(m) ==
  \E n \in Elements : /\ ~Transparent(n) /\ Enclosing(n) = m
                      /\ tree[n].subject = tree[m].object

\* No other element has the node of m as its object; those that have it as
\* their subject, or may get it from the context around them, are the ones
\* that m is waiting for, unless m has been completed with it.
ChainHolds(m) ==
  /\ \A n \in Elements \ {m} :
       /\ tree[n].object # tree[m].object
       /\ tree[n].subject = tree[m].object =>
            Taken(m) \/ (Transparent(n) /\ Enclosing(n) = m)
  /\ status # "ended" =>
       \A i \in DOMAIN open :
         open[i] # m /\ stack[i + 1].parent_object = tree[m].object =>
           Taken(m) \/ Enclosing(open[i]) = m

ObjectsFollow ==
  \A i \in DOMAIN open :
    stack[i + 1].current_object_resource = tree[open[i]].object

SaysOfOwn(e) ==
  e.t.by \in Speaks =>
    /\ e.at \in Elements /\ ~Transparent(e.at)
    /\ e.t.s \in {NULL, tree[e.at].subject, tree[e.at].object}

Chained ==
  /\ status # "ended" => ObjectsFollow
  /\ \A e \in graph : SaysOfOwn(e)
  /\ \A m \in Elements : HangsAlone(m) => ChainHolds(m)

LinkInv == RelationsInv /\ AnonymousInv /\ WholeInv /\ Chained

\* A chain of three whose second is known.
LEMMA FirstOfThree ==
  ASSUME NEW u, NEW v, NEW w, v # NULL
  PROVE  FirstSet(<<u, v, w>>) = IF u # NULL THEN u ELSE v
<1> DEFINE s == <<u, v, w>>
           First(i) == s[i] # NULL /\ \A j \in 1 .. i - 1 : s[j] = NULL
           n == CHOOSE i \in DOMAIN s : First(i)
<1>1. DOMAIN s = {1, 2, 3} /\ s[1] = u /\ s[2] = v /\ s[3] = w
  OBVIOUS
<1>2. FirstSet(s) = IF \E i \in DOMAIN s : s[i] # NULL THEN s[n] ELSE NULL
  BY DEF FirstSet
<1> HIDE DEF s
<1>3. FirstSet(s) = s[n] /\ ~First(3)
  BY <1>1, <1>2
<1>4. CASE u # NULL
  <2>1. First(1) /\ ~First(2)
    BY <1>1, <1>4
  <2>2. n \in {1, 2, 3} /\ First(n)
    BY <1>1, <2>1
  <2> QED BY <1>1, <1>3, <1>4, <2>1, <2>2 DEF s
<1>5. CASE u = NULL
  <2>1. First(2) /\ ~First(1)
    BY <1>1, <1>5
  <2>2. n \in {1, 2, 3} /\ First(n)
    BY <1>1, <2>1
  <2> QED BY <1>1, <1>3, <1>5, <2>1, <2>2 DEF s
<1> QED BY <1>4, <1>5

\* The child that is started inside the innermost element gets the node of m
\* only if m is what it will complete, or if m has been completed with it.
LEMMA InheritedChain ==
  ASSUME Inv, OpenOK, status # "ended", RelationsFollow, ObjectsFollow,
         open # << >>, NEW m \in Elements, HangsAlone(m), ChainHolds(m),
         InheritedObject(Top) = tree[m].object
  PROVE  LET p == open[Len(open)]
         IN  Taken(m) \/ (IF Transparent(p) THEN Enclosing(p) ELSE p) = m
<1> DEFINE N == Len(open)
           p == open[N]
<1>1. /\ Len(stack) = N + 1 /\ N \in DOMAIN open /\ Top = stack[N + 1]
      /\ Top.new_subject # NULL
  <2>1. StackOK(stack, N + 1) /\ N \in Nat /\ open \in Seq(Nat)
    BY InvStack DEF Inv, TypeOK
  <2> QED BY <2>1 DEF StackOK, Top
<1>2. /\ ContextFollows(Top, p) /\ p \in Elements
      /\ Top.current_object_resource = tree[p].object
  BY <1>1, TopRelations DEF OpenOK, ObjectsFollow
<1>3. ~Transparent(m)
  BY DEF HangsAlone, Hangs, Transparent, Unset
<1> HIDE DEF N, p
<1>4. CASE Top.skip_element
  <2>1. Transparent(p) /\ Top.parent_object = tree[m].object
    BY <1>2, <1>4 DEF ContextFollows, InheritedObject
  <2>2. Taken(m) \/ Enclosing(p) = m
    BY <1>1, <1>3, <2>1 DEF ChainHolds, p
  <2> QED BY <2>1, <2>2 DEF p, N
<1>5. CASE ~Top.skip_element
  <2>1. ~Transparent(p) /\ Top.new_subject = tree[p].subject
    BY <1>2, <1>5 DEF ContextFollows
  <2>2. \/ Top.current_object_resource = tree[m].object
        \/ Top.new_subject = tree[m].object
    BY <1>1, <1>5, FirstOfThree DEF InheritedObject
  <2>3. Taken(m) \/ p = m
    BY <1>2, <2>1, <2>2 DEF ChainHolds
  <2> QED BY <2>1, <2>3 DEF p, N
<1> QED BY <1>4, <1>5

\* What the counter and "_:" say of the node that m left.
LEMMA LeftNodeIsEarlier ==
  ASSUME AnonymousInv, status # "ended", NEW m \in Elements, HangsAlone(m)
  PROVE  /\ tree[m].object \in Bnodes
         /\ tree[m].object.bnode < Top.bnode_count
         /\ tree[m].object # Top.underscore_colon_bnode_name
<1>1. tree[m].object \in Bnodes
  BY DEF AnonymousInv, NamesInv, HangingObjectIsNew, HangsAlone
<1>2. Drawn(tree[m].object, Top.bnode_count)
  BY DEF AnonymousInv, NamesInv, NamesBehind, Elements, Top
<1>3. tree[m].object # Top.underscore_colon_bnode_name
  <2>1. NamedOnce(Top.underscore_colon_bnode_name)
    BY DEF AnonymousInv
  <2> QED BY <1>1, <2>1, NullBnodeAssumption DEF NamedOnce
<1> QED BY <1>1, <1>2, <1>3 DEF Drawn

\* A new element neither takes the node of m from where it was nor puts it
\* anywhere but where m waits for it.
LEMMA ChainContinues ==
  ASSUME Inv, TreeOK, OpenOK, RelationsFollow, ObjectsFollow, AnonymousInv,
         OwnNames, status = "parsing", UNCHANGED status,
         NEW tag \in Tags, NEW c, NEW node \in Nodes,
         NEW id \in Nat, id = Len(tree) + 1, id = 1 <=> open = << >>,
         c = OpenRelations(EstablishSubject(
               ReadAttributes(NewElementContext(Top), tag))),
         node.subject = c.new_subject, node.object = c.current_object_resource,
         node.path = Append(open, id), tree' = Append(tree, node),
         open' = Append(open, id), stack' = Append(stack, c),
         NEW m \in Elements, HangsAlone(m), ChainHolds(m)
  PROVE  ChainHolds(m)'
<1> DEFINE b == tree[m].object
<1>1. /\ tree \in Seq(Nodes) /\ open \in Seq(Nat) /\ stack \in Seq(Contexts)
      /\ Len(stack) = Len(open) + 1 /\ Top \in Contexts
      /\ InheritedObject(Top) # NULL
  BY InvStack DEF StackOK, Inv, TypeOK
<1>2. \A n \in Elements :
        /\ tree'[n] = tree[n] /\ n \in Elements'
        /\ Transparent(n)' <=> Transparent(n)
        /\ Enclosing(n)' = Enclosing(n)
  BY <1>1, EarlierElements
<1>3. /\ tree'[id] = node /\ id \in Elements'
      /\ \A n \in Elements' : n \in Elements \/ n = id
      /\ m # id /\ open # << >>
  BY <1>1 DEF Elements
<1>4. b \in Bnodes /\ b.bnode < Top.bnode_count
      /\ b # Top.underscore_colon_bnode_name
  BY LeftNodeIsEarlier
<1> HIDE DEF b
<1>5. /\ c.parent_object = InheritedObject(Top)
      /\ c.current_object_resource # b
      /\ c.new_subject = b => c.parent_object = b
  BY <1>1, <1>4, EarlierReaches
<1>6. Taken(m) => Taken(m)'
  BY <1>2 DEF Taken
<1>7. c.parent_object = b => Taken(m)' \/ Enclosing(id)' = m
  <2>1. Enclosing(id)' = LET p == open[Len(open)]
                         IN  IF Transparent(p) THEN Enclosing(p) ELSE p
    BY <1>1, <1>3, EnclosingNew
  <2>2. c.parent_object = b =>
          Taken(m) \/ LET p == open[Len(open)]
                      IN  (IF Transparent(p) THEN Enclosing(p) ELSE p) = m
    BY <1>3, <1>5, InheritedChain DEF b
  <2> QED BY <1>6, <2>1, <2>2
<1>8. ASSUME NEW n \in Elements' \ {m}
      PROVE  /\ tree'[n].object # b
             /\ tree'[n].subject = b =>
                  Taken(m)' \/ (Transparent(n)' /\ Enclosing(n)' = m)
  <2>1. CASE n \in Elements
    BY <1>2, <1>6, <2>1 DEF ChainHolds, b
  <2>2. CASE n = id
    <3>1. tree'[n].object # b
      BY <1>3, <1>5, <2>2
    <3>2. ASSUME tree'[n].subject = b, ~Taken(m)'
          PROVE  Transparent(n)' /\ Enclosing(n)' = m
      <4>1. Enclosing(id)' = m
        BY <1>3, <1>5, <1>7, <2>2, <3>2
      <4>2. Transparent(id)'
        BY <1>2, <1>3, <2>2, <3>2, <4>1 DEF Taken, b
      <4> QED BY <2>2, <4>1, <4>2
    <3> QED BY <3>1, <3>2
  <2> QED BY <1>3, <2>1, <2>2
<1>9. ASSUME NEW i \in DOMAIN open', open'[i] # m,
             stack'[i + 1].parent_object = b
      PROVE  Taken(m)' \/ Enclosing(open[i])' = m
  <2>1. \/ /\ i \in DOMAIN open /\ open'[i] = open[i]
           /\ stack'[i + 1] = stack[i + 1]
        \/ open'[i] = id /\ stack'[i + 1] = c
    <3>1. c \in Contexts
      BY <1>1, StartedContext
    <3>2. /\ DOMAIN open' = 1 .. Len(open) + 1 /\ open'[Len(open) + 1] = id
          /\ \A j \in 1 .. Len(open) : open'[j] = open[j]
          /\ DOMAIN open = 1 .. Len(open) /\ Len(open) \in Nat
      BY <1>1
    <3>3. /\ stack'[Len(open) + 1 + 1] = c
          /\ \A j \in 1 .. Len(open) : stack'[j + 1] = stack[j + 1]
      BY <1>1, <3>1
    <3>4. i \in 1 .. Len(open) \/ i = Len(open) + 1
      BY <3>2
    <3> QED BY <3>2, <3>3, <3>4
  <2>2. CASE /\ i \in DOMAIN open /\ open'[i] = open[i]
             /\ stack'[i + 1] = stack[i + 1]
    <3>1. open[i] \in Elements
      BY <2>2 DEF OpenOK
    <3>2. Taken(m) \/ Enclosing(open[i]) = m
      BY <1>9, <2>2 DEF ChainHolds, b
    <3> QED BY <1>2, <1>6, <2>2, <3>1, <3>2
  <2>3. CASE open'[i] = id /\ stack'[i + 1] = c
    BY <1>7, <1>9, <2>3
  <2> QED BY <2>1, <2>2, <2>3
<1>10. tree'[m].object = b
  BY <1>2 DEF b
<1> QED BY <1>8, <1>9, <1>10 DEF ChainHolds

\* The node of a new element that hangs is nowhere else.
LEMMA ChainBegins ==
  ASSUME NamesInv, status = "parsing", tree \in Seq(Nodes),
         NEW node \in Nodes, NEW id \in Nat, id = Len(tree) + 1,
         tree' = Append(tree, node), NEW c, stack' = Append(stack, c),
         open \in Seq(Nat), open' = Append(open, id),
         stack \in Seq(Contexts), c \in Contexts, Len(stack) = Len(open) + 1,
         \E n \in Nat : Top.bnode_count <= n /\ node.object = Bnode(n)
  PROVE  ChainHolds(id)'
<1> DEFINE b == node.object
           k == Top.bnode_count
<1>1. /\ tree'[id] = node
      /\ \A n \in Elements' \ {id} : n \in Elements /\ tree'[n] = tree[n]
  BY DEF Elements
<1>2. k \in Nat
  <2>1. Top \in Contexts
    BY DEF Top
  <2> QED BY <2>1, ListFields
<1>3. ~Drawn(b, k)
  BY <1>2, NextIsDrawn
<1> HIDE DEF b, k
<1>4. /\ \A n \in Elements : Drawn(tree[n].subject, k) /\ Drawn(tree[n].object, k)
      /\ \A i \in DOMAIN stack : Drawn(stack[i].parent_object, k)
  BY DEF NamesInv, NamesBehind, NamesDrawn, Elements, Top, k
<1>5. \A n \in Elements' \ {id} : tree'[n].object # b /\ tree'[n].subject # b
  BY <1>1, <1>3, <1>4
<1>6. ASSUME NEW i \in DOMAIN open', open'[i] # id
      PROVE  stack'[i + 1].parent_object # b
  <2>1. i \in 1 .. Len(open)
    BY <1>6
  <2>2. i + 1 \in DOMAIN stack /\ stack'[i + 1] = stack[i + 1]
    BY <2>1
  <2> QED BY <1>3, <1>4, <2>2
<1> QED BY <1>1, <1>5, <1>6 DEF ChainHolds, b

\* A triple said of an element stays one when others follow.
LEMMA EarlierSaysOfOwn ==
  ASSUME TreeOK, tree \in Seq(Nodes), NEW node \in Nodes,
         tree' = Append(tree, node), NEW e, SaysOfOwn(e)
  PROVE  SaysOfOwn(e)'
<1>1. CASE e.t.by \in Speaks
  <2>1. e.at \in Elements
    BY <1>1 DEF SaysOfOwn
  <2>2. /\ tree'[e.at] = tree[e.at] /\ e.at \in Elements'
        /\ Transparent(e.at)' <=> Transparent(e.at)
    BY <2>1, EarlierElements
  <2> QED BY <2>2 DEF SaysOfOwn
<1>2. CASE e.t.by \notin Speaks
  BY <1>2 DEF SaysOfOwn
<1> QED BY <1>1, <1>2

\* start_element keeps the chains.
LEMMA StartElementChained ==
  ASSUME LinkInv, OwnNames, NEW tag \in Tags, StartElement(tag)
  PROVE  Chained'
<1> DEFINE new  == NewElementContext(Top)
           read == ReadAttributes(new, tag)
           set  == EstablishSubject(read)
           e    == OpenRelations(set)
           node == [tag |-> tag, path |-> Append(open, Len(tree) + 1),
                    version |-> e.rdfa_version, host |-> e.host_language,
                    subject |-> e.new_subject,
                    object |-> e.current_object_resource]
           sent == AttributeTriples(new, read, tag)
                   \cup TypeTriples(set) \cup RelRevTriples(set)
<1>1. /\ Inv /\ status = "parsing" /\ RelationsFollow
      /\ TreeOK /\ OpenOK /\ AnonymousInv /\ NamesInv
      /\ tree \in Seq(Nodes) /\ open \in Seq(Nat) /\ stack \in Seq(Contexts)
      /\ Len(stack) = Len(open) + 1
      /\ Top \in Contexts /\ InheritedObject(Top) # NULL
  BY InvStack DEF LinkInv, RelationsInv, AnonymousInv, StartElement, StackOK,
     Inv, TypeOK
<1>2. /\ ObjectsFollow /\ \A d \in graph : SaysOfOwn(d)
      /\ \A m \in Elements : HangsAlone(m) => ChainHolds(m)
  BY <1>1 DEF LinkInv, Chained
<1>3. PICK id \in Nat : id = Len(tree) + 1
  BY <1>1
<1>4. PICK c : c = e
  OBVIOUS
<1>5. /\ stack' = Append(stack, e) /\ tree' = Append(tree, node)
      /\ open' = Append(open, Len(tree) + 1)
      /\ graph' = graph \cup Sent(Len(tree) + 1, sent)
      /\ status' = status
  BY DEF StartElement
<1>6. id = 1 <=> open = << >>
  <2>1. Len(stack) = 1 => tree = << >>
    BY DEF StartElement
  <2>2. open # << >> => open[1] \in 1 .. Len(tree)
    <3>1. open # << >> => 1 \in DOMAIN open
      BY <1>1
    <3> QED BY <1>1, <3>1 DEF OpenOK, Elements
  <2> QED BY <1>1, <1>3, <2>1, <2>2
<1>7. c \in Contexts
  BY <1>1, <1>4, StartedContext
<1>8. node \in Nodes
  BY <1>1, <1>4, <1>7 DEF Nodes, Contexts
<1>9. \A t \in sent : t.by \in Speaks =>
        /\ t.s \in {NULL, c.new_subject, c.current_object_resource}
        /\ tag.typeof # NULL \/ tag.rel # NULL \/ tag.rev # NULL
  BY <1>1, <1>4, StartSpeaks
<1>10. /\ node.tag = tag /\ node.path = Append(open, id)
       /\ node.version = c.rdfa_version /\ node.host = c.host_language
       /\ node.subject = c.new_subject
       /\ node.object = c.current_object_resource
  BY <1>3, <1>4
<1>11. /\ stack' = Append(stack, c) /\ open' = Append(open, id)
       /\ graph' = graph \cup Sent(id, sent) /\ tree' = Append(tree, node)
  BY <1>3, <1>4, <1>5
<1> HIDE DEF sent, node
<1>12. ASSUME HangsAlone(id)'
       PROVE  \E n \in Nat : Top.bnode_count <= n /\ node.object = Bnode(n)
  <2>1. NamesDrawn(Top, Top.bnode_count)
    BY <1>1 DEF NamesInv, NamesBehind, Top
  <2>2. /\ LeavesOpen(tag, c.rdfa_version, c.host_language, Top.depth + 1)
        /\ ~TakenByList(tag, c.rdfa_version)
        => \E n \in Nat : /\ read.bnode_count <= n
                          /\ c.current_object_resource = Bnode(n)
    BY <1>1, <1>4, <2>1, StartedNames
  <2>3. Top.bnode_count <= read.bnode_count
        /\ Top.bnode_count \in Nat /\ read.bnode_count \in Nat
    <3>1. /\ Top.bnode_count + 2 * Reports(tag) <= read.bnode_count
          /\ read.bnode_count \in Nat
      BY <1>1, StartedCounter
    <3> HIDE DEF read
    <3> QED BY <1>1, <3>1, TagTypes, ListFields
  <2> HIDE DEF read, e
  <2>4. tree'[id] = node
    BY <1>1, <1>3, <1>8, <1>11
  <2>5. id = 1 => Top.depth + 1 = 1
    BY <1>1, <1>6, InvStack
  <2>6. LeavesOpen(node.tag, node.version, node.host, Top.depth + 1)
    BY <1>12, <2>4, <2>5
    DEF HangsAlone, Hangs, HasAbout, Unset, LeavesOpen, AboutGiven
  <2>7. ~TakenByList(node.tag, node.version)
    BY <1>12, <2>4 DEF HangsAlone, HangsInList, TakenByList
  <2> QED BY <1>10, <2>2, <2>3, <2>6, <2>7
<1>13. \A m \in Elements : HangsAlone(m) => ChainHolds(m)'
  BY <1>1, <1>2, <1>3, <1>4, <1>5, <1>6, <1>8, <1>10, <1>11, ChainContinues
<1> HIDE DEF e, read, set, new
<1>14. HangsAlone(id)' => ChainHolds(id)'
  BY <1>1, <1>3, <1>7, <1>8, <1>11, <1>12, ChainBegins
<1>15. /\ tree'[id] = node /\ id \in Elements'
       /\ \A n \in Elements' : n \in Elements \/ n = id
       /\ \A n \in Elements : HangsAlone(n)' => HangsAlone(n)
  BY <1>1, <1>3, <1>8, <1>11, NewNodeAnonymous DEF Elements
<1>16. \A m \in Elements' : HangsAlone(m)' => ChainHolds(m)'
  BY <1>13, <1>14, <1>15
<1>17. ASSUME NEW d \in graph' PROVE SaysOfOwn(d)'
  <2>1. CASE d \in graph
    BY <1>1, <1>2, <1>8, <1>11, <2>1, EarlierSaysOfOwn
  <2>2. CASE d \in Sent(id, sent)
    <3>1. PICK t \in sent : d = [at |-> id, t |-> t]
      BY <2>2 DEF Sent
    <3>2. d.at = id /\ d.t = t
      BY <3>1
    <3>3. tag.typeof # NULL \/ tag.rel # NULL \/ tag.rev # NULL =>
            ~Transparent(id)'
      BY <1>10, <1>15 DEF Transparent, Unset
    <3> QED BY <1>9, <1>10, <1>15, <3>2, <3>3 DEF SaysOfOwn
  <2> QED BY <1>11, <2>1, <2>2
<1>18. ObjectsFollow'
  <2>1. ASSUME NEW i \in DOMAIN open'
        PROVE  stack'[i + 1].current_object_resource = tree'[open'[i]].object
    <3>1. /\ DOMAIN open' = 1 .. Len(open) + 1 /\ open'[Len(open) + 1] = id
          /\ \A j \in 1 .. Len(open) : open'[j] = open[j]
          /\ DOMAIN open = 1 .. Len(open) /\ Len(open) \in Nat
      BY <1>1, <1>11
    <3>2. /\ stack'[Len(open) + 1 + 1] = c
          /\ \A j \in 1 .. Len(open) : stack'[j + 1] = stack[j + 1]
      BY <1>1, <1>7, <1>11
    <3>3. i \in 1 .. Len(open) \/ i = Len(open) + 1
      BY <3>1
    <3>4. CASE i \in 1 .. Len(open)
      <4>1. open[i] \in Elements
        BY <1>1, <3>1, <3>4 DEF OpenOK
      <4>2. tree'[open[i]] = tree[open[i]]
        BY <1>1, <1>8, <1>11, <4>1, EarlierElements
      <4> QED BY <1>2, <3>1, <3>2, <3>4, <4>2 DEF ObjectsFollow
    <3>5. CASE i = Len(open) + 1
      BY <1>10, <1>15, <3>1, <3>2, <3>5
    <3> QED BY <3>3, <3>4, <3>5
  <2> QED BY <2>1 DEF ObjectsFollow
<1> QED BY <1>16, <1>17, <1>18 DEF Chained

\* An action that starts no element keeps the chains, when the contexts of the
\* elements that stay open keep their objects.
LEMMA KeepsChained ==
  ASSUME LinkInv, UNCHANGED tree, \A d \in graph' \ graph : SaysOfOwn(d),
         status' # "ended" =>
           /\ status # "ended"
           /\ \A i \in DOMAIN open' :
                /\ i \in DOMAIN open /\ open'[i] = open[i]
                /\ stack'[i + 1].parent_object = stack[i + 1].parent_object
                /\ stack'[i + 1].current_object_resource
                     = stack[i + 1].current_object_resource
  PROVE  Chained'
<1>1. /\ Elements' = Elements
      /\ \A k : /\ Enclosing(k)' = Enclosing(k)
                /\ Transparent(k)' <=> Transparent(k)
      /\ \A k \in Elements : HangsAlone(k)' => HangsAlone(k)
  BY SameTree, SameTreeAnonymous DEF Transparent, Unset
<1>2. \A m : Taken(m)' <=> Taken(m)
  BY <1>1 DEF Taken
<1>3. \A d : SaysOfOwn(d)' <=> SaysOfOwn(d)
  BY <1>1 DEF SaysOfOwn
<1>4. \A d \in graph' : SaysOfOwn(d)'
  BY <1>3 DEF LinkInv, Chained
<1>5. status' # "ended" => ObjectsFollow'
  BY DEF LinkInv, Chained, ObjectsFollow
<1>6. ASSUME NEW m \in Elements', HangsAlone(m)' PROVE ChainHolds(m)'
  <2>1. m \in Elements /\ ChainHolds(m)
    BY <1>1, <1>6 DEF LinkInv, Chained
  <2>2. \A n \in Elements' \ {m} :
          /\ tree'[n].object # tree'[m].object
          /\ tree'[n].subject = tree'[m].object =>
               Taken(m)' \/ (Transparent(n)' /\ Enclosing(n)' = m)
    BY <1>1, <1>2, <2>1 DEF ChainHolds
  <2>3. ASSUME status' # "ended", NEW i \in DOMAIN open', open'[i] # m,
               stack'[i + 1].parent_object = tree'[m].object
        PROVE  Taken(m)' \/ Enclosing(open[i])' = m
    <3>1. PICK k : k = open[i] /\ k = open'[i]
      BY <2>3
    <3>2. Taken(m) \/ Enclosing(k) = m
      BY <2>1, <2>3, <3>1 DEF ChainHolds
    <3>3. Taken(m)' \/ Enclosing(k)' = m
      BY <1>1, <1>2, <3>2
    <3> QED BY <3>1, <3>3
  <2> QED BY <2>2, <2>3 DEF ChainHolds
<1> QED BY <1>4, <1>5, <1>6 DEF Chained

\* What a context gives back to the one below changes no object of its.
LEMMA ReturnKeepsObject ==
  ASSUME NEW parent \in Contexts, NEW c \in Contexts
  PROVE  /\ SameSubject(parent, ReturnTo(parent, c))
         /\ ReturnTo(parent, c).current_object_resource
              = parent.current_object_resource
<1>1. SameSubject(parent, ReturnTo(parent, c))
  BY ReturnToType
<1>2. ReturnTo(parent, c).current_object_resource
        = parent.current_object_resource
  <2>1. PICK done : done = AfterLists(AfterIncomplete(c))
    OBVIOUS
  <2>2. PICK words : words = Appended(parent.plain_literal, c.plain_literal)
    OBVIOUS
  <2>3. PICK named : named = NamesReturned(TextReturned(parent, c), c)
    OBVIOUS
  <2>4. named = [parent EXCEPT
                   !.plain_literal = words, !.inner = "markup",
                   !.bnode_count = c.bnode_count,
                   !.underscore_colon_bnode_name = c.underscore_colon_bnode_name]
    BY <2>2, <2>3 DEF NamesReturned, TextReturned, Contexts
  <2>5. /\ DOMAIN named = DOMAIN parent
        /\ named.current_object_resource = parent.current_object_resource
    BY <2>4 DEF Contexts
  <2>6. ReturnTo(parent, c) \in
          {named, [named EXCEPT !.local_list_mappings = done.local_list_mappings,
                                !.list_slots = done.list_slots]}
    BY <2>1, <2>3 DEF ReturnTo, ListsReturned
  <2> QED BY <2>5, <2>6 DEF Contexts
<1> QED BY <1>1, <1>2

\* end_element keeps the chains: what it sends of an element is sent for its
\* @property, or by another sender.
LEMMA EndElementChained ==
  ASSUME LinkInv, EndElement
  PROVE  Chained'
<1> DEFINE literal == CloseLiteral(Top)
           e       == AfterProperty(literal)
           parent  == Len(stack) - 1
           lists   == IF SendsLists(e) THEN ListTriples(AfterIncomplete(e)) ELSE {}
           hanging == IF Completes(e) THEN HangingTriples(e) ELSE {}
           sent    == PropertyTriples(literal) \cup hanging \cup lists
           back    == ReturnTo(stack[parent], e)
<1>1. /\ Inv /\ status = "parsing" /\ Len(stack) > 1
      /\ RelationsFollow /\ TreeOK /\ OpenOK /\ ContextsTell
  BY DEF LinkInv, RelationsInv, WholeInv, EndElement
<1>2. /\ open \in Seq(Nat) /\ stack \in Seq(Contexts)
      /\ Len(stack) = Len(open) + 1 /\ open # << >>
      /\ Top \in Contexts /\ Top = stack[Len(open) + 1]
      /\ Top.new_subject # NULL
      /\ parent = Len(open) /\ stack[Len(open)] \in Contexts
      /\ Len(open) \in DOMAIN open
  <2>1. open \in Seq(Nat)
    BY <1>1 DEF Inv, TypeOK
  <2>2. StackOK(stack, Len(open) + 1) /\ Len(open) \in Nat
    BY <1>1, <2>1, InvStack
  <2> QED BY <1>1, <2>1, <2>2 DEF StackOK, Top
<1>3. PICK n : n = open[Len(open)]
  OBVIOUS
<1>4. n \in Elements /\ ContextFollows(Top, n) /\ ContextTells(Top, n)
  <2>1. ContextFollows(Top, n)
    BY <1>1, <1>2, <1>3, TopRelations
  <2> QED BY <1>1, <1>2, <1>3, <2>1 DEF OpenOK, ContextsTell
<1>5. /\ stack' = [i \in 1 .. parent |-> IF i = parent THEN back ELSE stack[i]]
      /\ graph' = graph \cup Sent(n, sent)
      /\ open' = SubSeq(open, 1, Len(open) - 1)
      /\ status' = status /\ UNCHANGED tree
  BY <1>3 DEF EndElement
<1>6. literal \in Contexts /\ SameSubject(Top, literal)
  BY <1>2, CloseLiteralType DEF SameSubject
<1>7. e \in Contexts
  <2> HIDE DEF literal
  <2> QED BY <1>2, <1>6, AfterPropertyType DEF SameSubject
<1>8. /\ SameSubject(stack[Len(open)], back)
      /\ back.current_object_resource = stack[Len(open)].current_object_resource
  BY <1>2, <1>7, ReturnKeepsObject
<1>9. \A t \in sent : t.by \in Speaks =>
        /\ ~Transparent(n) /\ t.s \in {NULL, tree[n].subject}
  <2>1. /\ \A t \in hanging : t.by = "hanging"
        /\ \A t \in lists : t.by \in {"nil", "list", "first", "rest"}
    <3> HIDE DEF literal, e
    <3> QED BY EndSenders
  <2>2. \A t \in hanging \cup lists : t.by \notin Speaks
    <3> HIDE DEF hanging, lists
    <3> QED BY <2>1 DEF Speaks
  <2>3. /\ literal.new_subject = tree[n].subject
        /\ literal.attrs.property = tree[n].tag.property
    <3> HIDE DEF literal
    <3> QED BY <1>4, <1>6 DEF SameSubject, ContextFollows, ContextTells,
       AttributesOf
  <2>4. tree[n].tag.property # NULL => ~Transparent(n)
    BY DEF Transparent, Unset
  <2> HIDE DEF literal, e, hanging, lists
  <2>5. \A t \in PropertyTriples(literal) :
          t.s \in {NULL, literal.new_subject} /\ literal.attrs.property # NULL
    BY EndSpeaks
  <2> QED BY <2>2, <2>3, <2>4, <2>5
<1> HIDE DEF literal, e, lists, hanging, sent, back
<1>10. ASSUME NEW d \in graph' \ graph PROVE SaysOfOwn(d)
  <2>1. PICK t \in sent : d = [at |-> n, t |-> t]
    BY <1>5 DEF Sent
  <2>2. d.at = n /\ d.t = t
    BY <2>1
  <2> QED BY <1>4, <1>9, <2>2 DEF SaysOfOwn
<1>11. /\ DOMAIN open' = 1 .. Len(open) - 1
       /\ \A i \in 1 .. Len(open) - 1 : open'[i] = open[i]
  BY <1>1, <1>2, <1>5, EndNesting
<1>12. ASSUME NEW i \in DOMAIN open'
       PROVE  /\ i \in DOMAIN open /\ open'[i] = open[i]
              /\ stack'[i + 1].parent_object = stack[i + 1].parent_object
              /\ stack'[i + 1].current_object_resource
                   = stack[i + 1].current_object_resource
  <2>1. i \in 1 .. Len(open) - 1 /\ Len(open) \in Nat
    BY <1>2, <1>11
  <2>2. i \in DOMAIN open /\ open'[i] = open[i] /\ i + 1 \in 1 .. parent
    BY <1>2, <1>11, <2>1
  <2>3. stack'[i + 1] = IF i + 1 = parent THEN back ELSE stack[i + 1]
    BY <1>5, <2>2
  <2> HIDE DEF parent
  <2> QED BY <1>2, <1>8, <2>2, <2>3 DEF SameSubject
<1> QED BY <1>1, <1>5, <1>10, <1>12, KeepsChained

\* Character data and errors change no object and say nothing of an element.
LEMMA CharacterDataChained ==
  ASSUME LinkInv, NEW t \in Texts, CharacterData(t)
  PROVE  Chained'
<1> DEFINE c == [Top EXCEPT !.plain_literal = Appended(@, <<t>>),
                            !.inner = InnerWithText(@, t)]
<1>1. /\ Inv /\ status = "parsing" /\ UNCHANGED <<graph, status, open, tree>>
      /\ stack' = [stack EXCEPT ![Len(stack)] = c]
  BY DEF LinkInv, RelationsInv, CharacterData, WithText, Top
<1>2. /\ stack \in Seq(Contexts) /\ Len(stack) = Len(open) + 1
      /\ open \in Seq(Nat) /\ Top \in Contexts
  BY <1>1, InvStack DEF StackOK, Inv, TypeOK
<1>3. /\ c.parent_object = Top.parent_object
      /\ c.current_object_resource = Top.current_object_resource
  BY <1>2 DEF Contexts
<1> HIDE DEF c
<1>4. ASSUME NEW i \in DOMAIN open'
      PROVE  /\ stack'[i + 1].parent_object = stack[i + 1].parent_object
             /\ stack'[i + 1].current_object_resource
                  = stack[i + 1].current_object_resource
  <2>1. i + 1 \in DOMAIN stack
    BY <1>1, <1>2
  <2>2. stack'[i + 1] = stack[i + 1]
          \/ (stack[i + 1] = Top /\ stack'[i + 1] = c)
    BY <1>1, <2>1 DEF Top
  <2> QED BY <1>3, <2>2
<1> QED BY <1>1, <1>4, KeepsChained

LEMMA ReportErrorChained ==
  ASSUME LinkInv, ReportError
  PROVE  Chained'
<1> DEFINE r    == [stack[1] EXCEPT !.bnode_count = @ + 2]
           sent == {Report("error", stack[1].bnode_count)}
<1>1. /\ Inv /\ status = "parsing" /\ UNCHANGED <<status, open, tree>>
  BY DEF LinkInv, RelationsInv, ReportError
<1>2. /\ stack \in Seq(Contexts) /\ Len(stack) = Len(open) + 1
      /\ open \in Seq(Nat)
  BY <1>1, InvStack DEF StackOK, Inv, TypeOK
<1>3. CASE ~HasProcessorGraph
  BY <1>1, <1>3, KeepsChained DEF ReportError
<1>4. CASE HasProcessorGraph
  <2>1. /\ stack' = [stack EXCEPT ![1] = r]
        /\ graph' = graph \cup Sent(Len(tree), sent)
    BY <1>4 DEF ReportError
  <2>2. \A u \in sent : u.by \notin Speaks
    BY TripleBy DEF Report, Speaks
  <2> HIDE DEF r, sent
  <2>3. \A d \in graph' \ graph : SaysOfOwn(d)
    BY <2>1, <2>2 DEF Sent, SaysOfOwn
  <2>4. ASSUME NEW i \in DOMAIN open' PROVE stack'[i + 1] = stack[i + 1]
    BY <1>1, <1>2, <2>1
  <2> QED BY <1>1, <2>3, <2>4, KeepsChained
<1> QED BY <1>3, <1>4

LEMMA InitLink == Init => LinkInv
<1> SUFFICES ASSUME Init PROVE LinkInv
  OBVIOUS
<1>1. tree = << >> /\ open = << >> /\ graph = {}
  BY DEF Init
<1>2. Chained
  BY <1>1 DEF Chained, ObjectsFollow, Elements
<1> QED BY <1>2, InitRelations, InitAnonymous, InitWhole DEF LinkInv

LEMMA NextLink ==
  ASSUME LinkInv, SkipsBareElements, OwnNames, [Next]_vars
  PROVE  LinkInv'
<1>1. RelationsInv' /\ AnonymousInv' /\ WholeInv'
  BY NextRelations, NextAnonymous, NextWhole DEF LinkInv
<1>2. Chained'
  <2>1. CASE UNCHANGED vars \/ ReadNullLiteral
    BY <2>1, KeepsChained DEF vars, ReadNullLiteral
  <2>2. CASE ParseEnd
    BY <2>2, KeepsChained DEF ParseEnd
  <2> QED
    BY <2>1, <2>2, StartElementChained, CharacterDataChained,
       EndElementChained, ReportErrorChained
    DEF Next
<1> QED BY <1>1, <1>2 DEF LinkInv

\* Once the document is closed, every node that was described is linked.
LEMMA LinkedAtEnd ==
  ASSUME LinkInv
  PROVE  HangingObjectsLinked
<1> SUFFICES ASSUME DocumentClosed,
                    NEW m \in Elements, Hangs(m), ~HangsInList(m),
                    NEW e \in graph, e.at # m, e.t.s = tree[m].object,
                    e.t.by \in Speaks
             PROVE  /\ \A p \in Predicates(m, "rel") : \E d \in SentHanging :
                         d.s = tree[m].subject /\ d.p = p /\ d.o = tree[m].object
                    /\ \A p \in Predicates(m, "rev") : \E d \in SentHanging :
                         d.s = tree[m].object /\ d.p = p /\ d.o = tree[m].subject
  BY DEF HangingObjectsLinked, Speaks
<1>1. HangsAlone(m) /\ ChainHolds(m) /\ SaysOfOwn(e)
  BY DEF LinkInv, Chained, HangsAlone
<1>2. tree[m].object # NULL
  <2>1. tree[m].object \in Bnodes
    BY <1>1 DEF LinkInv, AnonymousInv, NamesInv, HangingObjectIsNew, HangsAlone
  <2> QED BY <2>1, NullBnodeAssumption
<1>3. Taken(m)
  BY <1>1, <1>2 DEF SaysOfOwn, ChainHolds
<1>4. PICK n \in Elements : /\ ~Transparent(n) /\ Enclosing(n) = m
                            /\ tree[n].subject = tree[m].object
  BY <1>3 DEF Taken
<1>5. Completing(n) /\ n \in Closed
  <2>1. open = << >>
    <3>1. Inv /\ status # "ended" /\ Len(stack) = 1
      BY DEF LinkInv, RelationsInv, DocumentClosed
    <3>2. Len(stack) = Len(open) + 1 /\ open \in Seq(Nat)
      BY <3>1, InvStack DEF StackOK, Inv, TypeOK
    <3>3. Len(open) \in Nat /\ Len(open) + 1 = 1
      BY <3>1, <3>2
    <3>4. Len(open) = 0
      BY <3>3
    <3> QED BY ONLY <3>2, <3>4, EmptySeq
  <2>2. m # 0 /\ Completing(n)
    <3>1. tree \in Seq(Nodes)
      BY DEF LinkInv, RelationsInv, Inv, TypeOK
    <3>2. m # 0
      BY <3>1 DEF Elements
    <3> QED BY <1>4, <3>2 DEF Completing
  <2>3. n \notin ToSet(open)
    BY <2>1 DEF ToSet
  <2> QED BY <2>2, <2>3 DEF Closed
<1>6. \A x \in Completion(n, m) : x \in SentHanging
  BY <1>4, <1>5, ExpectedCompletions
  DEF ExpectedIs, LinkInv, RelationsInv, HangingRelationsCompleted
<1>7. ASSUME NEW p \in Predicates(m, "rel")
      PROVE  \E d \in SentHanging :
               d.s = tree[m].subject /\ d.p = p /\ d.o = tree[m].object
  <2>1. [at |-> n, s |-> tree[m].subject, p |-> p, o |-> tree[n].subject]
          \in SentHanging
    BY <1>6, <1>7 DEF Completion
  <2> QED BY <1>4, <2>1
<1>8. ASSUME NEW p \in Predicates(m, "rev")
      PROVE  \E d \in SentHanging :
               d.s = tree[m].object /\ d.p = p /\ d.o = tree[m].subject
  <2>1. [at |-> n, s |-> tree[n].subject, p |-> p, o |-> tree[m].subject]
          \in SentHanging
    BY <1>6, <1>8 DEF Completion
  <2> QED BY <1>4, <2>1
<1> QED BY <1>7, <1>8

(***************************************************************************)
(* In every document whose skipped elements have no RDFa attributes and    *)
(* whose author names no generated node: when a descendant describes the   *)
(* blank node that stands for a missing object, the predicates left open   *)
(* are linked to that node.  The node reaches the descendant through       *)
(* parent_object, from context to context, and the first element to take   *)
(* it that is not skipped is one that completes the relations.             *)
(***************************************************************************)
THEOREM HangingObjectsAlwaysLinked ==
  ASSUME SkipsBareElements, OwnNames
  PROVE  Spec => []HangingObjectsLinked
<1>1. LinkInv => HangingObjectsLinked
  BY LinkedAtEnd
<1>2. LinkInv /\ [Next]_vars => LinkInv'
  BY NextLink
<1> QED BY <1>1, <1>2, InitLink, PTL DEF Spec

-----------------------------------------------------------------------------
(* The text of an element, read run by run.                                *)

\* What reading the first k runs gives, as a function of k.
Reads(n, runs, k, f) ==
  f = [i \in 0 .. k |->
         IF i = 0 THEN << >>
         ELSE IF n \in ToSet(runs[i].path) THEN Append(f[i - 1], runs[i].text)
              ELSE f[i - 1]]

\* What is wrong for some number is wrong for a smallest one.
LEMMA SmallestNumber ==
  ASSUME NEW T \in SUBSET Nat, T # {}
  PROVE  \E x \in T : \A y \in T : x <= y
<1>1. PICK x \in T : \A y \in T : ~ (<<y, x>> \in OpToRel(<, Nat))
  BY WFMin, NatLessThanWellFounded, Zenon
<1>2. \A y \in T : y < x => <<y, x>> \in OpToRel(<, Nat)
  BY DEF OpToRel
<1>3. \A y \in T : ~(y < x)
  BY <1>1, <1>2, Zenon
<1> QED BY <1>3

\* There is such a function, since any prefix can be read one run further.
LEMMA ReadsExist ==
  ASSUME NEW n, NEW runs, NEW k \in Nat
  PROVE  \E f : Reads(n, runs, k, f)
<1> DEFINE T == {j \in Nat : ~ \E f : Reads(n, runs, j, f)}
<1> SUFFICES ASSUME T # {} PROVE FALSE
  OBVIOUS
<1>1. PICK j \in T : \A y \in T : j <= y
  <2> HIDE DEF T
  <2>1. T \in SUBSET Nat
    BY DEF T
  <2> QED BY <2>1, SmallestNumber
<1>2. CASE j = 0
  <2> DEFINE f == [i \in 0 .. 0 |-> << >>]
  <2>1. Reads(n, runs, 0, f)
    BY DEF Reads
  <2> QED BY <1>2, <2>1
<1>3. CASE j # 0
  <2>1. j \in Nat /\ j - 1 \in Nat /\ j - 1 \notin T
    BY <1>1, <1>3
  <2>2. PICK g : Reads(n, runs, j - 1, g)
    BY <2>1
  <2> DEFINE last == IF n \in ToSet(runs[j].path)
                     THEN Append(g[j - 1], runs[j].text) ELSE g[j - 1]
             f == [i \in 0 .. j |-> IF i = j THEN last ELSE g[i]]
  <2>3. \A i \in 0 .. j - 1 : f[i] = g[i]
    BY <2>1
  <2>4. f[j] = last
    BY <2>1
  <2> HIDE DEF last
  <2>5. \A i \in 0 .. j :
          f[i] = IF i = 0 THEN << >>
                 ELSE IF n \in ToSet(runs[i].path)
                      THEN Append(f[i - 1], runs[i].text) ELSE f[i - 1]
    <3> TAKE i \in 0 .. j
    <3>1. CASE i = j
      <4>1. f[i - 1] = g[j - 1]
        BY <2>1, <2>3, <3>1
      <4> HIDE DEF f
      <4> QED BY <1>3, <2>4, <3>1, <4>1 DEF last
    <3>2. CASE i # j
      <4>1. i \in 0 .. j - 1
        BY <2>1, <3>2
      <4>2. g[i] = IF i = 0 THEN << >>
                   ELSE IF n \in ToSet(runs[i].path)
                        THEN Append(g[i - 1], runs[i].text) ELSE g[i - 1]
        BY <2>2, <4>1 DEF Reads
      <4>3. i # 0 => f[i - 1] = g[i - 1]
        BY <2>1, <2>3, <4>1
      <4> QED BY <2>3, <4>1, <4>2, <4>3
    <3> QED BY <3>1, <3>2
  <2>6. Reads(n, runs, j, f)
    <3> HIDE DEF f
    <3>1. f = [i \in 0 .. j |-> f[i]]
      BY DEF f
    <3> QED BY <2>5, <3>1 DEF Reads
  <2> QED BY <1>1, <2>6
<1> QED BY <1>2, <1>3

\* Two such functions agree, on runs that are the same.
LEMMA ReadsAgree ==
  ASSUME NEW n, NEW runs, NEW more, NEW k \in Nat, NEW m \in Nat, k <= m,
         NEW f, Reads(n, runs, k, f), NEW g, Reads(n, more, m, g),
         \A i \in 1 .. k : more[i] = runs[i]
  PROVE  f[k] = g[k]
<1> DEFINE T == {i \in 0 .. k : f[i] # g[i]}
<1> SUFFICES ASSUME T # {} PROVE FALSE
  OBVIOUS
<1>1. PICK j \in T : \A y \in T : j <= y
  <2> HIDE DEF T
  <2>1. T \in SUBSET Nat
    BY DEF T
  <2> QED BY <2>1, SmallestNumber
<1>2. j \in 0 .. k /\ f[j] # g[j]
  BY <1>1
<1>3. /\ f[j] = IF j = 0 THEN << >>
                ELSE IF n \in ToSet(runs[j].path)
                     THEN Append(f[j - 1], runs[j].text) ELSE f[j - 1]
      /\ g[j] = IF j = 0 THEN << >>
                ELSE IF n \in ToSet(more[j].path)
                     THEN Append(g[j - 1], more[j].text) ELSE g[j - 1]
  <2>1. j \in 0 .. m
    BY <1>2
  <2> QED BY <1>2, <2>1 DEF Reads
<1>4. j # 0
  BY <1>2, <1>3
<1>5. j - 1 \in 0 .. k /\ j - 1 \notin T /\ more[j] = runs[j]
  BY <1>1, <1>2, <1>4
<1>6. f[j - 1] = g[j - 1]
  BY <1>5
<1> QED BY <1>2, <1>3, <1>4, <1>5, <1>6

LEMMA ReadingIs ==
  ASSUME NEW n, NEW runs, Len(runs) \in Nat
  PROVE  \E f : Reads(n, runs, Len(runs), f) /\ TextRead(n, runs) = f[Len(runs)]
<1> DEFINE read == CHOOSE f : Reads(n, runs, Len(runs), f)
<1>1. Reads(n, runs, Len(runs), read)
  BY ReadsExist
<1>2. TextRead(n, runs) = read[Len(runs)]
  BY DEF TextRead, Reads
<1> QED BY <1>1, <1>2

\* One more run is text of the elements in its path.
LEMMA ReadOneMore ==
  ASSUME NEW n, NEW S, NEW runs \in Seq(S), NEW run \in S
  PROVE  TextRead(n, Append(runs, run)) =
           IF n \in ToSet(run.path) THEN Append(TextRead(n, runs), run.text)
           ELSE TextRead(n, runs)
<1> DEFINE more == Append(runs, run)
           k    == Len(runs)
<1>1. /\ k \in Nat /\ Len(more) = k + 1 /\ more[k + 1] = run
      /\ \A i \in 1 .. k : more[i] = runs[i]
  OBVIOUS
<1> HIDE DEF more, k
<1>2. PICK f : Reads(n, runs, k, f) /\ TextRead(n, runs) = f[k]
  BY <1>1, ReadingIs DEF k
<1>3. PICK g : Reads(n, more, k + 1, g) /\ TextRead(n, more) = g[k + 1]
  <2>1. Len(more) \in Nat
    BY <1>1
  <2> QED BY <1>1, <2>1, ReadingIs
<1>4. f[k] = g[k]
  <2>1. k + 1 \in Nat /\ k <= k + 1
    BY <1>1
  <2> QED BY <1>1, <1>2, <1>3, <2>1, ReadsAgree
<1>5. g[k + 1] = IF n \in ToSet(run.path) THEN Append(g[k], run.text) ELSE g[k]
  <2>1. k + 1 \in 0 .. k + 1 /\ k + 1 # 0 /\ (k + 1) - 1 = k
    BY <1>1
  <2>2. g[k + 1] = IF k + 1 = 0 THEN << >>
                   ELSE IF n \in ToSet(more[k + 1].path)
                        THEN Append(g[(k + 1) - 1], more[k + 1].text)
                        ELSE g[(k + 1) - 1]
    BY <1>3, <2>1 DEF Reads
  <2> QED BY <1>1, <2>1, <2>2
<1> QED BY <1>2, <1>3, <1>4, <1>5 DEF more

\* What is read is text, and nothing when no run lies inside the element.
LEMMA ReadIsText ==
  ASSUME NEW n, NEW S, NEW R, \A r \in R : r.text \in S, NEW runs \in Seq(R)
  PROVE  /\ TextRead(n, runs) \in Seq(S)
         /\ (\A run \in ToSet(runs) : n \notin ToSet(run.path)) =>
              TextRead(n, runs) = << >>
<1>1. PICK k \in Nat : k = Len(runs)
  OBVIOUS
<1>2. PICK f : Reads(n, runs, k, f) /\ TextRead(n, runs) = f[k]
  BY <1>1, ReadingIs
<1>3. \A i \in 1 .. k : runs[i].text \in S /\ runs[i] \in ToSet(runs)
  <2> TAKE i \in 1 .. k
  <2>1. i \in DOMAIN runs
    BY <1>1
  <2>2. runs[i] \in R
    BY <2>1
  <2> QED BY <2>1, <2>2 DEF ToSet
<1>4. \A i \in 0 .. k :
        f[i] = IF i = 0 THEN << >>
               ELSE IF n \in ToSet(runs[i].path)
                    THEN Append(f[i - 1], runs[i].text) ELSE f[i - 1]
  BY <1>2 DEF Reads
<1> DEFINE outside == \A run \in ToSet(runs) : n \notin ToSet(run.path)
           Good(i) == f[i] \in Seq(S) /\ (outside => f[i] = << >>)
           T == {i \in 0 .. k : ~ Good(i)}
<1>5. Good(0)
  <2>1. f[0] = << >> /\ << >> \in Seq(S)
    BY <1>4
  <2> QED BY ONLY <2>1
<1>6. ASSUME NEW i \in 1 .. k, Good(i - 1) PROVE Good(i)
  <2>1. i \in 0 .. k /\ i # 0
    OBVIOUS
  <2>2. f[i] = IF n \in ToSet(runs[i].path)
               THEN Append(f[i - 1], runs[i].text) ELSE f[i - 1]
    BY <1>4, <2>1
  <2>3. runs[i].text \in S /\ (outside => n \notin ToSet(runs[i].path))
    BY <1>3
  <2> QED BY <1>6, <2>2, <2>3
<1>7. T = {}
  <2> SUFFICES ASSUME T # {} PROVE FALSE
    OBVIOUS
  <2>1. PICK j \in T : \A y \in T : j <= y
    <3> HIDE DEF T
    <3>1. T \in SUBSET Nat
      BY DEF T
    <3> QED BY <3>1, SmallestNumber
  <2> HIDE DEF Good
  <2>2. j \in 1 .. k /\ j - 1 \in 0 .. k /\ j - 1 \notin T
    BY <1>5, <2>1
  <2> QED BY <1>6, <2>1, <2>2
<1>8. Good(k)
  BY <1>7
<1> QED BY <1>2, <1>8

-----------------------------------------------------------------------------
(* The language of an element.                                             *)

LEMMA GreatestIs ==
  ASSUME NEW G \in SUBSET Nat, NEW x \in G, \A y \in G : y <= x
  PROVE  Max(G) = x
<1>1. \A y \in G : x >= y
  OBVIOUS
<1>2. \A z \in G : (\A y \in G : z >= y) => z = x
  OBVIOUS
<1> QED BY <1>1, <1>2 DEF Max

LEMMA GreatestNumber ==
  ASSUME NEW k \in Nat, NEW T \in SUBSET (1 .. k), T # {}
  PROVE  Max(T) \in T /\ \A y \in T : y <= Max(T)
<1> DEFINE U == {i \in Nat : k - i \in T}
<1>1. U # {} /\ U \in SUBSET Nat
  <2>1. PICK x \in T : TRUE
    OBVIOUS
  <2>2. k - x \in Nat /\ k - (k - x) = x
    BY <2>1
  <2>3. k - x \in U
    BY <2>2
  <2> QED BY <2>3
<1>2. PICK i \in U : \A j \in U : i <= j
  <2> HIDE DEF U
  <2> QED BY <1>1, SmallestNumber
<1>3. k - i \in T /\ i \in Nat
  BY <1>2
<1>4. ASSUME NEW y \in T PROVE y <= k - i
  <2>1. k - y \in Nat /\ k - (k - y) = y
    OBVIOUS
  <2>2. k - y \in U
    BY <2>1
  <2>3. i <= k - y
    BY <1>2, <2>2
  <2> QED BY <1>3, <2>3
<1>5. Max(T) = k - i
  <2>1. T \in SUBSET Nat
    OBVIOUS
  <2> QED BY <1>3, <1>4, <2>1, GreatestIs
<1> QED BY <1>3, <1>4, <1>5

\* The language of an earlier element stays, and a start tag updates that of
\* the element around it.
LEMMA LanguageNew ==
  ASSUME TreeOK, OpenOK, tree \in Seq(Nodes), open \in Seq(Nat),
         NEW node \in Nodes, NEW id \in Nat, id = Len(tree) + 1,
         node.path = Append(open, id), tree' = Append(tree, node)
  PROVE  /\ \A n \in Elements : LanguageOf(n)' = LanguageOf(n)
         /\ LanguageOf(id)' =
              UpdatedLanguage(IF open = << >> THEN NULL
                              ELSE LanguageOf(open[Len(open)]), node.tag.lang)
<1>1. /\ Elements = 1 .. id - 1 /\ tree'[id] = node
      /\ \A n \in Elements : tree'[n] = tree[n]
  BY DEF Elements
<1>2. ASSUME NEW n \in Elements PROVE LanguageOf(n)' = LanguageOf(n)
  <2>1. tree[n] \in Nodes
    BY DEF Elements
  <2>2. tree[n].path \in Seq(Nat)
    BY <2>1 DEF Nodes
  <2>3. \A i \in DOMAIN tree[n].path : tree[n].path[i] \in Elements
    BY <1>1 DEF TreeOK
  <2> DEFINE T == {i \in DOMAIN tree[n].path :
                     tree[tree[n].path[i]].tag.lang # NULL}
  <2>4. {i \in DOMAIN tree'[n].path :
                     tree'[tree'[n].path[i]].tag.lang # NULL} = T
    BY <1>1, <2>3
  <2>5. tree'[n].path = tree[n].path
    BY <1>1
  <2>6. T # {} => Max(T) \in DOMAIN tree[n].path
    <3>1. PICK k \in Nat : DOMAIN tree[n].path = 1 .. k
      BY <2>2
    <3>2. T \in SUBSET (1 .. k)
      BY <3>1
    <3> HIDE DEF T
    <3> QED BY <3>1, <3>2, GreatestNumber
  <2> QED BY <1>1, <2>3, <2>4, <2>5, <2>6 DEF LanguageOf
<1> DEFINE L == Len(open)
           G == {i \in 1 .. L : tree[open[i]].tag.lang # NULL}
           lang == node.tag.lang
           T == {i \in DOMAIN tree'[id].path :
                   tree'[tree'[id].path[i]].tag.lang # NULL}
<1>3. /\ L \in Nat /\ DOMAIN open = 1 .. L
      /\ \A i \in 1 .. L : open[i] \in Elements
  BY DEF OpenOK
<1>4. /\ tree'[id].path = Append(open, id)
      /\ DOMAIN tree'[id].path = 1 .. L + 1
      /\ tree'[id].path[L + 1] = id
      /\ \A i \in 1 .. L : tree'[id].path[i] = open[i]
  <2>1. tree'[id].path = Append(open, id)
    BY <1>1
  <2>2. open \in Seq(Nat) /\ id \in Nat
    OBVIOUS
  <2>3. PICK path : path = Append(open, id)
    OBVIOUS
  <2>4. /\ DOMAIN path = 1 .. L + 1 /\ path[L + 1] = id
        /\ \A i \in 1 .. L : path[i] = open[i]
    BY ONLY <2>2, <2>3
  <2> QED BY <2>1, <2>3, <2>4
<1>5. \A i \in 1 .. L : tree'[tree'[id].path[i]] = tree[open[i]]
  BY <1>1, <1>3, <1>4
<1>6. \A i : i \in T <=> i \in G \/ (i = L + 1 /\ lang # NULL)
  <2>1. \A i \in 1 .. L + 1 : i \in 1 .. L \/ i = L + 1
    BY <1>3
  <2>2. L + 1 \in 1 .. L + 1 /\ L + 1 \notin 1 .. L
        /\ \A i \in 1 .. L : i \in 1 .. L + 1
    BY <1>3
  <2> DEFINE Tag(i) == tree'[tree'[id].path[i]].tag
  <2>3. /\ Tag(L + 1) = node.tag
        /\ \A i \in 1 .. L : Tag(i) = tree[open[i]].tag
    BY <1>1, <1>4, <1>5
  <2>4. \A i : i \in T <=> i \in 1 .. L + 1 /\ Tag(i).lang # NULL
    BY <1>4
  <2> HIDE DEF Tag, T, L
  <2> QED BY <2>1, <2>2, <2>3, <2>4
<1>7. LanguageOf(id)' =
        IF T = {} \/ tree'[tree'[id].path[Max(T)]].tag.lang = EmptyLanguage
        THEN NULL ELSE tree'[tree'[id].path[Max(T)]].tag.lang
  BY DEF LanguageOf
<1> HIDE DEF T
<1>8. CASE lang # NULL
  <2>1. Max(T) = L + 1
    <3>1. T \in SUBSET Nat /\ L + 1 \in T /\ \A i \in T : i <= L + 1
      BY <1>3, <1>6, <1>8
    <3> QED BY <3>1, GreatestIs
  <2>2. tree'[tree'[id].path[Max(T)]] = node /\ T # {}
    BY <1>1, <1>4, <1>6, <1>8, <2>1
  <2> QED BY <1>2, <1>7, <1>8, <2>2 DEF UpdatedLanguage
<1>9. CASE lang = NULL
  <2>1. T = G
    BY <1>6, <1>9
  <2>2. CASE open = << >>
    <3>1. G = {}
      BY <1>3, <2>2
    <3> QED BY <1>2, <1>7, <1>9, <2>1, <2>2, <3>1 DEF UpdatedLanguage
  <2>3. CASE open # << >>
    <3>1. PICK p : p = open[L]
      OBVIOUS
    <3>2. L \in DOMAIN open
      BY <1>3, <2>3
    <3>3. Len(tree[p].path) = L /\ \A i \in 1 .. L : tree[p].path[i] = open[i]
      BY <3>1, <3>2 DEF OpenOK
    <3>4. DOMAIN tree[p].path = 1 .. L
      <4>1. p \in Elements
        BY <1>3, <3>1, <3>2
      <4>2. tree[p] \in Nodes
        BY <4>1 DEF Elements
      <4> QED BY <3>3, <4>2 DEF Nodes
    <3>5. {i \in DOMAIN tree[p].path :
             tree[tree[p].path[i]].tag.lang # NULL} = G
      BY <3>3, <3>4
    <3>6. G # {} => Max(G) \in 1 .. L
      <4>1. G \in SUBSET (1 .. L)
        OBVIOUS
      <4> HIDE DEF G
      <4> QED BY <1>3, <4>1, GreatestNumber
    <3> HIDE DEF G, L
    <3>7. LanguageOf(p) =
            IF G = {} \/ tree[tree[p].path[Max(G)]].tag.lang = EmptyLanguage
            THEN NULL ELSE tree[tree[p].path[Max(G)]].tag.lang
      BY <3>5 DEF LanguageOf
    <3>8. G # {} => tree'[tree'[id].path[Max(G)]] = tree[tree[p].path[Max(G)]]
      BY <1>5, <3>3, <3>6
    <3>9. LanguageOf(id)' = LanguageOf(p)
      BY <1>7, <2>1, <3>7, <3>8
    <3> QED BY <1>2, <1>9, <2>3, <3>1, <3>9 DEF UpdatedLanguage, L
  <2> QED BY <2>2, <2>3
<1> QED BY <1>8, <1>9

-----------------------------------------------------------------------------
(* The literal that @property sends.                                       *)

\* Without @content, a value that is a literal is the text of the element, in
\* the language of its context.
LEMMA ValueSays ==
  ASSUME NEW c \in Contexts, c.attrs.content = NULL,
         NEW v \in {CurrentPropertyValue(c), CurrentObjectLiteral(c)},
         v \notin Resources \cup {NULL}
  PROVE  v.lit.text = XmlText(c) /\ v.lang = c.language
<1> DEFINE a     == c.attrs
           words == FirstSet(<<a.content, c.plain_literal>>)
           typed == IF a.about = NULL THEN c.typed_resource ELSE NULL
           named == <<a.resource, a.href, a.src, typed>>
           resource == IF a.rel # NULL \/ a.rev # NULL THEN NULL
                       ELSE FirstSet(named)
           Of(kind) == Literal(XmlText(c), kind, c.language)
<1>1. words = c.plain_literal
  <2>1. words = IF a.content # NULL THEN a.content ELSE c.plain_literal
    BY FirstOfTwoIs
  <2> QED BY <2>1
<1>2. resource \in Resources \cup {NULL}
  <2>1. typed \in Maybe(Resources)
    BY DEF Contexts, Maybe
  <2> HIDE DEF typed
  <2>2. named \in Seq(Maybe(Resources)) /\ Len(named) <= 4
    BY <2>1, AttributeTypes
  <2> HIDE DEF named
  <2>3. FirstSet(named) \in Maybe(Resources)
    BY <2>2, FirstSetType, NullIsNoResource
  <2> QED BY <2>3 DEF Maybe
<1>3. \A kind : LiteralOrNull(c, words, kind) \in {NULL, Of(kind)}
  BY <1>1 DEF LiteralOrNull, XmlText
<1> HIDE DEF words, resource
<1>4. CurrentPropertyValue(c) \in
        {Of("xml"), LiteralOrNull(c, words, "plain"),
         LiteralOrNull(c, words, "typed"), resource}
  BY DEF CurrentPropertyValue, words, resource
<1>5. CurrentObjectLiteral(c) \in
        {Of("xml"), LiteralOrNull(c, words, "plain"),
         LiteralOrNull(c, words, "typed")}
  BY DEF CurrentObjectLiteral, words
<1>6. \E kind : v = Of(kind)
  <2> HIDE DEF Of
  <2> QED BY <1>2, <1>3, <1>4, <1>5
<1> QED BY <1>6 DEF Literal

\* In RDFa 1.0 the kind of a literal with text in it follows the markup.
LEMMA KindSays ==
  ASSUME NEW c \in Contexts, c.attrs.content = NULL, c.attrs.datatype = NULL,
         XmlText(c) # << >>
  PROVE  CurrentObjectLiteral(c) =
           Literal(XmlText(c), IF c.inner = "markup" THEN "xml" ELSE "plain",
                   c.language)
<1>1. FirstSet(<<c.attrs.content, c.plain_literal>>) = c.plain_literal
  BY FirstOfTwoIs
<1>2. /\ c.plain_literal # NULL /\ c.plain_literal # << >>
      /\ XmlText(c) = c.plain_literal
  BY DEF XmlText
<1>3. /\ NULL # EmptyDatatype /\ NULL # XmlLiteral
  BY NullAssumption DEF DatatypeValues
<1> QED BY <1>1, <1>2, <1>3 DEF CurrentObjectLiteral, LiteralOrNull

LEMMA PropertySays ==
  ASSUME NEW c \in Contexts, c.new_subject # NULL, NEW t \in PropertyTriples(c)
  PROVE  /\ t.by = "property"
         /\ t.o \notin Resources \cup {NULL} /\ c.attrs.content = NULL =>
              t.o.lit.text = XmlText(c) /\ t.o.lang = c.language
         /\ /\ c.rdfa_version = RDFA_VERSION_1_0 /\ XmlText(c) # << >>
            /\ c.attrs.content = NULL /\ c.attrs.datatype = NULL
            => t.o.kind = IF c.inner = "markup" THEN "xml" ELSE "plain"
<1> DEFINE preds == c.attrs.property
           object == CurrentObjectLiteral(c)
           value == IF c.rdfa_version = RDFA_VERSION_1_0
                    THEN object ELSE CurrentPropertyValue(c)
<1>1. preds # NULL => \A i \in DOMAIN preds : preds[i] # NULL
  <2>1. preds # NULL => preds \in Seq(Iris)
    BY AttributeTypes DEF Maybe
  <2> QED BY <2>1, PartsAreSet
<1>2. PropertyTriples(c) =
        IF preds = NULL \/ c.attrs.inlist THEN {}
        ELSE {Triple("property", c.new_subject, preds[i], value) :
                i \in DOMAIN preds}
  BY DEF PropertyTriples
<1> HIDE DEF value, preds, object
<1>3. PICK p : p # NULL /\ t = Triple("property", c.new_subject, p, value)
  BY <1>1, <1>2
<1>4. t.by = "property" /\ t.o \in {NULL, value} /\ (value # NULL => t.o = value)
  BY <1>3 DEF Triple
<1>5. ASSUME t.o \notin Resources \cup {NULL}, c.attrs.content = NULL
      PROVE  t.o.lit.text = XmlText(c) /\ t.o.lang = c.language
  <2>1. t.o \in {CurrentPropertyValue(c), CurrentObjectLiteral(c)}
    BY <1>4, <1>5 DEF value, object
  <2> QED BY <1>5, <2>1, ValueSays
<1>6. ASSUME c.rdfa_version = RDFA_VERSION_1_0, XmlText(c) # << >>,
             c.attrs.content = NULL, c.attrs.datatype = NULL
      PROVE  t.o.kind = IF c.inner = "markup" THEN "xml" ELSE "plain"
  <2>1. PICK kind \in {"plain", "xml"} :
          kind = IF c.inner = "markup" THEN "xml" ELSE "plain"
    OBVIOUS
  <2>2. value = Literal(XmlText(c), kind, c.language)
    BY <1>6, <2>1, KindSays DEF value, object
  <2>3. value # NULL
    BY <2>2, LiteralIsSet
  <2>4. t.o = value
    BY <1>4, <2>3
  <2> QED BY <2>1, <2>2, <2>4 DEF Literal
<1> QED BY <1>4, <1>5, <1>6

-----------------------------------------------------------------------------
(* Literals hold the text of their element: while an element is open, its  *)
(* text is spread over its context and the contexts above.                 *)

TextFollows ==
  \A i \in DOMAIN open :
    TextWithin(open[i]) =
      XmlText(stack[i + 1]) \o
        (IF i = Len(open) THEN << >> ELSE TextWithin(open[i + 1]))

LanguageFollows ==
  /\ stack[1].language = NULL
  /\ \A i \in DOMAIN open : stack[i + 1].language = LanguageOf(open[i])

LiteralRight(t, n) ==
  /\ t.o \notin Resources \cup {NULL} /\ tree[n].tag.content = NULL =>
       t.o.lit.text = TextWithin(n) /\ t.o.lang = LanguageOf(n)
  /\ /\ tree[n].version = RDFA_VERSION_1_0 /\ TextWithin(n) # << >>
     /\ Unset(n, {"content", "datatype"})
     => t.o.kind = IF HasMarkup(n) THEN "xml" ELSE "plain"

PropertySaid(e) ==
  e.t.by = "property" => e.at \in Closed /\ LiteralRight(e.t, e.at)

WordsInv ==
  /\ WholeInv
  /\ status # "ended" => TextFollows /\ LanguageFollows
  /\ \A e \in graph : PropertySaid(e)

LEMMA WordsAre ==
  ASSUME text \in Seq([text : Texts, path : Seq(Nat)]), NEW n
  PROVE  /\ TextWithin(n) \in Seq(Texts)
         /\ (\A run \in ToSet(text) : n \notin ToSet(run.path)) =>
              TextWithin(n) = << >>
<1> DEFINE R == [text : Texts, path : Seq(Nat)]
<1>1. \A r \in R : r.text \in Texts
  OBVIOUS
<1> HIDE DEF R
<1>2. text \in Seq(R)
  BY DEF R
<1> QED BY <1>1, <1>2, ReadIsText DEF TextWithin

\* What was said of a closed element stays right, for nothing more is read
\* inside it.
LEMMA SaidStays ==
  ASSUME \A e \in graph : PropertySaid(e),
         NEW id, NEW T, graph' = graph \cup Sent(id, T),
         \A n \in Closed :
           /\ n \in Closed' /\ tree'[n] = tree[n]
           /\ TextWithin(n)' = TextWithin(n)
           /\ LanguageOf(n)' = LanguageOf(n)
           /\ HasMarkup(n)' <=> HasMarkup(n),
         \A t \in T : t.by = "property" => id \in Closed' /\ LiteralRight(t, id)'
  PROVE  (\A e \in graph : PropertySaid(e))'
<1> SUFFICES ASSUME NEW e \in graph', e.t.by = "property"
             PROVE  e.at \in Closed' /\ LiteralRight(e.t, e.at)'
  BY DEF PropertySaid
<1>1. CASE e \in graph
  <2>1. PICK n, t : n = e.at /\ t = e.t
    OBVIOUS
  <2>2. n \in Closed /\ LiteralRight(t, n)
    BY <1>1, <2>1 DEF PropertySaid
  <2>3. /\ n \in Closed' /\ tree'[n] = tree[n]
        /\ TextWithin(n)' = TextWithin(n)
        /\ LanguageOf(n)' = LanguageOf(n)
        /\ HasMarkup(n)' <=> HasMarkup(n)
    BY <2>2
  <2>4. LiteralRight(t, n)'
    BY <2>2, <2>3 DEF LiteralRight, Unset
  <2> QED BY <2>1, <2>3, <2>4
<1>2. CASE e \in Sent(id, T)
  <2>1. PICK t \in T : e = [at |-> id, t |-> t]
    BY <1>2 DEF Sent
  <2>2. e.at = id /\ e.t = t
    BY <2>1
  <2>3. id \in Closed' /\ LiteralRight(t, id)'
    BY <2>2
  <2>4. LiteralRight(e.t, e.at)'
    BY <2>2, <2>3
  <2> QED BY <2>2, <2>3, <2>4
<1> QED BY <1>1, <1>2

LEMMA StartElementWords ==
  ASSUME WordsInv, NEW tag \in Tags, StartElement(tag)
  PROVE  WordsInv'
<1> DEFINE new  == NewElementContext(Top)
           read == ReadAttributes(new, tag)
           set  == EstablishSubject(read)
           e    == OpenRelations(set)
           node == [tag |-> tag, path |-> Append(open, Len(tree) + 1),
                    version |-> e.rdfa_version, host |-> e.host_language,
                    subject |-> e.new_subject,
                    object |-> e.current_object_resource]
           sent == AttributeTriples(new, read, tag)
                   \cup TypeTriples(set) \cup RelRevTriples(set)
<1>1. /\ WholeInv /\ WholeInv' /\ Inv /\ status = "parsing"
      /\ TextFollows /\ LanguageFollows
      /\ \A d \in graph : PropertySaid(d)
  BY StartElementWhole DEF WordsInv, StartElement, WholeInv
<1>2. /\ TreeOK /\ OpenOK /\ TextOK
      /\ tree \in Seq(Nodes) /\ open \in Seq(Nat) /\ stack \in Seq(Contexts)
      /\ text \in Seq([text : Texts, path : Seq(Nat)])
      /\ Len(stack) = Len(open) + 1 /\ Len(open) \in Nat
      /\ Top \in Contexts /\ InheritedObject(Top) # NULL
  BY <1>1, InvStack DEF WholeInv, StackOK, Inv, TypeOK
<1>3. PICK id \in Nat : id = Len(tree) + 1
  BY <1>2
<1>4. PICK c : c = e
  OBVIOUS
<1>5. /\ stack' = Append(stack, e) /\ tree' = Append(tree, node)
      /\ open' = Append(open, Len(tree) + 1)
      /\ graph' = graph \cup Sent(Len(tree) + 1, sent)
      /\ status' = status /\ text' = text
  BY DEF StartElement
<1>6. /\ c \in Contexts /\ c.plain_literal = NULL
      /\ c.language = UpdatedLanguage(Top.language, tag.lang)
  BY <1>2, <1>4, StartedContent
<1>7. \A t \in sent : t.by # "property"
  <2> HIDE DEF new, read, set
  <2> QED BY StartSenders
<1>8. node \in Nodes
  BY <1>2, <1>4, <1>6 DEF Nodes, Contexts
<1>9. node.tag = tag /\ node.path = Append(open, id)
  BY <1>3
<1>10. stack' = Append(stack, c) /\ open' = Append(open, id)
       /\ graph' = graph \cup Sent(id, sent) /\ tree' = Append(tree, node)
  BY <1>3, <1>4, <1>5
<1> HIDE DEF sent, node, e, new, read, set
<1>11. TreeOK' /\ OpenOK' /\ Closed' = Closed
  BY <1>2, <1>3, <1>8, <1>9, <1>10, StartNesting
<1>12. \A n : Below(n)' = Below(n) \cup
                (IF n \in ToSet(open) \/ n = id THEN {id} ELSE {})
  BY <1>2, <1>3, <1>8, <1>9, <1>10, BelowNew
<1>13. /\ tree'[id] = node /\ Elements = 1 .. id - 1 /\ id \notin Elements
       /\ \A n \in Elements : tree'[n] = tree[n] /\ n # id
  BY <1>2, <1>3, <1>10 DEF Elements
<1>14. /\ \A n \in Elements : LanguageOf(n)' = LanguageOf(n)
       /\ LanguageOf(id)' =
            UpdatedLanguage(IF open = << >> THEN NULL
                            ELSE LanguageOf(open[Len(open)]), tag.lang)
  BY <1>2, <1>3, <1>8, <1>9, <1>10, LanguageNew
<1>15. \A n : TextWithin(n)' = TextWithin(n)
  BY <1>5 DEF TextWithin
<1>16. TextWithin(id) = << >> /\ \A n : TextWithin(n) \in Seq(Texts)
  <2>1. \A run \in ToSet(text) : id \notin ToSet(run.path)
    BY <1>2, <1>13 DEF TextOK
  <2> QED BY <1>2, <2>1, WordsAre
<1>17. Below(id)' = {id}
  <2>1. \A m \in Elements : id \notin ToSet(tree[m].path)
    <3> SUFFICES ASSUME NEW m \in Elements, id \in ToSet(tree[m].path)
                 PROVE  FALSE
      OBVIOUS
    <3>1. PICK i \in DOMAIN tree[m].path : id = tree[m].path[i]
      BY DEF ToSet
    <3>2. id \in 1 .. m
      BY <1>2, <3>1 DEF TreeOK
    <3> QED BY <1>13, <3>2
  <2>2. Below(id) = {}
    BY <2>1 DEF Below
  <2> QED BY <1>12, <2>2
<1>18. /\ DOMAIN open' = 1 .. Len(open) + 1 /\ Len(open') = Len(open) + 1
       /\ open'[Len(open) + 1] = id
       /\ \A i \in 1 .. Len(open) : open'[i] = open[i] /\ open[i] \in Elements
       /\ DOMAIN open = 1 .. Len(open)
       /\ stack'[Len(open) + 1 + 1] = c /\ stack'[1] = stack[1]
       /\ \A i \in 1 .. Len(open) : stack'[i + 1] = stack[i + 1]
       /\ Len(stack') = Len(open) + 1 + 1
  <2>1. \A i \in DOMAIN open : open[i] \in Elements
    BY <1>2 DEF OpenOK
  <2> QED BY <1>2, <1>6, <1>10, <2>1
<1>19. \A i \in 1 .. Len(open) + 1 : i \in 1 .. Len(open) \/ i = Len(open) + 1
  BY <1>2
<1>20. (\A d \in graph : PropertySaid(d))'
  <2>1. ASSUME NEW n \in Closed
        PROVE  /\ n \in Closed' /\ tree'[n] = tree[n]
               /\ TextWithin(n)' = TextWithin(n)
               /\ LanguageOf(n)' = LanguageOf(n)
               /\ HasMarkup(n)' <=> HasMarkup(n)
    <3>1. n \in Elements /\ n \notin ToSet(open) /\ n # id
      BY <1>13 DEF Closed
    <3>2. Below(n)' = Below(n)
      BY <1>12, <3>1
    <3>3. HasMarkup(n)' <=> HasMarkup(n)
      BY <1>5, <1>13, <3>1, <3>2, MarkupSame
    <3> QED BY <1>11, <1>13, <1>14, <1>15, <3>1, <3>3
  <2> QED BY <1>1, <1>7, <1>10, <2>1, SaidStays
<1>21. TextFollows'
  <2> DEFINE Rest(i, last, next) == IF i = last THEN << >> ELSE TextWithin(next)
  <2>1. ASSUME NEW i \in 1 .. Len(open)
        PROVE  TextWithin(open'[i]) =
                 XmlText(stack'[i + 1]) \o Rest(i, Len(open'), open'[i + 1])
    <3>1. TextWithin(open[i]) =
            XmlText(stack[i + 1]) \o Rest(i, Len(open), open[i + 1])
      BY <1>1, <1>18 DEF TextFollows
    <3>2. i # Len(open') /\ (i # Len(open) => i + 1 \in 1 .. Len(open))
      <4>1. i \in Nat /\ 1 <= i /\ i <= Len(open) /\ Len(open) \in Nat
        BY <1>2
      <4>2. Len(open') = Len(open) + 1
        BY <1>18
      <4>3. PICK k, l : k = Len(open) /\ l = Len(open')
        OBVIOUS
      <4>4. i # l /\ (i # k => i + 1 \in 1 .. k)
        BY ONLY <4>1, <4>2, <4>3
      <4> QED BY <4>3, <4>4
    <3>3. Rest(i, Len(open'), open'[i + 1]) = Rest(i, Len(open), open[i + 1])
      BY <1>16, <1>18, <3>2
    <3> HIDE DEF Rest
    <3> QED BY <1>18, <3>1, <3>3
  <2>2. ASSUME NEW i, i = Len(open) + 1
        PROVE  TextWithin(open'[i]) =
                 XmlText(stack'[i + 1]) \o Rest(i, Len(open'), open'[i + 1])
    <3>1. XmlText(stack'[i + 1]) = << >> /\ i = Len(open') /\ open'[i] = id
      BY <1>6, <1>18, <2>2 DEF XmlText
    <3> QED BY <1>16, <3>1
  <2> HIDE DEF Rest
  <2>3. \A i \in DOMAIN open' :
          TextWithin(open'[i]) =
            XmlText(stack'[i + 1]) \o Rest(i, Len(open'), open'[i + 1])
    BY <1>18, <1>19, <2>1, <2>2
  <2> QED BY <1>5, <2>3 DEF TextFollows, TextWithin, XmlText, Rest
<1>22. LanguageFollows'
  <2>1. c.language = LanguageOf(id)'
    <3>1. Top.language = IF open = << >> THEN NULL ELSE LanguageOf(open[Len(open)])
      <4>1. Top = stack[Len(open) + 1] /\ (open = << >> => Len(open) + 1 = 1)
            /\ (open # << >> => Len(open) \in DOMAIN open)
        BY <1>2 DEF Top
      <4> QED BY <1>1, <4>1 DEF LanguageFollows
    <3> QED BY <1>6, <1>14, <3>1
  <2>2. ASSUME NEW i \in DOMAIN open'
        PROVE  (stack[i + 1].language = LanguageOf(open[i]))'
    <3>1. PICK n : n = open'[i]
      OBVIOUS
    <3>2. stack'[i + 1].language = LanguageOf(n)'
      <4>1. CASE i \in 1 .. Len(open)
        <5>1. stack[i + 1].language = LanguageOf(n) /\ n \in Elements
          BY <1>1, <1>18, <3>1, <4>1 DEF LanguageFollows
        <5> QED BY <1>14, <1>18, <4>1, <5>1
      <4>2. CASE i = Len(open) + 1
        BY <1>18, <2>1, <3>1, <4>2
      <4> QED BY <1>18, <1>19, <4>1, <4>2
    <3> QED BY <3>1, <3>2
  <2> QED BY <1>1, <1>18, <2>2 DEF LanguageFollows
<1> QED BY <1>1, <1>20, <1>21, <1>22 DEF WordsInv

LEMMA AppendToLast ==
  ASSUME NEW S, NEW a \in Seq(S), NEW x \in S
  PROVE  Append(a \o << >>, x) = (a \o <<x>>) \o << >>
OBVIOUS

LEMMA CharacterDataWords ==
  ASSUME WordsInv, NEW t \in Texts, CharacterData(t)
  PROVE  WordsInv'
<1> DEFINE e == WithText(Top, t)
           run == [text |-> t, path |-> open]
<1>1. /\ WholeInv /\ WholeInv' /\ Inv /\ status = "parsing"
      /\ TextFollows /\ LanguageFollows
      /\ \A d \in graph : PropertySaid(d)
  BY CharacterDataWhole DEF WordsInv, CharacterData, WholeInv
<1>2. /\ open \in Seq(Nat) /\ stack \in Seq(Contexts)
      /\ text \in Seq([text : Texts, path : Seq(Nat)])
      /\ Len(stack) = Len(open) + 1 /\ Len(open) \in Nat /\ Len(open) > 0
      /\ Top \in Contexts /\ OpenOK
  BY <1>1, InvStack DEF WholeInv, StackOK, Inv, TypeOK, CharacterData
<1>3. /\ stack' = [stack EXCEPT ![Len(stack)] = e]
      /\ text' = Append(text, run)
      /\ UNCHANGED <<graph, status, open, tree>>
  BY DEF CharacterData, WithText, Top
<1>4. e.language = Top.language
      /\ e.plain_literal = Appended(Top.plain_literal, <<t>>)
  BY <1>2 DEF WithText, Contexts
<1>5. XmlText(e) = XmlText(Top) \o <<t>> /\ XmlText(Top) \in Seq(Texts)
  <2>1. Top.plain_literal \in Maybe(Seq(Texts)) /\ <<t>> \in Seq(Texts)
    BY <1>2 DEF Contexts
  <2>2. CASE Top.plain_literal = NULL
    <3>1. e.plain_literal = <<t>> /\ <<t>> # NULL
      BY <1>4, <2>1, <2>2, NullTextAssumption DEF Appended
    <3>2. << >> \o <<t>> = <<t>>
      BY <2>1
    <3> HIDE DEF e
    <3> QED BY <2>2, <3>1, <3>2 DEF XmlText
  <2>3. CASE Top.plain_literal # NULL
    <3>1. PICK a \in Seq(Texts) : a = Top.plain_literal
      BY <2>1, <2>3 DEF Maybe
    <3>2. a \o <<t>> \in Seq(Texts)
      BY <2>1
    <3>3. <<t>> # NULL /\ a \o <<t>> # NULL
      BY <2>1, <3>2, NullTextAssumption
    <3>4. e.plain_literal = a \o <<t>>
      BY <1>4, <2>3, <3>1, <3>3 DEF Appended
    <3> HIDE DEF e
    <3> QED BY <2>3, <3>1, <3>3, <3>4 DEF XmlText
  <2> QED BY <2>2, <2>3
<1>6. PICK c : c = e
  OBVIOUS
<1>7. /\ c.language = Top.language
      /\ XmlText(c) = XmlText(Top) \o <<t>>
  BY <1>4, <1>5, <1>6
<1>8. \A n : TextWithin(n)' = IF n \in ToSet(open) THEN Append(TextWithin(n), t)
                              ELSE TextWithin(n)
  <2> DEFINE R == [text : Texts, path : Seq(Nat)]
  <2>1. run \in R /\ run.text = t /\ run.path = open
    BY <1>2
  <2> HIDE DEF run, R
  <2>2. text \in Seq(R)
    BY <1>2 DEF R
  <2> QED BY <1>3, <2>1, <2>2, ReadOneMore DEF TextWithin
<1>9. /\ \A r \in ToSet(text) : r \in ToSet(text')
      /\ \A r \in ToSet(text') : r \in ToSet(text) \/ r.path = open
  <2> DEFINE R == [text : Texts, path : Seq(Nat)]
  <2>1. run \in R /\ run.path = open /\ text \in Seq(R)
    BY <1>2
  <2> HIDE DEF run, R
  <2>2. ToSet(Append(text, run)) = ToSet(text) \cup {run}
    BY ONLY <2>1, ToSetAppend
  <2> QED BY <1>3, <2>1, <2>2
<1>10. stack' = [stack EXCEPT ![Len(stack)] = c]
  BY <1>3, <1>6
<1> HIDE DEF e, run
<1>11. /\ DOMAIN open = 1 .. Len(open) /\ Top = stack[Len(open) + 1]
       /\ stack'[Len(open) + 1] = c /\ stack'[1] = stack[1]
       /\ \A i \in 1 .. Len(open) : i # Len(open) => stack'[i + 1] = stack[i + 1]
       /\ Len(stack') = Len(stack)
  BY <1>2, <1>10 DEF Top
<1>12. (\A d \in graph : PropertySaid(d))'
  <2>1. ASSUME NEW n \in Closed
        PROVE  /\ n \in Closed' /\ tree'[n] = tree[n]
               /\ TextWithin(n)' = TextWithin(n)
               /\ LanguageOf(n)' = LanguageOf(n)
               /\ HasMarkup(n)' <=> HasMarkup(n)
    <3>1. n \in Closed' /\ tree'[n] = tree[n] /\ n \notin ToSet(open)
      BY <1>3 DEF Closed, Elements
    <3>2. LanguageOf(n)' = LanguageOf(n) /\ Below(n)' = Below(n)
      BY <1>3 DEF Elements, LanguageOf, Below
    <3>3. HasMarkup(n)' <=> HasMarkup(n)
      <4>1. \A r \in ToSet(text') : r \in ToSet(text) \/ n \notin ToSet(r.path)
        BY <1>9, <3>1
      <4> QED BY <1>9, <3>1, <3>2, <4>1, MarkupSame
    <3> QED BY <1>8, <3>1, <3>2, <3>3
  <2>2. graph' = graph \cup Sent(0, {})
    BY <1>3 DEF Sent
  <2> QED BY <1>1, <2>1, <2>2, SaidStays
<1>13. TextFollows'
  <2> DEFINE Rest(i) == IF i = Len(open) THEN << >> ELSE TextWithin(open[i + 1])
             Later(i) == IF i = Len(open) THEN << >>
                         ELSE Append(TextWithin(open[i + 1]), t)
  <2>1. \A i \in 1 .. Len(open) : open[i] \in ToSet(open)
    BY <1>11 DEF ToSet
  <2>2. ASSUME NEW i \in 1 .. Len(open)
        PROVE  Append(TextWithin(open[i]), t) = XmlText(stack'[i + 1]) \o Later(i)
    <3>1. TextWithin(open[i]) = XmlText(stack[i + 1]) \o Rest(i)
      BY <1>1, <1>11 DEF TextFollows
    <3>2. PICK a \in Seq(Texts) : a = XmlText(stack[i + 1])
      <4>1. stack[i + 1] \in Contexts
        BY <1>2
      <4> QED BY <4>1, LiteralIsSet
    <3>3. CASE i = Len(open)
      <4>1. XmlText(stack'[i + 1]) = a \o <<t>>
        BY <1>7, <1>11, <3>2, <3>3
      <4> QED BY <3>1, <3>2, <3>3, <4>1, AppendToLast
    <3>4. CASE i # Len(open)
      <4>1. stack'[i + 1] = stack[i + 1]
        BY <1>11, <3>4
      <4>2. PICK b \in Seq(Texts) : b = TextWithin(open[i + 1])
        BY <1>2, WordsAre
      <4>3. TextWithin(open[i]) = a \o b
        <5>1. Rest(i) = b
          BY <3>4, <4>2
        <5> HIDE DEF Rest
        <5> QED BY <3>1, <3>2, <5>1
      <4>5. Later(i) = Append(b, t)
        BY <3>4, <4>2
      <4>4. Append(a \o b, t) = a \o Append(b, t)
        <5>1. a \in Seq(Texts) /\ b \in Seq(Texts) /\ t \in Texts
          OBVIOUS
        <5> QED BY ONLY <5>1
      <4> HIDE DEF Later
      <4> QED BY <3>2, <4>1, <4>3, <4>4, <4>5
    <3> QED BY <3>3, <3>4
  <2>3. ASSUME NEW i \in 1 .. Len(open)
        PROVE  /\ TextWithin(open[i])' = Append(TextWithin(open[i]), t)
               /\ i # Len(open) => TextWithin(open[i + 1])' =
                                     Append(TextWithin(open[i + 1]), t)
    <3>1. i # Len(open) => i + 1 \in 1 .. Len(open)
      BY <1>2
    <3>2. PICK n, m : n = open[i] /\ m = open[i + 1]
      OBVIOUS
    <3>3. n \in ToSet(open) /\ (i # Len(open) => m \in ToSet(open))
      BY <2>1, <3>1, <3>2
    <3>4. /\ TextWithin(n)' = Append(TextWithin(n), t)
          /\ i # Len(open) => TextWithin(m)' = Append(TextWithin(m), t)
      BY <1>8, <3>3
    <3> QED BY <1>3, <3>2, <3>4 DEF TextWithin
  <2> HIDE DEF Rest
  <2>4. ASSUME NEW i \in 1 .. Len(open)
        PROVE  (TextWithin(open[i]) =
                  XmlText(stack[i + 1]) \o
                    (IF i = Len(open) THEN << >> ELSE TextWithin(open[i + 1])))'
    BY <1>3, <2>2, <2>3 DEF TextWithin, XmlText
  <2> QED BY <1>3, <1>11, <2>4 DEF TextFollows
<1>14. LanguageFollows'
  <2>1. ASSUME NEW i \in 1 .. Len(open)
        PROVE  stack'[i + 1].language = stack[i + 1].language
    BY <1>7, <1>11
  <2>2. \A n : LanguageOf(n)' = LanguageOf(n)
    BY <1>3 DEF LanguageOf
  <2>3. ASSUME NEW i \in 1 .. Len(open)
        PROVE  (stack[i + 1].language = LanguageOf(open[i]))'
    <3>1. PICK n : n = open[i] /\ n = open'[i]
      BY <1>3
    <3>2. stack[i + 1].language = LanguageOf(n)
      BY <1>1, <1>11, <3>1 DEF LanguageFollows
    <3>3. stack'[i + 1].language = LanguageOf(n)'
      BY <2>1, <2>2, <3>2
    <3> QED BY <3>1, <3>3
  <2> QED BY <1>1, <1>3, <1>11, <2>3 DEF LanguageFollows
<1> QED BY <1>1, <1>12, <1>13, <1>14 DEF WordsInv

\* The text a parent takes back goes after its own.
LEMMA ReturnedText ==
  ASSUME NEW a \in Maybe(Seq(Texts)), NEW b \in Maybe(Seq(Texts)),
         NEW c, c.plain_literal = a, NEW d, d.plain_literal = b,
         NEW e, e.plain_literal = Appended(a, b)
  PROVE  /\ XmlText(e) = XmlText(c) \o XmlText(d)
         /\ XmlText(c) \in Seq(Texts) /\ XmlText(d) \in Seq(Texts)
<1>1. \A s \in Seq(Texts) : s # NULL /\ s \o << >> = s /\ << >> \o s = s
  BY NullTextAssumption
<1>2. << >> \in Seq(Texts)
  OBVIOUS
<1>3. CASE a = NULL /\ b = NULL
  BY <1>1, <1>2, <1>3 DEF Appended, XmlText
<1>4. CASE a = NULL /\ b # NULL
  <2>1. b \in Seq(Texts)
    BY <1>4 DEF Maybe
  <2> QED BY <1>1, <1>2, <1>4, <2>1 DEF Appended, XmlText
<1>5. CASE a # NULL /\ b = NULL
  <2>1. a \in Seq(Texts)
    BY <1>5 DEF Maybe
  <2> QED BY <1>1, <1>2, <1>5, <2>1 DEF Appended, XmlText
<1>6. CASE a # NULL /\ b # NULL
  <2>1. a \in Seq(Texts) /\ b \in Seq(Texts)
    BY <1>6 DEF Maybe
  <2>2. a \o b \in Seq(Texts)
    BY <2>1
  <2> QED BY <1>1, <1>6, <2>1, <2>2 DEF Appended, XmlText
<1> QED BY <1>3, <1>4, <1>5, <1>6

LEMMA EndElementWords ==
  ASSUME WordsInv, EndElement
  PROVE  WordsInv'
<1> DEFINE literal == CloseLiteral(Top)
           e       == AfterProperty(literal)
           parent  == Len(stack) - 1
           id      == open[Len(open)]
           lists   == IF SendsLists(e) THEN ListTriples(AfterIncomplete(e)) ELSE {}
           hanging == IF Completes(e) THEN HangingTriples(e) ELSE {}
           sent    == PropertyTriples(literal) \cup hanging \cup lists
           back    == ReturnTo(stack[parent], e)
<1>1. /\ WholeInv /\ WholeInv' /\ Inv /\ status = "parsing"
      /\ TextFollows /\ LanguageFollows
      /\ \A d \in graph : PropertySaid(d)
  BY EndElementWhole DEF WordsInv, EndElement, WholeInv
<1>2. /\ TreeOK /\ OpenOK /\ ContextsTell /\ InnersTell
      /\ tree \in Seq(Nodes) /\ open \in Seq(Nat) /\ stack \in Seq(Contexts)
      /\ text \in Seq([text : Texts, path : Seq(Nat)])
      /\ Len(stack) = Len(open) + 1 /\ Len(open) \in Nat /\ open # << >>
      /\ Top \in Contexts /\ Top.new_subject # NULL
      /\ parent \in Nat /\ parent > 0 /\ parent = Len(open)
      /\ stack[parent] \in Contexts
  <2>1. Len(stack) > 1
    BY DEF EndElement
  <2>2. /\ StackOK(stack, Len(open) + 1) /\ Len(open) \in Nat /\ TreeOK /\ OpenOK
        /\ tree \in Seq(Nodes) /\ open \in Seq(Nat)
        /\ ContextsTell /\ InnersTell
        /\ text \in Seq([text : Texts, path : Seq(Nat)])
    BY <1>1, InvStack DEF WholeInv, Inv, TypeOK
  <2>3. /\ stack \in Seq(Contexts) /\ Len(stack) = Len(open) + 1
        /\ open # << >> /\ Top \in Contexts /\ Top.new_subject # NULL
        /\ parent \in Nat /\ parent > 0 /\ parent = Len(open)
        /\ stack[parent] \in Contexts
    BY <2>1, <2>2 DEF StackOK, Top
  <2> QED BY <2>2, <2>3
<1>3. /\ stack' = [i \in 1 .. parent |-> IF i = parent THEN back ELSE stack[i]]
      /\ graph' = graph \cup Sent(id, sent)
      /\ open' = SubSeq(open, 1, Len(open) - 1)
      /\ UNCHANGED <<tree, text>>
  BY DEF EndElement
<1>4. /\ id \in Elements /\ Closed' = Closed \cup {id}
      /\ DOMAIN open' = 1 .. Len(open) - 1
      /\ \A i \in 1 .. Len(open) - 1 : open'[i] = open[i]
  BY <1>2, <1>3, EndNesting
<1>5. PICK n : n = id
  OBVIOUS
<1>6. PICK l : l = literal
  OBVIOUS
<1>7. /\ l \in Contexts /\ l.new_subject # NULL /\ SameSubject(Top, l)
      /\ l.inner = Top.inner /\ l.language = Top.language
      /\ XmlText(l) = XmlText(Top)
  <2>1. Top.inner = "empty" => Top.plain_literal = NULL
    <3>1. Top = stack[Len(open) + 1] /\ Len(open) \in DOMAIN open
      BY <1>2 DEF Top
    <3> QED BY <1>2, <3>1 DEF InnersTell, InnerTells
  <2> QED BY <1>2, <1>6, <2>1, CloseLiteralContent DEF SameSubject
<1>8. PICK c : c = e
  OBVIOUS
<1>9. c \in Contexts /\ XmlText(c) = XmlText(Top)
  <2>1. SameContent(l, e)
    BY <1>6, <1>7, AfterPropertyContent
  <2> QED BY <1>7, <1>8, <2>1 DEF SameContent, SameSubject, XmlText
<1>10. PICK p : p = stack[parent]
  OBVIOUS
<1>11. PICK b : b = back
  OBVIOUS
<1>12. /\ b.language = p.language
       /\ b.plain_literal = Appended(p.plain_literal, c.plain_literal)
  BY <1>2, <1>8, <1>9, <1>10, <1>11, ReturnToContent
<1>13. /\ XmlText(b) = XmlText(p) \o XmlText(Top)
       /\ XmlText(p) \in Seq(Texts) /\ XmlText(Top) \in Seq(Texts)
  <2>1. /\ p.plain_literal \in Maybe(Seq(Texts))
        /\ c.plain_literal \in Maybe(Seq(Texts))
    BY <1>2, <1>9, <1>10 DEF Contexts
  <2>2. /\ XmlText(b) = XmlText(p) \o XmlText(c)
        /\ XmlText(p) \in Seq(Texts) /\ XmlText(c) \in Seq(Texts)
    BY <1>12, <2>1, ReturnedText
  <2> QED BY <1>9, <2>2
<1>14. /\ stack' = [i \in 1 .. parent |-> IF i = parent THEN b ELSE stack[i]]
       /\ graph' = graph \cup Sent(n, sent)
       /\ lists = IF SendsLists(c) THEN ListTriples(AfterIncomplete(c)) ELSE {}
       /\ hanging = IF Completes(c) THEN HangingTriples(c) ELSE {}
       /\ sent = PropertyTriples(l) \cup hanging \cup lists
  BY <1>3, <1>5, <1>6, <1>8, <1>11
<1> HIDE DEF literal, e, back, hanging, lists, sent
<1>15. /\ \A m : TextWithin(m)' = TextWithin(m)
       /\ \A m : LanguageOf(m)' = LanguageOf(m)
       /\ \A m : HasMarkup(m)' <=> HasMarkup(m)
  BY <1>3 DEF TextWithin, LanguageOf, HasMarkup, RunsWithin, Below, Elements
<1>16. /\ parent \in DOMAIN open /\ DOMAIN open = 1 .. parent
       /\ Top = stack[parent + 1] /\ parent \in DOMAIN stack
  BY <1>2 DEF Top
<1>17. /\ TextWithin(n) = XmlText(Top) /\ Top.language = LanguageOf(n)
       /\ ContextTells(Top, n) /\ (Top.inner = "markup" <=> HasMarkup(n))
  <2>1. TextWithin(n) = XmlText(Top) \o << >>
    BY <1>1, <1>2, <1>5, <1>16 DEF TextFollows
  <2>2. XmlText(Top) \o << >> = XmlText(Top)
    BY <1>13
  <2> QED BY <1>1, <1>2, <1>5, <1>16, <2>1, <2>2
          DEF LanguageFollows, MarkupFollows, ContextsTell, InnersTell, InnerTells
<1>18. AttributesOf(l, n) /\ (l.inner = "markup" <=> HasMarkup(n))
  BY <1>7, <1>17 DEF ContextTells, AttributesOf, SameSubject
<1>19. ASSUME NEW t \in sent, t.by = "property"
       PROVE  LiteralRight(t, n)
  <2>1. t \in PropertyTriples(l)
    BY <1>14, <1>19, EndSenders
  <2>2. /\ t.o \notin Resources \cup {NULL} /\ l.attrs.content = NULL =>
             t.o.lit.text = XmlText(l) /\ t.o.lang = l.language
        /\ /\ l.rdfa_version = RDFA_VERSION_1_0 /\ XmlText(l) # << >>
           /\ l.attrs.content = NULL /\ l.attrs.datatype = NULL
           => t.o.kind = IF l.inner = "markup" THEN "xml" ELSE "plain"
    BY <1>7, <2>1, PropertySays
  <2>3. /\ l.rdfa_version = tree[n].version
        /\ l.attrs.content = tree[n].tag.content
        /\ l.attrs.datatype = tree[n].tag.datatype
    BY <1>18 DEF AttributesOf
  <2>4. XmlText(l) = TextWithin(n) /\ l.language = LanguageOf(n)
    BY <1>7, <1>17
  <2> QED BY <1>18, <2>2, <2>3, <2>4 DEF LiteralRight, Unset
<1>20. (\A d \in graph : PropertySaid(d))'
  <2>1. \A m \in Closed :
          /\ m \in Closed' /\ tree'[m] = tree[m]
          /\ TextWithin(m)' = TextWithin(m)
          /\ LanguageOf(m)' = LanguageOf(m)
          /\ HasMarkup(m)' <=> HasMarkup(m)
    BY <1>3, <1>4, <1>15
  <2>2. \A t \in sent : t.by = "property" => n \in Closed' /\ LiteralRight(t, n)'
    BY <1>3, <1>4, <1>5, <1>15, <1>19 DEF LiteralRight, Unset
  <2> QED BY <1>1, <1>14, <2>1, <2>2, SaidStays
<1>21. /\ DOMAIN stack' = 1 .. parent /\ stack'[parent] = b
       /\ Len(stack') = parent
       /\ \A i \in 1 .. parent : i # parent => stack'[i] = stack[i]
  <2>1. parent \in 1 .. parent /\ parent \in Nat
    BY <1>2
  <2> HIDE DEF parent
  <2> QED BY ONLY <1>14, <2>1
<1>22. /\ DOMAIN open' = 1 .. parent - 1 /\ Len(open') = parent - 1
       /\ \A i \in 1 .. parent - 1 : open'[i] = open[i] /\ i \in DOMAIN open
  <2>1. Len(open') = Len(open) - 1 /\ parent = Len(open)
    BY <1>2, <1>3, AllButLast
  <2>2. DOMAIN open = 1 .. Len(open) /\ Len(open) \in Nat
    BY <1>2
  <2> HIDE DEF parent
  <2> QED BY ONLY <1>4, <2>1, <2>2
<1> HIDE DEF parent, id
<1>23. TextFollows'
  <2> DEFINE Rest(i, last, next) == IF i = last THEN << >> ELSE TextWithin(next)
  <2>1. ASSUME NEW i \in 1 .. parent - 1
        PROVE  TextWithin(open[i]) =
                 XmlText(stack'[i + 1]) \o Rest(i, parent - 1, open[i + 1])
    <3>1. i # parent /\ (i + 1 = parent <=> i = parent - 1)
          /\ i + 1 \in 1 .. parent /\ i \in Nat
      BY <1>2
    <3>2. TextWithin(open[i]) = XmlText(stack[i + 1]) \o TextWithin(open[i + 1])
      BY <1>1, <1>2, <1>22, <3>1 DEF TextFollows
    <3>3. CASE i + 1 = parent
      <4>1. XmlText(stack'[i + 1]) = XmlText(p) \o XmlText(Top)
            /\ stack[i + 1] = p /\ TextWithin(open[i + 1]) = XmlText(Top)
        BY <1>2, <1>5, <1>10, <1>13, <1>17, <1>21, <3>3 DEF id
      <4>2. (XmlText(p) \o XmlText(Top)) \o << >> = XmlText(p) \o XmlText(Top)
        <5>1. XmlText(p) \o XmlText(Top) \in Seq(Texts)
          BY <1>13
        <5> HIDE DEF Rest
        <5> QED BY ONLY <5>1
      <4>3. Rest(i, parent - 1, open[i + 1]) = << >>
        BY <3>1, <3>3
      <4> HIDE DEF Rest
      <4> QED BY <3>2, <4>1, <4>2, <4>3
    <3>4. CASE i + 1 # parent
      <4>1. Rest(i, parent - 1, open[i + 1]) = TextWithin(open[i + 1])
        BY <3>1, <3>4
      <4> HIDE DEF Rest
      <4> QED BY <1>21, <3>1, <3>2, <3>4, <4>1
    <3> QED BY <3>3, <3>4
  <2>2. \A i \in 1 .. parent - 1 : i # parent - 1 => open'[i + 1] = open[i + 1]
    <3>1. \A i \in 1 .. parent - 1 : i # parent - 1 => i + 1 \in 1 .. parent - 1
      BY <1>2
    <3> QED BY <1>22, <3>1
  <2>3. \A i \in 1 .. parent - 1 :
          TextWithin(open'[i]) =
            XmlText(stack'[i + 1]) \o Rest(i, Len(open'), open'[i + 1])
    BY <1>22, <2>1, <2>2
  <2> QED BY <1>3, <1>22, <2>3 DEF TextFollows, TextWithin, XmlText, Rest
<1>24. LanguageFollows'
  <2>1. \A i \in 1 .. parent : stack'[i].language = stack[i].language
    BY <1>10, <1>12, <1>21
  <2>2. ASSUME NEW i \in 1 .. parent - 1
        PROVE  (stack[i + 1].language = LanguageOf(open[i]))'
    <3>1. PICK m : m = open[i]
      OBVIOUS
    <3>2. stack[i + 1].language = LanguageOf(m)
      BY <1>1, <1>22, <3>1 DEF LanguageFollows
    <3>3. i + 1 \in 1 .. parent
      BY <1>2
    <3>4. stack'[i + 1].language = LanguageOf(m)' /\ open'[i] = m
      BY <1>15, <1>22, <2>1, <3>1, <3>2, <3>3
    <3> QED BY <3>4
  <2>3. 1 \in 1 .. parent
    BY <1>2
  <2> QED BY <1>1, <1>22, <2>1, <2>2, <2>3 DEF LanguageFollows
<1> QED BY <1>1, <1>20, <1>23, <1>24 DEF WordsInv

\* The other steps read nothing and close nothing.
LEMMA OtherWords ==
  ASSUME WordsInv, WholeInv', UNCHANGED <<open, tree, text>>,
         NEW id, NEW T, graph' = graph \cup Sent(id, T),
         \A t \in T : t.by # "property",
         status' # "ended" =>
           /\ status # "ended" /\ Len(stack') = Len(stack)
           /\ \A i \in 1 .. Len(open) + 1 :
                /\ stack'[i].plain_literal = stack[i].plain_literal
                /\ stack'[i].language = stack[i].language
  PROVE  WordsInv'
<1>1. \A n : /\ TextWithin(n)' = TextWithin(n)
             /\ LanguageOf(n)' = LanguageOf(n)
             /\ HasMarkup(n)' <=> HasMarkup(n)
  BY DEF TextWithin, LanguageOf, HasMarkup, RunsWithin, Below, Elements
<1>2. (\A d \in graph : PropertySaid(d))'
  <2>1. ASSUME NEW n \in Closed
        PROVE  /\ n \in Closed' /\ tree'[n] = tree[n]
               /\ TextWithin(n)' = TextWithin(n)
               /\ LanguageOf(n)' = LanguageOf(n)
               /\ HasMarkup(n)' <=> HasMarkup(n)
    BY <1>1 DEF Closed, Elements
  <2> QED BY <2>1, SaidStays DEF WordsInv
<1>3. ASSUME status' # "ended"
      PROVE  TextFollows' /\ LanguageFollows'
  <2>1. /\ Inv /\ TextFollows /\ LanguageFollows
        /\ Len(stack') = Len(stack)
        /\ \A i \in 1 .. Len(open) + 1 :
             /\ stack'[i].plain_literal = stack[i].plain_literal
             /\ stack'[i].language = stack[i].language
    BY <1>3 DEF WordsInv, WholeInv
  <2>2. /\ Len(open) \in Nat /\ DOMAIN open = 1 .. Len(open)
        /\ Len(stack) = Len(open) + 1
        /\ \A i \in DOMAIN open : i + 1 \in 1 .. Len(open) + 1
        /\ 1 \in 1 .. Len(open) + 1 /\ Len(open) + 1 \in 1 .. Len(open) + 1
    <3>1. /\ Len(open) \in Nat /\ DOMAIN open = 1 .. Len(open)
          /\ Len(stack) = Len(open) + 1
      BY <1>3, <2>1, InvStack DEF StackOK, Inv, TypeOK
    <3> QED BY <3>1
  <2>3. TextFollows'
    BY <2>1, <2>2 DEF TextFollows, XmlText, TextWithin
  <2>4. LanguageFollows'
    <3>1. ASSUME NEW i \in DOMAIN open
          PROVE  (stack[i + 1].language = LanguageOf(open[i]))'
      <4>1. PICK n : n = open[i] /\ n = open'[i]
        OBVIOUS
      <4>2. stack'[i + 1].language = LanguageOf(n)'
        BY <1>1, <2>1, <2>2, <4>1 DEF LanguageFollows
      <4> QED BY <4>1, <4>2
    <3> QED BY <2>1, <2>2, <3>1 DEF LanguageFollows
  <2> QED BY <2>3, <2>4
<1> QED BY <1>2, <1>3 DEF WordsInv

LEMMA ReportErrorWords ==
  ASSUME WordsInv, ReportError
  PROVE  WordsInv'
<1> DEFINE r == [stack[1] EXCEPT !.bnode_count = @ + 2]
           T == IF HasProcessorGraph THEN {Report("error", stack[1].bnode_count)}
                ELSE {}
<1>1. WholeInv /\ WholeInv' /\ Inv /\ status = "parsing"
  BY ReportErrorWhole DEF WordsInv, WholeInv, ReportError
<1>2. /\ stack \in Seq(Contexts) /\ stack[1] \in Contexts
      /\ Len(stack) = Len(open) + 1 /\ Len(open) \in Nat
  BY <1>1, InvStack DEF StackOK
<1>3. UNCHANGED <<status, open, tree, text>>
  BY DEF ReportError
<1>4. graph' = graph \cup Sent(Len(tree), T)
  BY DEF ReportError, Sent
<1>5. \A t \in T : t.by # "property"
  BY TripleBy DEF Report
<1>6. /\ r.plain_literal = stack[1].plain_literal
      /\ r.language = stack[1].language
  BY <1>2 DEF Contexts
<1>7. stack' = stack \/ stack' = [stack EXCEPT ![1] = r]
  BY DEF ReportError
<1> HIDE DEF r, T
<1>8. /\ Len(stack') = Len(stack)
      /\ \A i \in 1 .. Len(open) + 1 :
           stack'[i] = stack[i] \/ (i = 1 /\ stack'[i] = r)
  BY <1>2, <1>7
<1>9. \A i \in 1 .. Len(open) + 1 :
        /\ stack'[i].plain_literal = stack[i].plain_literal
        /\ stack'[i].language = stack[i].language
  BY <1>6, <1>8
<1> QED BY <1>1, <1>3, <1>4, <1>5, <1>8, <1>9, OtherWords

\* At the start nothing is read and no language is set.
LEMMA InitWords == Init => WordsInv
<1> SUFFICES ASSUME Init PROVE WordsInv
  OBVIOUS
<1>1. PICK d \in Documents : stack = <<RootContext(d)>>
  BY DEF Init
<1>2. open = << >> /\ graph = {} /\ WholeInv
  BY InitWhole DEF Init
<1>3. stack[1].language = NULL
  BY <1>1 DEF RootContext
<1>4. TextFollows /\ LanguageFollows
  BY <1>2, <1>3 DEF TextFollows, LanguageFollows
<1> QED BY <1>2, <1>4 DEF WordsInv

LEMMA NextWords ==
  ASSUME WordsInv, [Next]_vars
  PROVE  WordsInv'
<1>1. WholeInv'
  BY NextWhole DEF WordsInv
<1>2. ASSUME UNCHANGED <<graph, open, tree, text>>,
             status' # "ended" => status # "ended" /\ stack' = stack
      PROVE  WordsInv'
  <2>1. graph' = graph \cup Sent(0, {})
    BY <1>2 DEF Sent
  <2>2. UNCHANGED <<open, tree, text>> /\ \A t \in {} : t.by # "property"
    BY <1>2
  <2>3. status' # "ended" =>
          /\ status # "ended" /\ Len(stack') = Len(stack)
          /\ \A i \in 1 .. Len(open) + 1 :
               /\ stack'[i].plain_literal = stack[i].plain_literal
               /\ stack'[i].language = stack[i].language
    BY <1>2
  <2> QED BY ONLY WordsInv, <1>1, <2>1, <2>2, <2>3, OtherWords
<1>3. CASE ParseEnd
  BY <1>2, <1>3 DEF ParseEnd
<1>4. CASE ReadNullLiteral
  BY <1>2, <1>4 DEF ReadNullLiteral
<1>5. CASE UNCHANGED vars
  BY <1>2, <1>5 DEF vars
<1> QED
  BY <1>3, <1>4, <1>5, StartElementWords, CharacterDataWords,
     EndElementWords, ReportErrorWords
  DEF Next

(***************************************************************************)
(* The literal that rdfa_create_triple gets for a @property without        *)
(* @content is the text of all the descendants of the element, in document *)
(* order and nothing more, in the language of the nearest element around   *)
(* it that sets one, whatever the document, its versions and its errors.   *)
(***************************************************************************)
THEOREM LiteralsAlwaysHoldSubtreeText == Spec => []LiteralsHoldSubtreeText
<1>1. WordsInv => LiteralsHoldSubtreeText
  BY DEF WordsInv, PropertySaid, LiteralRight, LiteralsHoldSubtreeText, By
<1> QED BY <1>1, InitWords, NextWords, PTL DEF Spec

(***************************************************************************)
(* In RDFa 1.0 the literal of a property element with text in it, without  *)
(* @content and @datatype, is an XML literal if there is a '<' inside the  *)
(* element, be it of a tag, of text or of the rest of a torn start tag,    *)
(* and a plain one if there is none: what a child leaves behind is noticed *)
(* by every element around it, and by no other.                            *)
(***************************************************************************)
THEOREM MarkupAlwaysMakesXmlLiterals == Spec => []MarkupMakesXmlLiterals
<1>1. WordsInv => MarkupMakesXmlLiterals
  BY DEF WordsInv, PropertySaid, LiteralRight, MarkupMakesXmlLiterals, UntypedText
<1> QED BY <1>1, InitWords, NextWords, PTL DEF Spec
=============================================================================
