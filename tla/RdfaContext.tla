---------------------------- MODULE RdfaContext ----------------------------
(***************************************************************************)
(* The evaluation context of librdfa (c/rdfa.h, c/context.c): what an open *)
(* element knows, and how the context of a child is cloned from the        *)
(* context on top of the stack.                                            *)
(*                                                                         *)
(* The strings of the C code are abstracted to what the processing rules   *)
(* tell apart.  An IRI is a member of Iris, a generated blank node is the  *)
(* record [bnode |-> n] for "_:bnode<n>", text is a sequence of members of *)
(* Texts, and NULL is the null pointer.  Attribute values are given as     *)
(* what CURIE resolution (c/curie.c) makes of them.                        *)
(***************************************************************************)
EXTENDS Integers, Sequences, FiniteSets

CONSTANTS
  NULL,              \* the null pointer
  Iris,              \* IRIs, absolute and resolved
  Anonymous,         \* the attribute value "_:" or "[_:]"
  Texts,             \* runs of character data
  MarkupTexts,       \* those that contain the character '<'
  Languages,         \* non-empty values of xml:lang
  Datatypes,         \* resolved datatypes other than rdf:XMLLiteral
  RdfType, RdfFirst, RdfRest, RdfNil, UsesVocabulary, RdfaContextOf,
  Base               \* the IRI given to rdfa_create_context

RDFA_VERSION_1_0 == "1.0"
RDFA_VERSION_1_1 == "1.1"
Versions         == {RDFA_VERSION_1_0, RDFA_VERSION_1_1}
HostLanguages    == {"XML1", "XHTML1", "HTML"}

Vocabulary ==
  {RdfType, RdfFirst, RdfRest, RdfNil, UsesVocabulary, RdfaContextOf, Base}

Bnode(n)  == [bnode |-> n]
Bnodes    == [bnode : Nat]
Resources == Iris \cup Bnodes
Maybe(S)  == S \cup {NULL}

\* The values of @datatype, once resolved: "" is the empty attribute.
EmptyDatatype == "empty"
XmlLiteral    == "XMLLiteral"
DatatypeValues == Datatypes \cup {EmptyDatatype, XmlLiteral}

\* NULL is none of the values a field may hold, and "_:" is not an IRI.
ASSUME NullAssumption ==
  /\ NULL \notin Iris /\ NULL \notin Languages /\ NULL \notin DatatypeValues
  /\ NULL \notin Versions /\ NULL # Anonymous
  /\ Anonymous \notin Iris

ASSUME TextsAssumption == MarkupTexts \subseteq Texts

\* No IRI is a generated blank node.
ASSUME IriAssumption == Vocabulary \subseteq Iris /\ \A i \in Iris : i \notin Bnodes

-----------------------------------------------------------------------------
(* Triples and list mappings.                                              *)

\* What a triple's object may be: a resource, or a literal made of text (or,
\* for a resource that is sent as a literal, of a resource).
Literals == [lit  : [text : Seq(Texts)] \cup Resources,
             kind : {"plain", "typed", "xml"}, lang : Maybe(Languages)]
Values   == Maybe(Resources \cup Literals)

\* The null pointer is neither a blank node, nor a text, nor a literal.
ASSUME NullBnodeAssumption == NULL \notin Bnodes
ASSUME NullTextAssumption  == NULL \notin Seq(Texts) \cup Literals

\* An incomplete triple: a predicate and a direction.
Incompletes == [dir : {"forward", "reverse", "none"}, pred : Iris]

\* One entry of a list mapping.  The code's key is the string
\* "<subject> <predicate>", its first item holds the list's blank node, and
\* user_data is the depth of the element that created the list.  slot is the
\* entry's place in the mapping's array.
Keys  == Resources \X Iris
Lists == [key : Keys, slot : Nat, depth : Nat, head : Bnodes,
          items : Seq(Values)]

-----------------------------------------------------------------------------
(* Attributes after CURIE resolution, and the context.                     *)

Attributes ==
  [about : Maybe(Resources), src : Maybe(Resources),
   resource : Maybe(Resources), href : Maybe(Resources),
   typeof : Maybe(Seq(Iris)), rel : Maybe(Seq(Iris)), rev : Maybe(Seq(Iris)),
   property : Maybe(Seq(Iris)),
   content : Maybe(Seq(Texts)), datatype : Maybe(DatatypeValues),
   inlist : BOOLEAN]

NoAttributes ==
  [about |-> NULL, src |-> NULL, resource |-> NULL, href |-> NULL,
   typeof |-> NULL, rel |-> NULL, rev |-> NULL, property |-> NULL,
   content |-> NULL, datatype |-> NULL, inlist |-> FALSE]

\* What xml_literal holds between its first '>' and the end tag: nothing,
\* text, or text with a '<' in it.
Inners == {"empty", "text", "markup"}

Contexts ==
  [depth : Nat, base : Iris,
   host_language : HostLanguages, rdfa_version : Versions,
   default_vocabulary : Maybe(Iris), language : Maybe(Languages),
   bnode_count : Nat, underscore_colon_bnode_name : Maybe(Bnodes),
   parent_subject : Resources, parent_object : Maybe(Resources),
   new_subject : Maybe(Resources),
   current_object_resource : Maybe(Resources),
   typed_resource : Maybe(Resources), skip_element : BOOLEAN,
   incomplete_triples : Seq(Incompletes),
   local_incomplete_triples : Seq(Incompletes),
   local_list_mappings : {m \in SUBSET Lists : IsFiniteSet(m)}, list_slots : Nat,
   attrs : Attributes,
   plain_literal : Maybe(Seq(Texts)), inner : Inners]

\* The first of several candidates that is not null, as in the chains of
\* "otherwise" in c/subject.c.
FirstSet(candidates) ==
  IF \E i \in DOMAIN candidates : candidates[i] # NULL
  THEN candidates[CHOOSE i \in DOMAIN candidates :
                    /\ candidates[i] # NULL
                    /\ \A j \in 1 .. i - 1 : candidates[j] = NULL]
  ELSE NULL

(***************************************************************************)
(* rdfa_init_context and rdfa_parse_start, then rdfa_init_base: the root   *)
(* context, at the bottom of the stack.  The head of the document decides  *)
(* the host language and the version; a base element found in it replaces  *)
(* the base and is kept as the root's current object resource, while the   *)
(* parent subject stays the IRI the caller gave.                           *)
(***************************************************************************)
Prologues == [host : HostLanguages, version : Versions, base : Maybe(Iris)]

RootContext(prologue) ==
  [depth |-> 0, base |-> FirstSet(<<prologue.base, Base>>),
   host_language |-> prologue.host, rdfa_version |-> prologue.version,
   default_vocabulary |-> NULL, language |-> NULL,
   bnode_count |-> 0, underscore_colon_bnode_name |-> NULL,
   parent_subject |-> Base, parent_object |-> NULL,
   new_subject |-> NULL, current_object_resource |-> prologue.base,
   typed_resource |-> NULL, skip_element |-> FALSE,
   incomplete_triples |-> << >>, local_incomplete_triples |-> << >>,
   local_list_mappings |-> {}, list_slots |-> 0,
   attrs |-> NoAttributes, plain_literal |-> NULL, inner |-> "empty"]

(***************************************************************************)
(* rdfa_create_new_element_context: the child of a skipped element sees    *)
(* what the skipped element saw; the child of any other element has the    *)
(* parent's subject as its parent subject, and the incomplete triples the  *)
(* parent left open become its own to complete.                            *)
(***************************************************************************)
InheritedSubject(parent) ==
  IF parent.skip_element THEN parent.parent_subject
  ELSE FirstSet(<<parent.new_subject, parent.parent_subject>>)

\* Mutant: the parent's subject is forgotten as an object.
InheritedObjectOnly(parent) == parent.current_object_resource

InheritedObject(parent) ==
  IF parent.skip_element THEN parent.parent_object
  ELSE FirstSet(<<parent.current_object_resource, parent.new_subject,
                  parent.parent_subject>>)

\* Mutant: a skipped element hides what the elements around it left open.
InheritedFromParentOnly(parent) == parent.local_incomplete_triples

InheritedIncompletes(parent) ==
  IF parent.skip_element THEN parent.incomplete_triples
  ELSE parent.local_incomplete_triples

NewElementContext(parent) ==
  [depth |-> parent.depth + 1, base |-> parent.base,
   host_language |-> parent.host_language,
   rdfa_version |-> parent.rdfa_version,
   default_vocabulary |-> parent.default_vocabulary,
   language |-> parent.language,
   bnode_count |-> parent.bnode_count,
   underscore_colon_bnode_name |-> parent.underscore_colon_bnode_name,
   parent_subject |-> InheritedSubject(parent),
   parent_object |-> InheritedObject(parent),
   new_subject |-> NULL, current_object_resource |-> NULL,
   typed_resource |-> NULL, skip_element |-> FALSE,
   incomplete_triples |-> InheritedIncompletes(parent),
   local_incomplete_triples |->
     IF parent.skip_element THEN parent.local_incomplete_triples ELSE << >>,
   local_list_mappings |-> parent.local_list_mappings,
   list_slots |-> parent.list_slots,
   attrs |-> NoAttributes, plain_literal |-> NULL, inner |-> "empty"]

(***************************************************************************)
(* rdfa_create_bnode: the next name of this context's own counter.         *)
(***************************************************************************)
NextBnode(c) == Bnode(c.bnode_count)
=============================================================================
