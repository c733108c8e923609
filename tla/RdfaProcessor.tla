--------------------------- MODULE RdfaProcessor ---------------------------
(***************************************************************************)
(* The RDFa processor of c/rdfa.c: the SAX handlers start_element,         *)
(* character_data and end_element, which work on a stack of evaluation     *)
(* contexts, the error handler rdfa_report_error, and rdfa_parse_end,      *)
(* which may come at any time (the application stops feeding the parser,   *)
(* or the XML parser gives up).  The XML parser calls the handlers in the  *)
(* order of a well-formed document with a single root element.             *)
(***************************************************************************)
EXTENDS RdfaTriples

CONSTANTS
  Tags,              \* the start tags the document may hold
  RootTags,          \* those its root element may have
  Documents,         \* the prologues: host language, version, base element
  HasProcessorGraph, \* is a processor graph handler set?
  MaxElements,       \* bound: elements in the document
  MaxTexts,          \* bound: runs of character data in the document
  MaxErrors          \* bound: errors the XML parser reports

EmptyVocabulary == "empty"
EmptyLanguage   == "empty"

(***************************************************************************)
(* A start tag.  about .. property hold what CURIE resolution yields,      *)
(* warnings the number of processor warnings it raises on the way,         *)
(* headbody whether the element is named head or body, prefixed whether    *)
(* its name has an XML namespace prefix, unbound whether @prefix has a     *)
(* prefix without an IRI.  torn is what the start tag has behind its first *)
(* '>' where that is in the value of an attribute, "empty" if there is no  *)
(* such attribute (IRIs and languages contain neither '<' nor '>').        *)
(***************************************************************************)
AttributeValues == Maybe(Resources \cup {Anonymous})
StartTags ==
  [version : Maybe(Versions), vocab : Maybe(Iris \cup {EmptyVocabulary}),
   lang : Maybe(Languages \cup {EmptyLanguage}),
   about : AttributeValues, src : AttributeValues,
   resource : AttributeValues, href : AttributeValues,
   typeof : Maybe(Seq(Iris)), rel : Maybe(Seq(Iris)), rev : Maybe(Seq(Iris)),
   property : Maybe(Seq(Iris)),
   content : Maybe(Seq(Texts)), datatype : Maybe(DatatypeValues),
   inlist : BOOLEAN, headbody : BOOLEAN, prefixed : BOOLEAN, warnings : Nat,
   unbound : BOOLEAN, torn : Inners]

ASSUME TagsAssumption ==
  /\ Tags \subseteq StartTags /\ RootTags \subseteq Tags
  /\ Documents \subseteq Prologues
  /\ HasProcessorGraph \in BOOLEAN

ASSUME BoundsAssumption == {MaxElements, MaxTexts, MaxErrors} \subseteq Nat

VARIABLES
  stack,   \* the context stack: the root context, then one per open element
  graph,   \* every triple sent to the application, with the element it is for
  status,  \* "parsing", "ended" by rdfa_parse_end, or "crashed"
  \* History variables, which no action of the program reads:
  open,    \* the numbers of the open elements, outermost first
  tree,    \* the elements so far, in document order
  text,    \* the runs of character data, with the elements around each
  errors   \* how many errors the XML parser has reported

vars == <<stack, graph, status, open, tree, text, errors>>

Top        == stack[Len(stack)]
Sent(n, triples) == {[at |-> n, t |-> t] : t \in triples}

Init ==
  /\ \E d \in Documents : stack = <<RootContext(d)>>
  /\ graph = {} /\ status = "parsing"
  /\ open = << >> /\ tree = << >> /\ text = << >>
  /\ errors = 0

-----------------------------------------------------------------------------
(* start_element, from the attributes to the context it leaves.            *)

Resolved(value, anonymous) == IF value = Anonymous THEN anonymous ELSE value
Reports(tag) == IF HasProcessorGraph THEN tag.warnings ELSE 0

\* The name "_:" stands for, drawn the first time the document uses it.  (The
\* blank nodes of the warnings and this one are drawn in the order of the
\* attributes; here the warnings come first.)
AnonymousBnode(c, tag) ==
  FirstSet(<<c.underscore_colon_bnode_name,
             Bnode(c.bnode_count + 2 * Reports(tag))>>)

\* An element without a resource of its own is about the base if it is the
\* root element, or if it is a typed head or body of an (X)HTML document.
ImplicitAbout(c, tag) ==
  /\ tag.about = NULL /\ tag.resource = NULL
  /\ tag.href = NULL /\ tag.src = NULL
  /\ \/ c.depth = 1
     \/ /\ tag.headbody
        /\ c.parent_subject = NULL \/ tag.typeof # NULL
        /\ c.host_language \in {"XHTML1", "HTML"}

ResolvedAttributes(c, tag, version) ==
  LET anonymous == AnonymousBnode(c, tag)
  IN  [about |-> IF ImplicitAbout(c, tag) THEN c.base
                 ELSE Resolved(tag.about, anonymous),
       src |-> Resolved(tag.src, anonymous),
       resource |-> Resolved(tag.resource, anonymous),
       href |-> Resolved(tag.href, anonymous),
       typeof |-> tag.typeof, rel |-> tag.rel, rev |-> tag.rev,
       property |-> tag.property, content |-> tag.content,
       datatype |-> tag.datatype,
       inlist |-> tag.inlist /\ version = RDFA_VERSION_1_1]

\* An element with none of the attributes that matter is skipped.
Skips(a, vocabulary, tag) ==
  /\ a.about = NULL /\ a.src = NULL /\ a.typeof = NULL /\ a.rel = NULL
  /\ a.rev = NULL /\ a.property = NULL /\ a.resource = NULL /\ a.href = NULL
  /\ vocabulary = NULL /\ ~tag.prefixed

\* rdfa_update_language
UpdatedLanguage(language, lang) ==
  IF lang = NULL THEN language ELSE IF lang = EmptyLanguage THEN NULL ELSE lang

\* @vocab is read in RDFa 1.1 only, after @version.
\* Mutant: the empty value does not reset the vocabulary.
KeptVocabulary(vocabulary, version, vocab) ==
  IF version = RDFA_VERSION_1_0 \/ vocab = NULL THEN vocabulary ELSE vocab

UpdatedVocabulary(vocabulary, version, vocab) ==
  IF version = RDFA_VERSION_1_0 \/ vocab = NULL THEN vocabulary
  ELSE IF vocab = EmptyVocabulary THEN NULL ELSE vocab

ReadAttributes(c, tag) ==
  LET version == FirstSet(<<tag.version, c.rdfa_version>>)
      vocabulary == UpdatedVocabulary(c.default_vocabulary, version, tag.vocab)
      a       == ResolvedAttributes(c, tag, version)
      unnamed == Anonymous \in {tag.about, tag.src, tag.resource, tag.href}
      drawn   == unnamed /\ c.underscore_colon_bnode_name = NULL
  IN  [c EXCEPT
         !.rdfa_version = version, !.default_vocabulary = vocabulary,
         !.language = UpdatedLanguage(@, tag.lang),
         !.attrs = a, !.inner = tag.torn, !.skip_element = Skips(a, vocabulary, tag),
         !.underscore_colon_bnode_name =
            IF unnamed THEN AnonymousBnode(c, tag) ELSE @,
         !.bnode_count = @ + 2 * Reports(tag) + (IF drawn THEN 1 ELSE 0)]

\* rdfa_processor_triples: of the five triples, the one that links the two
\* blank nodes it draws.
Report(by, n) == Triple(by, Bnode(n), RdfaContextOf, Bnode(n + 1))

\* rdfa_generate_namespace_triple for a prefix without an IRI: one of its
\* arguments is null.  (The complete ones, which tell the application of its
\* prefixes, are left out.)
UnboundPrefix(read, tag) ==
  HasProcessorGraph /\ read.rdfa_version = RDFA_VERSION_1_1 /\ tag.unbound

AttributeTriples(c, read, tag) ==
  {Report("warning", c.bnode_count + 2 * i) : i \in 0 .. Reports(tag) - 1}
  \cup (IF read.rdfa_version = RDFA_VERSION_1_1
           /\ tag.vocab \notin {NULL, EmptyVocabulary}
        THEN {Triple("vocab", c.base, UsesVocabulary, tag.vocab)} ELSE {})
  \cup (IF UnboundPrefix(read, tag)
        THEN {Triple("prefix", NULL, NULL, NULL)} ELSE {})

ListsRel(c) ==
  c.rdfa_version = RDFA_VERSION_1_1 /\ c.attrs.rel # NULL /\ c.attrs.inlist

\* The object of a listed @rel is sent as a literal when the element also
\* has @property or @content.
ListedObject(c) ==
  LET a == c.attrs
  IN  IF a.property = NULL /\ a.content = NULL THEN c.current_object_resource
      ELSE [lit  |-> c.current_object_resource,
            kind |-> IF a.datatype = NULL THEN "plain" ELSE "typed",
            lang |-> c.language]

\* What @rel and @rev leave behind, once the subject is known.
OpenRelations(c) ==
  CASE ListsRel(c) /\ c.current_object_resource # NULL ->
         EstablishNewInlistTriples(c, c.attrs.rel, ListedObject(c))
    [] ListsRel(c) /\ c.current_object_resource = NULL ->
         SaveIncompleteListTriples(c, c.attrs.rel)
    [] /\ ~ListsRel(c) /\ c.current_object_resource = NULL
       /\ c.attrs.rel # NULL \/ c.attrs.rev # NULL -> SaveIncompleteTriples(c)
    [] OTHER -> c

StartElement(tag) ==
  LET new  == NewElementContext(Top)
      read == ReadAttributes(new, tag)
      set  == EstablishSubject(read)
      c    == OpenRelations(set)
      id   == Len(tree) + 1
  IN  /\ status = "parsing" /\ Len(tree) < MaxElements
      /\ Len(stack) = 1 => tree = << >> /\ tag \in RootTags
      /\ stack' = Append(stack, c)
      /\ graph' = graph \cup Sent(id, AttributeTriples(new, read, tag)
                         \cup TypeTriples(set) \cup RelRevTriples(set))
      /\ open' = Append(open, id)
      /\ tree' = Append(tree, [tag |-> tag, path |-> Append(open, id),
                               version |-> c.rdfa_version,
                               host |-> c.host_language,
                               subject |-> c.new_subject,
                               object |-> c.current_object_resource])
      /\ UNCHANGED <<status, text, errors>>

-----------------------------------------------------------------------------
(* character_data: the text goes to the innermost open element.            *)

\* Mutant: new text comes first.
Prepended(old, new) ==
  IF new = NULL THEN old ELSE IF old = NULL THEN new ELSE new \o old

Appended(old, new) ==
  IF new = NULL THEN old ELSE IF old = NULL THEN new ELSE old \o new

\* Mutant: a '<' in text is not one.
TextIsText(inner, t) == IF inner = "markup" THEN inner ELSE "text"

\* "&lt;" is one, too: in xml_literal it is no longer escaped.
InnerWithText(inner, t) ==
  IF inner = "markup" \/ t \in MarkupTexts THEN "markup" ELSE "text"

WithText(c, t) ==
  [c EXCEPT !.plain_literal = Appended(@, <<t>>),
            !.inner = InnerWithText(@, t)]

CharacterData(t) ==
  /\ status = "parsing" /\ Len(stack) > 1 /\ Len(text) < MaxTexts
  /\ stack' = [stack EXCEPT ![Len(stack)] = WithText(@, t)]
  /\ text' = Append(text, [text |-> t, path |-> open])
  /\ UNCHANGED <<graph, status, open, tree, errors>>

-----------------------------------------------------------------------------
(* end_element.                                                            *)

\* Mutant: a property element with nothing in it has no literal.
NoEmptyLiteral(c) == c

\* A property element with nothing in it has an empty literal, not none; one
\* whose start tag is torn has the rest of that in it.
CloseLiteral(c) ==
  IF c.attrs.property # NULL /\ c.inner = "empty"
  THEN [c EXCEPT !.plain_literal = << >>] ELSE c

\* Mutant: a subject that was inherited completes nothing.
CompletesForOwnSubject(c) ==
  ~c.skip_element /\ c.new_subject \notin {NULL, c.parent_object}

Completes(c)  == ~c.skip_element /\ c.new_subject # NULL
SendsLists(c) == c.rdfa_version = RDFA_VERSION_1_1 /\ c.new_subject # NULL

AfterIncomplete(c) == IF Completes(c) THEN CompleteIncompleteTriples(c) ELSE c

(***************************************************************************)
(* What the parent takes back: text, and the counter as it stood after the *)
(* property value; the incomplete triples and the lists that are completed *)
(* next draw from the child's counter only.  The lists come back when the  *)
(* child is processed as RDFa 1.1.                                         *)
(***************************************************************************)

TextReturned(parent, c) ==
  [parent EXCEPT !.plain_literal = Appended(@, c.plain_literal),
                 !.inner = "markup"]

\* Mutants: one of the two is not copied.
NamesWithoutCounter(parent, c) ==
  [parent EXCEPT !.underscore_colon_bnode_name = c.underscore_colon_bnode_name]
CounterWithoutNames(parent, c) == [parent EXCEPT !.bnode_count = c.bnode_count]

NamesReturned(parent, c) ==
  [parent EXCEPT !.bnode_count = c.bnode_count,
                 !.underscore_colon_bnode_name = c.underscore_colon_bnode_name]

ListsReturned(parent, c) ==
  LET done == AfterLists(AfterIncomplete(c))
  IN  IF ~SendsLists(c) THEN parent
      ELSE [parent EXCEPT !.local_list_mappings = done.local_list_mappings,
                          !.list_slots = done.list_slots]

\* Mutant: the child's context takes the parent's place.
ChildReplacesParent(parent, c) == AfterLists(AfterIncomplete(c))

ReturnTo(parent, c) ==
  ListsReturned(NamesReturned(TextReturned(parent, c), c), c)

EndElement ==
  LET literal == CloseLiteral(Top)
      c       == AfterProperty(literal)
      parent  == Len(stack) - 1
      id      == open[Len(open)]
  IN  /\ status = "parsing" /\ Len(stack) > 1
      /\ ~ReadsNullLiteral(literal)
      /\ stack' = [i \in 1 .. parent |->
                     IF i = parent THEN ReturnTo(stack[i], c) ELSE stack[i]]
      /\ graph' = graph \cup Sent(id,
           PropertyTriples(literal)
           \cup (IF Completes(c) THEN HangingTriples(c) ELSE {})
           \cup (IF SendsLists(c) THEN ListTriples(AfterIncomplete(c)) ELSE {}))
      /\ open' = SubSeq(open, 1, Len(open) - 1)
      /\ UNCHANGED <<status, tree, text, errors>>

\* strlen of a null pointer ends the process.
ReadNullLiteral ==
  /\ status = "parsing" /\ Len(stack) > 1
  /\ ReadsNullLiteral(CloseLiteral(Top))
  /\ status' = "crashed"
  /\ UNCHANGED <<stack, graph, open, tree, text, errors>>

-----------------------------------------------------------------------------
(* rdfa_report_error is called with the root context, whatever the element *)
(* being parsed.  An error may or may not stop the parser.                 *)

ReportError ==
  /\ status = "parsing" /\ errors < MaxErrors
  /\ errors' = errors + 1
  /\ IF HasProcessorGraph
     THEN /\ stack' = [stack EXCEPT ![1].bnode_count = @ + 2]
          /\ graph' = graph \cup
               Sent(Len(tree), {Report("error", stack[1].bnode_count)})
     ELSE UNCHANGED <<stack, graph>>
  /\ UNCHANGED <<status, open, tree, text>>

\* rdfa_parse_end frees the stack with every context still open.
ParseEnd ==
  /\ status = "parsing"
  /\ status' = "ended" /\ stack' = << >>
  /\ UNCHANGED <<graph, open, tree, text, errors>>

Next ==
  \/ \E tag \in Tags : StartElement(tag)
  \/ \E t \in Texts : CharacterData(t)
  \/ EndElement
  \/ ReadNullLiteral
  \/ ReportError
  \/ ParseEnd

Spec == Init /\ [][Next]_vars
=============================================================================
