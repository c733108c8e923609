----------------------------- MODULE RdfaMarkup -----------------------------
(***************************************************************************)
(* The XML literals of property elements: every context serialises its     *)
(* start tag, text and end tag, and an ending element appends what it has  *)
(* to its parent (c/rdfa.c).  Namespaces in scope and the language are     *)
(* written on the outermost elements of a literal only, which two flags    *)
(* that are copied from context to context see to.                         *)
(*                                                                         *)
(* An event is an item of the document; a token is its serialised form and *)
(* knows the position of its event.  The mappings of prefixes are          *)
(* functions, as RdfaPrefixProofs shows those of the code to be.           *)
(***************************************************************************)
EXTENDS Naturals, Sequences, FiniteSets

CONSTANTS
  NULL,              \* the null pointer, or no attribute
  Unmapped,          \* the value of a prefix without a mapping
  Prefixes, Iris,
  Languages,         \* values of xml:lang; "" is one of them
  Texts,             \* runs of character data
  MarkupTexts,       \* those that contain the character '<'
  Versions,
  Tags,              \* the start tags of an instance
  Initial,           \* the mappings of the document
  MaxElements,       \* bound: elements of a document
  MaxTexts           \* bound: runs of text

Values   == Iris \cup {NULL, Unmapped}
Mappings == [Prefixes -> Values]

(***************************************************************************)
(* "declares" are the prefixes of xmlns and @prefix; one without an IRI is *)
(* null.  "prefixed" tells xml:lang from @lang.  "shadow" is the name of   *)
(* the element's first attribute if it has no prefix; if the element has   *)
(* no attribute, what is left in the array of an earlier one.  "torn" is   *)
(* what the start tag has behind its first '>' where that is in the value  *)
(* of an attribute: text, or markup if there is a '<' in it; "empty" is a  *)
(* tag without such an attribute (IRIs and languages have none of these    *)
(* characters).  "property" is the attribute's @datatype.                  *)
(***************************************************************************)
StartTags ==
  [declares : UNION {[S -> Iris \cup {NULL}] : S \in SUBSET Prefixes},
   lang : Languages \cup {NULL}, prefixed : BOOLEAN,
   property : {"none", "untyped", "XMLLiteral"},
   shadow : Prefixes \cup {NULL}, torn : {"empty", "text", "markup"}]

ASSUME MarkupAssumption ==
  /\ NULL \notin Iris \cup Languages \cup Prefixes \cup Seq(Nat)
  /\ Unmapped \notin Iris
  /\ MarkupTexts \subseteq Texts /\ Versions \subseteq {"1.0", "1.1"}
  /\ Tags \subseteq StartTags /\ MaxElements \in Nat /\ MaxTexts \in Nat
  /\ Initial \in [Prefixes -> Iris \cup {Unmapped}]

VARIABLES
  version,
  document,          \* the events so far
  stack,             \* the contexts
  sent,              \* the values of properties
  pc

vars == <<version, document, stack, sent, pc>>

Top == stack[Len(stack)]

Count(kind) == Cardinality({at \in DOMAIN document : document[at].kind = kind})

\* The context of an element, or of the document, whose start tag is the
\* event "start".
Root ==
  [start |-> 0, tag |-> NULL, uris |-> Initial, language |-> NULL,
   xml_literal |-> << >>, plain_literal |-> NULL,
   xml_literal_namespaces_defined |-> FALSE,
   xml_literal_xml_lang_defined |-> FALSE]

Init ==
  /\ version \in Versions /\ document = << >> /\ stack = <<Root>>
  /\ sent = {} /\ pc = "content"

\* Of the attributes a start tag has three: xmlns, lang and xml:lang.
OpenToken(at, xmlns, lang, xml_lang) ==
  [at |-> at, kind |-> "open", xmlns |-> xmlns, lang |-> lang,
   xml_lang |-> xml_lang]

NoNamespaces == [p \in {} |-> NULL]

Token(at, kind) ==
  [at |-> at, kind |-> kind, xmlns |-> NoNamespaces, lang |-> NULL,
   xml_lang |-> NULL]

-----------------------------------------------------------------------------
(* start_element.  The namespaces are written before those of the element  *)
(* itself are read.                                                        *)

Written(c, tag) == {p \in Prefixes \ {tag.shadow} : c.uris[p] # Unmapped}

NamespacesWritten(c, tag) ==
  IF c.xml_literal_namespaces_defined THEN NoNamespaces
  ELSE [p \in Written(c, tag) |-> c.uris[p]]

\* Mutant: writing the namespaces again does not ask for the language again.
LangDefinedStays(c, tag) ==
  c.xml_literal_xml_lang_defined \/ (tag.prefixed /\ tag.lang # NULL)

\* Where the namespaces are not defined, neither is xml:lang.
LangDefined(c, tag) ==
  \/ c.xml_literal_namespaces_defined /\ c.xml_literal_xml_lang_defined
  \/ tag.prefixed /\ tag.lang # NULL

\* The attributes of the element are written by their local names: xml:lang
\* becomes lang.
LangWritten(tag) == tag.lang

\* The language that the element inherits.
XmlLangWritten(c, tag) ==
  IF tag.lang = NULL /\ ~LangDefined(c, tag) THEN c.language ELSE NULL

\* Mutant: the elements below a property do not write the namespaces again.
NamespacesStayDefined(tag) == TRUE

\* A property's children write the namespaces again.
NamespacesDefined(tag) == tag.property = "none"

\* Mutant: an empty xml:lang is a language.
EmptyLanguageKept(c, tag) ==
  IF tag.lang = NULL THEN c.language ELSE tag.lang

UpdatedLanguage(c, tag) ==
  IF tag.lang = NULL THEN c.language
  ELSE IF tag.lang = "" THEN NULL ELSE tag.lang

ElementContext(c, tag, at) ==
  [start |-> at, tag |-> tag,
   uris |-> [p \in Prefixes |->
               IF p \in DOMAIN tag.declares THEN tag.declares[p]
               ELSE c.uris[p]],
   language |-> UpdatedLanguage(c, tag),
   xml_literal |->
     <<OpenToken(at, NamespacesWritten(c, tag), LangWritten(tag),
                 XmlLangWritten(c, tag))>>,
   plain_literal |-> NULL,
   xml_literal_namespaces_defined |-> NamespacesDefined(tag),
   xml_literal_xml_lang_defined |->
     LangDefined(c, tag) \/ (tag.lang = NULL /\ c.language # NULL)]

\* A prefix without an IRI has no length.
ReadsNullPrefix(c, tag) ==
  /\ ~c.xml_literal_namespaces_defined
  /\ \E p \in Written(c, tag) : c.uris[p] = NULL

StartElement ==
  /\ pc = "content" /\ Count("open") < MaxElements
  /\ document = << >> \/ Len(stack) > 1
  /\ \E tag \in Tags :
       /\ document' = Append(document, [kind |-> "open", tag |-> tag])
       /\ \/ /\ ReadsNullPrefix(Top, tag) /\ pc' = "crashed"
             /\ UNCHANGED stack
          \/ /\ ~ReadsNullPrefix(Top, tag) /\ UNCHANGED pc
             /\ stack' = Append(stack,
                                ElementContext(Top, tag, Len(document) + 1))
  /\ UNCHANGED <<version, sent>>

-----------------------------------------------------------------------------
(* character_data.                                                         *)

\* Mutant: the text of a child is lost if the parent has none yet.
ConcatToText(s, t) ==
  IF t = NULL \/ s = NULL THEN s ELSE s \o t

\* Two plain literals, each null or a sequence of positions.
Concat(s, t) ==
  IF t = NULL THEN s ELSE IF s = NULL THEN t ELSE s \o t

WithText(c, at) ==
  [c EXCEPT !.xml_literal = Append(@, Token(at, "text")),
            !.plain_literal = Concat(@, <<at>>)]

CharacterData ==
  /\ pc = "content" /\ Count("text") < MaxTexts /\ Len(stack) > 1
  /\ \E text \in Texts :
       document' = Append(document, [kind |-> "text", text |-> text])
  /\ stack' = [stack EXCEPT ![Len(stack)] = WithText(@, Len(document) + 1)]
  /\ UNCHANGED <<version, sent, pc>>

-----------------------------------------------------------------------------
(* end_element.                                                            *)

\* From the first '>' to the last '<': a '>' in an attribute of the element
\* leaves the rest of its own start tag.
Content(c) ==
  IF c.tag.torn = "empty" THEN Tail(c.xml_literal) ELSE c.xml_literal

\* Mutant: only tags count as markup.
HasElements(c) == \E i \in 2 .. Len(c.xml_literal) :
                    c.xml_literal[i].kind = "open"

\* A '<' in the content: that of a tag, or one that was &lt; in the text or
\* in the rest of the element's own start tag.
HasMarkup(c) ==
  \/ c.tag.torn = "markup"
  \/ \E i \in 2 .. Len(c.xml_literal) :
       \/ c.xml_literal[i].kind = "open"
       \/ /\ c.xml_literal[i].kind = "text"
          /\ document[c.xml_literal[i].at].text \in MarkupTexts

\* Content that is an empty string makes the plain literal one.
PlainLiteral(c) ==
  IF c.tag.property # "none" /\ Content(c) = << >> THEN << >>
  ELSE c.plain_literal

\* RDFa 1.0 takes the length of a plain literal that may be null.
ReadsNullLiteral(c) ==
  /\ version = "1.0" /\ c.tag.property # "none"
  /\ HasMarkup(c) /\ PlainLiteral(c) = NULL

IsXmlLiteral(c) ==
  IF version = "1.0" THEN HasMarkup(c) /\ PlainLiteral(c) # << >>
  ELSE c.tag.property = "XMLLiteral"

Sent(c, at) ==
  IF c.tag.property = "none" THEN {}
  ELSE IF IsXmlLiteral(c)
       THEN {[start |-> c.start, end |-> at, kind |-> "xml",
              value |-> Content(c)]}
       ELSE {[start |-> c.start, end |-> at, kind |-> "plain",
              value |-> PlainLiteral(c)]}

\* Mutant: the literal that was cut to its content is not restored.
ContentToParent(parent, c, at) ==
  [parent EXCEPT
     !.xml_literal = @ \o (IF c.tag.property = "none"
                           THEN Append(c.xml_literal, Token(at, "close"))
                           ELSE Content(c)),
     !.plain_literal = Concat(@, PlainLiteral(c))]

ToParent(parent, c, at) ==
  [parent EXCEPT
     !.xml_literal =
       @ \o Append(c.xml_literal, Token(at, "close")),
     !.plain_literal = Concat(@, PlainLiteral(c))]

EndElement ==
  /\ pc = "content" /\ Len(stack) > 1
  /\ LET n  == Len(stack)
         at == Len(document) + 1
     IN  /\ document' = Append(document, [kind |-> "close", of |-> Top.start])
         /\ \/ /\ ReadsNullLiteral(Top) /\ pc' = "crashed"
               /\ UNCHANGED <<stack, sent>>
            \/ /\ ~ReadsNullLiteral(Top) /\ UNCHANGED pc
               /\ sent' = sent \cup Sent(Top, at)
               /\ stack' = [i \in 1 .. n - 1 |->
                              IF i = n - 1 THEN ToParent(stack[i], Top, at)
                              ELSE stack[i]]
  /\ UNCHANGED version

Next == StartElement \/ CharacterData \/ EndElement

Spec == Init /\ [][Next]_vars

-----------------------------------------------------------------------------
(***************************************************************************)
(* Type correctness.                                                       *)
(***************************************************************************)
TokenType ==
  [at : Nat \ {0}, kind : {"open", "text", "close"},
   xmlns : UNION {[S -> Iris \cup {NULL}] : S \in SUBSET Prefixes},
   lang : Languages \cup {NULL}, xml_lang : Languages \cup {NULL}]

ContextType ==
  [start : Nat, tag : Tags \cup {NULL}, uris : Mappings,
   language : (Languages \ {""}) \cup {NULL}, xml_literal : Seq(TokenType),
   plain_literal : Seq(Nat) \cup {NULL},
   xml_literal_namespaces_defined : BOOLEAN,
   xml_literal_xml_lang_defined : BOOLEAN]

TypeOK ==
  /\ version \in Versions /\ pc \in {"content", "crashed"}
  /\ \A i \in DOMAIN stack : stack[i] \in ContextType
  /\ \A s \in sent : /\ {s.start, s.end} \subseteq DOMAIN document
                     /\ s.kind \in {"xml", "plain"}
                     /\ s.kind = "xml" => s.value \in Seq(TokenType)

(***************************************************************************)
(* An XML literal is what is between the tags of its element: every event  *)
(* once, in order, start tags with their end tags, whatever properties are *)
(* nested in it and share its text.  The rest of the element's own start   *)
(* tag comes before it where an attribute contains '>'.                    *)
(***************************************************************************)
XmlLiterals == {s \in sent : s.kind = "xml"}

LiteralsAreSubtrees ==
  \A s \in XmlLiterals :
    LET first == IF document[s.start].tag.torn = "empty" THEN s.start + 1
                ELSE s.start
    IN  /\ Len(s.value) = s.end - first
        /\ \A i \in DOMAIN s.value : s.value[i].at = first + i - 1

(***************************************************************************)
(* The elements that are open at an event, the one that it opens included, *)
(* and of those the ones below a property element.                         *)
(***************************************************************************)
Open(at) ==
  {a \in 1 .. at :
     /\ document[a].kind = "open"
     /\ \A e \in a .. at : document[e].kind = "close" => document[e].of # a}

OpenIn(s, at) == {a \in Open(at) : a > s.start}

Latest(S) == CHOOSE a \in S : \A b \in S : b <= a

InScope(at, p) ==
  LET declaring == {a \in Open(at) : p \in DOMAIN document[a].tag.declares}
  IN  IF declaring = {} THEN Initial[p]
      ELSE document[Latest(declaring)].tag.declares[p]

(***************************************************************************)
(* "any children of the current node that are elements must have the       *)
(* current XML namespace declarations (if any) declared on the serialized  *)
(* element" (c/triple.c:730): each of them has all those in scope at the   *)
(* property element and no other, but for a prefix that is named like its  *)
(* first attribute.                                                        *)
(***************************************************************************)
LiteralsKeepNamespaces ==
  \A s \in XmlLiterals : \A i \in DOMAIN s.value :
    LET token == s.value[i]
    IN  token.kind = "open" /\ OpenIn(s, token.at) = {token.at} =>
          \A p \in Prefixes \ {document[token.at].tag.shadow} :
            IF InScope(s.start, p) = Unmapped THEN p \notin DOMAIN token.xmlns
            ELSE /\ p \in DOMAIN token.xmlns
                 /\ token.xmlns[p] = InScope(s.start, p)

(***************************************************************************)
(* Who takes lang for xml:lang, of which an element of a literal has at    *)
(* most one, reads text in an element of an XML literal in the language it *)
(* has in the document, although only the outermost elements say what they *)
(* inherit and properties are nested in each other.  (An xml:lang of the   *)
(* document is a lang in the literal, by c/rdfa.c:620, where the literal   *)
(* is to be "a string created by serializing to text, all nodes that are   *)
(* descendants", c/triple.c:592.)                                          *)
(***************************************************************************)
Language(S, lang(_)) ==
  LET saying == {a \in S : lang(a) # NULL}
  IN  IF saying = {} \/ lang(Latest(saying)) = "" THEN NULL
      ELSE lang(Latest(saying))

LanguageSaid(token) ==
  IF token.lang # NULL THEN token.lang ELSE token.xml_lang

LiteralsKeepLanguage ==
  \A s \in XmlLiterals : \A i \in DOMAIN s.value :
    LET at     == s.value[i].at
        serialised(a) == LanguageSaid(
                           CHOOSE t \in {s.value[j] : j \in DOMAIN s.value} :
                             t.at = a)
        written(a) == document[a].tag.lang
    IN  s.value[i].kind = "text" /\ OpenIn(s, at) # {} =>
          Language(OpenIn(s, at), serialised) = Language(Open(at), written)

(***************************************************************************)
(* RDFa 1.0 makes an XML literal of what contains text and an element, as  *)
(* the comment at c/triple.c:587-590 has it, or text and a '<', be it in   *)
(* text or in what is left of the element's own start tag behind a '>';    *)
(* RDFa 1.1 makes one where the datatype asks for it.                      *)
(***************************************************************************)
Inside(s) == {document[at] : at \in s.start + 1 .. s.end - 1}

KindFollowsSubtree ==
  \A s \in sent :
    s.kind = "xml" <=>
      IF version = "1.1" THEN document[s.start].tag.property = "XMLLiteral"
      ELSE /\ \E e \in Inside(s) : e.kind = "text"
           /\ \/ document[s.start].tag.torn = "markup"
              \/ \E e \in Inside(s) : \/ e.kind = "open"
                                      \/ e.kind = "text" /\ e.text \in MarkupTexts

(***************************************************************************)
(* Three documents crash the handlers: a property element has a child, and *)
(* a prefix in scope has no IRI; in RDFa 1.0, it has elements inside and   *)
(* no text; or it has no text, and an attribute with a '<' behind a '>'.   *)
(***************************************************************************)
CrashesAreKnown ==
  pc = "crashed" =>
    LET at     == Len(document)
        parent == Latest(Open(at) \ {at})
    IN  \/ /\ document[at].kind = "open"
           /\ document[parent].tag.property # "none"
           /\ \E p \in Prefixes : InScope(parent, p) = NULL
        \/ /\ document[at].kind = "close" /\ version = "1.0"
           /\ LET own    == document[document[at].of]
                  inside == {document[e] : e \in document[at].of + 1 .. at - 1}
              IN  /\ \/ own.tag.torn = "markup"
                     \/ \E e \in inside : e.kind = "open"
                  /\ \A e \in inside : e.kind # "text"
=============================================================================
