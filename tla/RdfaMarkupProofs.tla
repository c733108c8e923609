-------------------------- MODULE RdfaMarkupProofs --------------------------
(***************************************************************************)
(* Proofs about XML literals, for all start tags, documents and bounds.    *)
(* First their extent: what the contexts on the stack hold is one cut of   *)
(* the document into consecutive pieces: each context begins at its        *)
(* element's start tag and ends where the next one begins.                 *)
(***************************************************************************)
EXTENDS RdfaMarkup, Integers, WellFoundedInduction, TLAPS

Events ==
  [kind : {"open"}, tag : Tags] \cup [kind : {"text"}, text : Texts]
    \cup [kind : {"close"}, of : Nat]

\* The tokens are those of the events from one position on.
Consecutive(tokens, from) ==
  \A i \in 1 .. Len(tokens) : tokens[i].at = from + i - 1

First(c) == IF c.start = 0 THEN 1 ELSE c.start

IsPiece(c, behind) ==
  /\ Consecutive(c.xml_literal, First(c))
  /\ First(c) + Len(c.xml_literal) = behind

-----------------------------------------------------------------------------
(* Consecutive tokens.                                                     *)

LEMMA ConsecutiveAppend ==
  ASSUME NEW S, NEW s \in Seq(S), NEW from \in Nat, NEW t \in S,
         Consecutive(s, from), t.at = from + Len(s)
  PROVE  Consecutive(Append(s, t), from) /\ Len(Append(s, t)) = Len(s) + 1
BY DEF Consecutive

LEMMA ConsecutiveConcat ==
  ASSUME NEW S, NEW s \in Seq(S), NEW t \in Seq(S), NEW from \in Nat,
         Consecutive(s, from), Consecutive(t, from + Len(s))
  PROVE  Consecutive(s \o t, from) /\ Len(s \o t) = Len(s) + Len(t)
<1>1. Len(s \o t) = Len(s) + Len(t)
  OBVIOUS
<1>2. ASSUME NEW i \in 1 .. Len(s \o t) PROVE (s \o t)[i].at = from + i - 1
  <2>1. CASE i <= Len(s)
    BY <2>1 DEF Consecutive
  <2>2. CASE i > Len(s)
    <3>1. (s \o t)[i] = t[i - Len(s)] /\ i - Len(s) \in 1 .. Len(t)
      BY <1>1, <2>2
    <3>2. t[i - Len(s)].at = from + Len(s) + (i - Len(s)) - 1
      BY <3>1 DEF Consecutive
    <3> QED BY <3>1, <3>2
  <2> QED BY <2>1, <2>2
<1> QED BY <1>1, <1>2 DEF Consecutive

LEMMA ConsecutiveTail ==
  ASSUME NEW S, NEW s \in Seq(S), NEW from \in Nat, Len(s) > 0,
         Consecutive(s, from)
  PROVE  /\ Consecutive(Tail(s), from + 1) /\ Len(Tail(s)) = Len(s) - 1
         /\ Tail(s) \in Seq(S)
<1>1. Tail(s) \in Seq(S) /\ Len(Tail(s)) = Len(s) - 1
  OBVIOUS
<1>2. ASSUME NEW i \in 1 .. Len(Tail(s))
      PROVE  Tail(s)[i].at = from + 1 + i - 1
  <2>1. Tail(s)[i] = s[i + 1] /\ i + 1 \in 1 .. Len(s)
    BY <1>1
  <2> QED BY <2>1 DEF Consecutive
<1> QED BY <1>1, <1>2 DEF Consecutive

-----------------------------------------------------------------------------
(* Types.                                                                  *)

LEMMA TokenTypes ==
  ASSUME NEW at \in Nat \ {0}, NEW kind \in {"text", "close"}
  PROVE  Token(at, kind) \in TokenType
<1>1. NoNamespaces \in [{} -> Iris \cup {NULL}]
  BY DEF NoNamespaces
<1>2. NoNamespaces \in UNION {[S -> Iris \cup {NULL}] : S \in SUBSET Prefixes}
  BY <1>1
<1> QED BY <1>2 DEF Token, TokenType

LEMMA NamespacesType ==
  ASSUME NEW c \in ContextType, NEW tag \in Tags
  PROVE  NamespacesWritten(c, tag) \in
           UNION {[S -> Iris \cup {NULL}] : S \in SUBSET Prefixes}
<1>1. CASE c.xml_literal_namespaces_defined
  <2>1. NamespacesWritten(c, tag) \in [{} -> Iris \cup {NULL}]
    BY <1>1 DEF NamespacesWritten, NoNamespaces
  <2> QED BY <2>1
<1>2. CASE ~c.xml_literal_namespaces_defined
  <2>1. c.uris \in [Prefixes -> Iris \cup {NULL, Unmapped}]
    BY DEF ContextType, Mappings, Values
  <2>2. \A p \in Written(c, tag) : c.uris[p] \in Iris \cup {NULL}
    BY <2>1 DEF Written
  <2>3. NamespacesWritten(c, tag) \in [Written(c, tag) -> Iris \cup {NULL}]
    BY <1>2, <2>2 DEF NamespacesWritten
  <2>4. Written(c, tag) \in SUBSET Prefixes
    BY DEF Written
  <2> QED BY <2>3, <2>4
<1> QED BY <1>1, <1>2

LEMMA ElementContextType ==
  ASSUME NEW c \in ContextType, NEW tag \in Tags, NEW at \in Nat \ {0}
  PROVE  /\ ElementContext(c, tag, at) \in ContextType
         /\ ElementContext(c, tag, at).start = at
         /\ ElementContext(c, tag, at).tag = tag
         /\ Len(ElementContext(c, tag, at).xml_literal) = 1
         /\ ElementContext(c, tag, at).xml_literal[1].at = at
<1> DEFINE e == ElementContext(c, tag, at)
           t == OpenToken(at, NamespacesWritten(c, tag), LangWritten(tag),
                          XmlLangWritten(c, tag))
<1>1. tag \in StartTags
  BY MarkupAssumption
<1>2. c.language \in (Languages \ {""}) \cup {NULL}
      /\ c.uris \in [Prefixes -> Values]
      /\ c.xml_literal_namespaces_defined \in BOOLEAN
      /\ c.xml_literal_xml_lang_defined \in BOOLEAN
  BY DEF ContextType, Mappings
<1>3. tag.lang \in Languages \cup {NULL} /\ tag.prefixed \in BOOLEAN
  BY <1>1 DEF StartTags
<1>4. /\ LangWritten(tag) \in Languages \cup {NULL}
      /\ XmlLangWritten(c, tag) \in Languages \cup {NULL}
  BY <1>2, <1>3 DEF LangWritten, XmlLangWritten
<1>5. t \in TokenType /\ t.at = at
  BY <1>4, NamespacesType DEF OpenToken, TokenType
<1>6. <<t>> \in Seq(TokenType) /\ Len(<<t>>) = 1 /\ <<t>>[1] = t
  BY <1>5
<1>7. UpdatedLanguage(c, tag) \in (Languages \ {""}) \cup {NULL}
  BY <1>2, <1>3 DEF UpdatedLanguage
<1>8. \A p \in DOMAIN tag.declares : tag.declares[p] \in Values
  <2>1. PICK S \in SUBSET Prefixes : tag.declares \in [S -> Iris \cup {NULL}]
    BY <1>1 DEF StartTags
  <2> QED BY <2>1 DEF Values
<1>9. [p \in Prefixes |-> IF p \in DOMAIN tag.declares THEN tag.declares[p]
                          ELSE c.uris[p]] \in Mappings
  BY <1>2, <1>8 DEF Mappings
<1>10. NamespacesDefined(tag) \in BOOLEAN
  BY DEF NamespacesDefined
<1>11. (LangDefined(c, tag) \/ (tag.lang = NULL /\ c.language # NULL))
         \in BOOLEAN
  BY DEF LangDefined
<1>12. e.start = at /\ e.tag = tag /\ e.xml_literal = <<t>>
  BY DEF ElementContext
<1>13. e \in ContextType
  BY <1>6, <1>7, <1>9, <1>10, <1>11 DEF ElementContext, ContextType
<1> QED BY <1>5, <1>6, <1>12, <1>13

-----------------------------------------------------------------------------
(* A longer document does not change what was sent of it.                  *)

LEMMA DocumentGrows ==
  ASSUME NEW d \in Seq(Events), NEW e \in Events
  PROVE  /\ Append(d, e) \in Seq(Events) /\ Len(Append(d, e)) = Len(d) + 1
         /\ Append(d, e)[Len(d) + 1] = e
         /\ \A i \in 1 .. Len(d) : Append(d, e)[i] = d[i]
OBVIOUS

Subtree(s, d) ==
  LET first == IF d[s.start].tag.torn = "empty" THEN s.start + 1 ELSE s.start
  IN  /\ Len(s.value) = s.end - first
      /\ \A i \in DOMAIN s.value : s.value[i].at = first + i - 1

SentType(s, d) ==
  /\ {s.start, s.end} \subseteq DOMAIN d /\ s.kind \in {"xml", "plain"}
  /\ s.kind = "xml" => s.value \in Seq(TokenType) /\ Subtree(s, d)

LEMMA SentKept ==
  ASSUME NEW d \in Seq(Events), NEW e \in Events, NEW s, SentType(s, d)
  PROVE  SentType(s, Append(d, e))
<1>1. Append(d, e)[s.start] = d[s.start]
  BY DocumentGrows DEF SentType
<1>2. {s.start, s.end} \subseteq DOMAIN Append(d, e)
  BY DocumentGrows DEF SentType
<1>3. Subtree(s, d) => Subtree(s, Append(d, e))
  BY <1>1 DEF Subtree
<1> QED BY <1>2, <1>3 DEF SentType

\* What the three handlers have in common.
StackOf(st, d) ==
  /\ st \in Seq(ContextType) /\ Len(st) > 0 /\ st[1].start = 0
  /\ \A i \in 2 .. Len(st) :
       /\ st[i].start \in 1 .. Len(d) /\ st[i].tag \in Tags
       /\ d[st[i].start] = [kind |-> "open", tag |-> st[i].tag]
       /\ Len(st[i].xml_literal) > 0

BehindOf(st, d, i) == IF i < Len(st) THEN st[i + 1].start ELSE Len(d) + 1

PiecesOf(st, d) == \A i \in 1 .. Len(st) : IsPiece(st[i], BehindOf(st, d, i))

Inv ==
  /\ version \in Versions /\ pc \in {"content", "crashed"}
  /\ document \in Seq(Events) /\ StackOf(stack, document)
  /\ pc = "content" => PiecesOf(stack, document)
  /\ \A s \in sent : SentType(s, document)

LEMMA InvGives == Inv => TypeOK /\ LiteralsAreSubtrees
<1>1. stack \in Seq(ContextType) =>
        \A i \in DOMAIN stack : stack[i] \in ContextType
  OBVIOUS
<1>2. Inv => TypeOK
  BY <1>1 DEF Inv, TypeOK, StackOf, SentType
<1>3. Inv => LiteralsAreSubtrees
  BY DEF Inv, SentType, Subtree, LiteralsAreSubtrees, XmlLiterals
<1> QED BY <1>2, <1>3

\* One context above the bottom one.
Element(c, d) ==
  /\ c.start \in 1 .. Len(d) /\ c.tag \in Tags
  /\ d[c.start] = [kind |-> "open", tag |-> c.tag]
  /\ Len(c.xml_literal) > 0

LEMMA StackElements ==
  ASSUME NEW st, NEW d
  PROVE  StackOf(st, d) <=>
           /\ st \in Seq(ContextType) /\ Len(st) > 0 /\ st[1].start = 0
           /\ \A i \in 2 .. Len(st) : Element(st[i], d)
BY DEF StackOf, Element

LEMMA ElementKept ==
  ASSUME NEW d \in Seq(Events), NEW e \in Events, NEW c, Element(c, d)
  PROVE  Element(c, Append(d, e))
BY DocumentGrows DEF Element

\* The stack is that of a longer document, too.
LEMMA StackKept ==
  ASSUME NEW st, NEW d \in Seq(Events), NEW e \in Events, StackOf(st, d)
  PROVE  StackOf(st, Append(d, e))
BY StackElements, ElementKept

LEMMA PushKeeps ==
  ASSUME NEW st, NEW d \in Seq(Events), NEW tag \in Tags, NEW c \in ContextType,
         StackOf(st, d), PiecesOf(st, d),
         c.start = Len(d) + 1, c.tag = tag, Len(c.xml_literal) = 1,
         c.xml_literal[1].at = Len(d) + 1
  PROVE  LET e == [kind |-> "open", tag |-> tag]
         IN  /\ StackOf(Append(st, c), Append(d, e))
             /\ PiecesOf(Append(st, c), Append(d, e))
<1> DEFINE e == [kind |-> "open", tag |-> tag]
           n == Len(st)
           new == Append(st, c)
           longer == Append(d, e)
<1>1. e \in Events
  BY DEF Events
<1>2. /\ longer \in Seq(Events) /\ Len(longer) = Len(d) + 1
      /\ longer[Len(d) + 1] = e /\ \A i \in 1 .. Len(d) : longer[i] = d[i]
  BY <1>1, DocumentGrows
<1>3. /\ st \in Seq(ContextType) /\ n \in Nat /\ n > 0 /\ Len(d) \in Nat
      /\ new \in Seq(ContextType) /\ Len(new) = n + 1 /\ new[n + 1] = c
      /\ \A i \in 1 .. n : new[i] = st[i]
  BY DEF StackOf
<1>4. \A i \in 2 .. n : Element(st[i], longer)
  BY <1>1, StackElements, ElementKept
<1> HIDE DEF n, new, longer, e
<1>5. StackOf(new, longer)
  <2>1. new[1].start = 0
    BY <1>3 DEF StackOf
  <2>2. \A i \in 2 .. n : Element(new[i], longer)
    BY <1>3, <1>4
  <2>3. Element(new[n + 1], longer)
    BY <1>2, <1>3 DEF e, Element
  <2>4. \A i \in 2 .. Len(new) : i \in 2 .. n \/ i = n + 1
    BY <1>3
  <2>5. \A i \in 2 .. Len(new) : Element(new[i], longer)
    BY <2>2, <2>3, <2>4
  <2>6. Len(new) > 0
    BY <1>3
  <2> QED BY <1>3, <2>1, <2>5, <2>6, StackElements
<1>6. PiecesOf(new, longer)
  <2>1. ASSUME NEW i \in 1 .. n
        PROVE  BehindOf(new, longer, i) = BehindOf(st, d, i)
    BY <1>2, <1>3, SMTT(30) DEF BehindOf, n
  <2>2. \A i \in 1 .. n : IsPiece(new[i], BehindOf(new, longer, i))
    BY <1>3, <2>1 DEF PiecesOf, n
  <2>3. IsPiece(c, Len(longer) + 1)
    BY <1>2, <1>3 DEF IsPiece, First, Consecutive
  <2>4. BehindOf(new, longer, n + 1) = Len(longer) + 1
    BY <1>3 DEF BehindOf
  <2>5. \A i \in 1 .. n + 1 : i \in 1 .. n \/ i = n + 1
    BY <1>3
  <2> QED BY <1>3, <2>2, <2>3, <2>4, <2>5 DEF PiecesOf
<1> QED BY <1>5, <1>6 DEF new, longer, e

\* The context on top is replaced by one that reaches to the end of the
\* document; all of the contexts above it are gone.
LEMMA TopReaches ==
  ASSUME NEW st, NEW d \in Seq(Events), NEW longer \in Seq(Events),
         NEW m \in Nat \ {0}, m <= Len(st), NEW c \in ContextType,
         StackOf(st, d), PiecesOf(st, d),
         \A i \in 2 .. Len(st) : Element(st[i], longer),
         c.start = st[m].start, c.tag = st[m].tag,
         Len(c.xml_literal) >= Len(st[m].xml_literal),
         IsPiece(c, Len(longer) + 1)
  PROVE  LET new == [i \in 1 .. m |-> IF i = m THEN c ELSE st[i]]
         IN  StackOf(new, longer) /\ PiecesOf(new, longer)
<1> DEFINE new == [i \in 1 .. m |-> IF i = m THEN c ELSE st[i]]
<1>1. st \in Seq(ContextType) /\ Len(st) \in Nat /\ st[1].start = 0
  BY DEF StackOf
<1>2. \A i \in 1 .. m : st[i] \in ContextType
  BY <1>1
<1>3. new \in Seq(ContextType) /\ Len(new) = m
  BY <1>2
<1>4. new[m] = c /\ \A i \in 1 .. m - 1 : new[i] = st[i]
  OBVIOUS
<1>5. \A i \in 1 .. m : i \in 1 .. m - 1 \/ i = m
  OBVIOUS
<1> HIDE DEF new
<1>6. StackOf(new, longer)
  <2>1. new[1].start = 0
    <3>1. 1 \in 1 .. m
      OBVIOUS
    <3>2. 1 \in 1 .. m - 1 \/ 1 = m
      BY <1>5, <3>1
    <3> QED BY <1>1, <1>4, <3>2
  <2>2. ASSUME NEW i \in 2 .. m PROVE Element(new[i], longer)
    <3>1. Element(st[i], longer)
      BY <1>1
    <3>2. CASE i = m
      <4>1. /\ c.start \in 1 .. Len(longer) /\ c.tag \in Tags
            /\ longer[c.start] = [kind |-> "open", tag |-> c.tag]
        BY <3>1, <3>2 DEF Element
      <4>2. Len(c.xml_literal) \in Nat /\ Len(st[m].xml_literal) \in Nat
        <5>1. c.xml_literal \in Seq(TokenType)
          BY DEF ContextType
        <5>2. m \in 1 .. m /\ st[m] \in ContextType
          BY <1>2
        <5>3. st[m].xml_literal \in Seq(TokenType)
          BY <5>2 DEF ContextType
        <5> QED BY <5>1, <5>3
      <4>3. Len(c.xml_literal) > 0
        BY <3>1, <3>2, <4>2 DEF Element
      <4> QED BY <1>4, <3>2, <4>1, <4>3 DEF Element
    <3>3. CASE i # m
      <4>1. i \in 1 .. m - 1
        BY <3>3
      <4> QED BY <1>4, <3>1, <4>1
    <3> QED BY <3>2, <3>3
  <2>3. \A i \in 2 .. Len(new) : Element(new[i], longer)
    BY <1>3, <2>2
  <2>4. Len(new) > 0
    BY <1>3
  <2> QED BY <1>3, <2>1, <2>3, <2>4, StackElements
<1>7. PiecesOf(new, longer)
  <2>1. ASSUME NEW i \in 1 .. m - 1
        PROVE  IsPiece(new[i], BehindOf(new, longer, i))
    <3>1. /\ i \in 1 .. Len(st) /\ i < Len(st) /\ i < m /\ i + 1 \in 1 .. m
      BY <1>1
    <3>2. IsPiece(st[i], BehindOf(st, d, i))
      BY <3>1 DEF PiecesOf
    <3>3. BehindOf(st, d, i) = st[i + 1].start
      BY <3>1 DEF BehindOf
    <3>4. i + 1 \in 1 .. m - 1 \/ i + 1 = m
      BY <1>5, <3>1
    <3>5. new[i + 1].start = st[i + 1].start
      BY <1>4, <3>4
    <3>6. BehindOf(new, longer, i) = new[i + 1].start
      BY <1>3, <3>1 DEF BehindOf
    <3> QED BY <1>4, <3>2, <3>3, <3>5, <3>6
  <2>2. BehindOf(new, longer, m) = Len(longer) + 1
    BY <1>3 DEF BehindOf
  <2> QED BY <1>3, <1>4, <1>5, <2>1, <2>2 DEF PiecesOf
<1> QED BY <1>6, <1>7 DEF new

-----------------------------------------------------------------------------
(* The handlers.                                                           *)

LEMMA ConcatType ==
  ASSUME NEW s \in Seq(Nat) \cup {NULL}, NEW t \in Seq(Nat) \cup {NULL}
  PROVE  Concat(s, t) \in Seq(Nat) \cup {NULL}
BY DEF Concat

LEMMA LastReplaced ==
  ASSUME NEW S, NEW s \in Seq(S), NEW c
  PROVE  [s EXCEPT ![Len(s)] = c] =
           [i \in 1 .. Len(s) |-> IF i = Len(s) THEN c ELSE s[i]]
<1>1. DOMAIN s = 1 .. Len(s) /\ s = [i \in 1 .. Len(s) |-> s[i]]
  OBVIOUS
<1> QED BY <1>1

LEMMA StartElementKeeps ==
  ASSUME Inv, StartElement
  PROVE  Inv'
<1>1. /\ version \in Versions /\ pc = "content" /\ document \in Seq(Events)
      /\ StackOf(stack, document) /\ PiecesOf(stack, document)
      /\ \A s \in sent : SentType(s, document)
  BY DEF Inv, StartElement
<1>2. PICK tag \in Tags :
        /\ document' = Append(document, [kind |-> "open", tag |-> tag])
        /\ \/ pc' = "crashed" /\ UNCHANGED stack
           \/ /\ UNCHANGED pc
              /\ stack' = Append(stack,
                                 ElementContext(Top, tag, Len(document) + 1))
  BY DEF StartElement
<1> DEFINE e == [kind |-> "open", tag |-> tag]
           c == ElementContext(Top, tag, Len(document) + 1)
<1>3. e \in Events
  BY DEF Events
<1>4. Top \in ContextType
  BY <1>1 DEF StackOf, Top
<1>5. Len(document) \in Nat /\ Len(document) + 1 \in Nat \ {0}
  BY <1>1
<1>6. /\ c \in ContextType /\ c.start = Len(document) + 1 /\ c.tag = tag
      /\ Len(c.xml_literal) = 1 /\ c.xml_literal[1].at = Len(document) + 1
  BY <1>4, <1>5, ElementContextType
<1>7. document' \in Seq(Events)
  BY <1>1, <1>2, <1>3, DocumentGrows
<1>8. version' \in Versions /\ sent' = sent
  BY <1>1 DEF StartElement
<1>9. \A s \in sent' : SentType(s, document')
  BY <1>1, <1>2, <1>3, <1>8, SentKept
<1>10. CASE pc' = "crashed" /\ UNCHANGED stack
  <2>1. StackOf(stack', document')
    BY <1>1, <1>2, <1>3, <1>10, StackKept
  <2> QED BY <1>7, <1>8, <1>9, <1>10, <2>1 DEF Inv
<1>11. CASE UNCHANGED pc /\ stack' = Append(stack, c)
  <2> HIDE DEF c
  <2>1. StackOf(stack', document') /\ PiecesOf(stack', document')
    BY <1>1, <1>2, <1>6, <1>11, PushKeeps
  <2> QED BY <1>1, <1>7, <1>8, <1>9, <1>11, <2>1 DEF Inv
<1> QED BY <1>2, <1>10, <1>11

LEMMA CharacterDataKeeps ==
  ASSUME Inv, CharacterData
  PROVE  Inv'
<1>1. /\ version \in Versions /\ pc = "content" /\ document \in Seq(Events)
      /\ StackOf(stack, document) /\ PiecesOf(stack, document)
      /\ \A s \in sent : SentType(s, document)
  BY DEF Inv, CharacterData
<1> DEFINE n == Len(stack)
           at == Len(document) + 1
           token == Token(at, "text")
           c == WithText(stack[n], at)
<1>2. PICK text \in Texts :
        /\ document' = Append(document, [kind |-> "text", text |-> text])
        /\ stack' = [stack EXCEPT ![n] = c]
  BY DEF CharacterData
<1> DEFINE e == [kind |-> "text", text |-> text]
<1>3. e \in Events
  BY DEF Events
<1>4. /\ stack \in Seq(ContextType) /\ n \in Nat \ {0}
      /\ Len(document) \in Nat /\ at \in Nat \ {0} /\ at \in Nat
  BY <1>1 DEF StackOf
<1>5. stack[n] \in ContextType
  BY <1>4
<1>6. /\ stack[n].start \in Nat /\ stack[n].xml_literal \in Seq(TokenType)
      /\ stack[n].plain_literal \in Seq(Nat) \cup {NULL}
  BY <1>5 DEF ContextType
<1>7. token \in TokenType /\ token.at = at
  BY <1>4, TokenTypes DEF Token
<1> HIDE DEF token
<1>8. <<at>> \in Seq(Nat)
  BY <1>4
<1>9. c \in ContextType
  <2>1. Append(stack[n].xml_literal, token) \in Seq(TokenType)
    BY <1>6, <1>7
  <2>2. Concat(stack[n].plain_literal, <<at>>) \in Seq(Nat) \cup {NULL}
    BY <1>6, <1>8, ConcatType
  <2> QED BY <1>5, <2>1, <2>2 DEF ContextType, WithText, token
<1>10. /\ c.start = stack[n].start /\ c.tag = stack[n].tag
       /\ c.xml_literal = Append(stack[n].xml_literal, token)
  BY <1>5 DEF ContextType, WithText, token
<1>18. stack' = [i \in 1 .. n |-> IF i = n THEN c ELSE stack[i]]
  <2>1. stack' = [stack EXCEPT ![n] = c]
    BY <1>2
  <2> HIDE DEF c
  <2> QED BY <1>4, <2>1, LastReplaced
<1> HIDE DEF c
<1>11. document' \in Seq(Events) /\ Len(document') = at
  BY <1>1, <1>2, <1>3, DocumentGrows
<1>12. /\ Consecutive(stack[n].xml_literal, First(stack[n]))
       /\ First(stack[n]) + Len(stack[n].xml_literal) = at
  BY <1>1, <1>4 DEF PiecesOf, BehindOf, IsPiece
<1>13. First(stack[n]) \in Nat /\ First(c) = First(stack[n])
  BY <1>6, <1>10 DEF First
<1>14. /\ Consecutive(c.xml_literal, First(c))
       /\ Len(c.xml_literal) = Len(stack[n].xml_literal) + 1
  BY <1>6, <1>7, <1>10, <1>12, <1>13, ConsecutiveAppend
<1>15. First(c) + Len(c.xml_literal) = Len(document') + 1
  <2>1. Len(stack[n].xml_literal) \in Nat
    BY <1>6
  <2>2. at \in Nat /\ First(stack[n]) + Len(stack[n].xml_literal) = at
    BY <1>4, <1>12
  <2>3. First(stack[n]) + (Len(stack[n].xml_literal) + 1) = at + 1
    <3> HIDE DEF n, at
    <3> QED BY <1>13, <2>1, <2>2
  <2> QED BY <1>11, <1>13, <1>14, <2>3
<1>16. IsPiece(c, Len(document') + 1)
  BY <1>14, <1>15 DEF IsPiece
<1>17. \A i \in 2 .. n : Element(stack[i], document')
  BY <1>1, <1>2, <1>3, StackElements, ElementKept
<1>19. Len(c.xml_literal) >= Len(stack[n].xml_literal)
  BY <1>6, <1>14
<1>20. StackOf(stack', document') /\ PiecesOf(stack', document')
  <2>1. n <= Len(stack)
    BY <1>4
  <2> HIDE DEF n
  <2>2. n = Len(stack)
    BY DEF n
  <2> QED BY <1>1, <1>4, <1>9, <1>10, <1>11, <1>16, <1>17, <1>18, <1>19,
             <2>1, <2>2, TopReaches, SMTT(30)
<1>21. /\ version' \in Versions /\ pc' = "content" /\ sent' = sent
  BY <1>1 DEF CharacterData
<1>22. \A s \in sent' : SentType(s, document')
  BY <1>1, <1>2, <1>3, <1>21, SentKept
<1> QED BY <1>11, <1>20, <1>21, <1>22 DEF Inv

\* What an element sends is its subtree, one tag left out or none.
LEMMA SentSubtree ==
  ASSUME NEW c \in ContextType, NEW d \in Seq(Events), NEW longer \in Seq(Events),
         NEW s \in Sent(c, Len(d) + 1), Element(c, d), Element(c, longer),
         Len(longer) = Len(d) + 1, c.start > 0, IsPiece(c, Len(d) + 1)
  PROVE  SentType(s, longer)
<1> DEFINE at == Len(d) + 1
<1>1. /\ s.start = c.start /\ s.end = at /\ s.kind \in {"xml", "plain"}
      /\ s.kind = "xml" => s.value = Content(c)
  BY DEF Sent
<1>2. c.xml_literal \in Seq(TokenType) /\ c.start \in Nat
  BY DEF ContextType
<1>3. at \in Nat /\ at \in 1 .. Len(longer) /\ DOMAIN longer = 1 .. Len(longer)
  OBVIOUS
<1>4. c.start \in 1 .. Len(longer) /\ longer[c.start].tag = c.tag
  BY DEF Element
<1>5. /\ Consecutive(c.xml_literal, c.start)
      /\ c.start + Len(c.xml_literal) = at /\ Len(c.xml_literal) > 0
  BY DEF IsPiece, First, Element
<1> HIDE DEF at
<1>6. CASE c.tag.torn # "empty"
  <2>1. Content(c) = c.xml_literal
    BY <1>6 DEF Content
  <2>2. Len(Content(c)) = at - c.start
    BY <1>2, <1>3, <1>5, <2>1
  <2>3. \A i \in DOMAIN Content(c) : Content(c)[i].at = c.start + i - 1
    <3>1. DOMAIN Content(c) = 1 .. Len(Content(c))
      BY <1>2, <2>1
    <3> QED BY <1>5, <2>1, <3>1 DEF Consecutive
  <2>4. longer[c.start].tag.torn # "empty"
    BY <1>4, <1>6
  <2>5. s.kind = "xml" => Subtree(s, longer)
    BY <1>1, <2>2, <2>3, <2>4 DEF Subtree
  <2> QED BY <1>1, <1>2, <1>3, <1>4, <2>1, <2>5 DEF SentType
<1>7. CASE c.tag.torn = "empty"
  <2>1. Content(c) = Tail(c.xml_literal)
    BY <1>7 DEF Content
  <2>2. /\ Consecutive(Content(c), c.start + 1)
        /\ Len(Content(c)) = Len(c.xml_literal) - 1
        /\ Content(c) \in Seq(TokenType)
    BY <1>2, <1>5, <2>1, ConsecutiveTail
  <2>3. Len(Content(c)) = at - (c.start + 1)
    <3>1. Len(c.xml_literal) \in Nat
      BY <1>2
    <3> QED BY <1>2, <1>3, <1>5, <2>2, <3>1
  <2>4. \A i \in DOMAIN Content(c) : Content(c)[i].at = c.start + 1 + i - 1
    BY <2>2 DEF Consecutive
  <2>5. longer[c.start].tag.torn = "empty"
    BY <1>4, <1>7
  <2>6. s.kind = "xml" => Subtree(s, longer)
    BY <1>1, <2>3, <2>4, <2>5 DEF Subtree
  <2> QED BY <1>1, <1>3, <1>4, <2>2, <2>6 DEF SentType
<1> QED BY <1>6, <1>7

LEMMA Sums ==
  ASSUME NEW i \in Nat, NEW j \in Nat, NEW k \in Nat
  PROVE  i + (j + (k + 1)) = (i + j) + k + 1
OBVIOUS

\* A parent and its child's piece make one piece that ends with the child.
LEMMA ParentReaches ==
  ASSUME NEW parent \in ContextType, NEW c \in ContextType, NEW at \in Nat \ {0},
         IsPiece(parent, c.start), IsPiece(c, at), c.start > 0,
         PlainLiteral(c) \in Seq(Nat) \cup {NULL}
  PROVE  /\ ToParent(parent, c, at) \in ContextType
         /\ ToParent(parent, c, at).start = parent.start
         /\ ToParent(parent, c, at).tag = parent.tag
         /\ Len(ToParent(parent, c, at).xml_literal) >= Len(parent.xml_literal)
         /\ IsPiece(ToParent(parent, c, at), at + 1)
<1> DEFINE token == Token(at, "close")
           new == ToParent(parent, c, at)
           ended == Append(c.xml_literal, token)
<1>1. /\ parent.xml_literal \in Seq(TokenType) /\ parent.start \in Nat
      /\ c.xml_literal \in Seq(TokenType) /\ c.start \in Nat
      /\ parent.plain_literal \in Seq(Nat) \cup {NULL}
  BY DEF ContextType
<1>2. token \in TokenType /\ token.at = at
  BY TokenTypes DEF Token
<1> HIDE DEF token
<1>3. /\ Consecutive(c.xml_literal, c.start)
      /\ c.start + Len(c.xml_literal) = at
  BY <1>1 DEF IsPiece, First
<1>4. /\ ended \in Seq(TokenType) /\ Consecutive(ended, c.start)
      /\ Len(ended) = Len(c.xml_literal) + 1
  <2>1. token.at = c.start + Len(c.xml_literal)
    BY <1>2, <1>3
  <2>2. Consecutive(ended, c.start) /\ Len(ended) = Len(c.xml_literal) + 1
    BY <1>1, <1>2, <1>3, <2>1, ConsecutiveAppend
  <2>3. ended \in Seq(TokenType)
    BY <1>1, <1>2
  <2> QED BY <2>2, <2>3
<1> HIDE DEF ended
<1>5. /\ First(parent) \in Nat /\ Consecutive(parent.xml_literal, First(parent))
      /\ First(parent) + Len(parent.xml_literal) = c.start
  BY <1>1 DEF IsPiece, First
<1>6. /\ Consecutive(parent.xml_literal \o ended, First(parent))
      /\ Len(parent.xml_literal \o ended) =
           Len(parent.xml_literal) + Len(ended)
      /\ parent.xml_literal \o ended \in Seq(TokenType)
  <2>1. Consecutive(ended, First(parent) + Len(parent.xml_literal))
    BY <1>4, <1>5
  <2>2. parent.xml_literal \o ended \in Seq(TokenType)
    BY <1>1, <1>4
  <2> QED BY <1>1, <1>4, <1>5, <2>1, <2>2, ConsecutiveConcat
<1>7. Concat(parent.plain_literal, PlainLiteral(c)) \in Seq(Nat) \cup {NULL}
  BY <1>1, ConcatType
<1>8. new = [parent EXCEPT
               !.xml_literal = @ \o ended,
               !.plain_literal = Concat(@, PlainLiteral(c))]
  BY DEF ToParent, ended, token
<1> HIDE DEF new
<1>9. /\ new \in ContextType /\ new.start = parent.start
      /\ new.tag = parent.tag /\ new.xml_literal = parent.xml_literal \o ended
  BY <1>6, <1>7, <1>8 DEF ContextType
<1>10. First(new) = First(parent)
  BY <1>9 DEF First
<1>11. Len(parent.xml_literal) \in Nat /\ Len(c.xml_literal) \in Nat
  BY <1>1
<1>12. Len(new.xml_literal) >= Len(parent.xml_literal)
  BY <1>4, <1>6, <1>9, <1>11
<1>13. First(new) + Len(new.xml_literal) = at + 1
  <2>1. Len(new.xml_literal) =
          Len(parent.xml_literal) + (Len(c.xml_literal) + 1)
    BY <1>4, <1>6, <1>9
  <2>2. First(parent) + (Len(parent.xml_literal) + (Len(c.xml_literal) + 1))
          = (First(parent) + Len(parent.xml_literal)) + Len(c.xml_literal) + 1
    BY <1>5, <1>11, Sums
  <2> QED BY <1>3, <1>5, <1>10, <2>1, <2>2
<1>14. IsPiece(new, at + 1)
  BY <1>6, <1>9, <1>10, <1>13 DEF IsPiece
<1> QED BY <1>9, <1>12, <1>14 DEF new

LEMMA EndElementKeeps ==
  ASSUME Inv, EndElement
  PROVE  Inv'
<1>1. /\ version \in Versions /\ pc = "content" /\ document \in Seq(Events)
      /\ StackOf(stack, document) /\ PiecesOf(stack, document)
      /\ \A s \in sent : SentType(s, document)
  BY DEF Inv, EndElement
<1> DEFINE n == Len(stack)
           at == Len(document) + 1
           e == [kind |-> "close", of |-> Top.start]
<1>2. /\ n > 1 /\ version' = version /\ document' = Append(document, e)
      /\ \/ pc' = "crashed" /\ UNCHANGED <<stack, sent>>
         \/ /\ UNCHANGED pc /\ sent' = sent \cup Sent(Top, at)
            /\ stack' = [i \in 1 .. n - 1 |->
                           IF i = n - 1 THEN ToParent(stack[i], Top, at)
                           ELSE stack[i]]
  BY DEF EndElement
<1>3. /\ stack \in Seq(ContextType) /\ n \in Nat /\ n - 1 \in Nat \ {0}
      /\ n \in 1 .. n /\ n - 1 \in 1 .. n /\ n \in 2 .. n
      /\ Len(document) \in Nat /\ at \in Nat \ {0}
  BY <1>1, <1>2 DEF StackOf
<1>4. Top \in ContextType /\ stack[n - 1] \in ContextType /\ Top = stack[n]
  BY <1>3 DEF Top
<1>5. e \in Events
  BY <1>4 DEF ContextType, Events
<1>6. document' \in Seq(Events) /\ Len(document') = at
  BY <1>1, <1>2, <1>5, DocumentGrows
<1>7. \A s \in sent : SentType(s, document')
  BY <1>1, <1>2, <1>5, SentKept
<1>8. \A i \in 2 .. n : Element(stack[i], document) /\ Element(stack[i], document')
  BY <1>1, <1>2, <1>5, StackElements, ElementKept
<1>9. StackOf(stack, document')
  BY <1>1, <1>2, <1>5, StackKept
<1>10. Top.start > 0 /\ Element(Top, document) /\ Element(Top, document')
  BY <1>3, <1>4, <1>8 DEF Element
<1>11. IsPiece(Top, at) /\ IsPiece(stack[n - 1], Top.start)
  <2>1. BehindOf(stack, document, n) = at
    BY <1>3 DEF BehindOf
  <2>2. BehindOf(stack, document, n - 1) = Top.start
    BY <1>3, <1>4 DEF BehindOf
  <2> QED BY <1>1, <1>3, <1>4, <2>1, <2>2 DEF PiecesOf
<1>12. \A s \in Sent(Top, at) : SentType(s, document')
  BY <1>1, <1>4, <1>6, <1>10, <1>11, SentSubtree
<1>13. PlainLiteral(Top) \in Seq(Nat) \cup {NULL}
  <2>1. Top.plain_literal \in Seq(Nat) \cup {NULL}
    BY <1>4 DEF ContextType
  <2>2. << >> \in Seq(Nat)
    OBVIOUS
  <2> QED BY <2>1, <2>2 DEF PlainLiteral
<1>14. CASE pc' = "crashed" /\ UNCHANGED <<stack, sent>>
  BY <1>1, <1>2, <1>6, <1>7, <1>9, <1>14 DEF Inv
<1>15. CASE /\ UNCHANGED pc /\ sent' = sent \cup Sent(Top, at)
            /\ stack' = [i \in 1 .. n - 1 |->
                           IF i = n - 1 THEN ToParent(stack[i], Top, at)
                           ELSE stack[i]]
  <2> DEFINE m == n - 1
             c == ToParent(stack[m], Top, at)
  <2>1. /\ c \in ContextType /\ c.start = stack[m].start
        /\ c.tag = stack[m].tag
        /\ Len(c.xml_literal) >= Len(stack[m].xml_literal)
        /\ IsPiece(c, at + 1)
    BY <1>3, <1>4, <1>10, <1>11, <1>13, ParentReaches
  <2>2. IsPiece(c, Len(document') + 1)
    BY <1>6, <2>1
  <2>3. stack' = [i \in 1 .. m |-> IF i = m THEN c ELSE stack[i]]
    BY <1>15
  <2>4. m \in Nat \ {0} /\ m <= Len(stack)
    BY <1>3
  <2>5. \A i \in 2 .. Len(stack) : Element(stack[i], document')
    BY <1>8
  <2> HIDE DEF m, c
  <2>6. StackOf(stack', document') /\ PiecesOf(stack', document')
    <3>1. document \in Seq(Events) /\ document' \in Seq(Events)
      BY <1>1, <1>6
    <3>2. StackOf(stack, document) /\ PiecesOf(stack, document)
      BY <1>1
    <3> HIDE DEF n, at, e
    <3>3. /\ StackOf([i \in 1 .. m |-> IF i = m THEN c ELSE stack[i]],
                     document')
          /\ PiecesOf([i \in 1 .. m |-> IF i = m THEN c ELSE stack[i]],
                      document')
      BY <2>1, <2>2, <2>4, <2>5, <3>1, <3>2, TopReaches
    <3> QED BY <2>3, <3>3
  <2>7. \A s \in sent' : SentType(s, document')
    BY <1>7, <1>12, <1>15
  <2> QED BY <1>1, <1>2, <1>6, <1>15, <2>6, <2>7 DEF Inv
<1> QED BY <1>2, <1>14, <1>15

-----------------------------------------------------------------------------
LEMMA InitHolds == Init => Inv
<1> SUFFICES ASSUME Init PROVE Inv
  OBVIOUS
<1>1. /\ version \in Versions /\ document = << >> /\ stack = <<Root>>
      /\ sent = {} /\ pc = "content"
  BY DEF Init
<1>2. Root \in ContextType
  BY MarkupAssumption DEF Root, ContextType, Mappings, Values
<1>3. /\ stack \in Seq(ContextType) /\ Len(stack) = 1 /\ stack[1] = Root
      /\ document \in Seq(Events) /\ Len(document) = 0
  BY <1>1, <1>2
<1>4. StackOf(stack, document)
  BY <1>3 DEF StackOf, Root
<1>5. PiecesOf(stack, document)
  BY <1>3 DEF PiecesOf, BehindOf, IsPiece, Consecutive, First, Root
<1> QED BY <1>1, <1>3, <1>4, <1>5 DEF Inv

LEMMA InvHolds == Spec => []Inv
<1>1. Inv /\ [Next]_vars => Inv'
  <2> SUFFICES ASSUME Inv, [Next]_vars PROVE Inv'
    OBVIOUS
  <2>1. CASE StartElement
    BY <2>1, StartElementKeeps
  <2>2. CASE CharacterData
    BY <2>2, CharacterDataKeeps
  <2>3. CASE EndElement
    BY <2>3, EndElementKeeps
  <2>4. CASE UNCHANGED vars
    BY <2>4 DEF vars, Inv
  <2> QED BY <2>1, <2>2, <2>3, <2>4 DEF Next
<1> QED BY <1>1, InitHolds, PTL DEF Spec

(***************************************************************************)
(* Contexts, tokens and what is sent of them have their types, whatever    *)
(* the start tags and the length of the document (start_element,           *)
(* character_data and end_element).                                        *)
(***************************************************************************)
THEOREM MarkupTypeCorrect == Spec => []TypeOK
BY InvHolds, InvGives, PTL

(***************************************************************************)
(* The value of a property element that is an XML literal is every event   *)
(* between its tags, once and in order, for properties nested to any depth *)
(* (rdfa.c:1111-1153 appends a child's literal to its parent's).           *)
(***************************************************************************)
THEOREM LiteralsAlwaysSubtrees == Spec => []LiteralsAreSubtrees
BY InvHolds, InvGives, PTL

-----------------------------------------------------------------------------
(* What XML literals mean: their namespaces, their language, whether a     *)
(* property is one and which documents crash.  A context knows of the      *)
(* elements around it only what was copied into it and two flags; the      *)
(* argument is that this is what the document says at its start tag, and   *)
(* that every token of every literal keeps what the document says at its   *)
(* event.                                                                  *)

\* Open, InScope and Language of a document that is an argument.
OpenOf(d, at) ==
  {a \in 1 .. at :
     /\ d[a].kind = "open"
     /\ \A e \in a .. at : d[e].kind = "close" => d[e].of # a}

ScopeOf(d, S, p) ==
  LET declaring == {a \in S : p \in DOMAIN d[a].tag.declares}
  IN  IF declaring = {} THEN Initial[p]
      ELSE d[Latest(declaring)].tag.declares[p]

LanguageOf(d, S) ==
  LET saying == {a \in S : d[a].tag.lang # NULL}
  IN  IF saying = {} \/ d[Latest(saying)].tag.lang = "" THEN NULL
      ELSE d[Latest(saying)].tag.lang

\* An end tag is that of the innermost element.
Nested(d) ==
  \A e \in 1 .. Len(d) :
    d[e].kind = "close" =>
      /\ d[e].of \in OpenOf(d, e - 1)
      /\ \A b \in OpenOf(d, e - 1) : b <= d[e].of

\* The contexts above the bottom one are those of the open elements.
ChainOf(st, d) ==
  /\ OpenOf(d, Len(d)) = OpenOf(d, st[Len(st)].start)
  /\ \A i \in 2 .. Len(st) :
       OpenOf(d, st[i].start) \ {st[i].start} = OpenOf(d, st[i - 1].start)

Above(d, at) == OpenOf(d, at) \ {at}

\* No element around this one, or a property element.
Outermost(d, at) ==
  Above(d, at) = {} \/ d[Latest(Above(d, at))].tag.property # "none"

\* The namespaces and the language that the start tag at an event writes.
NamespacesAt(d, at) ==
  IF Outermost(d, at)
  THEN [p \in {q \in Prefixes \ {d[at].tag.shadow} :
                 ScopeOf(d, Above(d, at), q) # Unmapped} |->
          ScopeOf(d, Above(d, at), p)]
  ELSE NoNamespaces

LanguagesAt(d, at) ==
  IF d[at].tag.lang # NULL THEN {d[at].tag.lang}
  ELSE IF Outermost(d, at) THEN {LanguageOf(d, Above(d, at))}
  ELSE {NULL, LanguageOf(d, Above(d, at))}

TokenRight(t, d) ==
  /\ t.at \in 1 .. Len(d) /\ t.kind = d[t.at].kind
  /\ t.kind = "open" => /\ t.xmlns = NamespacesAt(d, t.at)
                        /\ LanguageSaid(t) \in LanguagesAt(d, t.at)

TokensRight(tokens, d) ==
  \A i \in 1 .. Len(tokens) : TokenRight(tokens[i], d)

ContextRight(c, d) ==
  /\ \A p \in Prefixes : c.uris[p] = ScopeOf(d, OpenOf(d, c.start), p)
  /\ c.language = LanguageOf(d, OpenOf(d, c.start))
  /\ c.xml_literal_namespaces_defined =
       (c.start # 0 /\ d[c.start].tag.property = "none")
  /\ TokensRight(c.xml_literal, d)

\* The plain literal is null or empty as long as there is no text.
TextBetween(d, from, to) == \E e \in from .. to : d[e].kind = "text"

IsText(plain) == plain # NULL /\ plain # << >>

TextRight(c, d, behind) ==
  IsText(c.plain_literal) <=> TextBetween(d, c.start + 1, behind - 1)

MarkupBetween(d, from, to) ==
  \E e \in from .. to :
    \/ d[e].kind = "open"
    \/ d[e].kind = "text" /\ d[e].text \in MarkupTexts

KindRight(v, s, d) ==
  s.kind = "xml" <=>
    IF v = "1.1" THEN d[s.start].tag.property = "XMLLiteral"
    ELSE /\ TextBetween(d, s.start + 1, s.end - 1)
         /\ \/ d[s.start].tag.torn = "markup"
            \/ MarkupBetween(d, s.start + 1, s.end - 1)

SentRight(v, s, d) ==
  /\ {s.start, s.end} \subseteq 1 .. Len(d)
  /\ s.start \in OpenOf(d, s.end - 1) /\ d[s.start].tag.property # "none"
  /\ s.kind = "xml" => TokensRight(s.value, d)
  /\ KindRight(v, s, d)

StackRight(st, d) ==
  /\ ChainOf(st, d)
  /\ \A i \in 1 .. Len(st) : /\ ContextRight(st[i], d)
                             /\ TextRight(st[i], d, BehindOf(st, d, i))

Meaning ==
  /\ Nested(document)
  /\ pc = "content" => StackRight(stack, document)
  /\ \A s \in sent : SentRight(version, s, document)
  /\ CrashesAreKnown

-----------------------------------------------------------------------------
(* The smallest and the greatest element of a set of numbers.              *)

LEMMA Smallest ==
  ASSUME NEW T \in SUBSET Nat, T # {}
  PROVE  \E x \in T : \A y \in T : x <= y
<1>1. PICK x \in T : \A y \in T : ~ (<<y, x>> \in OpToRel(<, Nat))
  BY WFMin, NatLessThanWellFounded, Zenon
<1>2. \A y \in T : y < x => <<y, x>> \in OpToRel(<, Nat)
  BY DEF OpToRel
<1>3. \A y \in T : ~(y < x)
  BY <1>1, <1>2, Zenon
<1> QED BY <1>3

LEMMA LatestIs ==
  ASSUME NEW S \in SUBSET Nat, NEW x \in S, \A y \in S : y <= x
  PROVE  Latest(S) = x
<1>1. \A a \in S : (\A b \in S : b <= a) => a = x
  OBVIOUS
<1> QED BY <1>1 DEF Latest

LEMMA LatestIn ==
  ASSUME NEW n \in Nat, NEW S \in SUBSET (1 .. n), S # {}
  PROVE  Latest(S) \in S /\ \A y \in S : y <= Latest(S)
<1> DEFINE U == {u \in Nat : \E x \in S : u + x = n}
<1>1. \A x \in S : n - x \in U
  OBVIOUS
<1>2. U \in SUBSET Nat /\ U # {}
  BY <1>1
<1>3. PICK u \in U : \A v \in U : u <= v
  BY <1>2, Smallest
<1>4. PICK x \in S : u + x = n
  OBVIOUS
<1>5. \A y \in S : y <= x
  <2>1. TAKE y \in S
  <2>2. u <= n - y
    BY <1>1, <1>3
  <2> QED BY <1>4, <2>2
<1> QED BY <1>5, LatestIs

-----------------------------------------------------------------------------
(* A longer document does not change what was said of it.                  *)

\* "longer" is "d" with one more event.
Longer(longer, d, e) ==
  /\ d \in Seq(Events) /\ longer \in Seq(Events) /\ e \in Events
  /\ Len(longer) = Len(d) + 1 /\ longer[Len(d) + 1] = e
  /\ \A i \in 1 .. Len(d) : longer[i] = d[i]

LEMMA AppendIsLonger ==
  ASSUME NEW d \in Seq(Events), NEW e \in Events
  PROVE  Longer(Append(d, e), d, e)
BY DocumentGrows DEF Longer

LEMMA OpenKept ==
  ASSUME NEW longer, NEW d, NEW e, Longer(longer, d, e), NEW at \in 0 .. Len(d)
  PROVE  OpenOf(longer, at) = OpenOf(d, at)
<1>1. \A i \in 1 .. at : longer[i] = d[i]
  BY DEF Longer
<1>2. at \in Nat /\ \A a \in 1 .. at : \A i \in a .. at : i \in 1 .. at
  BY DEF Longer
<1> QED BY <1>1, <1>2 DEF OpenOf

LEMMA OpenRange ==
  ASSUME NEW d, NEW at \in Nat
  PROVE  /\ OpenOf(d, at) \in SUBSET (1 .. at)
         /\ Above(d, at) \in SUBSET (1 .. at)
         /\ at \notin Above(d, at) /\ OpenOf(d, 0) = {}
         /\ \A a \in OpenOf(d, at) : d[a].kind = "open"
BY DEF OpenOf, Above

\* What the last event opens or closes.
LEMMA OpenSteps ==
  ASSUME NEW longer, NEW d, NEW e, Longer(longer, d, e)
  PROVE  /\ e.kind = "open" => OpenOf(longer, Len(d) + 1) =
                                 OpenOf(d, Len(d)) \cup {Len(d) + 1}
         /\ e.kind = "text" => OpenOf(longer, Len(d) + 1) = OpenOf(d, Len(d))
         /\ e.kind = "close" => OpenOf(longer, Len(d) + 1) =
                                  OpenOf(d, Len(d)) \ {e.of}
<1> DEFINE n == Len(d)
<1>1. n \in Nat /\ longer[n + 1] = e /\ \A i \in 1 .. n : longer[i] = d[i]
  BY DEF Longer
<1> HIDE DEF n
<1>2. ASSUME NEW a \in 1 .. n
      PROVE  a \in OpenOf(longer, n + 1) <=>
               a \in OpenOf(d, n) /\ (e.kind = "close" => e.of # a)
  <2>1. /\ a \in 1 .. n + 1 /\ longer[a] = d[a]
        /\ \A i \in a .. n : i \in 1 .. n /\ longer[i] = d[i]
        /\ \A i \in a .. n + 1 : i \in a .. n \/ i = n + 1
        /\ \A i \in a .. n : i \in a .. n + 1
        /\ n + 1 \in a .. n + 1
    BY <1>1
  <2> QED BY <1>1, <2>1 DEF OpenOf
<1>3. n + 1 \in OpenOf(longer, n + 1) <=> e.kind = "open"
  <2>1. n + 1 \in 1 .. n + 1 /\ \A i \in n + 1 .. n + 1 : i = n + 1
    BY <1>1
  <2> QED BY <1>1, <2>1 DEF OpenOf
<1>4. /\ OpenOf(longer, n + 1) \in SUBSET (1 .. n + 1)
      /\ OpenOf(d, n) \in SUBSET (1 .. n)
  BY <1>1, OpenRange
<1>5. \A a \in 1 .. n + 1 : a \in 1 .. n \/ a = n + 1
  BY <1>1
<1>6. n + 1 \notin 1 .. n
  BY <1>1
<1>7. \A a : a \in OpenOf(longer, n + 1) <=>
              \/ a \in OpenOf(d, n) /\ (e.kind = "close" => e.of # a)
              \/ a = n + 1 /\ e.kind = "open"
  BY <1>2, <1>3, <1>4, <1>5, <1>6, Zenon
<1>8. OpenOf(longer, n + 1) =
        {a \in 1 .. n + 1 :
           \/ a \in OpenOf(d, n) /\ (e.kind = "close" => e.of # a)
           \/ a = n + 1 /\ e.kind = "open"}
  BY <1>4, <1>7
<1> QED BY <1>7 DEF n

LEMMA ScopeKept ==
  ASSUME NEW longer, NEW d, NEW e, Longer(longer, d, e),
         NEW S \in SUBSET (1 .. Len(d)), NEW p
  PROVE  ScopeOf(longer, S, p) = ScopeOf(d, S, p)
<1> DEFINE declaring == {a \in S : p \in DOMAIN d[a].tag.declares}
<1>1. Len(d) \in Nat /\ \A i \in 1 .. Len(d) : longer[i] = d[i]
  BY DEF Longer
<1>2. {a \in S : p \in DOMAIN longer[a].tag.declares} = declaring
  BY <1>1
<1>3. declaring # {} => longer[Latest(declaring)] = d[Latest(declaring)]
  <2>1. declaring \in SUBSET (1 .. Len(d))
    OBVIOUS
  <2> HIDE DEF declaring
  <2>2. declaring # {} => Latest(declaring) \in 1 .. Len(d)
    BY <1>1, <2>1, LatestIn
  <2> QED BY <1>1, <2>2
<1> QED BY <1>2, <1>3 DEF ScopeOf

LEMMA LanguageKept ==
  ASSUME NEW longer, NEW d, NEW e, Longer(longer, d, e),
         NEW S \in SUBSET (1 .. Len(d))
  PROVE  LanguageOf(longer, S) = LanguageOf(d, S)
<1> DEFINE saying == {a \in S : d[a].tag.lang # NULL}
<1>1. Len(d) \in Nat /\ \A i \in 1 .. Len(d) : longer[i] = d[i]
  BY DEF Longer
<1>2. {a \in S : longer[a].tag.lang # NULL} = saying
  BY <1>1
<1>3. saying # {} => longer[Latest(saying)] = d[Latest(saying)]
  <2>1. saying \in SUBSET (1 .. Len(d))
    OBVIOUS
  <2> HIDE DEF saying
  <2>2. saying # {} => Latest(saying) \in 1 .. Len(d)
    BY <1>1, <2>1, LatestIn
  <2> QED BY <1>1, <2>2
<1> QED BY <1>2, <1>3 DEF LanguageOf

LEMMA TokenKept ==
  ASSUME NEW longer, NEW d, NEW e, Longer(longer, d, e), NEW t, TokenRight(t, d)
  PROVE  TokenRight(t, longer)
<1>1. /\ Len(d) \in Nat /\ Len(longer) = Len(d) + 1 /\ t.at \in 1 .. Len(d)
      /\ t.at \in 0 .. Len(d) /\ t.at \in Nat
  BY DEF Longer, TokenRight
<1>2. t.at \in 1 .. Len(longer) /\ longer[t.at] = d[t.at]
  BY <1>1 DEF Longer
<1>3. Above(longer, t.at) = Above(d, t.at)
  BY <1>1, OpenKept DEF Above
<1>4. Above(d, t.at) \in SUBSET (1 .. Len(d))
  <2>1. Above(d, t.at) \in SUBSET (1 .. t.at)
    BY <1>1, OpenRange
  <2>2. \A i \in 1 .. t.at : i \in 1 .. Len(d)
    BY <1>1
  <2> QED BY <2>1, <2>2
<1>5. Above(d, t.at) # {} =>
        longer[Latest(Above(d, t.at))] = d[Latest(Above(d, t.at))]
  <2>1. Above(d, t.at) # {} => Latest(Above(d, t.at)) \in 1 .. Len(d)
    BY <1>1, <1>4, LatestIn
  <2> QED BY <2>1 DEF Longer
<1>6. Outermost(longer, t.at) <=> Outermost(d, t.at)
  BY <1>3, <1>5 DEF Outermost
<1>7. \A p : ScopeOf(longer, Above(d, t.at), p) = ScopeOf(d, Above(d, t.at), p)
  BY <1>4, ScopeKept
<1>8. LanguageOf(longer, Above(d, t.at)) = LanguageOf(d, Above(d, t.at))
  BY <1>4, LanguageKept
<1>9. NamespacesAt(longer, t.at) = NamespacesAt(d, t.at)
  BY <1>2, <1>3, <1>6, <1>7, Zenon DEF NamespacesAt
<1>10. LanguagesAt(longer, t.at) = LanguagesAt(d, t.at)
  BY <1>2, <1>3, <1>6, <1>8, Zenon DEF LanguagesAt
<1> QED BY <1>2, <1>9, <1>10, Zenon DEF TokenRight

LEMMA TokensKept ==
  ASSUME NEW longer, NEW d, NEW e, Longer(longer, d, e), NEW tokens,
         TokensRight(tokens, d)
  PROVE  TokensRight(tokens, longer)
BY TokenKept DEF TokensRight

LEMMA ContextKept ==
  ASSUME NEW longer, NEW d, NEW e, Longer(longer, d, e), NEW c,
         c.start \in 0 .. Len(d), ContextRight(c, d)
  PROVE  ContextRight(c, longer)
<1>1. Len(d) \in Nat /\ c.start \in Nat
  BY DEF Longer
<1>2. OpenOf(longer, c.start) = OpenOf(d, c.start)
  BY OpenKept
<1>3. OpenOf(d, c.start) \in SUBSET (1 .. Len(d))
  <2>1. OpenOf(d, c.start) \in SUBSET (1 .. c.start)
    BY <1>1, OpenRange
  <2>2. \A i \in 1 .. c.start : i \in 1 .. Len(d)
    BY <1>1
  <2> QED BY <2>1, <2>2
<1>4. \A p \in Prefixes : c.uris[p] = ScopeOf(longer, OpenOf(longer, c.start), p)
  BY <1>2, <1>3, ScopeKept DEF ContextRight
<1>5. c.language = LanguageOf(longer, OpenOf(longer, c.start))
  BY <1>2, <1>3, LanguageKept DEF ContextRight
<1>6. c.start # 0 => longer[c.start] = d[c.start]
  <2>1. c.start # 0 => c.start \in 1 .. Len(d)
    BY <1>1
  <2> QED BY <2>1 DEF Longer
<1>7. c.xml_literal_namespaces_defined =
        (c.start # 0 /\ longer[c.start].tag.property = "none")
  BY <1>6 DEF ContextRight
<1>8. TokensRight(c.xml_literal, longer)
  BY TokensKept DEF ContextRight
<1> QED BY <1>4, <1>5, <1>7, <1>8 DEF ContextRight

LEMMA BetweenKept ==
  ASSUME NEW longer, NEW d, NEW e, Longer(longer, d, e), NEW from \in Nat \ {0},
         NEW to \in Int, to <= Len(d)
  PROVE  /\ TextBetween(longer, from, to) <=> TextBetween(d, from, to)
         /\ MarkupBetween(longer, from, to) <=> MarkupBetween(d, from, to)
<1>1. \A i \in from .. to : longer[i] = d[i]
  BY DEF Longer
<1> QED BY <1>1 DEF TextBetween, MarkupBetween

LEMMA SentStaysRight ==
  ASSUME NEW longer, NEW d, NEW e, Longer(longer, d, e), NEW v, NEW s, SentRight(v, s, d)
  PROVE  SentRight(v, s, longer)
<1>1. /\ s.start \in 1 .. Len(d) /\ s.end \in 1 .. Len(d) /\ Len(d) \in Nat
      /\ Len(longer) = Len(d) + 1
  BY DEF Longer, SentRight
<1>2. {s.start, s.end} \subseteq 1 .. Len(longer)
  BY <1>1
<1>3. longer[s.start] = d[s.start]
  BY <1>1 DEF Longer
<1>4. OpenOf(longer, s.end - 1) = OpenOf(d, s.end - 1)
  <2>1. s.end - 1 \in 0 .. Len(d)
    BY <1>1
  <2> QED BY <2>1, OpenKept
<1>5. s.start + 1 \in Nat \ {0} /\ s.end - 1 \in Int /\ s.end - 1 <= Len(d)
  BY <1>1
<1>6. KindRight(v, s, longer) <=> KindRight(v, s, d)
  BY <1>3, <1>5, BetweenKept DEF KindRight
<1> QED BY <1>2, <1>3, <1>4, <1>6, TokensKept DEF SentRight

LEMMA NestedKept ==
  ASSUME NEW longer, NEW d, NEW e, Longer(longer, d, e), Nested(d),
         e.kind = "close" => /\ e.of \in OpenOf(d, Len(d))
                             /\ \A b \in OpenOf(d, Len(d)) : b <= e.of
  PROVE  Nested(longer)
<1> DEFINE n == Len(d)
<1>1. n \in Nat /\ Len(longer) = n + 1 /\ longer[n + 1] = e
      /\ \A i \in 1 .. n : longer[i] = d[i]
  BY DEF Longer
<1>2. \A i \in 1 .. n + 1 : i - 1 \in 0 .. n /\ (i \in 1 .. n \/ i = n + 1)
  BY <1>1
<1>3. \A i \in 1 .. n + 1 : OpenOf(longer, i - 1) = OpenOf(d, i - 1)
  BY <1>2, OpenKept
<1>4. n + 1 - 1 = n
  BY <1>1
<1>5. ASSUME NEW i \in 1 .. n, longer[i].kind = "close"
      PROVE  /\ longer[i].of \in OpenOf(longer, i - 1)
             /\ \A b \in OpenOf(longer, i - 1) : b <= longer[i].of
  <2>1. i \in 1 .. n + 1 /\ longer[i] = d[i]
    BY <1>1
  <2> QED BY <1>3, <1>5, <2>1 DEF Nested
<1>6. longer[n + 1].kind = "close" =>
        /\ longer[n + 1].of \in OpenOf(longer, n)
        /\ \A b \in OpenOf(longer, n) : b <= longer[n + 1].of
  <2>1. n \in 0 .. n
    BY <1>1
  <2>2. OpenOf(longer, n) = OpenOf(d, n)
    BY <2>1, OpenKept
  <2> QED BY <1>1, <2>2
<1> HIDE DEF n
<1> QED BY <1>1, <1>2, <1>4, <1>5, <1>6 DEF Nested

-----------------------------------------------------------------------------
(* What the open elements say changes with the last of them.               *)

LEMMA ScopeOfLast ==
  ASSUME NEW d, NEW at \in Nat \ {0}, NEW S \in SUBSET (1 .. at), at \in S, NEW p
  PROVE  ScopeOf(d, S, p) = IF p \in DOMAIN d[at].tag.declares
                            THEN d[at].tag.declares[p]
                            ELSE ScopeOf(d, S \ {at}, p)
<1> DEFINE declaring == {a \in S : p \in DOMAIN d[a].tag.declares}
<1>3. ScopeOf(d, S, p) = IF declaring = {} THEN Initial[p]
                         ELSE d[Latest(declaring)].tag.declares[p]
  BY DEF ScopeOf
<1>1. CASE p \in DOMAIN d[at].tag.declares
  <2>3. at \in declaring /\ \A a \in declaring : a \in 1 .. at
    BY <1>1
  <2> HIDE DEF declaring
  <2>1. declaring \in SUBSET Nat /\ \A a \in declaring : a <= at
    BY <2>3
  <2>2. Latest(declaring) = at /\ declaring # {}
    BY <2>1, <2>3, LatestIs
  <2> QED BY <1>1, <1>3, <2>2
<1>2. CASE p \notin DOMAIN d[at].tag.declares
  <2>1. {a \in S \ {at} : p \in DOMAIN d[a].tag.declares} = declaring
    BY <1>2
  <2> QED BY <1>2, <2>1 DEF ScopeOf
<1> QED BY <1>1, <1>2

LEMMA LanguageOfLast ==
  ASSUME NEW d, NEW at \in Nat \ {0}, NEW S \in SUBSET (1 .. at), at \in S
  PROVE  LanguageOf(d, S) = IF d[at].tag.lang = NULL
                            THEN LanguageOf(d, S \ {at})
                            ELSE IF d[at].tag.lang = "" THEN NULL
                            ELSE d[at].tag.lang
<1> DEFINE saying == {a \in S : d[a].tag.lang # NULL}
<1>3. LanguageOf(d, S) =
        IF saying = {} \/ d[Latest(saying)].tag.lang = "" THEN NULL
        ELSE d[Latest(saying)].tag.lang
  BY DEF LanguageOf
<1>1. CASE d[at].tag.lang # NULL
  <2>3. at \in saying /\ \A a \in saying : a \in 1 .. at
    BY <1>1
  <2> HIDE DEF saying
  <2>1. saying \in SUBSET Nat /\ \A a \in saying : a <= at
    BY <2>3
  <2>2. Latest(saying) = at /\ saying # {}
    BY <2>1, <2>3, LatestIs
  <2> QED BY <1>1, <1>3, <2>2
<1>2. CASE d[at].tag.lang = NULL
  <2>1. {a \in S \ {at} : d[a].tag.lang # NULL} = saying
    BY <1>2
  <2> QED BY <1>2, <2>1 DEF LanguageOf
<1> QED BY <1>1, <1>2

LEMMA OwnTagIsOpen ==
  ASSUME NEW d, NEW at \in Nat \ {0}, d[at].kind = "open"
  PROVE  at \in OpenOf(d, at) /\ Latest(OpenOf(d, at)) = at
<1>1. at \in OpenOf(d, at)
  BY DEF OpenOf
<1>2. \A a \in OpenOf(d, at) : a \in 1 .. at
  BY DEF OpenOf
<1>3. OpenOf(d, at) \in SUBSET Nat /\ \A a \in OpenOf(d, at) : a <= at
  BY <1>2
<1> QED BY <1>1, <1>3, LatestIs

\* The contexts of the elements around the position behind a document.
Current(c, d) ==
  /\ c \in ContextType /\ c.start \in 0 .. Len(d)
  /\ c.start # 0 => d[c.start].kind = "open"
  /\ ContextRight(c, d) /\ OpenOf(d, Len(d)) = OpenOf(d, c.start)

\* start_element: what is written and copied is what the document says.
LEMMA ElementContextRight ==
  ASSUME NEW longer, NEW d, NEW c, NEW tag \in Tags, Current(c, d),
         Longer(longer, d, [kind |-> "open", tag |-> tag])
  PROVE  /\ ContextRight(ElementContext(c, tag, Len(d) + 1), longer)
         /\ OpenOf(longer, Len(d) + 1) \ {Len(d) + 1} = OpenOf(longer, c.start)
<1> DEFINE at == Len(d) + 1
           event == [kind |-> "open", tag |-> tag]
           new == ElementContext(c, tag, at)
           around == OpenOf(longer, c.start)
<1>1. /\ Len(d) \in Nat /\ at \in Nat \ {0} /\ c.start \in Nat /\ at \notin 1 .. Len(d)
      /\ Len(longer) = at /\ at \in 1 .. Len(longer) /\ longer[at] = event
      /\ 0 \in 0 .. Len(d) /\ Len(d) \in 0 .. Len(d) /\ c.start \in 0 .. Len(d)
  BY DEF Longer, Current
<1>2. /\ longer[at].kind = "open" /\ longer[at].tag = tag /\ event.kind = "open"
  BY <1>1
<1>3. Above(longer, at) = around
  <2>1. OpenOf(longer, at) = OpenOf(d, Len(d)) \cup {at}
    BY <1>2, OpenSteps
  <2>2. OpenOf(d, Len(d)) \in SUBSET (1 .. Len(d))
    BY <1>1, OpenRange
  <2>3. OpenOf(d, Len(d)) = around
    BY <1>1, OpenKept DEF Current
  <2> HIDE DEF at, around
  <2> QED BY <1>1, <2>1, <2>2, <2>3 DEF Above
<1>4. ContextRight(c, longer)
  BY <1>1, ContextKept DEF Current
<1>5. c.start # 0 => /\ longer[c.start].kind = "open" /\ around # {}
                     /\ Latest(around) = c.start
  <2>1. c.start # 0 => c.start \in 1 .. Len(d) /\ c.start \in Nat \ {0}
    BY <1>1
  <2>2. c.start # 0 => longer[c.start].kind = "open"
    BY <2>1 DEF Longer, Current
  <2> QED BY <2>1, <2>2, OwnTagIsOpen
<1>6. c.start = 0 => around = {}
  BY <1>1, OpenRange
<1>7. Outermost(longer, at) <=> ~c.xml_literal_namespaces_defined
  BY <1>3, <1>4, <1>5, <1>6, Zenon DEF Outermost, ContextRight
<1>8. /\ OpenOf(longer, at) \in SUBSET (1 .. at) /\ at \in OpenOf(longer, at)
      /\ OpenOf(longer, at) \ {at} = around
  BY <1>1, <1>2, <1>3, OpenRange, OwnTagIsOpen DEF Above
<1>9. \A p \in Prefixes : c.uris[p] = ScopeOf(longer, around, p)
  BY <1>4 DEF ContextRight
<1>10. c.language = LanguageOf(longer, around)
  BY <1>4 DEF ContextRight
<1>11. /\ new.start = at /\ new.language = UpdatedLanguage(c, tag)
       /\ new.xml_literal_namespaces_defined = NamespacesDefined(tag)
       /\ new.uris = [p \in Prefixes |->
                        IF p \in DOMAIN tag.declares THEN tag.declares[p]
                        ELSE c.uris[p]]
       /\ new.xml_literal = <<OpenToken(at, NamespacesWritten(c, tag),
                                        LangWritten(tag),
                                        XmlLangWritten(c, tag))>>
  BY DEF ElementContext
<1> DEFINE token == OpenToken(at, NamespacesWritten(c, tag), LangWritten(tag),
                              XmlLangWritten(c, tag))
<1>12. token.at = at /\ token.kind = "open"
       /\ token.xmlns = NamespacesWritten(c, tag)
       /\ token.lang = LangWritten(tag)
       /\ token.xml_lang = XmlLangWritten(c, tag)
  BY DEF OpenToken
<1>13. NamespacesWritten(c, tag) = NamespacesAt(longer, at)
  <2>1. CASE c.xml_literal_namespaces_defined
    BY <1>7, <2>1 DEF NamespacesWritten, NamespacesAt
  <2>2. CASE ~c.xml_literal_namespaces_defined
    <3> DEFINE names == {q \in Prefixes \ {tag.shadow} :
                           ScopeOf(longer, around, q) # Unmapped}
    <3>1. Written(c, tag) = names
      BY <1>9 DEF Written
    <3>2. \A p \in names : c.uris[p] = ScopeOf(longer, around, p)
      BY <1>9
    <3>3. NamespacesWritten(c, tag) = [p \in Written(c, tag) |-> c.uris[p]]
      BY <2>2 DEF NamespacesWritten
    <3>4. NamespacesAt(longer, at) =
            [p \in names |-> ScopeOf(longer, around, p)]
      BY <1>2, <1>3, <1>7, <2>2, Zenon DEF NamespacesAt
    <3> HIDE DEF names
    <3> QED BY <3>1, <3>2, <3>3, <3>4
  <2> QED BY <2>1, <2>2
<1>14. LanguageSaid(token) \in LanguagesAt(longer, at)
  <2>1. LanguagesAt(longer, at) =
          IF tag.lang # NULL THEN {tag.lang}
          ELSE IF ~c.xml_literal_namespaces_defined THEN {c.language}
          ELSE {NULL, c.language}
    BY <1>2, <1>3, <1>7, <1>10, Zenon DEF LanguagesAt
  <2>2. LanguageSaid(token) = IF tag.lang # NULL THEN tag.lang
                              ELSE XmlLangWritten(c, tag)
    BY <1>12 DEF LanguageSaid, LangWritten
  <2> QED BY <2>1, <2>2 DEF XmlLangWritten, LangDefined
<1>15. \A p \in Prefixes : new.uris[p] = ScopeOf(longer, OpenOf(longer, at), p)
  <2>1. TAKE p \in Prefixes
  <2>2. ScopeOf(longer, OpenOf(longer, at), p) =
          IF p \in DOMAIN tag.declares THEN tag.declares[p]
          ELSE ScopeOf(longer, around, p)
    <3>1. ScopeOf(longer, OpenOf(longer, at), p) =
            IF p \in DOMAIN longer[at].tag.declares
            THEN longer[at].tag.declares[p]
            ELSE ScopeOf(longer, OpenOf(longer, at) \ {at}, p)
      <4> HIDE DEF at, around
      <4> QED BY <1>1, <1>8, ScopeOfLast
    <3> QED BY <1>2, <1>8, <3>1
  <2>3. new.uris[p] = IF p \in DOMAIN tag.declares THEN tag.declares[p]
                      ELSE c.uris[p]
    BY <1>11
  <2> QED BY <1>9, <2>2, <2>3
<1>16. new.language = LanguageOf(longer, OpenOf(longer, at))
  <2>1. LanguageOf(longer, OpenOf(longer, at)) =
          IF longer[at].tag.lang = NULL
          THEN LanguageOf(longer, OpenOf(longer, at) \ {at})
          ELSE IF longer[at].tag.lang = "" THEN NULL ELSE longer[at].tag.lang
    BY <1>1, <1>8, LanguageOfLast
  <2> QED BY <1>2, <1>8, <1>10, <1>11, <2>1 DEF UpdatedLanguage
<1>17. TokenRight(token, longer)
  BY <1>1, <1>2, <1>12, <1>13, <1>14, Zenon DEF TokenRight
<1>18. TokensRight(new.xml_literal, longer)
  <2>1. Len(<<token>>) = 1 /\ <<token>>[1] = token /\ \A i \in 1 .. 1 : i = 1
    OBVIOUS
  <2>2. new.xml_literal = <<token>>
    BY <1>11
  <2> HIDE DEF token, new
  <2> QED BY <1>17, <2>1, <2>2 DEF TokensRight
<1>19. new.xml_literal_namespaces_defined =
         (new.start # 0 /\ longer[new.start].tag.property = "none")
  BY <1>1, <1>2, <1>11 DEF NamespacesDefined
<1>20. ContextRight(new, longer)
  <2>1. new.start = at
    BY <1>11
  <2> HIDE DEF new, at
  <2> QED BY <1>15, <1>16, <1>18, <1>19, <2>1 DEF ContextRight
<1> QED BY <1>8, <1>20

-----------------------------------------------------------------------------
(* The stack.                                                              *)

LEMMA StartRange ==
  ASSUME NEW st, NEW d \in Seq(Events), StackOf(st, d), NEW i \in 1 .. Len(st)
  PROVE  /\ st[i] \in ContextType /\ st[i].start \in 0 .. Len(d)
         /\ st[i].start # 0 => st[i].start \in 1 .. Len(d)
         /\ st[i].start # 0 => d[st[i].start].kind = "open"
<1>1. st \in Seq(ContextType) /\ st[1].start = 0 /\ Len(d) \in Nat
  BY DEF StackOf
<1>2. st[i] \in ContextType
  BY <1>1
<1>3. CASE i = 1
  BY <1>1, <1>2, <1>3
<1>4. CASE i # 1
  <2>1. i \in 2 .. Len(st)
    BY <1>1, <1>4
  <2>2. /\ st[i].start \in 1 .. Len(d)
        /\ d[st[i].start] = [kind |-> "open", tag |-> st[i].tag]
    BY <2>1 DEF StackOf
  <2> QED BY <1>1, <1>2, <2>2
<1> QED BY <1>3, <1>4

LEMMA BehindRange ==
  ASSUME NEW st, NEW d \in Seq(Events), StackOf(st, d), NEW i \in 1 .. Len(st)
  PROVE  BehindOf(st, d, i) \in 1 .. Len(d) + 1
<1>1. st \in Seq(ContextType) /\ Len(st) \in Nat /\ Len(d) \in Nat
  BY DEF StackOf
<1>2. CASE i < Len(st)
  <2>1. i + 1 \in 2 .. Len(st)
    BY <1>1, <1>2
  <2>2. st[i + 1].start \in 1 .. Len(d)
    BY <2>1 DEF StackOf
  <2> QED BY <1>1, <1>2, <2>2 DEF BehindOf
<1>3. CASE ~(i < Len(st))
  BY <1>1, <1>3 DEF BehindOf
<1> QED BY <1>2, <1>3

LEMMA TextKept ==
  ASSUME NEW longer, NEW d, NEW e, Longer(longer, d, e), NEW c,
         c.start \in 0 .. Len(d), NEW behind \in 1 .. Len(d) + 1,
         TextRight(c, d, behind)
  PROVE  TextRight(c, longer, behind)
<1>1. /\ Len(d) \in Nat /\ c.start + 1 \in Nat \ {0} /\ behind - 1 \in Int
      /\ behind - 1 <= Len(d)
  BY DEF Longer
<1>2. TextBetween(longer, c.start + 1, behind - 1) <=>
        TextBetween(d, c.start + 1, behind - 1)
  BY <1>1, BetweenKept
<1> QED BY <1>2 DEF TextRight

LEMMA TopIsCurrent ==
  ASSUME NEW st, NEW d \in Seq(Events), StackOf(st, d), StackRight(st, d)
  PROVE  Current(st[Len(st)], d)
<1>1. Len(st) \in 1 .. Len(st)
  BY DEF StackOf
<1> QED BY <1>1, StartRange DEF Current, StackRight, ChainOf

\* An element's context is pushed.
LEMMA PushRight ==
  ASSUME NEW st, NEW d \in Seq(Events), NEW tag \in Tags, NEW longer,
         StackOf(st, d), StackRight(st, d),
         Longer(longer, d, [kind |-> "open", tag |-> tag])
  PROVE  StackRight(Append(st, ElementContext(st[Len(st)], tag, Len(d) + 1)),
                    longer)
<1> DEFINE e == [kind |-> "open", tag |-> tag]
           n == Len(st)
           at == Len(d) + 1
           c == ElementContext(st[n], tag, at)
           new == Append(st, c)
<1>1. Current(st[n], d)
  BY TopIsCurrent
<1>2. ContextRight(c, longer)
      /\ OpenOf(longer, at) \ {at} = OpenOf(longer, st[n].start)
  BY <1>1, ElementContextRight
<1>3. /\ c.start = at /\ c.plain_literal = NULL
  BY DEF ElementContext
<1> HIDE DEF c
<1>4. /\ st \in Seq(ContextType) /\ n \in Nat \ {0} /\ Len(d) \in Nat
      /\ at \in Nat \ {0} /\ Len(longer) = at
  BY DEF StackOf, Longer
<1>5. /\ Len(new) = n + 1 /\ new[n + 1] = c /\ \A i \in 1 .. n : new[i] = st[i]
  BY <1>4
<1> HIDE DEF new, n
<1>6. \A i \in 1 .. n + 1 : i \in 1 .. n \/ i = n + 1
  BY <1>4
<1>7. ASSUME NEW i \in 1 .. n
      PROVE  /\ ContextRight(st[i], longer)
             /\ TextRight(st[i], longer, BehindOf(new, longer, i))
             /\ OpenOf(longer, st[i].start) = OpenOf(d, st[i].start)
  <2>1. st[i].start \in 0 .. Len(d)
    BY StartRange DEF n
  <2>2. BehindOf(new, longer, i) = BehindOf(st, d, i)
    BY <1>3, <1>4, <1>5, SMTT(30) DEF BehindOf, n
  <2>3. BehindOf(st, d, i) \in 1 .. Len(d) + 1
    BY BehindRange DEF n
  <2>4. ContextRight(st[i], d) /\ TextRight(st[i], d, BehindOf(st, d, i))
    BY DEF StackRight, n
  <2> HIDE DEF at
  <2> QED BY <2>1, <2>2, <2>3, <2>4, ContextKept, TextKept, OpenKept
<1>8. TextRight(c, longer, BehindOf(new, longer, n + 1))
  <2>1. BehindOf(new, longer, n + 1) = at + 1
    BY <1>4, <1>5 DEF BehindOf
  <2>2. ~TextBetween(longer, at + 1, at + 1 - 1)
    BY <1>4 DEF TextBetween
  <2>3. ~IsText(c.plain_literal)
    BY <1>3 DEF IsText
  <2> QED BY <1>3, <2>1, <2>2, <2>3 DEF TextRight
<1>9. ChainOf(new, longer)
  <2>1. OpenOf(longer, Len(longer)) = OpenOf(longer, new[Len(new)].start)
    BY <1>3, <1>4, <1>5
  <2>2. ASSUME NEW i \in 2 .. n
        PROVE  OpenOf(longer, new[i].start) \ {new[i].start} =
                 OpenOf(longer, new[i - 1].start)
    <3>1. i \in 1 .. n /\ i - 1 \in 1 .. n
      BY <1>4
    <3>2. OpenOf(d, st[i].start) \ {st[i].start} = OpenOf(d, st[i - 1].start)
      BY DEF StackRight, ChainOf, n
    <3> QED BY <1>5, <1>7, <3>1, <3>2
  <2>3. OpenOf(longer, new[n + 1].start) \ {new[n + 1].start} =
          OpenOf(longer, new[n].start)
    <3>1. n \in 1 .. n
      BY <1>4
    <3> QED BY <1>2, <1>3, <1>5, <3>1 DEF n
  <2>4. \A i \in 2 .. Len(new) : i \in 2 .. n \/ i = n + 1
    BY <1>4, <1>5
  <2>5. \A i \in 2 .. Len(new) :
          OpenOf(longer, new[i].start) \ {new[i].start} =
            OpenOf(longer, new[i - 1].start)
    <3> TAKE i \in 2 .. Len(new)
    <3>2. CASE i \in 2 .. n
      BY <2>2, <3>2
    <3>3. CASE i = n + 1
      <4>1. i - 1 = n /\ new[i] = new[n + 1]
        BY <1>4, <3>3
      <4>2. new[i - 1] = new[n]
        BY <4>1
      <4> QED BY <2>3, <4>1, <4>2
    <3>4. i \in 2 .. n \/ i = n + 1
      BY <2>4
    <3> QED BY <3>2, <3>3, <3>4
  <2> QED BY <2>1, <2>5, Zenon DEF ChainOf
<1>10. \A i \in 1 .. Len(new) :
         /\ ContextRight(new[i], longer)
         /\ TextRight(new[i], longer, BehindOf(new, longer, i))
  BY <1>2, <1>5, <1>6, <1>7, <1>8
<1>11. StackRight(new, longer)
  BY <1>9, <1>10 DEF StackRight
<1> QED BY <1>11 DEF new, n, c

\* The context on top is replaced, the ones above it are gone.
LEMMA ReplacedRight ==
  ASSUME NEW st, NEW d \in Seq(Events), NEW e, NEW longer, Longer(longer, d, e),
         StackOf(st, d), StackRight(st, d),
         NEW m \in Nat \ {0}, m <= Len(st), NEW c,
         c.start = st[m].start, ContextRight(c, longer),
         TextRight(c, longer, Len(longer) + 1),
         OpenOf(longer, Len(longer)) = OpenOf(longer, c.start)
  PROVE  StackRight([i \in 1 .. m |-> IF i = m THEN c ELSE st[i]], longer)
<1> DEFINE new == [i \in 1 .. m |-> IF i = m THEN c ELSE st[i]]
<1>1. st \in Seq(ContextType) /\ Len(st) \in Nat
  BY DEF StackOf
<1>2. /\ Len(new) = m /\ new[m] = c /\ \A i \in 1 .. m - 1 : new[i] = st[i]
  <2>1. \A i \in 1 .. m : new[i] \in {c} \cup ContextType
    BY <1>1
  <2>2. new \in Seq({c} \cup ContextType)
    BY <2>1
  <2> QED BY <2>2
<1> HIDE DEF new
<1>3. \A i \in 1 .. m : i \in 1 .. Len(st) /\ (i \in 1 .. m - 1 \/ i = m)
  BY <1>1
<1>4. \A i \in 1 .. m : new[i].start = st[i].start
  BY <1>2, <1>3
<1>5. ASSUME NEW i \in 1 .. m
      PROVE  OpenOf(longer, st[i].start) = OpenOf(d, st[i].start)
  BY <1>3, StartRange, OpenKept
<1>6. ChainOf(new, longer)
  <2>1. OpenOf(longer, Len(longer)) = OpenOf(longer, new[Len(new)].start)
    BY <1>2
  <2>2. ASSUME NEW i \in 2 .. m
        PROVE  OpenOf(longer, new[i].start) \ {new[i].start} =
                 OpenOf(longer, new[i - 1].start)
    <3>1. i \in 1 .. m /\ i - 1 \in 1 .. m /\ i \in 2 .. Len(st)
      BY <1>1
    <3>2. OpenOf(d, st[i].start) \ {st[i].start} = OpenOf(d, st[i - 1].start)
      BY <3>1 DEF StackRight, ChainOf
    <3> QED BY <1>4, <1>5, <3>1, <3>2
  <2> QED BY <1>2, <2>1, <2>2 DEF ChainOf
<1>7. ASSUME NEW i \in 1 .. m - 1
      PROVE  /\ ContextRight(new[i], longer)
             /\ TextRight(new[i], longer, BehindOf(new, longer, i))
  <2>1. i \in 1 .. Len(st) /\ i < m /\ i < Len(st) /\ i + 1 \in 1 .. m
    BY <1>1
  <2>2. st[i].start \in 0 .. Len(d)
    BY <2>1, StartRange
  <2>3. BehindOf(new, longer, i) = BehindOf(st, d, i)
    BY <1>2, <1>4, <2>1 DEF BehindOf
  <2>4. BehindOf(st, d, i) \in 1 .. Len(d) + 1
    BY <2>1, BehindRange
  <2>5. ContextRight(st[i], d) /\ TextRight(st[i], d, BehindOf(st, d, i))
    BY <2>1 DEF StackRight
  <2> QED BY <1>2, <2>2, <2>3, <2>4, <2>5, ContextKept, TextKept
<1>8. ContextRight(new[m], longer)
      /\ TextRight(new[m], longer, BehindOf(new, longer, m))
  BY <1>2 DEF BehindOf
<1>9. StackRight(new, longer)
  BY <1>2, <1>3, <1>6, <1>7, <1>8 DEF StackRight
<1> QED BY <1>9 DEF new

-----------------------------------------------------------------------------
(* Plain literals.                                                         *)

LEMMA ConcatIsText ==
  ASSUME NEW s \in Seq(Nat) \cup {NULL}, NEW t \in Seq(Nat) \cup {NULL}
  PROVE  IsText(Concat(s, t)) <=> IsText(s) \/ IsText(t)
<1>1. NULL \notin Seq(Nat)
  BY MarkupAssumption
<1>2. CASE s \in Seq(Nat) /\ t \in Seq(Nat)
  <2>1. /\ s \o t \in Seq(Nat) /\ Len(s) \in Nat /\ Len(t) \in Nat
        /\ Len(s \o t) = Len(s) + Len(t)
    BY <1>2
  <2>2. \A u \in Seq(Nat) : u = << >> <=> Len(u) = 0
    OBVIOUS
  <2>3. s \o t = << >> <=> s = << >> /\ t = << >>
    BY <1>2, <2>1, <2>2
  <2> QED BY <1>1, <1>2, <2>1, <2>3 DEF IsText, Concat
<1>3. CASE s = NULL \/ t = NULL
  BY <1>3 DEF IsText, Concat
<1> QED BY <1>2, <1>3

LEMMA BetweenRange ==
  ASSUME NEW d, NEW from, NEW to
  PROVE  TextBetween(d, from, to) <=> \E i \in from .. to : d[i].kind = "text"
BY DEF TextBetween

LEMMA CharacterDataRight ==
  ASSUME Inv, Meaning, CharacterData
  PROVE  Meaning'
<1> DEFINE n == Len(stack)
           d == document
           at == Len(d) + 1
           token == Token(at, "text")
           c == WithText(stack[n], at)
<1>1. /\ pc = "content" /\ d \in Seq(Events) /\ StackOf(stack, d)
      /\ StackRight(stack, d) /\ Nested(d) /\ \A s \in sent : SentRight(version, s, d)
  BY DEF Inv, Meaning, CharacterData
<1>2. PICK text \in Texts :
        /\ document' = Append(d, [kind |-> "text", text |-> text])
        /\ stack' = [stack EXCEPT ![n] = c]
  BY DEF CharacterData
<1>3. pc' = "content" /\ sent' = sent /\ version' = version
  BY <1>1 DEF CharacterData
<1> DEFINE e == [kind |-> "text", text |-> text]
<1>4. e \in Events /\ e.kind = "text"
  BY DEF Events
<1>5. Longer(document', d, e)
  BY <1>1, <1>2, <1>4, AppendIsLonger
<1>6. /\ stack \in Seq(ContextType) /\ n \in Nat \ {0} /\ Len(d) \in Nat
      /\ at \in Nat \ {0} /\ Len(document') = at /\ document'[at] = e
      /\ at \in 1 .. Len(document') /\ n \in 1 .. n
  BY <1>1, <1>5 DEF StackOf, Longer
<1>7. stack[n] \in ContextType /\ stack[n].start \in 0 .. Len(d)
  BY <1>1, <1>6, StartRange
<1>8. /\ stack[n].xml_literal \in Seq(TokenType)
      /\ stack[n].plain_literal \in Seq(Nat) \cup {NULL}
      /\ stack[n].start \in Nat
  BY <1>7 DEF ContextType
<1>9. token.at = at /\ token.kind = "text"
  BY DEF Token
<1>10. /\ c.start = stack[n].start /\ c.uris = stack[n].uris
       /\ c.language = stack[n].language
       /\ c.xml_literal_namespaces_defined =
            stack[n].xml_literal_namespaces_defined
       /\ c.xml_literal = Append(stack[n].xml_literal, token)
       /\ c.plain_literal = Concat(stack[n].plain_literal, <<at>>)
  BY <1>7 DEF ContextType, WithText
<1>11. stack' = [i \in 1 .. n |-> IF i = n THEN c ELSE stack[i]]
  <2>1. stack' = [stack EXCEPT ![n] = c]
    BY <1>2
  <2> HIDE DEF c
  <2> QED BY <1>6, <2>1, LastReplaced
<1>12. token \in TokenType
  BY <1>6, TokenTypes
<1> HIDE DEF c, token
<1>13. Current(stack[n], d)
  BY <1>1, TopIsCurrent
<1>14. ContextRight(stack[n], document')
  BY <1>5, <1>7, <1>13, ContextKept DEF Current
<1>15. TokenRight(token, document')
  <2>1. token.kind # "open"
    BY <1>9
  <2>2. token.at \in 1 .. Len(document') /\ token.kind = document'[token.at].kind
    BY <1>4, <1>6, <1>9
  <2> QED BY <2>1, <2>2 DEF TokenRight
<1>16. TokensRight(c.xml_literal, document')
  <2> DEFINE old == stack[n].xml_literal
  <2>1. /\ Len(c.xml_literal) = Len(old) + 1 /\ Len(old) \in Nat
        /\ c.xml_literal[Len(old) + 1] = token
        /\ \A i \in 1 .. Len(old) : c.xml_literal[i] = old[i]
    BY <1>8, <1>10, <1>12
  <2>2. \A i \in 1 .. Len(old) + 1 : i \in 1 .. Len(old) \/ i = Len(old) + 1
    BY <2>1
  <2>3. TokensRight(old, document')
    BY <1>14 DEF ContextRight
  <2>4. \A i \in 1 .. Len(old) : TokenRight(old[i], document')
    BY <2>3 DEF TokensRight
  <2> HIDE DEF old
  <2>5. \A i \in 1 .. Len(c.xml_literal) : TokenRight(c.xml_literal[i], document')
    BY <1>15, <2>1, <2>2, <2>4
  <2> QED BY <2>5 DEF TokensRight
<1>17. ContextRight(c, document')
  BY <1>10, <1>14, <1>16 DEF ContextRight
<1>18. TextRight(c, document', Len(document') + 1)
  <2>1. <<at>> \in Seq(Nat) /\ <<at>> # << >>
    BY <1>6
  <2>2. NULL \notin Seq(Nat)
    BY MarkupAssumption
  <2>3. IsText(<<at>>)
    BY <2>1, <2>2 DEF IsText
  <2>4. IsText(c.plain_literal)
    <3>1. IsText(Concat(stack[n].plain_literal, <<at>>))
      <4> HIDE DEF at, n
      <4> QED BY <1>8, <2>1, <2>3, ConcatIsText
    <3> QED BY <1>10, <3>1
  <2>5. at \in c.start + 1 .. Len(document') + 1 - 1
    <3>1. c.start \in 0 .. at - 1
      BY <1>6, <1>7, <1>10
    <3> HIDE DEF at
    <3> QED BY <1>6, <3>1
  <2>6. TextBetween(document', c.start + 1, Len(document') + 1 - 1)
    <3>1. document'[at].kind = "text"
      BY <1>4, <1>6
    <3> QED BY <2>5, <3>1 DEF TextBetween
  <2> QED BY <2>4, <2>6 DEF TextRight
<1>19. OpenOf(document', Len(document')) = OpenOf(document', c.start)
  <2>1. OpenOf(document', at) = OpenOf(d, Len(d))
    BY <1>4, <1>5, OpenSteps
  <2>2. OpenOf(document', stack[n].start) = OpenOf(d, stack[n].start)
    BY <1>5, <1>7, OpenKept
  <2> QED BY <1>6, <1>10, <1>13, <2>1, <2>2 DEF Current
<1>20. StackRight(stack', document')
  <2>1. n <= Len(stack)
    BY <1>6
  <2> HIDE DEF n, d, e
  <2>2. StackRight([i \in 1 .. n |-> IF i = n THEN c ELSE stack[i]], document')
    BY <1>1, <1>5, <1>6, <1>10, <1>17, <1>18, <1>19, <2>1, ReplacedRight
  <2> QED BY <1>11, <2>2
<1>21. Nested(document')
  BY <1>1, <1>4, <1>5, NestedKept
<1>22. \A s \in sent' : SentRight(version', s, document')
  BY <1>1, <1>3, <1>5, SentStaysRight
<1>23. CrashesAreKnown'
  BY <1>3 DEF CrashesAreKnown
<1> QED BY <1>20, <1>21, <1>22, <1>23 DEF Meaning

LEMMA StartElementRight ==
  ASSUME Inv, Meaning, StartElement
  PROVE  Meaning'
<1> DEFINE n == Len(stack)
           d == document
           at == Len(d) + 1
<1>1. /\ pc = "content" /\ d \in Seq(Events) /\ StackOf(stack, d)
      /\ StackRight(stack, d) /\ Nested(d)
      /\ \A s \in sent : SentRight(version, s, d)
  BY DEF Inv, Meaning, StartElement
<1>2. PICK tag \in Tags :
        /\ document' = Append(d, [kind |-> "open", tag |-> tag])
        /\ \/ ReadsNullPrefix(Top, tag) /\ pc' = "crashed"
           \/ /\ pc' = pc
              /\ stack' = Append(stack, ElementContext(stack[n], tag, at))
  BY DEF StartElement, Top
<1>3. sent' = sent /\ version' = version
  BY DEF StartElement
<1> DEFINE e == [kind |-> "open", tag |-> tag]
<1>4. e \in Events /\ e.kind = "open"
  BY DEF Events
<1>5. Longer(document', d, e)
  BY <1>1, <1>2, <1>4, AppendIsLonger
<1>6. Nested(document')
  BY <1>1, <1>4, <1>5, NestedKept
<1>7. \A s \in sent' : SentRight(version', s, document')
  BY <1>1, <1>3, <1>5, SentStaysRight
<1>8. CASE /\ pc' = pc
           /\ stack' = Append(stack, ElementContext(stack[n], tag, at))
  <2>1. StackRight(stack', document')
    BY <1>1, <1>5, <1>8, PushRight
  <2>2. CrashesAreKnown'
    BY <1>1, <1>8 DEF CrashesAreKnown
  <2> QED BY <1>6, <1>7, <2>1, <2>2 DEF Meaning
<1>9. CASE ReadsNullPrefix(Top, tag) /\ pc' = "crashed"
  <2> DEFINE c == stack[n]
  <2>1. Current(c, d)
    BY <1>1, TopIsCurrent
  <2>2. /\ ~c.xml_literal_namespaces_defined
        /\ \E p \in Written(c, tag) : c.uris[p] = NULL
    BY <1>9 DEF ReadsNullPrefix, Top
  <2>3. PICK p \in Prefixes : c.uris[p] = NULL /\ NULL # Unmapped
    BY <2>2 DEF Written
  <2>4. c.start \in 0 .. Len(d) /\ ContextRight(c, document')
    BY <1>5, <2>1, ContextKept DEF Current
  <2>5. ScopeOf(document', OpenOf(document', c.start), p) = NULL
    BY <2>3, <2>4 DEF ContextRight
  <2>6. c.start # 0
    <3> SUFFICES ASSUME c.start = 0 PROVE FALSE
      OBVIOUS
    <3>1. OpenOf(document', c.start) = {}
      BY OpenRange
    <3>2. Initial[p] = NULL
      BY <2>5, <3>1 DEF ScopeOf
    <3> QED BY <2>3, <3>2, MarkupAssumption
  <2>7. /\ document'[c.start].tag.property # "none"
        /\ document'[c.start].kind = "open" /\ c.start \in Nat \ {0}
    <3>1. document'[c.start].tag.property # "none"
      BY <2>2, <2>4, <2>6 DEF ContextRight
    <3>2. c.start \in 1 .. Len(d)
      BY <1>1, <2>4, <2>6
    <3> QED BY <1>5, <2>1, <2>6, <3>1, <3>2 DEF Longer, Current
  <2>8. OpenOf(document', at) \ {at} = OpenOf(document', c.start)
    BY <1>5, <2>1, ElementContextRight
  <2>9. Latest(OpenOf(document', at) \ {at}) = c.start
    BY <2>7, <2>8, OwnTagIsOpen
  <2>10. Len(document') = at /\ document'[at].kind = "open"
    BY <1>4, <1>5 DEF Longer
  <2> HIDE DEF c, at, d
  <2>11. CrashesAreKnown'
    <3>1. Latest(Open(Len(document)) \ {Len(document)})' = c.start
      BY <2>9, <2>10 DEF Open, OpenOf, Latest
    <3>2. \A i : InScope(i, p)' = ScopeOf(document', OpenOf(document', i), p)
      BY DEF InScope, Open, ScopeOf, OpenOf, Latest
    <3> QED BY <2>5, <2>7, <2>10, <3>1, <3>2 DEF CrashesAreKnown
  <2> QED BY <1>6, <1>7, <1>9, <2>11 DEF Meaning
<1> QED BY <1>2, <1>8, <1>9

-----------------------------------------------------------------------------
(* end_element.                                                            *)

LEMMA EmptyTail ==
  ASSUME NEW S, NEW s \in Seq(S), Len(s) \in Nat \ {0}, Tail(s) = << >>
  PROVE  Len(s) = 1
<1>1. Len(Tail(s)) = Len(s) - 1 /\ Len(s) \in Nat
  OBVIOUS
<1>2. Len(<< >>) = 0
  OBVIOUS
<1> QED BY <1>1, <1>2

\* What the handler reads of its element's literals is what is inside it.
LEMMA LiteralsOfTop ==
  ASSUME NEW c \in ContextType, NEW behind \in Nat \ {0}, c.start > 0,
         IsPiece(c, behind), TokensRight(c.xml_literal, document),
         TextRight(c, document, behind), Len(c.xml_literal) > 0
  PROVE  /\ IsText(PlainLiteral(c)) <=>
              TextBetween(document, c.start + 1, behind - 1)
         /\ HasMarkup(c) <=>
              \/ c.tag.torn = "markup"
              \/ MarkupBetween(document, c.start + 1, behind - 1)
<1> DEFINE l == c.xml_literal
           last == behind - 1
<1>1. /\ l \in Seq(TokenType) /\ Len(l) \in Nat \ {0} /\ c.start \in Nat \ {0}
      /\ c.start + Len(l) = behind
      /\ \A i \in 1 .. Len(l) : l[i].at = c.start + i - 1
  <2>1. l \in Seq(TokenType) /\ c.start \in Nat
    BY DEF ContextType
  <2>2. First(c) = c.start
    BY DEF First
  <2>3. Consecutive(l, c.start) /\ c.start + Len(l) = behind
    BY <2>2 DEF IsPiece
  <2>4. \A i \in 1 .. Len(l) : l[i].at = c.start + i - 1
    BY <2>3 DEF Consecutive
  <2>5. Len(l) \in Nat \ {0} /\ c.start \in Nat \ {0}
    BY <2>1
  <2> QED BY <2>1, <2>3, <2>4, <2>5
<1>2. IsText(c.plain_literal) <=> TextBetween(document, c.start + 1, last)
  BY DEF TextRight
<1>3. ASSUME Content(c) = << >>
      PROVE  ~TextBetween(document, c.start + 1, last)
  <2>1. c.tag.torn = "empty"
    BY <1>1, <1>3 DEF Content
  <2>2. Tail(l) = << >>
    BY <1>3, <2>1 DEF Content
  <2>3. Len(l) = 1
    BY <1>1, <2>2, EmptyTail
  <2>4. last = c.start
    BY <1>1, <2>3
  <2>5. ~ \E i \in c.start + 1 .. c.start : TRUE
    BY <1>1
  <2> QED BY <2>4, <2>5 DEF TextBetween
<1>4. IsText(PlainLiteral(c)) <=> TextBetween(document, c.start + 1, last)
  <2>1. ~IsText(<< >>)
    BY DEF IsText
  <2> QED BY <1>2, <1>3, <2>1 DEF PlainLiteral
<1>5. \A i \in 2 .. Len(l) : /\ l[i].at \in c.start + 1 .. last
                             /\ l[i].kind = document[l[i].at].kind
  <2>1. TAKE i \in 2 .. Len(l)
  <2>2. i \in 1 .. Len(l) /\ i \in Nat /\ i >= 2 /\ i <= Len(l)
    BY <1>1, <2>1
  <2>3. l[i].at = c.start + i - 1 /\ l[i].kind = document[l[i].at].kind
    BY <1>1, <2>2 DEF TokensRight, TokenRight
  <2>4. c.start + i - 1 \in c.start + 1 .. behind - 1
    BY <1>1, <2>2
  <2> QED BY <2>3, <2>4
<1>6. ASSUME NEW at \in c.start + 1 .. last
      PROVE  \E i \in 2 .. Len(l) : l[i].at = at
  <2>1. at \in Nat /\ at >= c.start + 1 /\ at <= behind - 1
    BY <1>1
  <2>2. at - c.start + 1 \in 2 .. Len(l) /\ at - c.start + 1 \in 1 .. Len(l)
    BY <1>1, <2>1
  <2>3. l[at - c.start + 1].at = c.start + (at - c.start + 1) - 1
    BY <1>1, <2>2
  <2>4. c.start + (at - c.start + 1) - 1 = at
    BY <1>1, <2>1
  <2> QED BY <2>2, <2>3, <2>4
<1> HIDE DEF last
<1>7. HasMarkup(c) <=> \/ c.tag.torn = "markup"
                       \/ MarkupBetween(document, c.start + 1, last)
  <2>1. ASSUME NEW i \in 2 .. Len(l),
               \/ l[i].kind = "open"
               \/ l[i].kind = "text" /\ document[l[i].at].text \in MarkupTexts
        PROVE  MarkupBetween(document, c.start + 1, last)
    BY <1>5, <2>1 DEF MarkupBetween
  <2>2. ASSUME NEW at \in c.start + 1 .. last,
               \/ document[at].kind = "open"
               \/ document[at].kind = "text" /\ document[at].text \in MarkupTexts
        PROVE  HasMarkup(c)
    <3>1. PICK i \in 2 .. Len(l) : l[i].at = at
      BY <1>6
    <3>2. l[i].kind = document[at].kind
      BY <1>5, <3>1
    <3> QED BY <2>2, <3>1, <3>2 DEF HasMarkup
  <2> QED BY <2>1, <2>2 DEF HasMarkup, MarkupBetween
<1> QED BY <1>4, <1>7 DEF last

\* A property's value.
LEMMA SentIsRight ==
  ASSUME NEW c \in ContextType, NEW longer, NEW e, Longer(longer, document, e),
         c.start \in 1 .. Len(document), document[c.start].kind = "open",
         document[c.start].tag = c.tag,
         IsPiece(c, Len(document) + 1), Len(c.xml_literal) > 0,
         TokensRight(c.xml_literal, document),
         TextRight(c, document, Len(document) + 1),
         OpenOf(document, Len(document)) = OpenOf(document, c.start),
         version \in Versions, ~ReadsNullLiteral(c),
         NEW s \in Sent(c, Len(document) + 1)
  PROVE  SentRight(version, s, longer)
<1> DEFINE d == document
           at == Len(d) + 1
<1>1. /\ c.tag.property # "none"
      /\ IF IsXmlLiteral(c)
         THEN s = [start |-> c.start, end |-> at, kind |-> "xml",
                   value |-> Content(c)]
         ELSE s = [start |-> c.start, end |-> at, kind |-> "plain",
                   value |-> PlainLiteral(c)]
  BY DEF Sent
<1>2. /\ s.start = c.start /\ s.end = at
      /\ s.kind = "xml" <=> IsXmlLiteral(c)
      /\ s.kind = "xml" => s.value = Content(c)
  BY <1>1
<1>3. /\ Len(d) \in Nat /\ at \in Nat \ {0} /\ Len(longer) = at /\ at - 1 = Len(d)
      /\ c.start \in Nat \ {0} /\ c.start > 0 /\ longer[c.start] = d[c.start]
      /\ c.start \in 1 .. at /\ at \in 1 .. at /\ Len(d) \in 0 .. Len(d)
      /\ c.start + 1 \in Nat \ {0} /\ at - 1 \in Int /\ at - 1 <= Len(d)
  BY DEF Longer
<1>4. s.start \in OpenOf(longer, s.end - 1)
  <2>1. OpenOf(longer, Len(d)) = OpenOf(d, Len(d))
    BY <1>3, OpenKept
  <2>2. c.start \in OpenOf(d, c.start)
    BY <1>3, OwnTagIsOpen
  <2> QED BY <1>2, <1>3, <2>1, <2>2
<1>5. s.kind = "xml" => TokensRight(s.value, longer)
  <2>1. TokensRight(c.xml_literal, longer)
    BY TokensKept
  <2>2. TokensRight(Tail(c.xml_literal), longer)
    <3> DEFINE l == c.xml_literal
    <3>1. l \in Seq(TokenType) /\ Len(l) > 0
      BY DEF ContextType
    <3>2. /\ Len(Tail(l)) = Len(l) - 1 /\ Len(l) \in Nat
          /\ \A i \in 1 .. Len(l) - 1 : Tail(l)[i] = l[i + 1]
      BY <3>1
    <3>3. \A i \in 1 .. Len(l) - 1 : i + 1 \in 1 .. Len(l)
      BY <3>2
    <3> HIDE DEF l
    <3>4. TokensRight(Tail(l), longer)
      <4>1. \A i \in 1 .. Len(l) : TokenRight(l[i], longer)
        BY <2>1 DEF TokensRight, l
      <4> QED BY <3>2, <3>3, <4>1 DEF TokensRight
    <3> QED BY <3>4 DEF l
  <2> QED BY <1>2, <2>1, <2>2 DEF Content
<1>6. /\ IsText(PlainLiteral(c)) <=> TextBetween(longer, c.start + 1, at - 1)
      /\ HasMarkup(c) <=> \/ c.tag.torn = "markup"
                          \/ MarkupBetween(longer, c.start + 1, at - 1)
  <2>1. /\ IsText(PlainLiteral(c)) <=> TextBetween(d, c.start + 1, at - 1)
        /\ HasMarkup(c) <=> \/ c.tag.torn = "markup"
                            \/ MarkupBetween(d, c.start + 1, at - 1)
    BY <1>3, LiteralsOfTop
  <2>2. /\ TextBetween(longer, c.start + 1, at - 1) <=>
             TextBetween(d, c.start + 1, at - 1)
        /\ MarkupBetween(longer, c.start + 1, at - 1) <=>
             MarkupBetween(d, c.start + 1, at - 1)
    <3> HIDE DEF d, at
    <3> QED BY <1>3, BetweenKept DEF d
  <2> QED BY <2>1, <2>2
<1>7. version = "1.1" \/ version = "1.0"
  BY MarkupAssumption
<1>8. KindRight(version, s, longer)
  <2>1. CASE version = "1.1"
    <3>1. IsXmlLiteral(c) <=> c.tag.property = "XMLLiteral"
      BY <2>1 DEF IsXmlLiteral
    <3> QED BY <1>2, <1>3, <2>1, <3>1 DEF KindRight
  <2>2. CASE version = "1.0"
    <3>1. IsXmlLiteral(c) <=> HasMarkup(c) /\ PlainLiteral(c) # << >>
      BY <2>2 DEF IsXmlLiteral
    <3>2. ~(HasMarkup(c) /\ PlainLiteral(c) = NULL)
      BY <1>1, <2>2 DEF ReadsNullLiteral
    <3>3. IsXmlLiteral(c) <=> HasMarkup(c) /\ IsText(PlainLiteral(c))
      BY <3>1, <3>2 DEF IsText
    <3> QED BY <1>2, <1>3, <1>6, <2>2, <3>3 DEF KindRight
  <2> QED BY <1>7, <2>1, <2>2
<1>9. /\ {s.start, s.end} \subseteq 1 .. Len(longer)
      /\ longer[s.start].tag.property # "none"
  BY <1>1, <1>2, <1>3
<1> QED BY <1>4, <1>5, <1>8, <1>9 DEF SentRight

\* An element of two sequences joined is one of the first or of the second.
LEMMA BothParts ==
  ASSUME NEW V, NEW s \in Seq(V), NEW t \in Seq(V)
  PROVE  /\ Len(s \o t) = Len(s) + Len(t)
         /\ \A i \in 1 .. Len(s \o t) :
              \/ i \in 1 .. Len(s) /\ (s \o t)[i] = s[i]
              \/ i - Len(s) \in 1 .. Len(t) /\ (s \o t)[i] = t[i - Len(s)]
OBVIOUS

\* A parent has what is inside its child, too.
LEMMA ToParentRight ==
  ASSUME NEW parent \in ContextType, NEW c \in ContextType,
         NEW longer, NEW e, Longer(longer, document, e), e.kind = "close",
         IsPiece(parent, c.start), IsPiece(c, Len(document) + 1),
         c.start \in 1 .. Len(document), document[c.start].kind = "open",
         ContextRight(parent, longer), TokensRight(c.xml_literal, longer),
         TextRight(parent, longer, c.start),
         IsText(PlainLiteral(c)) <=>
           TextBetween(longer, c.start + 1, Len(document) + 1 - 1)
  PROVE  LET new == ToParent(parent, c, Len(document) + 1)
         IN  /\ new.start = parent.start /\ ContextRight(new, longer)
             /\ TextRight(new, longer, Len(longer) + 1)
<1> DEFINE d == document
           at == Len(d) + 1
           token == Token(at, "close")
           ended == Append(c.xml_literal, token)
           new == ToParent(parent, c, at)
<1>1. /\ Len(d) \in Nat /\ at \in Nat \ {0} /\ Len(longer) = at
      /\ longer[at] = e /\ at - 1 = Len(d) /\ at \in 1 .. Len(longer)
      /\ longer[c.start] = d[c.start] /\ c.start \in Nat \ {0} /\ c.start < at
  BY DEF Longer
<1>2. /\ new.start = parent.start /\ new.uris = parent.uris
      /\ new.language = parent.language
      /\ new.xml_literal_namespaces_defined =
           parent.xml_literal_namespaces_defined
      /\ new.xml_literal = parent.xml_literal \o ended
      /\ new.plain_literal = Concat(parent.plain_literal, PlainLiteral(c))
  BY DEF ContextType, ToParent
<1>3. /\ parent.xml_literal \in Seq(TokenType) /\ parent.start \in Nat
      /\ c.xml_literal \in Seq(TokenType)
      /\ parent.plain_literal \in Seq(Nat) \cup {NULL}
      /\ c.plain_literal \in Seq(Nat) \cup {NULL}
  BY DEF ContextType
<1>4. token \in TokenType /\ token.at = at /\ token.kind = "close"
  BY <1>1, TokenTypes DEF Token
<1> HIDE DEF token, new
<1>5. TokenRight(token, longer)
  <2>1. token.kind # "open"
    BY <1>4
  <2>2. token.at \in 1 .. Len(longer) /\ token.kind = longer[token.at].kind
    BY <1>1, <1>4
  <2> QED BY <2>1, <2>2 DEF TokenRight
<1>6. TokensRight(new.xml_literal, longer)
  <2> DEFINE k == c.xml_literal
             l == parent.xml_literal
  <2>1. /\ k \in Seq(TokenType) /\ l \in Seq(TokenType)
        /\ Len(k) \in Nat /\ Len(l) \in Nat
    BY <1>3
  <2>2. /\ \A i \in 1 .. Len(k) : TokenRight(k[i], longer)
        /\ \A i \in 1 .. Len(l) : TokenRight(l[i], longer)
    BY DEF TokensRight, ContextRight
  <2>3. new.xml_literal = l \o Append(k, token)
    BY <1>2
  <2> HIDE DEF k, l
  <2>4. /\ Append(k, token) \in Seq(TokenType) /\ Len(Append(k, token)) = Len(k) + 1
        /\ Append(k, token)[Len(k) + 1] = token
        /\ \A i \in 1 .. Len(k) : Append(k, token)[i] = k[i]
    BY <1>4, <2>1
  <2>5. \A i \in 1 .. Len(k) + 1 : i \in 1 .. Len(k) \/ i = Len(k) + 1
    BY <2>1
  <2>6. \A i \in 1 .. Len(k) + 1 : TokenRight(Append(k, token)[i], longer)
    BY <1>5, <2>2, <2>4, <2>5
  <2> DEFINE both == l \o Append(k, token)
  <2>7. /\ Len(both) = Len(l) + (Len(k) + 1)
        /\ \A i \in 1 .. Len(both) :
             \/ i \in 1 .. Len(l) /\ both[i] = l[i]
             \/ /\ i - Len(l) \in 1 .. Len(k) + 1
                /\ both[i] = Append(k, token)[i - Len(l)]
    BY ONLY <2>1, <2>4, BothParts
  <2> HIDE DEF both
  <2>8. \A i \in 1 .. Len(both) : TokenRight(both[i], longer)
    BY <2>2, <2>6, <2>7
  <2> QED BY <2>3, <2>8 DEF TokensRight, both
<1>7. ContextRight(new, longer)
  BY <1>2, <1>6 DEF ContextRight
<1>8. PlainLiteral(c) \in Seq(Nat) \cup {NULL}
  <2>1. << >> \in Seq(Nat)
    OBVIOUS
  <2> QED BY <1>3, <2>1 DEF PlainLiteral
<1>9. IsText(new.plain_literal) <=>
        IsText(parent.plain_literal) \/ IsText(PlainLiteral(c))
  <2> DEFINE s == parent.plain_literal
             t == PlainLiteral(c)
  <2>1. s \in Seq(Nat) \cup {NULL} /\ t \in Seq(Nat) \cup {NULL}
    BY <1>3, <1>8
  <2>2. new.plain_literal = Concat(s, t)
    BY <1>2
  <2> HIDE DEF s, t
  <2>3. IsText(new.plain_literal) <=> IsText(s) \/ IsText(t)
    BY <2>1, <2>2, ConcatIsText
  <2> QED BY <2>3 DEF s, t
<1>10. parent.start <= c.start
  <2>1. First(parent) + Len(parent.xml_literal) = c.start
    BY DEF IsPiece
  <2>2. First(parent) \in Nat /\ parent.start <= First(parent)
    BY <1>3 DEF First
  <2>3. Len(parent.xml_literal) \in Nat
    BY <1>3
  <2> QED BY <1>1, <1>3, <2>1, <2>2, <2>3
<1>11. TextBetween(longer, parent.start + 1, at) <=>
         \/ TextBetween(longer, parent.start + 1, c.start - 1)
         \/ TextBetween(longer, c.start + 1, at - 1)
  <2>1. longer[c.start].kind # "text" /\ longer[at].kind # "text"
    BY <1>1
  <2>4. at \in Nat /\ c.start \in Nat /\ parent.start \in Nat /\ c.start < at
    BY <1>1, <1>3
  <2> HIDE DEF at
  <2>2. \A i \in parent.start + 1 .. at :
          \/ i \in parent.start + 1 .. c.start - 1
          \/ i = c.start \/ i \in c.start + 1 .. at - 1 \/ i = at
    BY <2>4
  <2>3. /\ \A i \in parent.start + 1 .. c.start - 1 : i \in parent.start + 1 .. at
        /\ \A i \in c.start + 1 .. at - 1 : i \in parent.start + 1 .. at
    BY <1>10, <2>4
  <2> QED BY <2>1, <2>2, <2>3 DEF TextBetween
<1>12. TextRight(new, longer, Len(longer) + 1)
  <2>1. IsText(parent.plain_literal) <=>
          TextBetween(longer, parent.start + 1, c.start - 1)
    BY DEF TextRight
  <2>2. IsText(PlainLiteral(c)) <=> TextBetween(longer, c.start + 1, at - 1)
    OBVIOUS
  <2>3. Len(longer) + 1 - 1 = at
    BY <1>1
  <2> HIDE DEF at
  <2> QED BY <1>2, <1>9, <1>11, <2>1, <2>2, <2>3 DEF TextRight
<1> QED BY <1>2, <1>7, <1>12 DEF new

LEMMA EndElementRight ==
  ASSUME Inv, Meaning, EndElement
  PROVE  Meaning'
<1> DEFINE n == Len(stack)
           d == document
           at == Len(d) + 1
           c == stack[n]
           e == [kind |-> "close", of |-> c.start]
<1>1. /\ pc = "content" /\ d \in Seq(Events) /\ StackOf(stack, d)
      /\ PiecesOf(stack, d) /\ StackRight(stack, d) /\ Nested(d)
      /\ \A s \in sent : SentRight(version, s, d)
      /\ version \in Versions
  BY DEF Inv, Meaning, EndElement
<1>2. /\ n > 1 /\ version' = version /\ document' = Append(d, e)
      /\ \/ ReadsNullLiteral(c) /\ pc' = "crashed" /\ sent' = sent
         \/ /\ ~ReadsNullLiteral(c) /\ pc' = pc
            /\ sent' = sent \cup Sent(c, at)
            /\ stack' = [i \in 1 .. n - 1 |->
                           IF i = n - 1 THEN ToParent(stack[i], c, at)
                           ELSE stack[i]]
  BY DEF EndElement, Top
<1>3. /\ stack \in Seq(ContextType) /\ n \in Nat /\ n - 1 \in Nat \ {0}
      /\ n \in 1 .. n /\ n - 1 \in 1 .. n /\ n \in 2 .. n
      /\ Len(d) \in Nat /\ at \in Nat \ {0}
  BY <1>1, <1>2 DEF StackOf
<1>4. /\ c \in ContextType /\ c.start \in 1 .. Len(d)
      /\ d[c.start] = [kind |-> "open", tag |-> c.tag]
      /\ Len(c.xml_literal) > 0
  BY <1>1, <1>3 DEF StackOf
<1>5. e \in Events /\ e.kind = "close" /\ e.of = c.start
  BY <1>4 DEF Events
<1>6. Longer(document', d, e)
  BY <1>1, <1>2, <1>5, AppendIsLonger
<1>7. Current(c, d)
  BY <1>1, TopIsCurrent
<1>8. c.start > 0 /\ c.start \in Nat \ {0} /\ d[c.start].kind = "open"
      /\ d[c.start].tag = c.tag
  BY <1>4
<1>9. /\ IsPiece(c, at) /\ TextRight(c, d, at)
      /\ IsPiece(stack[n - 1], c.start) /\ TextRight(stack[n - 1], d, c.start)
  <2>1. BehindOf(stack, d, n) = at
    BY <1>3 DEF BehindOf
  <2>2. BehindOf(stack, d, n - 1) = c.start
    BY <1>3 DEF BehindOf
  <2> HIDE DEF at, d, c
  <2> QED BY <1>1, <1>3, <2>1, <2>2 DEF PiecesOf, StackRight, c
<1>10. c.start \in OpenOf(d, c.start) /\ Latest(OpenOf(d, c.start)) = c.start
       /\ OpenOf(d, Len(d)) = OpenOf(d, c.start)
  BY <1>7, <1>8, OwnTagIsOpen DEF Current
<1>11. Nested(document')
  <2>1. \A b \in OpenOf(d, c.start) : b <= c.start
    BY <1>8, OpenRange
  <2> QED BY <1>1, <1>5, <1>6, <1>10, <2>1, NestedKept
<1>12. \A s \in sent : SentRight(version, s, document')
  BY <1>1, <1>6, SentStaysRight
<1>13. TokensRight(c.xml_literal, d)
  BY <1>7 DEF Current, ContextRight
<1>14. /\ IsText(PlainLiteral(c)) <=> TextBetween(d, c.start + 1, at - 1)
       /\ HasMarkup(c) <=> \/ c.tag.torn = "markup"
                           \/ MarkupBetween(d, c.start + 1, at - 1)
  <2> HIDE DEF c, at
  <2> QED BY <1>3, <1>4, <1>8, <1>9, <1>13, LiteralsOfTop
<1>15. CASE ReadsNullLiteral(c) /\ pc' = "crashed" /\ sent' = sent
  <2>1. /\ version = "1.0" /\ c.tag.property # "none" /\ HasMarkup(c)
        /\ PlainLiteral(c) = NULL
    BY <1>15 DEF ReadsNullLiteral
  <2>2. ~TextBetween(d, c.start + 1, at - 1)
    BY <1>14, <2>1 DEF IsText
  <2>3. \/ d[c.start].tag.torn = "markup"
        \/ \E i \in c.start + 1 .. at - 1 : d[i].kind = "open"
    BY <1>8, <1>14, <2>1, <2>2 DEF MarkupBetween, TextBetween
  <2>4. \A i \in c.start + 1 .. at - 1 : document'[i] = d[i]
    <3>1. \A i \in c.start + 1 .. at - 1 : i \in 1 .. Len(d)
      BY <1>3, <1>8
    <3> QED BY <1>6, <3>1 DEF Longer
  <2>5. Len(document') = at /\ document'[at] = e /\ document'[c.start] = d[c.start]
    BY <1>4, <1>6 DEF Longer
  <2> HIDE DEF c, at, d, e
  <2>6. CrashesAreKnown'
    <3> DEFINE inside == {document'[i] : i \in c.start + 1 .. at - 1}
    <3>1. document'[at].kind = "close" /\ document'[at].of = c.start
      BY <1>5, <2>5
    <3>2. /\ \/ document'[c.start].tag.torn = "markup"
             \/ \E i \in inside : i.kind = "open"
          /\ \A i \in inside : i.kind # "text"
      BY <2>2, <2>3, <2>4, <2>5 DEF TextBetween
    <3>3. version' = "1.0"
      BY <1>2, <2>1
    <3> QED BY <2>5, <3>1, <3>2, <3>3 DEF CrashesAreKnown
  <2> QED BY <1>2, <1>11, <1>12, <1>15, <2>6 DEF Meaning
<1>16. CASE /\ ~ReadsNullLiteral(c) /\ pc' = pc
            /\ sent' = sent \cup Sent(c, at)
            /\ stack' = [i \in 1 .. n - 1 |->
                           IF i = n - 1 THEN ToParent(stack[i], c, at)
                           ELSE stack[i]]
  <2> DEFINE m == n - 1
             new == ToParent(stack[m], c, at)
  <2>1. \A s \in Sent(c, at) : SentRight(version, s, document')
    <3> HIDE DEF c
    <3> QED BY <1>1, <1>4, <1>6, <1>8, <1>9, <1>10, <1>13, <1>16, SentIsRight
  <2>2. stack[m] \in ContextType /\ stack[m].start \in 0 .. Len(d)
    BY <1>1, <1>3, StartRange
  <2>3. ContextRight(stack[m], document')
    BY <1>1, <1>3, <1>6, <2>2, ContextKept DEF StackRight
  <2>4. TextRight(stack[m], document', c.start)
    <3>1. c.start \in 1 .. Len(d) + 1
      BY <1>3, <1>4
    <3> QED BY <1>6, <1>9, <2>2, <3>1, TextKept
  <2>5. TokensRight(c.xml_literal, document')
    BY <1>6, <1>13, TokensKept
  <2>6. IsText(PlainLiteral(c)) <=> TextBetween(document', c.start + 1, at - 1)
    <3>1. /\ c.start + 1 \in Nat \ {0} /\ at - 1 \in Int /\ at - 1 <= Len(d)
      BY <1>3, <1>8
    <3>2. TextBetween(document', c.start + 1, at - 1) <=>
            TextBetween(d, c.start + 1, at - 1)
      <4> HIDE DEF d, at, c
      <4> QED BY <1>6, <3>1, BetweenKept
    <3> QED BY <1>14, <3>2
  <2>7. /\ new.start = stack[m].start /\ ContextRight(new, document')
        /\ TextRight(new, document', Len(document') + 1)
    <3> HIDE DEF c, m, e
    <3> QED BY <1>4, <1>5, <1>6, <1>8, <1>9, <2>2, <2>3, <2>4, <2>5, <2>6,
               ToParentRight DEF m
  <2>8. OpenOf(document', Len(document')) = OpenOf(document', new.start)
    <3>1. OpenOf(document', at) = OpenOf(d, Len(d)) \ {c.start}
      BY <1>5, <1>6, OpenSteps
    <3>2. OpenOf(d, c.start) \ {c.start} = OpenOf(d, stack[m].start)
      BY <1>1, <1>3 DEF StackRight, ChainOf
    <3>3. OpenOf(document', stack[m].start) = OpenOf(d, stack[m].start)
      BY <1>6, <2>2, OpenKept
    <3>4. Len(document') = at
      BY <1>6 DEF Longer
    <3> HIDE DEF new, at, d, c, m
    <3> QED BY <1>10, <2>7, <3>1, <3>2, <3>3, <3>4
  <2>9. m \in Nat \ {0} /\ m <= Len(stack)
    BY <1>3
  <2>10. stack' = [i \in 1 .. m |-> IF i = m THEN new ELSE stack[i]]
    BY <1>16
  <2> HIDE DEF m, new, c, at, e
  <2>11. StackRight([i \in 1 .. m |-> IF i = m THEN new ELSE stack[i]], document')
    BY <1>1, <1>6, <2>7, <2>8, <2>9, ReplacedRight
  <2>12. StackRight(stack', document')
    BY <2>10, <2>11
  <2>13. \A s \in sent' : SentRight(version', s, document')
    BY <1>2, <1>12, <1>16, <2>1
  <2>14. CrashesAreKnown'
    BY <1>1, <1>16 DEF CrashesAreKnown
  <2> QED BY <1>11, <2>12, <2>13, <2>14 DEF Meaning
<1> QED BY <1>2, <1>15, <1>16

-----------------------------------------------------------------------------
LEMMA InitIsRight == Init => Meaning
<1> SUFFICES ASSUME Init PROVE Meaning
  OBVIOUS
<1>1. /\ document = << >> /\ stack = <<Root>> /\ sent = {} /\ pc = "content"
  BY DEF Init
<1>2. Len(document) = 0 /\ Len(stack) = 1 /\ stack[1] = Root
  BY <1>1
<1>3. Root.start = 0 /\ OpenOf(document, 0) = {}
  BY OpenRange DEF Root
<1>4. ChainOf(stack, document)
  BY <1>2, <1>3 DEF ChainOf
<1>5. ContextRight(Root, document)
  <2>1. \A p \in Prefixes : Root.uris[p] = ScopeOf(document, {}, p)
    BY DEF Root, ScopeOf
  <2>2. Root.language = LanguageOf(document, {})
    BY DEF Root, LanguageOf
  <2>3. TokensRight(Root.xml_literal, document)
    BY DEF Root, TokensRight
  <2>4. Root.xml_literal_namespaces_defined = FALSE
    BY DEF Root
  <2> QED BY <1>3, <2>1, <2>2, <2>3, <2>4 DEF ContextRight
<1>6. TextRight(Root, document, BehindOf(stack, document, 1))
  <2>1. BehindOf(stack, document, 1) = 1
    BY <1>2 DEF BehindOf
  <2>2. ~TextBetween(document, 0 + 1, 1 - 1)
    BY DEF TextBetween
  <2>3. ~IsText(Root.plain_literal)
    BY DEF Root, IsText
  <2> QED BY <1>3, <2>1, <2>2, <2>3 DEF TextRight
<1>7. StackRight(stack, document)
  BY <1>2, <1>4, <1>5, <1>6 DEF StackRight
<1>8. Nested(document)
  BY <1>2 DEF Nested
<1>9. CrashesAreKnown
  BY <1>1 DEF CrashesAreKnown
<1> QED BY <1>1, <1>7, <1>8, <1>9 DEF Meaning

LEMMA MeaningHolds == Spec => []Meaning
<1>1. Inv /\ Meaning /\ [Next]_vars => Meaning'
  <2> SUFFICES ASSUME Inv, Meaning, [Next]_vars PROVE Meaning'
    OBVIOUS
  <2>1. CASE UNCHANGED vars
    <3>1. /\ version' = version /\ document' = document /\ stack' = stack
          /\ sent' = sent /\ pc' = pc
      BY <2>1 DEF vars
    <3>2. Open(Len(document))' = Open(Len(document))
          /\ \A i : Open(i)' = Open(i)
      BY <3>1 DEF Open
    <3>3. \A i, p : InScope(i, p)' = InScope(i, p)
      <4>1. \A i, p : InScope(i, p) = ScopeOf(document, Open(i), p)
        BY DEF InScope, ScopeOf
      <4>2. \A i, p : InScope(i, p)' = ScopeOf(document', Open(i)', p)
        BY DEF InScope, ScopeOf, Latest
      <4> QED BY <3>1, <3>2, <4>1, <4>2
    <3>4. Latest(Open(Len(document)) \ {Len(document)})' =
            Latest(Open(Len(document)) \ {Len(document)})
      BY <3>1, <3>2 DEF Latest
    <3>5. CrashesAreKnown'
      BY <3>1, <3>3, <3>4 DEF CrashesAreKnown, Meaning
    <3> QED BY <3>1, <3>5 DEF Meaning
  <2> QED BY <2>1, StartElementRight, CharacterDataRight, EndElementRight
          DEF Next
<1> QED BY <1>1, InitIsRight, InvHolds, PTL DEF Spec

-----------------------------------------------------------------------------
(* What the invariant says of a literal.                                   *)

\* The elements around one that is open have been the same since it began.
LEMMA OpenBelow ==
  ASSUME NEW d, Nested(d), Len(d) \in Nat, NEW at \in 0 .. Len(d),
         NEW a \in OpenOf(d, at), NEW b \in Nat, b <= a
  PROVE  b \in OpenOf(d, at) <=> b \in OpenOf(d, a)
<1>1. a \in 1 .. at /\ a \in Nat \ {0} /\ at \in Nat
      /\ \A e \in a .. at : d[e].kind = "close" => d[e].of # a
  BY DEF OpenOf
<1>2. ASSUME b \in OpenOf(d, at) PROVE b \in OpenOf(d, a)
  <2>1. /\ b \in 1 .. at /\ d[b].kind = "open"
        /\ \A e \in b .. at : d[e].kind = "close" => d[e].of # b
    BY <1>2 DEF OpenOf
  <2>2. b \in 1 .. a /\ \A e \in b .. a : e \in b .. at
    BY <1>1, <2>1
  <2> QED BY <2>1, <2>2 DEF OpenOf
<1>3. ASSUME b \in OpenOf(d, a) PROVE b \in OpenOf(d, at)
  <2>1. /\ b \in 1 .. a /\ d[b].kind = "open"
        /\ \A e \in b .. a : d[e].kind = "close" => d[e].of # b
    BY <1>3 DEF OpenOf
  <2>2. b \in 1 .. at
    BY <1>1, <2>1
  <2>3. ASSUME NEW e \in b .. at, d[e].kind = "close" PROVE d[e].of # b
    <3>1. CASE e <= a
      <4>1. e \in b .. a
        BY <1>1, <2>1, <3>1
      <4> QED BY <2>1, <2>3, <4>1
    <3>2. CASE e > a
      <4>1. /\ e - 1 \in Nat /\ a \in 1 .. e - 1 /\ e \in 1 .. Len(d)
            /\ e \in a .. at /\ \A i \in a .. e - 1 : i \in a .. at
        BY <1>1, <2>1, <3>2
      <4>2. d[a].kind = "open"
        BY DEF OpenOf
      <4>3. a \in OpenOf(d, e - 1)
        BY <1>1, <4>1, <4>2 DEF OpenOf
      <4>4. a <= d[e].of /\ d[e].of \in OpenOf(d, e - 1)
        BY <2>3, <4>1, <4>3 DEF Nested
      <4>5. d[e].of \in Nat
        <5>1. OpenOf(d, e - 1) \in SUBSET (1 .. e - 1)
          BY <4>1, OpenRange
        <5> QED BY <4>4, <5>1
      <4>6. d[e].of # a
        BY <1>1, <2>3, <4>1
      <4> QED BY <1>1, <4>4, <4>5, <4>6
    <3> QED BY <1>1, <2>1, <3>1, <3>2
  <2> QED BY <2>1, <2>2, <2>3 DEF OpenOf
<1> QED BY <1>2, <1>3

\* An event of the literal "s".
LEMMA InsideOf ==
  ASSUME NEW d \in Seq(Events), NEW v, NEW s, SentRight(v, s, d),
         NEW at \in s.start .. s.end - 1
  PROVE  /\ s.start \in Nat \ {0} /\ at \in Nat \ {0} /\ at \in 0 .. Len(d)
         /\ at \in 1 .. Len(d)
         /\ s.start \in OpenOf(d, at) /\ d[s.start].kind = "open"
         /\ d[s.start].tag.property # "none" /\ Len(d) \in Nat
<1>1. /\ s.start \in 1 .. Len(d) /\ s.end \in 1 .. Len(d) /\ Len(d) \in Nat
      /\ s.start \in OpenOf(d, s.end - 1) /\ d[s.start].tag.property # "none"
  BY DEF SentRight
<1>2. /\ s.start \in Nat \ {0} /\ at \in Nat \ {0} /\ at \in 0 .. Len(d)
      /\ at \in 1 .. Len(d) /\ s.start \in 1 .. at
      /\ \A e \in s.start .. at : e \in s.start .. s.end - 1
  BY <1>1
<1>3. /\ d[s.start].kind = "open"
      /\ \A e \in s.start .. s.end - 1 : d[e].kind = "close" => d[e].of # s.start
  BY <1>1 DEF OpenOf
<1> QED BY <1>1, <1>2, <1>3 DEF OpenOf

\* The events of a literal's tokens.
LEMMA TokensOf ==
  ASSUME NEW d \in Seq(Events), NEW v, NEW s, SentRight(v, s, d),
         SentType(s, d), s.kind = "xml"
  PROVE  /\ s.value \in Seq(TokenType)
         /\ \A i \in DOMAIN s.value : /\ TokenRight(s.value[i], d)
                                      /\ s.value[i].at \in s.start .. s.end - 1
         /\ \A a \in s.start + 1 .. s.end - 1 :
              \E i \in DOMAIN s.value : s.value[i].at = a
         /\ \A i, j \in DOMAIN s.value : s.value[i].at = s.value[j].at => i = j
<1> DEFINE first == IF d[s.start].tag.torn = "empty" THEN s.start + 1 ELSE s.start
           l == s.value
<1>1. /\ s.value \in Seq(TokenType) /\ Len(l) = s.end - first
      /\ \A i \in DOMAIN l : l[i].at = first + i - 1
  BY DEF SentType, Subtree
<1>2. /\ s.start \in Nat /\ s.end \in Nat /\ TokensRight(l, d)
  BY DEF SentRight
<1>3. first \in {s.start, s.start + 1} /\ first \in Nat
  BY <1>2
<1>4. DOMAIN l = 1 .. Len(l) /\ Len(l) \in Nat
  BY <1>1
<1> HIDE DEF first, l
<1>5. \A i \in DOMAIN l : TokenRight(l[i], d)
  BY <1>2, <1>4 DEF TokensRight
<1>6. \A i \in DOMAIN l : l[i].at \in s.start .. s.end - 1
  <2>1. \A i \in DOMAIN l : first + i - 1 \in s.start .. s.end - 1
    BY <1>1, <1>2, <1>3, <1>4, SMTT(30)
  <2> QED BY <1>1, <2>1
<1>7. ASSUME NEW a \in s.start + 1 .. s.end - 1
      PROVE  \E i \in DOMAIN l : l[i].at = a
  <2>1. a - first + 1 \in DOMAIN l /\ first + (a - first + 1) - 1 = a
    BY <1>1, <1>2, <1>3, <1>4, SMTT(30)
  <2> QED BY <1>1, <2>1
<1>8. \A i, j \in DOMAIN l : l[i].at = l[j].at => i = j
  <2>1. \A i, j \in DOMAIN l : first + i - 1 = first + j - 1 => i = j
    BY <1>3, <1>4
  <2> QED BY <1>1, <2>1
<1> QED BY <1>1, <1>5, <1>6, <1>7, <1>8 DEF l

LEMMA KeepsNamespaces == Inv /\ Meaning => LiteralsKeepNamespaces
<1> SUFFICES ASSUME Inv, Meaning, NEW s \in sent, s.kind = "xml",
                    NEW i \in DOMAIN s.value, s.value[i].kind = "open",
                    OpenIn(s, s.value[i].at) = {s.value[i].at},
                    NEW p \in Prefixes \ {document[s.value[i].at].tag.shadow}
             PROVE  IF InScope(s.start, p) = Unmapped
                    THEN p \notin DOMAIN s.value[i].xmlns
                    ELSE /\ p \in DOMAIN s.value[i].xmlns
                         /\ s.value[i].xmlns[p] = InScope(s.start, p)
  BY DEF LiteralsKeepNamespaces, XmlLiterals
<1> DEFINE d == document
           token == s.value[i]
           at == token.at
           around == OpenOf(d, s.start)
<1>1. d \in Seq(Events) /\ SentType(s, d) /\ SentRight(version, s, d) /\ Nested(d)
  BY DEF Inv, Meaning
<1>2. TokenRight(token, d) /\ at \in s.start .. s.end - 1
  BY <1>1, TokensOf
<1>3. /\ s.start \in Nat \ {0} /\ at \in Nat \ {0} /\ at \in 0 .. Len(d)
      /\ s.start \in OpenOf(d, at) /\ d[s.start].kind = "open"
      /\ d[s.start].tag.property # "none" /\ Len(d) \in Nat
  BY <1>1, <1>2, InsideOf
<1>4. {a \in OpenOf(d, at) : a > s.start} = {at}
  BY DEF OpenIn, Open, OpenOf
<1> HIDE DEF d, token, at
<1>5. Above(d, at) = around
  <2>1. at > s.start /\ at \in OpenOf(d, at)
    BY <1>4
  <2>2. OpenOf(d, at) \in SUBSET (1 .. at) /\ around \in SUBSET (1 .. s.start)
    BY <1>3, OpenRange
  <2>3. \A b \in 1 .. s.start : b \in OpenOf(d, at) <=> b \in around
    BY <1>1, <1>3, OpenBelow
  <2>4. \A b \in OpenOf(d, at) : b = at \/ b \in 1 .. s.start
    BY <1>3, <1>4, <2>2
  <2>5. at \notin around
    BY <1>3, <2>1, <2>2
  <2> HIDE DEF around
  <2>6. \A b : b \in Above(d, at) <=> b \in around
    BY <2>2, <2>3, <2>4, <2>5 DEF Above
  <2> QED BY <2>6
<1>6. Latest(around) = s.start
  BY <1>3, OwnTagIsOpen
<1>7. Outermost(d, at)
  BY <1>3, <1>5, <1>6 DEF Outermost
<1>8. InScope(s.start, p) = ScopeOf(d, around, p)
  BY DEF InScope, ScopeOf, Open, OpenOf, d
<1> DEFINE names == {q \in Prefixes \ {d[at].tag.shadow} :
                       ScopeOf(d, around, q) # Unmapped}
<1>9. token.xmlns = [q \in names |-> ScopeOf(d, around, q)]
  <2>1. token.xmlns = NamespacesAt(d, at)
    BY <1>2 DEF TokenRight, token, at
  <2> QED BY <1>5, <1>7, <2>1, Zenon DEF NamespacesAt
<1>10. p \in names <=> ScopeOf(d, around, p) # Unmapped
  BY DEF d, at, token
<1> HIDE DEF names, around
<1>11. IF InScope(s.start, p) = Unmapped THEN p \notin DOMAIN token.xmlns
       ELSE /\ p \in DOMAIN token.xmlns
            /\ token.xmlns[p] = InScope(s.start, p)
  BY <1>8, <1>9, <1>10
<1> QED BY <1>11 DEF token

LEMMA FollowsSubtree == Inv /\ Meaning => KindFollowsSubtree
<1> SUFFICES ASSUME Inv, Meaning, NEW s \in sent
             PROVE  s.kind = "xml" <=>
                      IF version = "1.1"
                      THEN document[s.start].tag.property = "XMLLiteral"
                      ELSE /\ \E e \in Inside(s) : e.kind = "text"
                           /\ \/ document[s.start].tag.torn = "markup"
                              \/ \E e \in Inside(s) :
                                   \/ e.kind = "open"
                                   \/ e.kind = "text" /\ e.text \in MarkupTexts
  BY DEF KindFollowsSubtree
<1>1. KindRight(version, s, document)
  BY DEF Meaning, SentRight
<1>2. TextBetween(document, s.start + 1, s.end - 1) <=>
        \E e \in Inside(s) : e.kind = "text"
  BY DEF TextBetween, Inside
<1>3. MarkupBetween(document, s.start + 1, s.end - 1) <=>
        \E e \in Inside(s) : \/ e.kind = "open"
                             \/ e.kind = "text" /\ e.text \in MarkupTexts
  BY DEF MarkupBetween, Inside
<1> QED BY <1>1, <1>2, <1>3 DEF KindRight

-----------------------------------------------------------------------------
(* Languages.                                                              *)

\* The latest of the elements in S that say something: "says" is a function.
LanguageBy(says, S) ==
  LET saying == {a \in S : says[a] # NULL}
  IN  IF saying = {} \/ says[Latest(saying)] = "" THEN NULL
      ELSE says[Latest(saying)]

\* Of the open elements O, those inside start write their own language w; the
\* outermost of them writes the language it inherits where it has none, every
\* other one that language or nothing.
Inherits(w, says, O, start) ==
  \A a \in O : a > start =>
    IF w[a] # NULL THEN says[a] = w[a]
    ELSE /\ says[a] \in {NULL, LanguageBy(w, {b \in O : b < a})}
         /\ (\A b \in O : b < a => b <= start) =>
              says[a] = LanguageBy(w, {b \in O : b < a})

\* Then nothing is lost.
LEMMA InheritedIsEnough ==
  ASSUME NEW n \in Nat, NEW O \in SUBSET (1 .. n), NEW start \in O,
         NEW w, NEW says, \E a \in O : a > start, Inherits(w, says, O, start)
  PROVE  LanguageBy(says, {a \in O : a > start}) = LanguageBy(w, O)
<1> DEFINE S == {a \in O : a > start}
           W == {a \in O : w[a] # NULL}
           said == {a \in S : says[a] # NULL}
           language == LanguageBy(w, O)
           Before(a) == {b \in O : b < a}
<1> USE DEF Inherits
<1> SUFFICES LanguageBy(says, S) = language
  OBVIOUS
<1>1. /\ S \in SUBSET (1 .. n) /\ S # {} /\ W \in SUBSET (1 .. n)
      /\ said \in SUBSET (1 .. n) /\ start \in 1 .. n
  OBVIOUS
<1>2. language = IF W = {} \/ w[Latest(W)] = "" THEN NULL ELSE w[Latest(W)]
  BY DEF LanguageBy
<1>3. LanguageBy(says, S) = IF said = {} \/ says[Latest(said)] = "" THEN NULL
                            ELSE says[Latest(said)]
  BY DEF LanguageBy
<1>4. language # NULL => language # ""
  BY <1>2
<1>5. ASSUME NEW a \in S, \A b \in W : b >= a => b = a, w[a] = NULL
      PROVE  LanguageBy(w, Before(a)) = language
  <2>1. {b \in Before(a) : w[b] # NULL} = W
    <3>1. \A b \in W : b < a
      BY <1>1, <1>5
    <3> QED BY <3>1
  <2> QED BY <1>2, <2>1 DEF LanguageBy
<1>6. said # {} => Latest(said) \in said /\ \A b \in said : b <= Latest(said)
  <2> HIDE DEF said
  <2> QED BY <1>1, LatestIn
<1>7. CASE \E b \in W : b > start
  <2>1. W # {} /\ Latest(W) \in W /\ \A b \in W : b <= Latest(W)
    <3>1. W # {}
      BY <1>7
    <3> HIDE DEF W
    <3> QED BY <1>1, <3>1, LatestIn
  <2> DEFINE last == Latest(W)
  <2>2. last \in S /\ w[last] # NULL /\ says[last] = w[last] /\ last \in said
    <3>1. last \in O /\ w[last] # NULL /\ last \in 1 .. n
      BY <2>1
    <3>2. PICK b \in W : b > start
      BY <1>7
    <3>3. last > start
      BY <1>1, <2>1, <3>1, <3>2
    <3>4. says[last] = w[last]
      <4> HIDE DEF last, W, S, said, language
      <4> QED BY <3>1, <3>3
    <3>5. last \in S
      BY <3>1, <3>3
    <3>6. says[last] # NULL
      BY <3>1, <3>4
    <3>7. last \in said
      BY <3>5, <3>6
    <3> HIDE DEF last, S, W, said
    <3> QED BY <3>1, <3>4, <3>5, <3>7
  <2> DEFINE top == Latest(said)
  <2>3. top \in said /\ last <= top
    BY <1>6, <2>2
  <2>4. CASE top = last
    BY <1>2, <1>3, <2>1, <2>2, <2>3, <2>4
  <2>5. CASE top # last
    <3>1. top \in S /\ says[top] # NULL /\ top \in O /\ top > start
      BY <2>3
    <3>2. \A b \in W : b < top
      BY <1>1, <2>1, <2>2, <2>3, <2>5
    <3>3. top \in 1 .. n
      BY <1>1, <3>1
    <3>4. w[top] = NULL
      BY <3>1, <3>2, <3>3
    <3>5. \A b \in W : b >= top => b = top
      BY <1>1, <3>2, <3>3
    <3>6. LanguageBy(w, Before(top)) = language
      <4> HIDE DEF top, S, W, Before, language
      <4> QED BY <1>5, <3>1, <3>4, <3>5
    <3>7. says[top] = language
      BY <3>1, <3>4, <3>6
    <3> HIDE DEF language, top, said
    <3> QED BY <1>3, <1>4, <2>3, <3>1, <3>7 DEF top
  <2> QED BY <2>4, <2>5
<1>8. CASE \A b \in W : b <= start
  <2>1. ASSUME NEW a \in S
        PROVE  /\ w[a] = NULL /\ LanguageBy(w, Before(a)) = language
               /\ says[a] \in {NULL, language}
    <3>1. w[a] = NULL
      BY <1>1, <1>8
    <3>2. \A b \in W : b >= a => b = a
      BY <1>1, <1>8
    <3>3. LanguageBy(w, Before(a)) = language
      <4> HIDE DEF S, W, Before, language
      <4> QED BY <1>5, <3>1, <3>2
    <3> HIDE DEF language
    <3> QED BY <3>1, <3>3
  <2>2. PICK a \in S : \A b \in S : a <= b
    <3>1. S \in SUBSET Nat
      BY <1>1
    <3> HIDE DEF S
    <3> QED BY <1>1, <3>1, Smallest
  <2>3. \A b \in O : b < a => b <= start
    BY <1>1, <2>2
  <2>4. says[a] = language
    <3>1. says[a] = LanguageBy(w, Before(a))
      <4>1. a \in O /\ a > start /\ w[a] = NULL
        BY <2>1
      <4> HIDE DEF W, S, said, language
      <4> QED BY <2>3, <4>1
    <3> HIDE DEF language, Before, S
    <3> QED BY <2>1, <3>1
  <2>5. CASE language = NULL
    <3>1. said = {}
      BY <2>1, <2>5
    <3> QED BY <1>3, <2>5, <3>1
  <2>6. CASE language # NULL
    <3>1. a \in said
      BY <2>4, <2>6
    <3>2. Latest(said) \in said /\ said # {}
      BY <1>6, <3>1
    <3>4. Latest(said) \in S /\ says[Latest(said)] # NULL
      BY <3>2
    <3> HIDE DEF language, said, S
    <3>3. says[Latest(said)] = language
      BY <2>1, <3>4
    <3> QED BY <1>3, <1>4, <2>6, <3>2, <3>3
  <2> QED BY <2>5, <2>6
<1>9. (\E b \in W : b > start) \/ (\A b \in W : b <= start)
  BY <1>1
<1> QED BY <1>7, <1>8, <1>9

LEMMA KeepsLanguage == Inv /\ Meaning => LiteralsKeepLanguage
<1> SUFFICES
      ASSUME Inv, Meaning, NEW s \in sent, s.kind = "xml",
             NEW i \in DOMAIN s.value, OpenIn(s, s.value[i].at) # {}
      PROVE  LET at            == s.value[i].at
                 serialised(a) == LanguageSaid(
                   CHOOSE t \in {s.value[j] : j \in DOMAIN s.value} : t.at = a)
                 written(a)    == document[a].tag.lang
             IN  Language(OpenIn(s, at), serialised) =
                   Language(Open(at), written)
  BY DEF LiteralsKeepLanguage, XmlLiterals
<1> DEFINE d == document
           at == s.value[i].at
           ser(a) == LanguageSaid(
             CHOOSE t \in {s.value[j] : j \in DOMAIN s.value} : t.at = a)
           O == OpenOf(d, at)
           S == {a \in O : a > s.start}
           w == [a \in 1 .. at |-> d[a].tag.lang]
           says == [a \in 1 .. at |-> ser(a)]
<1>1. /\ d \in Seq(Events) /\ SentType(s, d) /\ SentRight(version, s, d)
      /\ Nested(d)
  BY DEF Inv, Meaning
<1>2. /\ at \in s.start .. s.end - 1
      /\ \A j \in DOMAIN s.value : TokenRight(s.value[j], d)
      /\ \A a \in s.start + 1 .. s.end - 1 : \E j \in DOMAIN s.value :
           s.value[j].at = a
      /\ \A j, k \in DOMAIN s.value : s.value[j].at = s.value[k].at => j = k
  BY <1>1, TokensOf
<1>3. /\ s.start \in Nat \ {0} /\ at \in Nat \ {0} /\ at \in 0 .. Len(d)
      /\ at \in Nat /\ s.start \in O /\ d[s.start].kind = "open"
      /\ d[s.start].tag.property # "none" /\ Len(d) \in Nat
  BY <1>1, <1>2, InsideOf
<1>4. O \in SUBSET (1 .. at)
  BY <1>3, OpenRange
<1>5. Open(at) = O /\ OpenIn(s, at) = S
  BY DEF Open, OpenOf, OpenIn
<1>6. S # {}
  BY <1>5
<1>7. Language(OpenIn(s, at), ser) = LanguageBy(says, S)
  <2>1. \A a \in S : says[a] = ser(a)
    BY <1>4
  <2>2. {a \in S : ser(a) # NULL} = {a \in S : says[a] # NULL}
    BY <2>1
  <2>3. \A T : T \in SUBSET S /\ T # {} => says[Latest(T)] = ser(Latest(T))
    <3>1. TAKE T
    <3>2. HAVE T \in SUBSET S /\ T # {}
    <3>3. T \in SUBSET (1 .. at)
      BY <1>4, <3>2
    <3>4. Latest(T) \in S
      BY <1>3, <3>2, <3>3, LatestIn
    <3> QED BY <2>1, <3>4
  <2> DEFINE said == {a \in S : says[a] # NULL}
  <2>4. said \in SUBSET S /\ {a \in S : ser(a) # NULL} = said
    BY <2>2
  <2>5. said # {} => says[Latest(said)] = ser(Latest(said))
    <3> HIDE DEF said, says, ser, S
    <3> QED BY <2>3, <2>4
  <2>6. Language(OpenIn(s, at), ser) =
          IF said = {} \/ ser(Latest(said)) = "" THEN NULL
          ELSE ser(Latest(said))
    <3> DEFINE sayers == {a \in S : ser(a) # NULL}
    <3>1. Language(OpenIn(s, at), ser) =
            IF sayers = {} \/ ser(Latest(sayers)) = "" THEN NULL
            ELSE ser(Latest(sayers))
      <4> HIDE DEF S, at
      <4> QED BY <1>5 DEF Language
    <3>2. sayers = said
      BY <2>4
    <3> HIDE DEF sayers, said, ser, S, O, w, says, at, d
    <3> QED BY ONLY <3>1, <3>2
  <2>7. LanguageBy(says, S) =
          IF said = {} \/ says[Latest(said)] = "" THEN NULL
          ELSE says[Latest(said)]
    BY DEF LanguageBy
  <2> HIDE DEF said, says, ser, S
  <2> QED BY <2>5, <2>6, <2>7
<1>8. ASSUME NEW T \in SUBSET (1 .. at)
      PROVE  LanguageBy(w, T) = LanguageOf(d, T)
  <2> DEFINE saying == {a \in T : w[a] # NULL}
  <2>1. \A a \in T : w[a] = d[a].tag.lang
    OBVIOUS
  <2>2. {a \in T : d[a].tag.lang # NULL} = saying
    BY <2>1
  <2>3. saying \in SUBSET (1 .. at)
    OBVIOUS
  <2>4. saying # {} => Latest(saying) \in 1 .. at
    <3> HIDE DEF saying, at
    <3> QED BY <1>3, <2>3, LatestIn
  <2>5. saying # {} => w[Latest(saying)] = d[Latest(saying)].tag.lang
    BY <2>4
  <2>6. LanguageBy(w, T) =
          IF saying = {} \/ w[Latest(saying)] = "" THEN NULL
          ELSE w[Latest(saying)]
    BY DEF LanguageBy
  <2>7. LanguageOf(d, T) =
          IF saying = {} \/ d[Latest(saying)].tag.lang = "" THEN NULL
          ELSE d[Latest(saying)].tag.lang
    BY <2>2 DEF LanguageOf
  <2> HIDE DEF saying, w
  <2> QED BY <2>5, <2>6, <2>7
<1>9. Language(Open(at), LAMBDA a : document[a].tag.lang) = LanguageOf(d, O)
  BY <1>5 DEF Language, LanguageOf
<1>10. ASSUME NEW a \in O
       PROVE  /\ Above(d, a) = {b \in O : b < a} /\ a \in 1 .. at
              /\ d[a].kind = "open"
  <2>1. a \in 1 .. at /\ a \in Nat /\ d[a].kind = "open"
    BY <1>3, <1>4, OpenRange
  <2>2. \A b \in 1 .. a : b \in O <=> b \in OpenOf(d, a)
    <3> HIDE DEF d, at
    <3> QED BY <1>1, <1>3, <2>1, OpenBelow
  <2>3. OpenOf(d, a) \in SUBSET (1 .. a)
    BY <2>1, OpenRange
  <2> HIDE DEF O, d, at
  <2>4. ASSUME NEW b \in OpenOf(d, a), b # a PROVE b \in O /\ b < a
    <3>1. b \in 1 .. a
      BY <2>3
    <3> QED BY <2>1, <2>2, <2>4, <3>1
  <2>6. ASSUME NEW b \in O, b < a PROVE b \in OpenOf(d, a) /\ b # a
    <3>1. b \in 1 .. at
      BY <1>4
    <3>2. b \in 1 .. a
      BY <1>3, <2>1, <2>6, <3>1
    <3> QED BY <2>1, <2>2, <2>6, <3>2
  <2>5. OpenOf(d, a) \ {a} = {c \in O : c < a}
    BY <2>4, <2>6
  <2> QED BY <2>1, <2>5 DEF Above
<1>11. ASSUME NEW a \in S
       PROVE  ser(a) \in LanguagesAt(d, a)
  <2>1. a \in O /\ a > s.start /\ a \in 1 .. at
    BY <1>4
  <2>2. a \in s.start + 1 .. s.end - 1
    <3>1. s.end \in Nat
      BY <1>1 DEF SentRight
    <3> HIDE DEF at
    <3> QED BY <1>2, <1>3, <2>1, <3>1
  <2>3. PICK j \in DOMAIN s.value : s.value[j].at = a
    BY <1>2, <2>2
  <2>4. \A t \in {s.value[k] : k \in DOMAIN s.value} : t.at = a => t = s.value[j]
    BY <1>2, <2>3
  <2>5. s.value[j] \in {s.value[k] : k \in DOMAIN s.value}
    OBVIOUS
  <2>6. ser(a) = LanguageSaid(s.value[j])
    <3> DEFINE V == {s.value[k] : k \in DOMAIN s.value}
    <3> HIDE DEF V
    <3>1. \A t \in V : t.at = a <=> t = s.value[j]
      BY <2>3, <2>4 DEF V
    <3>2. s.value[j] \in V
      BY DEF V
    <3>3. (CHOOSE t \in V : t.at = a) = s.value[j]
      BY <3>1, <3>2
    <3> QED BY <3>3 DEF V
  <2>7. d[a].kind = "open"
    BY <1>10, <2>1
  <2>8. TokenRight(s.value[j], d)
    BY <1>2
  <2>9. LanguageSaid(s.value[j]) \in LanguagesAt(d, a)
    BY <2>3, <2>7, <2>8, Zenon DEF TokenRight
  <2> HIDE DEF ser
  <2> QED BY <2>6, <2>9
<1>12. ASSUME NEW a \in O, a > s.start
       PROVE  IF w[a] # NULL THEN says[a] = w[a]
              ELSE /\ says[a] \in {NULL, LanguageBy(w, {b \in O : b < a})}
                   /\ (\A b \in O : b < a => b <= s.start) =>
                        says[a] = LanguageBy(w, {b \in O : b < a})
  <2> DEFINE before == {b \in O : b < a}
  <2>1. /\ Above(d, a) = before /\ a \in 1 .. at /\ d[a].kind = "open"
    BY <1>10
  <2>2. w[a] = d[a].tag.lang /\ says[a] = ser(a) /\ a \in S
    BY <1>12, <2>1
  <2>3. LanguageBy(w, before) = LanguageOf(d, before)
    <3>1. before \in SUBSET (1 .. at)
      BY <1>4
    <3> HIDE DEF before, w, at
    <3> QED BY <1>8, <3>1
  <2>4. (\A b \in O : b < a => b <= s.start) => Outermost(d, a)
    <3>1. SUFFICES ASSUME \A b \in O : b < a => b <= s.start
                   PROVE  Outermost(d, a)
      OBVIOUS
    <3>2. s.start \in before /\ \A b \in before : b <= s.start
      BY <1>3, <1>12, <3>1
    <3>3. before \in SUBSET Nat
      BY <1>4
    <3> HIDE DEF before
    <3>4. Latest(before) = s.start
      BY <3>2, <3>3, LatestIs
    <3> QED BY <1>3, <2>1, <3>4 DEF Outermost
  <2>5. says[a] \in LanguagesAt(d, a)
    BY <1>11, <2>2
  <2>6. LanguagesAt(d, a) = IF d[a].tag.lang # NULL THEN {d[a].tag.lang}
                            ELSE IF Outermost(d, a) THEN {LanguageOf(d, before)}
                            ELSE {NULL, LanguageOf(d, before)}
    BY <2>1, Zenon DEF LanguagesAt
  <2> HIDE DEF before, w, says, d, ser, S
  <2>7. CASE w[a] # NULL
    BY <2>2, <2>5, <2>6, <2>7
  <2>8. CASE w[a] = NULL
    <3>1. says[a] \in {NULL, LanguageBy(w, before)}
      BY <2>2, <2>3, <2>5, <2>6, <2>8
    <3>2. (\A b \in O : b < a => b <= s.start) => says[a] = LanguageBy(w, before)
      BY <2>2, <2>3, <2>4, <2>5, <2>6, <2>8
    <3> QED BY <2>8, <3>1, <3>2 DEF before
  <2> QED BY <2>7, <2>8
<1>13. LanguageBy(says, S) = LanguageBy(w, O)
  <2>1. \E a \in O : a > s.start
    BY <1>6
  <2>2. Inherits(w, says, O, s.start)
    <3> HIDE DEF w, says, O
    <3> QED BY <1>12 DEF Inherits
  <2> HIDE DEF w, says, O, at
  <2>3. LanguageBy(says, {a \in O : a > s.start}) = LanguageBy(w, O)
    <3>1. at \in Nat /\ O \in SUBSET (1 .. at) /\ s.start \in O
      BY <1>3, <1>4
    <3> HIDE DEF d, S, ser
    <3> QED BY ONLY <2>1, <2>2, <3>1, InheritedIsEnough, Zenon
  <2> QED BY <2>3
<1>14. LanguageBy(w, O) = LanguageOf(d, O)
  <2> HIDE DEF w, O, at
  <2> QED BY <1>4, <1>8
<1>15. Language(OpenIn(s, at), ser) =
         Language(Open(at), LAMBDA a : document[a].tag.lang)
  BY <1>7, <1>9, <1>13, <1>14, Zenon
<1> QED BY <1>15

-----------------------------------------------------------------------------
LEMMA MeaningIs == Spec => [](Inv /\ Meaning)
BY InvHolds, MeaningHolds, PTL

(***************************************************************************)
(* The children of a property element write the namespaces that are in     *)
(* scope there into its XML literal, for properties and declarations that  *)
(* are nested to any depth (the flag xml_literal_namespaces_defined of     *)
(* start_element, rdfa.c:305-404 and 937-946).                             *)
(***************************************************************************)
THEOREM LiteralsAlwaysKeepNamespaces == Spec => []LiteralsKeepNamespaces
<1>1. Inv /\ Meaning => LiteralsKeepNamespaces
  BY KeepsNamespaces
<1> QED BY <1>1, MeaningIs, PTL

(***************************************************************************)
(* Text in an XML literal keeps the language of the document for whoever   *)
(* takes lang for xml:lang (rdfa.c:620 writes the one for the other),      *)
(* although the flag xml_literal_xml_lang_defined is not what its name     *)
(* says: it is read only where the namespaces are defined, and there an    *)
(* ancestor in the literal has written the language (rdfa.c:737-763).      *)
(***************************************************************************)
THEOREM LiteralsAlwaysKeepLanguage == Spec => []LiteralsKeepLanguage
<1>1. Inv /\ Meaning => LiteralsKeepLanguage
  BY KeepsLanguage
<1> QED BY <1>1, MeaningIs, PTL

(***************************************************************************)
(* Whether a property is an XML literal is what its datatype says, or in   *)
(* RDFa 1.0 what is between its tags, and what a '>' in an attribute makes *)
(* of its own start tag (triple.c:562-600 and 725-760).                    *)
(***************************************************************************)
THEOREM KindAlwaysFollowsSubtree == Spec => []KindFollowsSubtree
<1>1. Inv /\ Meaning => KindFollowsSubtree
  BY FollowsSubtree
<1> QED BY <1>1, MeaningIs, PTL

(***************************************************************************)
(* No document crashes start_element or end_element by a null prefix or a  *)
(* null plain literal but the three kinds that CrashesAreKnown names.      *)
(***************************************************************************)
THEOREM CrashesAlwaysKnown == Spec => []CrashesAreKnown
<1>1. Meaning => CrashesAreKnown
  BY DEF Meaning
<1> QED BY <1>1, MeaningHolds, PTL
=============================================================================
