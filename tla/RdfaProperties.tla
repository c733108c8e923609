--------------------------- MODULE RdfaProperties --------------------------
(***************************************************************************)
(* What the processor promises about the triples it sends, stated over the *)
(* element tree of the document (the history variables), not over the      *)
(* contexts on the stack.                                                  *)
(***************************************************************************)
EXTENDS RdfaProcessor, SequencesExt

Elements == DOMAIN tree
Closed   == Elements \ ToSet(open)
By(sender) == {e \in graph : e.t.by = sender}

DocumentClosed == status = "parsing" /\ Len(stack) = 1 /\ tree # << >>

-----------------------------------------------------------------------------
(* Reading the tree.                                                       *)

Unset(n, names) == \A f \in names : tree[n].tag[f] = NULL

\* n and the elements inside it.
Below(n) == {m \in Elements : n \in ToSet(tree[m].path)}

\* An element with none of the RDFa attributes: its children belong to the
\* element around it.  The root element has an implicit @about.
Transparent(n) ==
  /\ n # 1
  /\ Unset(n, {"about", "src", "resource", "href",
               "typeof", "rel", "rev", "property"})

\* The nearest element around n that is not transparent, 0 if there is none.
Enclosing(n) ==
  LET around == {tree[n].path[i] : i \in 1 .. Len(tree[n].path) - 1}
      opaque == {m \in around : ~Transparent(m)}
  IN  IF opaque = {} THEN 0 ELSE CHOOSE m \in opaque : \A k \in opaque : k <= m

Predicates(n, f) ==
  IF tree[n].tag[f] = NULL THEN {} ELSE ToSet(tree[n].tag[f])

\* @about, written or implied: for the root element, and for a typed head or
\* body, when no attribute names a resource.
HasAbout(n) ==
  \/ tree[n].tag.about # NULL
  \/ /\ Unset(n, {"resource", "href", "src"})
     /\ \/ n = 1
        \/ /\ tree[n].tag.headbody /\ tree[n].tag.typeof # NULL
           /\ tree[n].host \in {"XHTML1", "HTML"}

\* @rel or @rev without anything on the element to be their object.
Hangs(n) ==
  /\ ~Unset(n, {"rel", "rev"}) /\ Unset(n, {"resource", "href"})
  /\ tree[n].version = RDFA_VERSION_1_1 =>
       /\ tree[n].tag.src = NULL
       /\ tree[n].tag.typeof # NULL => HasAbout(n)

HangsInList(n) ==
  /\ Hangs(n) /\ tree[n].version = RDFA_VERSION_1_1
  /\ tree[n].tag.inlist /\ tree[n].tag.rel # NULL

-----------------------------------------------------------------------------
(* Incomplete triples.                                                     *)

ExpectedHanging ==
  UNION {LET m == Enclosing(n) IN
           {[at |-> n, s |-> tree[m].subject, p |-> p, o |-> tree[n].subject] :
              p \in Predicates(m, "rel")}
           \cup
           {[at |-> n, s |-> tree[n].subject, p |-> p, o |-> tree[m].subject] :
              p \in Predicates(m, "rev")} :
         n \in {k \in Closed : /\ ~Transparent(k) /\ Enclosing(k) # 0
                               /\ Hangs(Enclosing(k))
                               /\ ~HangsInList(Enclosing(k))}}

SentHanging ==
  {[at |-> e.at, s |-> e.t.s, p |-> e.t.p, o |-> e.t.o] : e \in By("hanging")}

(***************************************************************************)
(* rdfa_complete_incomplete_triples: each predicate an element leaves open *)
(* is completed once by every nearest descendant that has a subject of its *)
(* own, however many skipped elements lie between the two, and by nothing  *)
(* else.                                                                   *)
(***************************************************************************)
HangingRelationsCompleted == SentHanging = ExpectedHanging

(***************************************************************************)
(* Chaining: when a descendant describes the blank node that stands for    *)
(* the missing object of a @rel or @rev (as subject of a triple), every    *)
(* predicate that was left open ends up linked to that node.               *)
(***************************************************************************)
HangingObjectsLinked ==
  DocumentClosed =>
    \A m \in {k \in Elements : Hangs(k) /\ ~HangsInList(k)} :
      (\E e \in graph : /\ e.at # m /\ e.t.s = tree[m].object
                        /\ e.t.by \in {"type", "relrev", "property"})
      => /\ \A p \in Predicates(m, "rel") : \E e \in SentHanging :
              e.s = tree[m].subject /\ e.p = p /\ e.o = tree[m].object
         /\ \A p \in Predicates(m, "rev") : \E e \in SentHanging :
              e.s = tree[m].object /\ e.p = p /\ e.o = tree[m].subject

(***************************************************************************)
(* The comment on step 8 (c/rdfa.c:931) and rdfa_save_incomplete_triples:  *)
(* an element that leaves predicates open has a new blank node as its      *)
(* object, so that what its descendants say is not said of something else. *)
(* (For a listed @rel, rdfa_save_incomplete_list_triples draws none.)      *)
(***************************************************************************)
HangingObjectIsNew ==
  \A n \in Elements : Hangs(n) /\ ~HangsInList(n) =>
    /\ tree[n].object \in Bnodes
    /\ \A m \in 1 .. n - 1 : tree[n].object \notin {tree[m].subject, tree[m].object}

-----------------------------------------------------------------------------
(* Contexts on the stack.                                                  *)

(***************************************************************************)
(* Every open element has a subject, and so have its parents: the list     *)
(* mappings take the length of these strings without looking (strlen in    *)
(* c/rdfa_utils.c), and @typeof sends its triples only under this test.    *)
(***************************************************************************)
SubjectsKnown ==
  \A i \in 2 .. Len(stack) : /\ stack[i].new_subject # NULL
                             /\ stack[i].parent_object # NULL

(***************************************************************************)
(* end_element pops a context and takes the one below it as the parent     *)
(* without testing that there is one: there always is, the depths, by      *)
(* which the lists are scoped, count the open elements, and the context at *)
(* the bottom is never one that is skipped.                                *)
(***************************************************************************)
StackFollowsElements ==
  status # "ended" =>
    /\ Len(stack) = Len(open) + 1
    /\ \A i \in DOMAIN stack : stack[i].depth = i - 1
    /\ ~stack[1].skip_element

Complete(t) == t.s # NULL /\ t.p # NULL /\ t.o # NULL

\* The runs of text inside n.
RunsWithin(n) == {run \in ToSet(text) : n \in ToSet(run.path)}

\* A property element that ended without @content and without text in it, but
\* not with nothing: in RDFa 1.0 there is the rest of its torn start tag; in
\* RDFa 1.1 that or elements, and no resource is the value.
EndsWithoutValue(n) ==
  /\ n \in Closed /\ RunsWithin(n) = {}
  /\ tree[n].tag.property # NULL /\ tree[n].tag.content = NULL
  /\ \/ /\ tree[n].version = RDFA_VERSION_1_0
        /\ Below(n) = {n} /\ tree[n].tag.torn = "text"
     \/ /\ tree[n].version = RDFA_VERSION_1_1
        /\ Below(n) # {n} \/ tree[n].tag.torn # "empty"
        /\ tree[n].tag.datatype # XmlLiteral
        /\ tree[n].tag.datatype = NULL /\ Unset(n, {"rel", "rev"}) =>
             /\ Unset(n, {"resource", "href", "src"})
             /\ tree[n].tag.typeof # NULL => HasAbout(n)

(***************************************************************************)
(* rdfa_create_triple (c/triple.c:57): "a triple needs a subject,          *)
(* predicate and object at minimum to be considered a triple".  It answers *)
(* a null argument with an empty one, which its callers send all the same. *)
(* They send one only for a property element that ends without a value,    *)
(* for its item in a list, or for a prefix without an IRI (c/namespace.c,  *)
(* to the application's processor graph): all types, relations, lists and  *)
(* reports are complete.                                                   *)
(***************************************************************************)
TriplesAreComplete ==
  \A e \in graph : ~Complete(e.t) =>
    \/ e.t.by = "property" /\ EndsWithoutValue(e.at)
    \/ /\ e.t.by = "first"
       /\ \E n \in Elements : EndsWithoutValue(n) /\ tree[n].tag.inlist
    \/ /\ e.t.by = "prefix" /\ e.at \in Elements
       /\ tree[e.at].tag.unbound /\ tree[e.at].version = RDFA_VERSION_1_1

-----------------------------------------------------------------------------
(* Blank nodes.                                                            *)

NamesIn(values)   == {v \in values : v \in Bnodes}
ContextNames(c)   ==
  NamesIn({c.new_subject, c.current_object_resource, c.typed_resource,
           c.parent_subject, c.parent_object, c.underscore_colon_bnode_name})
  \cup {l.head : l \in c.local_list_mappings}
TripleNames       == UNION {NamesIn({e.t.s, e.t.o}) : e \in graph}

(***************************************************************************)
(* rdfa_create_bnode (c/subject.c:33) creates a new blank node: the name   *)
(* the innermost context would draw next is used by no triple sent so far  *)
(* and by no open context.                                                 *)
(***************************************************************************)
NextBnodeIsNew ==
  stack # << >> =>
    \A b \in TripleNames \cup UNION {ContextNames(stack[i]) : i \in DOMAIN stack} :
      b.bnode < Top.bnode_count

\* The elements whose subject is a blank node drawn for their @typeof.
TypedBlank(n) ==
  /\ tree[n].tag.typeof \notin {NULL, << >>} /\ ~HasAbout(n)
  /\ Unset(n, {"about", "src", "resource", "href", "rel", "rev", "property"})

(***************************************************************************)
(* "_:" names one blank node in the whole document, wherever it comes      *)
(* first (c/curie.c keeps it in underscore_colon_bnode_name, which every   *)
(* child inherits and every parent takes back); no @typeof and no hanging  *)
(* relation is given that node.                                            *)
(***************************************************************************)
AnonymousIsOneNode ==
  LET anonymous == {n \in Elements : tree[n].tag.about = Anonymous}
  IN  \A n \in anonymous :
        /\ \A m \in anonymous : tree[m].subject = tree[n].subject
        /\ \A m \in Elements :
             /\ TypedBlank(m) => tree[m].subject # tree[n].subject
             /\ Hangs(m) /\ ~HangsInList(m) => tree[m].object # tree[n].subject

(***************************************************************************)
(* rdfa_processor_triples draws the subject of each report anew: two       *)
(* reports sent at different elements describe different nodes.            *)
(***************************************************************************)
ReportsAreDistinct ==
  \A d, e \in By("warning") \cup By("error") :
    (d.at # e.at \/ d.t.by # e.t.by) => d.t.s # e.t.s

-----------------------------------------------------------------------------
(* Literals.                                                               *)

\* The text of the runs that lie inside n, in the order they were read.
TextRead(n, runs) ==
  LET read[i \in 0 .. Len(runs)] ==
        IF i = 0 THEN << >>
        ELSE IF n \in ToSet(runs[i].path)
             THEN Append(read[i - 1], runs[i].text)
             ELSE read[i - 1]
  IN  read[Len(runs)]

TextWithin(n) == TextRead(n, text)

LanguageOf(n) ==
  LET tagged == {i \in DOMAIN tree[n].path :
                   tree[tree[n].path[i]].tag.lang # NULL}
      lang   == tree[tree[n].path[Max(tagged)]].tag.lang
  IN  IF tagged = {} \/ lang = EmptyLanguage THEN NULL ELSE lang

(***************************************************************************)
(* The value of @property (RDFa 1.1).  An element without a run of text    *)
(* and without an empty property element in it has no text, not the empty  *)
(* one.  (An element with a torn start tag is not empty.)                  *)
(***************************************************************************)
Spoken ==
  {run.path : run \in ToSet(text)} \cup
  {tree[m].path : m \in {k \in Closed : /\ tree[k].tag.property # NULL
                                        /\ Below(k) = {k}
                                        /\ tree[k].tag.torn = "empty"}}

Wordless(n) == \A path \in Spoken : n \notin ToSet(path)

LiteralOf(n, kind) ==
  IF tree[n].tag.content # NULL
  THEN Literal(tree[n].tag.content, kind, LanguageOf(n))
  ELSE IF Wordless(n) THEN NULL
  ELSE Literal(TextWithin(n), kind, LanguageOf(n))

ResourceOf(n) ==
  LET tag == tree[n].tag
  IN  IF tag.content # NULL \/ ~Unset(n, {"rel", "rev"}) THEN NULL
      ELSE FirstSet(<<tag.resource, tag.href, tag.src,
                      IF tag.typeof # NULL /\ ~HasAbout(n)
                      THEN tree[n].object ELSE NULL>>)

ValueOf(n) ==
  LET datatype == tree[n].tag.datatype
  IN  CASE datatype = XmlLiteral ->
             Literal(TextWithin(n), "xml", LanguageOf(n))
        [] datatype = NULL /\ ResourceOf(n) # NULL -> ResourceOf(n)
        [] OTHER -> LiteralOf(n, IF datatype \in {NULL, EmptyDatatype}
                                 THEN "plain" ELSE "typed")

(***************************************************************************)
(* The literal of a property is the text of all the descendants of its     *)
(* element, in document order and nothing more, in the language of the     *)
(* nearest element around it that sets one (c/triple.c: "a string created  *)
(* by concatenating the text content of each of the descendant elements"). *)
(***************************************************************************)
LiteralsHoldSubtreeText ==
  \A e \in By("property") :
    LET n == e.at IN
      (e.t.o \notin Resources \cup {NULL} /\ tree[n].tag.content = NULL) =>
        e.t.o.lit.text = TextWithin(n) /\ e.t.o.lang = LanguageOf(n)

(***************************************************************************)
(* Step 9 of RDFa 1.0 (c/triple.c:587): "as an [XML literal] if: the       *)
(* [current element] has any child nodes that are not simply text nodes,   *)
(* and @datatype is not present".  The code looks for a '<', which is also *)
(* found in text and in the rest of a torn start tag; the literal is plain *)
(* where there is none of the three.  (For an element with text in it.)    *)
(* So "all children of the [current element] are text nodes" (c/triple.c:  *)
(* 551) does not make a literal plain.                                     *)
(***************************************************************************)
HasMarkup(n) ==
  \/ Below(n) # {n} \/ tree[n].tag.torn = "markup"
  \/ \E run \in RunsWithin(n) : run.text \in MarkupTexts

UntypedText(e) ==
  /\ e.t.by = "property" /\ tree[e.at].version = RDFA_VERSION_1_0
  /\ TextWithin(e.at) # << >> /\ Unset(e.at, {"content", "datatype"})

MarkupMakesXmlLiterals ==
  \A e \in graph : UntypedText(e) =>
    e.t.o.kind = IF HasMarkup(e.at) THEN "xml" ELSE "plain"

(***************************************************************************)
(* Step 9 of RDFa 1.0 (c/triple.c:587): an element with element content    *)
(* and no @datatype has an XML literal; the processor gets there.          *)
(***************************************************************************)
LiteralIsAlwaysReached == status # "crashed"

-----------------------------------------------------------------------------
(* Lists.                                                                  *)

\* A list is sent at the end of one element: e is its first triple, from the
\* list's subject to its head, and its cells are those sent at that element.
FirstsOf(b)  == {e \in By("first") : e.t.s = b}
RestsOf(b)   == {e \in By("rest") : e.t.s = b}
Here(e, S)   == {d \in S : d.at = e.at}
CellsSent    == {e.t.s : e \in By("first")}

(***************************************************************************)
(* The blank nodes of the lists are new (c/lists.c:154, "newly created     *)
(* bnodes, one for each item in the list"): a list cell has one rdf:first  *)
(* and one rdf:rest, and nothing else is said of it.                       *)
(***************************************************************************)
ListCellsArePrivate ==
  \A b \in CellsSent :
    /\ Cardinality(FirstsOf(b)) = 1 /\ Cardinality(RestsOf(b)) = 1
    /\ \A e \in graph : e.t.s = b => e.t.by \in {"first", "rest"}

\* The values of a list from its head on, up to rdf:nil.
NextCell(e, b) ==
  LET rest == {d.t.o : d \in Here(e, RestsOf(b))}
  IN  IF rest = {} THEN RdfNil ELSE CHOOSE o \in rest : TRUE

ListValues(e) ==
  LET size == Cardinality(Here(e, By("first")))
      cell[i \in 0 .. size] ==
        IF i = 0 THEN e.t.o ELSE NextCell(e, cell[i - 1])
      length == Cardinality({i \in 0 .. size : cell[i] # RdfNil})
  IN  [i \in 1 .. length |->
         (CHOOSE d \in Here(e, FirstsOf(cell[i - 1])) : TRUE).t.o]

ListsOf(key) == {e \in By("list") : <<e.t.s, e.t.p>> = key}

(***************************************************************************)
(* What the elements add to lists, read off the tree: a listed @rel with   *)
(* an object adds it at the start tag; at the end tag a listed @property   *)
(* adds its value, and then an element below a listed @rel without an      *)
(* object adds its subject.  "pos" orders the tags of the document: at     *)
(* either tag of an element, all that have started and are not around it   *)
(* have ended.                                                             *)
(***************************************************************************)
Listing(n) == tree[n].tag.inlist /\ tree[n].version = RDFA_VERSION_1_1

StartPosition(n) == 2 * n - Len(tree[n].path)
EndPosition(n)   == 2 * Max(Below(n)) - Len(tree[n].path) + 1

\* An object is a literal beside @property or @content.
ObjectListed(n) ==
  LET tag == tree[n].tag
  IN  IF tag.property = NULL /\ tag.content = NULL THEN tree[n].object
      ELSE [lit  |-> tree[n].object,
            kind |-> IF tag.datatype = NULL THEN "plain" ELSE "typed",
            lang |-> LanguageOf(n)]

Additions(n, f, pos, value) ==
  {[pos |-> pos, i |-> i, value |-> value,
    key |-> <<tree[n].subject, tree[n].tag[f][i]>>] :
     i \in DOMAIN tree[n].tag[f]}

Listed ==
  UNION
    ({Additions(n, "rel", 2 * StartPosition(n), ObjectListed(n)) :
        n \in {k \in Elements : /\ Listing(k) /\ tree[k].tag.rel # NULL
                                /\ ~Hangs(k)}}
     \cup
     {Additions(n, "property", 2 * EndPosition(n), ValueOf(n)) :
        n \in {k \in Closed : Listing(k) /\ tree[k].tag.property # NULL}}
     \cup
     {Additions(Enclosing(n), "rel", 2 * EndPosition(n) + 1, tree[n].subject) :
        n \in {k \in Closed : /\ ~Transparent(k) /\ Enclosing(k) # 0
                              /\ HangsInList(Enclosing(k))}})

Added(key, v) == {x \in Listed : x.key = key /\ x.value = v}

Sends(e, v) == {i \in DOMAIN ListValues(e) : ListValues(e)[i] = v}

Delivered(key, v) == UNION {{e} \X Sends(e, v) : e \in ListsOf(key)}

(***************************************************************************)
(* rdfa_complete_list_triples is called when all the children are done: at *)
(* the end of the document every value that was added to a list has been   *)
(* sent, as often as it was added, in a list of its subject and predicate, *)
(* and nothing else has.                                                   *)
(***************************************************************************)
ListItemsDelivered ==
  DocumentClosed =>
    LET keys   == {x.key : x \in Listed}
                  \cup {<<e.t.s, e.t.p>> : e \in By("list")}
        values == {x.value : x \in Listed}
                  \cup UNION {ToSet(ListValues(e)) : e \in By("list")}
    IN  \A key \in keys, v \in values :
          Cardinality(Added(key, v)) = Cardinality(Delivered(key, v))

(***************************************************************************)
(* The items of one list come in the order in which the document added     *)
(* them.  (One tag adds the same value for each of its predicates.)        *)
(***************************************************************************)
InOrder(values, added) ==
  \E f \in [DOMAIN values -> added] :
    /\ \A i \in DOMAIN values : f[i].value = values[i]
    /\ \A i, j \in DOMAIN values :
         i < j => f[i] # f[j] /\ f[i].pos <= f[j].pos

ListsInDocumentOrder ==
  \A e \in By("list") :
    InOrder(ListValues(e), {x \in Listed : x.key = <<e.t.s, e.t.p>>})

-----------------------------------------------------------------------------

\* What every state is made of.
Nodes == [tag : Tags, path : Seq(Nat), version : Versions,
          host : HostLanguages,
          subject : Maybe(Resources), object : Maybe(Resources)]

TypeOK ==
  /\ stack \in Seq(Contexts)
  /\ \A e \in graph : e.at \in Nat /\ e.t \in Triples
  /\ status \in {"parsing", "ended", "crashed"}
  /\ open \in Seq(Nat)
  /\ tree \in Seq(Nodes)
  /\ text \in Seq([text : Texts, path : Seq(Nat)])
  /\ errors \in 0 .. MaxErrors
=============================================================================
