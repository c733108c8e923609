# librdfa in TLA+

librdfa (`c/`) is a streaming RDFa processor. It reads an (X)HTML or XML
document chunk by chunk, and turns the RDFa attributes of the elements into
triples, which it hands to the application through callbacks while the
document is still being parsed. This directory holds a TLA+ model of the
processor, the TLC configurations that check it on small documents, and
proofs of theorems about it for documents of any size.

The difficulty of the program is not concurrency: one thread runs it. It is
that the meaning of an element depends on elements around it, while the
program sees only one tag at a time. Everything an element needs from its
ancestors is *copied down* into a new evaluation context at its start tag, and
everything its ancestors need from it is *copied back up* at its end tag. Blank
node names are drawn from a counter that every context has a copy of. A value
that is copied too early, to too few contexts, or not at all shows only in
documents of three or more nested elements with unrelated attributes.

## 1. The system

| component | code | state | operations |
| --- | --- | --- | --- |
| parser life cycle | `rdfa.c:66-187`, `1356-1545` | the context given by the application, its buffer, `preread`, `done` | `rdfa_parse_start`, `rdfa_parse_chunk`, `rdfa_parse_buffer`, `rdfa_parse_end`, `rdfa_parse`, `rdfa_init_base` |
| SAX handlers | `rdfa.c:204-1250` | the context stack | `start_element`, `character_data`, `end_element`, `rdfa_report_error` |
| XML literals | `rdfa.c:290-404`, `602-757`, `1014-1153` | `xml_literal`, `plain_literal`, two flags | part of the handlers |
| evaluation context | `context.c`, `rdfa.h` | one record per open element: subjects, incomplete triples, lists, language, vocabulary, counter, literal | `rdfa_create_context`, `rdfa_init_context`, `rdfa_create_new_element_context` |
| subject resolution | `subject.c` | fields of the innermost context | four `rdfa_establish_new_*_subject*`, `rdfa_create_bnode` |
| triples | `triple.c` | incomplete triples; what was sent | types, relations, incomplete triples, property values, reports to the processor graph |
| lists | `lists.c`, `rdfa_utils.c` | `local_list_mappings`: from subject and predicate to items | start, append, finish |
| language | `language.c` | `language` | `rdfa_update_language` |
| CURIE and IRI resolution | `curie.c`, `iri.c` | `underscore_colon_bnode_name` | `rdfa_resolve_curie`, `rdfa_resolve_relrev_curie`, `rdfa_resolve_uri` |
| prefix mappings | `namespace.c`, `context.c:171-350` | `uri_mappings`, `term_mappings` | `rdfa_update_uri_mappings`, `rdfa_setup_initial_context` |
| strings, lists, mappings | `rdfa_utils.c` | arrays of pointers, capacity 128 for a mapping | create, add, replace, copy, free |
| Raptor build, platform, Python binding, tests | `parser_raptor.c`, `mingw32_utils.c`, `python/`, `tests/` | - | glue |

How they interact. The application calls the life cycle; it gives chunks to
the XML parser (libxml2, external), which calls the three
handlers. `start_element` clones the top of the stack into a new context,
reads the declarations of prefixes and the vocabulary,
resolves the attributes under them (which may draw a blank node for `_:` and send
warnings), chooses one of the four subject rules, sends the triples that are
already complete and leaves the others in the context: incomplete triples for
the children, list items for the end of the list's parent. `end_element` sends
the property value, completes the incomplete triples it inherited, finishes
the lists that were created deeper than itself, and gives text, counter,
`_:` name and lists back to the context below. The XML parser's errors arrive
between any two handler calls and act on the *bottom* of the stack.

What is hard in it, and therefore what the properties are about:

- relations left open by `@rel` and `@rev`, which pass any number of skipped
  elements and must be completed once by each nearest other descendant;
- blank nodes: names are drawn at five places, from copies of one counter;
- lists, which travel down and up with the contexts and are finished by
  another element than the one that fills them;
- literals, whose text and markup are collected level by level as elements
  end, with namespaces and a language that flags write once per literal;
- prefixes, which each element copies from its parent into an array without
  a length, and values that may be a CURIE, a term, a name or an IRI;
- a document that comes in chunks of any size through three interfaces to a
  parser that lags behind, while only the first chunk is searched for the head;
- a loop over the segments of an IRI that moves two pointers in five ways;
- switching between RDFa 1.0 and 1.1 in the middle of a document;
- errors and warnings, which draw names in the middle of other work;
- fields that may be null, and functions that do not look.

## 2. The modules

The project has five models. The first is the processor, one module per source
file, each extending the one before it. The other four open what the first
takes as given: the life cycle that calls it, the prefixes and names that its
tags have been resolved with, the IRIs they are resolved to, and the markup of
the literals it sends.

| module | models | contents |
| --- | --- | --- |
| `RdfaContext` | `context.c`, `rdfa.h` | constants and their assumptions, the context record, the root context, inheritance |
| `RdfaSubject` | `subject.c` | the four subject rules and the choice between them |
| `RdfaLists` | `lists.c`, mappings of `rdfa_utils.c` | starting, appending to, and finishing lists; the names of their cells |
| `RdfaTriples` | `triple.c` | types, relations, incomplete triples, property values |
| `RdfaProcessor` | `rdfa.c`, `language.c`, part of `curie.c` | the variables and one action per handler |
| `RdfaProperties` | - | what must be true, said over the element tree |
| `RdfaMapping` | mappings of `rdfa_utils.c` | the array of pairs: update, lookup, capacity |
| `RdfaNames` | `curie.c`, `namespace.c` | CURIEs, terms, names and IRIs under a context |
| `RdfaPrefixes` | `namespace.c`, `context.c`, the first half of `start_element` | prefixes, terms and vocabulary of the contexts on the stack |
| `RdfaScopes` | - | abstract: a stack of functions from prefixes to IRIs |
| `RdfaIri` | `rdfa_resolve_uri` of `curie.c` | joining a reference to the base, the loop that removes dots |
| `RdfaMarkup` | the literals of `rdfa.c`, `triple.c` | serialised elements, namespaces and language written, what is sent |
| `RdfaLifeCycle` | `rdfa.c`, start and end | the calls, `rdfa_init_base`, the chunks, the XML parser around the handlers |
| `RdfaStream` | - | abstract: a document is handled token by token and parsing ends |
| `RdfaProofs`, then `RdfaNameProofs`, then `RdfaTripleProofs`, then `RdfaListProofs` | - | theorems about the processor: types and the stack, names of blank nodes, triples, lists |
| `RdfaPrefixProofs`, `RdfaIriProofs`, `RdfaMarkupProofs`, `RdfaLifeCycleProofs` | - | theorems about the other four models |
| `MCRdfa`, `MCPrefixes`, `MCIri`, `MCMarkup`, `MCLifeCycle` | - | values for TLC |

**The processor.** `stack` is the context stack. `graph` is everything handed to the
callbacks, each triple with the number of the element it was sent for (it is a
set: nothing depends on the order of triples, except of list items, which are
linked; that one triple is sent twice for one element is not visible). `status` is `parsing`, `ended` or `crashed`. Four more variables are
history, which no action of the program reads: the open elements, the element
tree with the tag, version, host language, subject and object of each element,
the runs of text, and the number of errors. The properties are stated over this tree, independently
of the contexts: for instance the relations that must be completed are computed
from the tags and the nesting alone.

| action | code |
| --- | --- |
| `StartElement(tag)` | `start_element`, all of it: new context, attributes, subject, triples, what is left open |
| `CharacterData(t)` | `character_data` |
| `EndElement` | `end_element`, all of it, including what the parent takes back |
| `ReadNullLiteral` | `end_element` when it reaches `strlen` of a null `plain_literal` |
| `ReportError` | `rdfa_report_error` |
| `ParseEnd` | `rdfa_parse_end`, at any time: a document may be cut short |

A start tag is a record with the values of its attributes
*after* CURIE resolution; the two things resolution does to the state, drawing
the name of `_:` and sending a warning for a prefix it refuses, are part of the
action. `torn` says what a start tag has behind its first `>` if that is in the value
of an attribute: text, or text with a `<`. `unbound` says that `@prefix` has a prefix
without an IRI; of the triples that tell the application of prefixes only those that
come out empty are kept. The set of tags is a constant, so a theorem is about every set
of tags.
An IRI is a member of `Iris`; a generated blank node is the record
`[bnode |-> n]`; text is a sequence of abstract runs, of which `MarkupTexts` contain
a `<` (written `&lt;` in the document). A context holds its text and, of its markup, what
the code asks of it: `inner` is what is between the first `>` and the last `<` of its
`xml_literal`, nothing, text, or something with a `<` (a tag, text, or the rest of a
torn start tag). Of the five triples of a
report to the processor graph, the one that links its two blank nodes is kept. A
list mapping is the set of its live entries with the number of used slots of
its array; the array's capacity is left out (section 5). `SaveIncompleteTriples`, `ListTriples` and the rest return a context
or a set of triples; a function of the C code that does both has one operator
for each (`CompleteIncompleteTriples` and `HangingTriples`). The head of the
document is the constant `Documents`: the host language, version and base it
can lead to.

**Prefixes and names.** A mapping is the sequence of pairs in front of the first
null key. `RdfaPrefixes` splits `start_element` where its loops turn, one action
per declaration, with `phase` for the place between two of them; where a
loop has no null key to stop at, the phase is `overrun` and nothing follows. A
value is a record of what the code splits it into: brackets, what is
before the first colon, and what is behind it. `ResolveCurie`, `ResolveRelRev` and
`ResolveUri` are functions of a context and a value. What `RdfaPrefixes` has
proved of mappings, that they are functions from prefixes to values, is how
`RdfaMarkup` represents them.

**IRIs.** A path is a sequence of segments; `rest` is what the source pointer
has in front of it and `output` what has been written. Each turn of the loop
is a step, so that it can be asked whether it ends.

**Markup.** Events of the document are numbered; a token of a literal is the
serialised form of an event and carries its number, so that a literal can be
compared with the document. A start tag has the namespaces, the attribute `lang` and
the attribute `xml:lang` that were written for it: the code writes the attributes of
the element by their local names, and `xml:lang` only where the element inherits its
language. `torn` is as in the processor. The literals themselves are null or sequences of
tokens or numbers; that an element's literal is cut to its content and made whole
again is `Content` and `ToParent`.

**The life cycle.** A document is a sequence of tokens, those that
`rdfa_init_base` looks for and tags. The application uses one of three
interfaces; `pc` is where its calls stand. The XML parser is external: it has
`pending` tokens and calls handlers for them in order, may keep some for the
next call, and must not in the last one.

## 3. The runs

There is no symmetry and no constraint. `CHECK_DEADLOCK FALSE` is in every
configuration because all these systems really end: with the document, with the
resolved IRI, with `freed` memory, or with a crash.

| run | question | bounds | distinct states |
| --- | --- | --- | --- |
| `hanging` | are relations completed exactly by the elements that must, with missing objects of their own, whenever errors come? | 4 elements, 2 errors, processor graph on, both versions, 8 tags | 1 822 000 |
| `lists` | does every item arrive once, in document order? | 5 elements, 1 run of text, 5 tags | 815 000 |
| `literals` | text, language and kind of property values; which triples lack a part? | 3 elements, 2 runs of text of 2 kinds, both versions, 14 tags | 2 885 000 |
| `modes` | types, known subjects, `_:`, reports and the counter in documents that change version, vocabulary and implied subject | 4 elements, 9 tags, base element or none | 945 000 |
| `prefixes` | do the arrays behave as scopes, when do they overrun, and what do values mean under them? | 3 declarations, 2 open elements, capacity 3, 10 names, 30 values in 5 attributes | 85 000 |
| `lifecycle` | is the document handled once and in order and do the calls end, whichever bring it and however it is cut? | 17 documents of up to 7 tokens, 3 interfaces, every way to cut, buffer of 4 | 40 000 |
| `iris` | does the loop end, in its room, with no dots left and the right segments gone? | every reference of up to 3 segments, every base of up to 2 | 108 000 |
| `markup` | is a literal the inside of its element, with the namespaces and language it had there, when is it XML, and what crashes? | 3 elements, 2 runs of text, both versions, 9 tags | 571 000 |

Why these bounds are enough for the cases to happen. A hanging relation needs
the element that leaves it open, a skipped element that lets it through, and
an element that completes it; a fourth gives the chain of two hanging
relations, two completing siblings, or a nested pair; an error matters before,
between and after two draws, so two errors. A list needs the root, the element that
creates it, two elements that add to it and one more, as a second subject in
between or as a sibling after it: five; one run of text makes the value of one listed
property another than those of the rest. A literal needs a
property inside a property with text before and within, and a language that
the inner one changes. The counter's path (down, draw, up, down again) needs
the root, two siblings, and a child of one. A prefix needs to be
declared, declared again deeper, and used after the deeper element has ended;
one prefix is there from the start, so three declarations fill a mapping of
three, and a fourth is a prefix too many. What the head of a document says is
seen or not depending on the first cut; the parser's lag takes the first
chunk, one in the middle and the last, and seven tokens give each of them more
than one. A reference of three segments has a name, a dot
and another dot in every order; two segments of a base are what ".." removes and
what it finds when nothing is left. A literal's flags need a property, an
element in it and an element in that, or two in a row.

**Disagreements.** Four runs are expected to find a violation. Each checks
what a comment of the code says, and is listed in `PROJECT.json` under
`findings`. The first three were seen in the compiled program as well.

| run | what the code does | where |
| --- | --- | --- |
| `shared_cells` | the parent takes the counter back before the child names the cells of its lists, so two lists share cells | `rdfa.c:1156`, `lists.c:154` |
| `root_list` | a list created at the root element is never sent: no element is less deep | `lists.c:125` |
| `null_plain_literal` | a property (1.0) with only elements in it takes `strlen` of a null pointer | `triple.c:572` |
| `late_base` | only the first chunk is searched for the base element, since the test for more asks whether `base` is null, and it never is | `rdfa.c:1425` |

More disagreements that the modules contain have no run of their own:

- An error draws its names from the root context's stale counter, so it can
  describe the node of a warning (`rdfa.c:1248`); `ReportsAreDistinct` is checked
  without errors.
- A listed `@rel` without an object drops the `@rev` beside it (`rdfa.c:922-937`).
  It also draws no blank node (`lists.c:65-91`; `rdfa_save_incomplete_triples`
  does), so what its descendants inherit as parent object is the element's own
  subject: `HangingObjectsLinked` and `AnonymousIsOneNode` leave such elements
  out by `HangsInList`, and `HangingObjectIsNew` is false of them.
- A listed `@rel` *with* an object sends its triple directly as well as adding
  the object to the list (`rdfa.c:919`).
- A property (1.1) with only elements in it and no other value sends a triple of
  three nulls (`triple.c:59`, `triple.c:838`), or puts a null into a list. So does one
  without elements whose start tag is torn, as `<span property='p' title='a>b'/>`, in
  1.0 too: what is between the first `>` and the last `<` is the rest of the start
  tag, so the text does not become empty but stays null (`rdfa.c:1067`). And so
  does a prefix without an IRI (`triple.c:185`). `TriplesAreComplete` says that no other
  triple lacks a part.
- The `rdf:nil` of an empty list goes to the subject of the element that ends,
  not to the one in the list's key (`lists.c:138`).
- In RDFa 1.0, where the assignment to `skip_element` is commented out
  (`subject.c:116-123`), an element whose name has a prefix is never skipped
  (`rdfa.c:827`) and completes what passes through it: `HangingRelationsCompleted`
  is about tags with `prefixed` false.
- A prefix that the outermost element of a literal declares itself is
  serialised with the value it had outside, because the namespaces are written before
  they are read (`rdfa.c:305`; `triple.c:742` says that re-declarations take
  precedence). `LiteralsKeepNamespaces` speaks of the scope of the property
  element.
- A property (1.0) with nothing but text gets an XML literal if the text has `&lt;`:
  it is a `<` by the time the code looks for one (`triple.c:567`). The comment says "as a
  [plain literal] if: ... all children of the [current element] are text nodes"
  (`triple.c:550-552`). `MarkupMakesXmlLiterals` and `KindFollowsSubtree` have what the code
  does.
- An element in an XML literal has `lang` where the document has `xml:lang`, since
  attributes are written by their local names (`rdfa.c:620`). The comment wants "a string
  created by serializing to text, all nodes that are descendants" (`triple.c:592-594`).
  `LiteralsKeepLanguage` is about a reader who takes the one for the other.
- `[_:frank]` means nothing as a property, because the prefix `_` is not taken in that
  mode (`curie.c:447`); the test "Blank named safe CURIE" expects `_:frank`
  (`tests/curies.c:273`). `BlankValuesStayBlank` asks of a `@property` only that it is no
  other thing than that node.
- `:nonprefixed` resolves behind the XHTML vocabulary; the test "Non-prefixed CURIE"
  expects the base (`tests/curies.c:264`), which the second of two equal tests would have
  taken, if the first did not (`curie.c:438-444`).
- A `>` in an attribute of a property element leaves the rest of its start tag
  in its literal (`rdfa.c:1067`), and a `<` in that rest makes the literal XML, or, without
  text in 1.0, crashes: `MarkupMakesXmlLiterals`, `KindFollowsSubtree` and
  `CrashesAreKnown` say so. A prefix that is named like the first attribute
  of an element is not written (`rdfa.c:360`). `LiteralsAreSubtrees` and
  `LiteralsKeepNamespaces` name these exceptions.
- `@prefix` declares a prefix without an IRI as null, and writing the
  namespaces takes its `strlen` (`rdfa.c:392`): `CrashesAreKnown`. Prefixes
  of `xmlns` are converted to lower case and those of `@prefix` are not
  (`rdfa.c:437`, `rdfa.c:563`).
- A relative reference to a base without a path replaces the host
  (`curie.c:174`), ".." behind an empty segment removes two, and a dot at the end
  of a path stays if a query or fragment follows: `DotsCancelSegments` and
  `NoDotsLeft` leave these out.
- A base element whose href is a fragment makes the first element crash
  (`context.c:371`): `CrashNeedsFragmentBase`.
- If the only call of `rdfa_parse_chunk` has all the data and `done`, nothing is
  parsed and the result is success (`rdfa.c:1462`).

The properties of the passing runs hold under conditions that follow from
these: `NextBnodeIsNew` is checked over tags without lists; the roots of `lists` do
not start a list themselves. Each mutant under `mutants` is a small change of
the code that makes one of the properties false, and stands beside the
definition it changes.

**Fairness and liveness.** `RdfaLifeCycle` and `RdfaIri` assume weak fairness of
their next-state relation: one thread runs the calls, the buffer filler and the
XML parser, and does not stop between two steps. It is justified because no
step waits for anything. That alone proves nothing: a filler that returned
data for ever would be fair. `ParseReturns` rests on documents being finite and
on the filler returning 0 only at the end; `ResolveReturns` on the loop having
less to do after every turn, which `LoopShrinks` says as an action property. An application
that calls `rdfa_parse_chunk` itself is assumed to send its document to the
end. The other specifications assume no fairness and claim no liveness:
their steps come from the document, which may end anywhere.

**Refinements.** `ScopesSpec`: `RdfaPrefixes` implements `RdfaScopes`, with each
context's mapping read as the function that `rdfa_get_mapping` computes. Update
changes the first pair with a key and lookup takes the last, so this
needs that no key is in a mapping twice. `StreamSpec`: `RdfaLifeCycle`
implements `RdfaStream`, fairness included: whatever the interface, the cuts and
the parser's lag, the handled tokens are a growing prefix of the document,
success means all of it was handled and closed, and failure that the XML is
wrong at exactly that place. An empty document succeeds in the first call and
fails in a later one; the abstract specification allows both.

## 4. The theorems

For every value of the constants,

| module | theorem | statement |
| --- | --- | --- |
| `RdfaProofs` | `TypeCorrect` | `Spec => []TypeOK` |
| | `SubjectsAlwaysKnown` | `Spec => []SubjectsKnown` |
| | `StackAlwaysFollows` | `Spec => []StackFollowsElements` |
| `RdfaNameProofs` | `HangingObjectsAreNew` | `Spec => []HangingObjectIsNew`, if `OwnNames` |
| | `AnonymousAlwaysOneNode` | `Spec => []AnonymousIsOneNode`, if `OwnNames` |
| `RdfaTripleProofs` | `RelationsAlwaysCompleted` | `Spec => []HangingRelationsCompleted`, if `SkipsBareElements` |
| | `HangingObjectsAlwaysLinked` | `Spec => []HangingObjectsLinked`, if `SkipsBareElements` and `OwnNames` |
| | `ReportsAlwaysDistinct` | `Spec => []ReportsAreDistinct`, if `NoErrorReports` |
| | `NextBnodeAlwaysNew` | `Spec => []NextBnodeIsNew`, if `OwnNames`, `NoLists` and `NoErrorReports` |
| | `TriplesAlwaysComplete` | `Spec => []TriplesAreComplete` |
| | `LiteralsAlwaysHoldSubtreeText` | `Spec => []LiteralsHoldSubtreeText` |
| | `MarkupAlwaysMakesXmlLiterals` | `Spec => []MarkupMakesXmlLiterals` |
| `RdfaListProofs` | `ListsAlwaysInDocumentOrder` | `Spec => []ListsInDocumentOrder`, if `OnlyRdfa11`, `ResolvesOnce` and `ListedNamed` |
| | `ListItemsAlwaysDelivered` | `Spec => []ListItemsDelivered`, if these and `RootListsNothing` |
| `RdfaPrefixProofs` | `PrefixesTypeCorrect` | `Spec => []TypeOK` |
| | `OverrunsNeedManyPrefixes` | `Spec => []OverrunNeedsManyPrefixes` |
| | `PrefixesAreScopes` | `Spec => ScopesSpec` |
| | `DeclarationsAlwaysTakeEffect` | `Spec => DeclarationsTakeEffect` |
| | `BlankValuesAlwaysStayBlank` | `Spec => []BlankValuesStayBlank` (as a `@property` it is that node or nothing) |
| | `VocabularyAlwaysForNamesOnly` | `Spec => []VocabularyIsForNamesOnly` |
| | `PredicatesAlwaysResolveOnce` | `Spec => []PredicatesResolveOnce`, if `AbsoluteIris` |
| `RdfaIriProofs` | `IrisTypeCorrect` | `Spec => []TypeOK` |
| | `NoDotsAreLeft` | `Spec => []NoDotsLeft` |
| | `EachDotDotCancelsOne` | `Spec => []DotsCancelSegments` |
| | `LoopAlwaysShrinks` | `Spec => LoopShrinks` |
| `RdfaMarkupProofs` | `MarkupTypeCorrect` | `Spec => []TypeOK` |
| | `LiteralsAlwaysSubtrees` | `Spec => []LiteralsAreSubtrees` |
| | `LiteralsAlwaysKeepNamespaces` | `Spec => []LiteralsKeepNamespaces` |
| | `LiteralsAlwaysKeepLanguage` | `Spec => []LiteralsKeepLanguage` |
| | `KindAlwaysFollowsSubtree` | `Spec => []KindFollowsSubtree` |
| | `CrashesAlwaysKnown` | `Spec => []CrashesAreKnown` |
| `RdfaLifeCycleProofs` | `LifeCycleTypeCorrect` | `Spec => []TypeOK` |
| | `CrashesNeedFragmentBases` | `Spec => []CrashNeedsFragmentBase` |
| | `CallsImplementStream` | `Spec =>` the initial state and the steps of `RdfaStream`, so `StreamSpec` without its fairness |
| | `ModesAreAnnounced` | `Spec => []ModeAsAnnounced`, if the heads of all documents come before their end (`HeadsFirst`, which `MCLifeCycle` assumes of its documents) |

The hypotheses are about documents, and the runs satisfy each of them:

- `OwnNames`: the author writes no name that `rdfa_create_bnode` generates
  (`subject.c:46` does not look, so such a name would be given twice).
- `NoErrorReports`: there is no processor graph, or the XML parser reports no
  errors. An error draws from the root context's counter, which is behind.
- `NoLists`: no tag has `@inlist`. A list's cells draw from the counter of an element
  that has already handed it up (`shared_cells`).
- `SkipsBareElements`: everything is RDFa 1.1; or no element name has a prefix, and
  either the version never changes or no vocabulary is set. In RDFa 1.0
  `start_element` skips an element if it has no RDFa attribute, *no prefix and
  no vocabulary in scope* (`rdfa.c:824-830`), and a vocabulary can only come from
  RDFa 1.1 markup around it. Otherwise an element without attributes completes what
  should pass through it.
- `OnlyRdfa11`: every document starts in RDFa 1.1 and no tag has a version. An
  element of RDFa 1.0 neither sends lists nor gives them back
  (`rdfa.c:1172-1186`), so among elements of RDFa 1.1 it loses what was added in it.
- `ResolvesOnce`: a predicate that is an IRI, resolved a second time, is that IRI. The
  predicates of a list are resolved again to make its key (`lists.c:42`); if this gave
  another IRI, the list would be sent under that one.
  `PredicatesAlwaysResolveOnce` proves it of the names model (if `AbsoluteIris`).
- `ListedNamed`: no listed property has `_:` as its value. The node is drawn when it is
  first met and known to the contexts only, while the property is said of the tree. An
  `_:` in `@about` or beside a listed `@rel` is allowed.
- `RootListsNothing`: the root element starts no list (`root_list`, section 3).
- `AbsoluteIris`: the base, the vocabularies, what prefixes and terms stand for are
  absolute IRIs. A relative one joined to a reference would be taken for a
  name, and joined once more.

Beside these, the theorems rest on the named assumptions of the modules only. For
the processor: null is no value (`NullAssumption`, `NullBnodeAssumption`,
`NullTextAssumption`), the vocabulary consists
of IRIs and no IRI is a generated blank node (`IriAssumption`), resolving a
resolved IRI gives an IRI (`ReresolvedAssumption`), tags are made of resolved
values and may be anything else (`TagsAssumption`), and the bounds are numbers
(`BoundsAssumption`). For the others: `CapacityAssumption`, `NamesAssumption`,
`NullAssumption` and `PrefixesAssumption` (a mapping has room for one pair, "_" stays
"_" in lower case, null is no string, the initial prefixes are distinct, are not "_"
and leave room, as in the table of `context.c:171`; a written value without a colon
has nothing behind it), the types of the inputs
in `IriAssumption` of `RdfaIri`, `MarkupAssumption` and `LifeCycleAssumption`.

**The processor.** The inductive invariant is `Inv`, the conjunction of `TypeOK`, `SubjectsKnown` and
`StackFollowsElements`, and none of the three is inductive alone. That a new
element has a subject depends on its parent having one (its last resort is
`parent_object`, inherited from the parent's object, subject or parent
subject); at the root element it depends on the root context, at depth 0,
being the only one without, which gives the element at depth 1 its implicit
`@about`; so the depths and the bottom of the stack are needed too. The keys
of lists are well typed only when the subject is not null, so types depend on
subjects in turn. `EndElement` replaces the context below the top by one that
keeps its subject and its depth, which is what the mutant
`ChildReplacesParent` breaks. `ReportError` writes to the bottom context while
others are open and touches its counter only. The proof goes through the code
in its order: lemmas on what `FirstSet` chooses,
on each of the four subject rules, on attributes, on the list operations (the
mapping stays finite, each of its entries well typed), on incomplete triples and
on property values, then one step per action.

`HangingObjectsAreNew` is about the copies of the counter. Some of them *are*
stale: the contexts below the top lag behind until their child ends, an error
draws from the bottom one while others are open, and a list's cells are drawn
from a counter that nobody takes back (which is why `shared_cells` is violated).
The invariant `NamesInv` says what holds
nevertheless: every subject and object of any open context and of any element
so far, and the name of `_:`, is behind the counter of the *top* context
(`NamesBehind`). A start tag copies this counter and only advances it
(`Advances`, one lemma per subject rule); an end tag copies it to the new top
before that can draw; an error advances it or leaves it. The relation's object
is then the next name of this counter, provided that nothing on the tag gives
the element an object (`OpenHasNoObject`: what `Hangs` reads off the tag is what
the four subject rules do). For the root element this rests on its implicit
`@about`, so the invariant also says that only the root element starts on a
stack of one. A listed `@rel` draws no node (section 3), and the property leaves
it out by name.

`AnonymousAlwaysOneNode` adds to `NamesInv` that the name on top of the stack, once
drawn, is that of every element that said `_:`, and of no element that was
given a node for `@typeof` or a relation (`NamedOnce`). The name is null or
behind the counter, which makes what is drawn later another one; what was
drawn before is behind the counter when the name is drawn.

**Triples.** `RelationsAlwaysCompleted` is where the contexts and the tree meet.
`RelationsFollow` says of every open element that the incomplete triples its
context inherited are what the nearest element around it that is not skipped
left open, that its parent subject is that element's subject, that it is marked to
be skipped exactly if it is transparent, and that its own incomplete triples are
what its tag leaves open. A start tag
extends the tree and changes nothing that is said of earlier elements
(`EarlierElements`); an end tag makes one element more `Closed`, and the triples it sends
are those that `ExpectedHanging` gains by it. `ReportError`, character data and lists
leave all of it as it is.

`HangingObjectsAlwaysLinked` is the other half: the node that stands for a missing
object travels as `parent_object`, is copied by every skipped element, and may
become the subject of an element far below, while the predicates to be
completed travel as `incomplete_triples`. The two go separate ways through the
contexts and must arrive together. `ChainHolds` says of every element *m* that left
predicates open: no other element has its node as object, an element has it as
subject, and an open context as parent object, only below *m* with skipped elements
in between, or after some element that is not skipped took it below *m* (`Taken`).
`SaysOfOwn` says that types, relations and properties are said of the subject
or object of an element that is not skipped. So the node is described only if it is
`Taken`, and the element that took it is one that `RelationsAlwaysCompleted` gives
its relations. That `EstablishSubject` can yield the node only from `parent_object`
(`EarlierReaches`) needs `OwnNames`: a document that names the node itself describes
it from anywhere.

`ReportsAlwaysDistinct` and `NextBnodeAlwaysNew` are about the counter on top of
the stack again. A report's node is behind it and in no later report
(`Reported`); this needs no hypothesis on names, since nothing else is asked of
them. For all triples it must hold of whatever a triple can be made of: subjects,
objects, values, and what `_:` was given (`NothingNew`, `TripleDrawn`).

`TriplesAlwaysComplete` rests on `WholeInv`. Types, relations and reports are
complete because subjects are known. A property's value is null only if the
literal is, and that `plain_literal` is null must mean that the document had no
text there: `TextHeld` says that a run of text inside an open element is held by
its context or by one above it, until an end tag gives it down. That it is null although
nothing was inside, or is empty instead, is a matter of `inner`, and `InnersTell` says
of every open element what it can be: nothing only if its context has no text and
its start tag is not torn, text only if one of these is the case, a `<` only if there is
one inside the element or in its torn start tag; and the top context has noticed
each `<` inside its element (`MarkupFollows`). That
the rest of the exception is right (`EndsWithoutValue`) needs that a context's
attributes are those of its tag after resolution (`ContextTells`), and that
an object on the context comes from an attribute. Items without a value wait in lists
until an element far away sends them, so the invariant also says that a null in
any context's list was put there by such an element (`HoldsNull`).

`LiteralsAlwaysHoldSubtreeText` and `MarkupAlwaysMakesXmlLiterals` say what such a
literal is, and are proved together. While elements are open, no context holds the
text of its element: a child's text comes down only at its end tag.
`TextFollows` says how it is spread: what was read inside an open element is the
text of its context followed by what was read inside the next open one, so the top
context has all of its own. Character data then belongs to every open element and is
appended to one context; an end tag joins the last two pieces. `LanguageFollows`
ties a context's language to the nearest language in the path of its
element, and the root context, which every end tag at depth 1 writes to, keeps
none. When a literal is XML is read off `InnersTell`, for which only the top context
must have noticed what is inside its element, since the others are told at the next end
tag. Once an
element is closed nothing is read inside it any more (`SaidStays`). What `TextRead`
makes of one run more is an induction over the runs, done by a smallest
counterexample (`SmallestNumber`).

**Lists.** A value that is added waits in a mapping that is copied down at every start
tag and back up at every end tag, under a key that may be there already, may come
from an element far above, and may come back after its list has been sent. What the
document adds is known from the tree (`Listed`), what has arrived is read from
the cells in the graph, and the contexts in between are asked about neither. The
invariant `ListInv` relates the three by a *ledger*: each addition is either in the
record of the entry that waits under its key, or in that of one list that was sent; the
records are in document order and have the values of the entries and of the lists
(`Ledger`). There are four ways to go on: a tag adds to the records of its
keys (`LedgerAdd`), an empty entry appears (`LedgerKeeps`), entries are sent and
their records go to the new lists (`LedgerDeliver`), or nothing happens. Order
and delivery are then read off: the record of a list is the function that
`InOrder` asks for, and when no entry is left, additions and places of values
in lists are in bijection (`LedgerEmpty`).

The rest is to show that the code does one of the four. A mapping has one
entry per key and per slot, and the entries for the keys of one tag end in as many
copies of its value as it has predicates with that key (`ExtendedEntries`). A list
is read back as its items because the names of its cells are distinct within one
element (`CellNamesDiffer`, `ListIsRead`); across elements they are not
(`shared_cells`), which is why the invariant says nothing about reading cells that
another element sent. What a context adds is what the tree says: for the relation at
the start tag, for the property and the subject at the end tag (`StartMatches`,
`EndMatchesProperty`, `EndMatchesSubject`), the last because `RelationsInv` knows which element left the
relations open. A subject finds its list waiting since the entry was made at the
depth of that element and only shallower elements send it. That no entry is left at
the end is the depths again: an entry is at most one deeper than the open elements,
and with `RootListsNothing` its depth is at least 2, while no element is open. Positions in
the document (`Places`) show that each tag adds later than all before it. How many
cells to follow, and the bijection, are inductions over lengths, done by a
smallest counterexample as for the text of literals.

**Prefixes.** The invariant adds to the types that no key is in a mapping
twice. It makes the number of pairs the number of keys, which
is `OverrunsNeedManyPrefixes`, and the first pair with a key the last, which is
`DeclarationsAlwaysTakeEffect` and the heart of the refinement: an update changes
the function at one place. It holds because an update appends only what the
search before it did not find. That no key is "_" either, and that the values are
initial or declared ones, is part of the same invariant: the code refuses to declare
"_" but would use it like any other in `@property`, so that `BlankValuesAlwaysStayBlank` is a
statement about all the declarations before. `VocabularyAlwaysForNamesOnly` and
`PredicatesAlwaysResolveOnce` then follow from what `ResolveCurie` tries and in
which order.

**IRIs.** What is in `output` has no dots because `CopySegment` is only reached
where neither kind of dot was recognised, and a dot is not recognised only at the end
before a tail; after such a segment nothing is copied. That the loop shrinks is
not obvious for a dot at the end of the path, which is replaced by an
empty segment instead of being removed: `Work` counts it once more.

Which segments are gone is harder, since the property matches each ".." with a segment by
counting over the whole path and the loop only ever removes the last one written.
`LoopInv` says that `output` holds, in order, the segments among the first *n* that
no ".." among them has cancelled (`Holds`), and that each of those has behind it as
many more segments than ".."s as it has kept segments behind it (`Balanced`). So the
next ".." cancels exactly the last of them, and nothing if none is left. A dot at
the end of the path becomes a slash that is written one turn later (`LastSlash`,
`SlashWritten`).

**Markup.** A literal is its element's inside because, at every moment, the
contexts on the stack hold one cut of the document into consecutive pieces: the
tokens of each context have consecutive numbers, from its own start tag to just
before the next context's start tag, and the top's reach the present. A start
tag begins a new piece, text extends the last, an end tag joins the last two.
`Content` takes the first token off, or leaves it where a `>` tore the start tag.

What is in a literal is `Meaning`: every context says what the document says at its
start tag (its language, its prefixes), and every token of every context and of every
literal that was sent says what the document says at its event. The language is that for a
reader who takes `lang` for `xml:lang` (`LanguageSaid`), of which a start tag in a literal
has at most one; for a reader of `xml:lang` alone it is lost (section 3). The proof
brought something else to light: the flag
`xml_literal_xml_lang_defined` is read only under the other flag's test, and there
the language has been written by the element that wrote the namespaces. Literals would keep
their language without it. `CrashesAlwaysKnown` is part of the invariant, since the
last event of a document that crashed tells what the contexts held.

**The life cycle.** Between two calls, what has been handled, what the XML parser
holds and what has not been read make up the document, in this order; inside
`rdfa_parse_chunk` the chunk stands between the last two (`DocumentInv`). The
first chunk is where this could go wrong, because it is not parsed but kept, so
`FirstInv` says that nothing has happened before it. The stack is one deeper
than the tags that are open in what has been handled (`ErrorInv`), which ties the
parser's verdict, said of the stack, to the stream's, said of the document; an
error that has been seen stays true because nothing is handled after it. All
contexts on the stack have the root's base (`BaseInv`), and this base is the one
found in the tokens before `wb_position` (`SeenInv`): a start tag without a
context has a fragment there. `CallInv` says that `done` is not set while
calls go on, which makes the early return of `rdfa_parse_chunk` unreachable.

## 5. Only model-checked, and not modelled

Every invariant and every safety property of the passing runs is stated by a
theorem, under the hypotheses of section 4. Only model-checked are the liveness properties
(`ParseReturns`, `ResolveReturns`, the fairness that `StreamSpec` includes): they
and `ENABLED` are out of the prover's reach. So is what a recursive definition computes
in general: the induction theorems of the library cannot be instantiated here, and
where a proof needed an induction (the text within an element, the cells of a list, the
segments that dots cancel) it argues by a smallest counterexample.

Not modelled:

- fragments and queries that contain a slash, and bases without `//`
  (`urn:`, `mailto:`), in `RdfaIri`;
- the search for an attribute named like a prefix beyond the first entry of the
  attribute array (`rdfa.c:354`); ordinary attributes, which are part of the token
  of their start tag, and the prefixes that they lose there as `xml:lang` does;
- IRIs of prefixes and values of languages that contain `<` or `>`: these too are
  written into start tags unescaped, before the `>` that the code looks for;
- the capacity of list mappings: the array has room for 128 slots like any mapping
  (`rdfa_utils.c:314`, which ignores the 48 of `rdfa.h:110`), lists that were
  sent keep theirs (`lists.c:240`), and with more it is overrun. In `RdfaLists` a
  mapping is a set that never is full, and `OverrunNeedsManyPrefixes` is about prefixes;
- triples that tell the application of the prefixes of a document and have all their
  parts;
- line numbers in reports; the wording of warnings;
- memory allocation: memory is assumed not to run out, as the code assumes;
- a second document through the same context, or calls out of the order that
  `rdfa.h` prescribes;
- the growing arrays of `rdfalist` and the string helpers of `rdfa_utils.c`,
  which hold no state between calls.

The build within Raptor replaces the XML parser and the mappings by
Raptor's and has no logic of its own; the platform support is string
helpers; the Python binding forwards calls and callbacks to an interpreter that
is not in this repository; the test programs are applications. None
of them is planned.

## 6. Plan

Done: the processor with its runs and theorems; mappings, prefixes and names
with their refinement to scopes; IRIs; the markup of literals; the life cycle
with its refinement to a stream; theorems about relations, names, whole triples, the
meaning of values, the text and the markup of literals, what dots cancel, and the
order and delivery of list items.

Left, in this order:

1. `RdfaTree`: the relations of a document as a function of its tree, an
   abstract specification that sends them all at once per element, and
   `RdfaProcessor` as an implementation of it.
2. `RdfaProcessor` over the names of `RdfaNames`, which gives `Reresolved` its value.
