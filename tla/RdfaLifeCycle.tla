--------------------------- MODULE RdfaLifeCycle ---------------------------
(***************************************************************************)
(* The life of the application's context: rdfa_parse_start, the chunks,    *)
(* rdfa_parse_end and rdfa_free_context, around an XML parser that handles *)
(* what it has been given when it is given more.                           *)
(*                                                                         *)
(* A document is a sequence of tokens, those rdfa_init_base looks for and  *)
(* tags, and a chunk any number of them.  The application either calls     *)
(* rdfa_parse, or fills the buffer itself and calls rdfa_parse_buffer as   *)
(* the example in c/rdfa.h:42-72 does, or calls rdfa_parse_chunk with      *)
(* memory of its own and done set in the last call.                        *)
(***************************************************************************)
EXTENDS Integers, Sequences, FiniteSets

CONSTANTS
  Documents,         \* the documents of an instance
  BufferSize         \* tokens that fit in the working buffer

Tokens ==
  {"dtd10", "dtd11",                      \* the two document types
   "html",                                \* the start tag <html>
   "base", "emptybase", "fragmentbase",   \* <base href="...">
   "headend",                             \* </head>
   "open", "close",                       \* other tags
   "bad"}                                 \* what is not well formed

ASSUME LifeCycleAssumption ==
  /\ Documents \subseteq Seq(Tokens)
  /\ BufferSize \in Nat \ {0}

VARIABLES
  document,          \* what the application is going to send
  api,               \* the function it calls
  input,             \* what it has not read yet
  chunk, last,       \* the arguments of the next rdfa_parse_chunk
  pc,                \* where the calls stand
  rval,              \* what the last of them returned
  version, host, base, done, preread, wb_position,  \* of the root context
  stack,             \* the bases of the contexts on the stack
  pending,           \* what the XML parser holds
  broken,            \* the XML parser has seen an error
  handled            \* the tokens it has called the handlers for

app    == <<document, api>>
call   == <<input, chunk, last>>
root   == <<version, host, base, preread, wb_position>>
parser == <<stack, pending, broken, handled>>
vars   == <<app, call, root, parser, pc, rval, done>>

Holds(s, token) == \E i \in DOMAIN s : s[i] = token

Init ==
  /\ document \in Documents
  /\ api \in {"rdfa_parse", "rdfa_parse_buffer", "rdfa_parse_chunk"}
  /\ input = document /\ chunk = << >> /\ last = FALSE
  /\ pc = "new" /\ rval = "none"
  /\ version = "none" /\ host = "none" /\ base = "given"
  /\ done = FALSE /\ preread = FALSE /\ wb_position = 0
  /\ stack = << >> /\ pending = << >> /\ broken = FALSE /\ handled = << >>

-----------------------------------------------------------------------------
(* rdfa_parse_start, with rdfa_init_context.                               *)
ParseStart ==
  /\ pc = "new" /\ pc' = "read"
  /\ done' = FALSE /\ stack' = <<base>>
  /\ version' = "1.1" /\ host' = "XML1" /\ rval' = "success"
  /\ UNCHANGED <<app, call, base, preread, wb_position, pending, broken,
                 handled>>

(***************************************************************************)
(* The buffer filler, or the application, reads the next tokens; nothing   *)
(* means that there are no more.  Who calls rdfa_parse_chunk itself can    *)
(* set done with the last data, but not in the first call, whose data are  *)
(* only parsed by the next; it does not go on calling without data.        *)
(***************************************************************************)
Read ==
  /\ pc = "read" /\ pc' = "parse"
  /\ \E n \in 0 .. Len(input) :
       /\ chunk' = SubSeq(input, 1, n)
       /\ input' = SubSeq(input, n + 1, Len(input))
       /\ IF api = "rdfa_parse_chunk"
          THEN /\ last' \in BOOLEAN /\ (last' => input' = << >> /\ preread)
               /\ n > 0 \/ last' \/ ~preread
          ELSE /\ last' = (n = 0)
               /\ n <= BufferSize /\ (n = 0 => input = << >>)
  /\ UNCHANGED <<app, root, parser, rval, done>>

-----------------------------------------------------------------------------
(* rdfa_init_base: what it looks for in the first chunk.                   *)

\* Mutant: the element <html> is looked for first.
SniffElementFirst(s) ==
  IF Holds(s, "html") THEN [version |-> "1.1", host |-> "HTML"]
  ELSE IF Holds(s, "dtd10") THEN [version |-> "1.0", host |-> "XHTML1"]
  ELSE IF Holds(s, "dtd11") THEN [version |-> "1.1", host |-> "XHTML1"]
  ELSE [version |-> "1.1", host |-> "XML1"]

Sniff(s) ==
  IF Holds(s, "dtd10") THEN [version |-> "1.0", host |-> "XHTML1"]
  ELSE IF Holds(s, "dtd11") THEN [version |-> "1.1", host |-> "XHTML1"]
  ELSE IF Holds(s, "html") THEN [version |-> "1.1", host |-> "HTML"]
  ELSE [version |-> "1.1", host |-> "XML1"]

\* Mutant: an empty href is taken for the base.
SniffAnyBase(s) ==
  IF ~Holds(s, "headend") THEN base
  ELSE IF Holds(s, "base") THEN "document"
  ELSE IF Holds(s, "fragmentbase") \/ Holds(s, "emptybase") THEN "empty"
  ELSE base

\* rdfa_iri_get_base leaves nothing of a fragment.
SniffBase(s) ==
  IF ~Holds(s, "headend") THEN base
  ELSE IF Holds(s, "base") THEN "document"
  ELSE IF Holds(s, "fragmentbase") THEN "empty"
  ELSE base

\* Mutant: the parser is created without the data.
PrereadChunkOnly ==
  /\ version' = Sniff(chunk).version /\ host' = Sniff(chunk).host
  /\ base' = SniffBase(chunk)
  /\ stack' = <<base'>>
  /\ wb_position' = wb_position + Len(chunk)
  /\ preread' = TRUE
  /\ UNCHANGED <<pending, broken, handled>>

\* The first call of rdfa_parse_chunk creates the parser with the data.
\* context->base is never null, so it does not wait for more of the head, and
\* it does not look at done.
PrereadChunk ==
  /\ version' = Sniff(chunk).version /\ host' = Sniff(chunk).host
  /\ base' = SniffBase(chunk)
  /\ stack' = <<base'>>
  /\ wb_position' = wb_position + Len(chunk)
  /\ pending' = chunk /\ preread' = TRUE
  /\ UNCHANGED <<broken, handled>>

\* Mutant: the loop does not find out that the filler had nothing more.
ReturnedNotDone(result) ==
  /\ rval' = result /\ done' = FALSE
  /\ pc' = IF api = "rdfa_parse" /\ result = "failed" THEN "end" ELSE "read"

\* What the caller of rdfa_parse_chunk does with its result: rdfa_parse goes
\* on until there is nothing more or an error, the others to their last call.
Returned(result) ==
  /\ rval' = result
  /\ done' = IF api = "rdfa_parse_chunk" THEN done ELSE last
  /\ pc' = IF last \/ (api = "rdfa_parse" /\ result = "failed")
           THEN "end" ELSE "read"

ParseChunk ==
  /\ pc = "parse"
  /\ IF done THEN Returned("failed") /\ UNCHANGED <<root, parser>>
     ELSE IF ~preread THEN PrereadChunk /\ Returned("success")
     ELSE /\ pending' = pending \o chunk /\ pc' = "parsing"
          /\ UNCHANGED <<root, stack, broken, handled, rval, done>>
  /\ UNCHANGED <<app, call>>

-----------------------------------------------------------------------------
(* xmlParseChunk.  A start tag pushes a context that has the base of the   *)
(* one below; rdfa_create_context makes none without a base, and the       *)
(* handler uses it all the same.                                           *)

Handled(token) ==
  /\ handled' = Append(handled, token) /\ pending' = Tail(pending)
  /\ UNCHANGED <<app, call, root, rval, done>>

StartElement ==
  /\ pc = "parsing" /\ ~broken /\ pending # << >>
  /\ Head(pending) \in {"html", "open"}
  /\ IF stack[Len(stack)] = "empty"
     THEN pc' = "crashed" /\ UNCHANGED <<app, call, root, parser, rval, done>>
     ELSE /\ stack' = Append(stack, stack[Len(stack)])
          /\ Handled(Head(pending)) /\ UNCHANGED <<pc, broken>>

EndElement ==
  /\ pc = "parsing" /\ ~broken /\ pending # << >> /\ Head(pending) = "close"
  /\ Len(stack) > 1
  /\ stack' = SubSeq(stack, 1, Len(stack) - 1)
  /\ Handled("close") /\ UNCHANGED <<pc, broken>>

\* Mutant: the end of the head pops a context that is not its own.
OtherMarkupPopping ==
  /\ pc = "parsing" /\ ~broken /\ pending # << >>
  /\ Head(pending) \notin {"html", "open", "close", "bad"}
  /\ stack' = IF Head(pending) = "headend"
              THEN SubSeq(stack, 1, Len(stack) - 2) ELSE stack
  /\ Handled(Head(pending)) /\ UNCHANGED <<pc, broken>>

\* A document type calls no handler; the elements of the head, whose contexts
\* are gone again, are not told apart.
OtherMarkup ==
  /\ pc = "parsing" /\ ~broken /\ pending # << >>
  /\ Head(pending) \notin {"html", "open", "close", "bad"}
  /\ Handled(Head(pending)) /\ UNCHANGED <<pc, stack, broken>>

ReportError ==
  /\ pc = "parsing" /\ ~broken
  /\ \/ pending # << >> /\ Head(pending) = "bad"
     \/ pending # << >> /\ Head(pending) = "close" /\ Len(stack) = 1
     \/ pending = << >> /\ last /\ (Len(stack) > 1 \/ handled = << >>)
  /\ broken' = TRUE
  /\ UNCHANGED <<app, call, root, stack, pending, handled, pc, rval, done>>

\* The parser may keep for the next call what it cannot be sure of yet, but
\* nothing in the last one.
ParserReturns ==
  /\ pc = "parsing"
  /\ \/ broken
     \/ ~last
     \/ pending = << >> /\ Len(stack) = 1 /\ handled # << >>
  /\ Returned(IF broken THEN "failed" ELSE "success")
  /\ UNCHANGED <<app, call, root, parser>>

-----------------------------------------------------------------------------
(* rdfa_parse_end frees the contexts above the root that an error has left *)
(* on the stack, and the parser; the application frees the root.           *)
ParseEnd ==
  /\ pc = "end" /\ pc' = "returned"
  /\ stack' = << >> /\ pending' = << >>
  /\ UNCHANGED <<app, call, root, broken, handled, rval, done>>

FreeContext ==
  /\ pc = "returned" /\ pc' = "freed"
  /\ UNCHANGED <<app, call, root, parser, rval, done>>

Next ==
  \/ ParseStart \/ Read \/ ParseChunk
  \/ StartElement \/ EndElement \/ OtherMarkup \/ ReportError \/ ParserReturns
  \/ ParseEnd \/ FreeContext

\* One thread runs the calls, the filler and the parser: it does not stop
\* between two steps.
Spec == Init /\ [][Next]_vars /\ WF_vars(Next)

-----------------------------------------------------------------------------
(***************************************************************************)
(* Type correctness of the root context, the calls and the parser.         *)
(***************************************************************************)
TypeOK ==
  /\ document \in Documents /\ handled \in Seq(Tokens)
  /\ input \in Seq(Tokens) /\ chunk \in Seq(Tokens)
  /\ pending \in Seq(Tokens)
  /\ last \in BOOLEAN /\ done \in BOOLEAN
  /\ preread \in BOOLEAN /\ broken \in BOOLEAN
  /\ pc \in {"new", "read", "parse", "parsing", "end", "returned", "freed",
             "crashed"}
  /\ rval \in {"none", "success", "failed"}
  /\ version \in {"none", "1.0", "1.1"}
  /\ host \in {"none", "XML1", "XHTML1", "HTML"}
  /\ base \in {"given", "document", "empty"}
  /\ stack \in Seq({"given", "document", "empty"})
  /\ wb_position \in 0 .. Len(document)
  /\ pc \in {"read", "parse", "parsing"} => stack # << >>

(***************************************************************************)
(* The calls of all three kinds implement the stream: nothing is lost,     *)
(* handled twice or out of order between the chunk that creates the parser *)
(* and those that feed it, whatever the filler returns and the parser      *)
(* keeps, and every parse comes to its end.                                *)
(***************************************************************************)
Places(d, tokens) == {i \in DOMAIN d : d[i] \in tokens}

Depth(d) ==
  Cardinality(Places(d, {"html", "open"})) - Cardinality(Places(d, {"close"}))

IsBad(d, i) ==
  d[i] = "bad" \/ (d[i] = "close" /\ Depth(SubSeq(d, 1, i - 1)) = 0)

IsOpen(d) == d # << >> /\ Depth(d) # 0

MayCrash(d) == Holds(d, "fragmentbase")

Stream ==
  INSTANCE RdfaStream WITH
    result <- IF pc \in {"end", "returned", "freed"} THEN rval
              ELSE IF pc = "crashed" THEN "crashed" ELSE "none"

StreamSpec == Stream!Spec

(***************************************************************************)
(* rdfa_parse returns, and so do the calls of an application that sends    *)
(* its document to the end.                                                *)
(***************************************************************************)
ParseReturns == <>(pc \in {"freed", "crashed"})

(***************************************************************************)
(* If the first chunk reaches the end of the head, all elements are        *)
(* processed in the version, for the host language and with the base that  *)
(* the head announces, however the rest is cut: the document type counts   *)
(* before <html>, and an empty href is no base.                            *)
(***************************************************************************)
Announced(d) ==
  [version |-> IF Holds(d, "dtd10") THEN "1.0" ELSE "1.1",
   host |-> IF Holds(d, "dtd10") \/ Holds(d, "dtd11") THEN "XHTML1"
            ELSE IF Holds(d, "html") THEN "HTML" ELSE "XML1",
   base |-> IF Holds(d, "base") THEN "document"
            ELSE IF Holds(d, "fragmentbase") THEN "empty" ELSE "given"]

ModeAsAnnounced ==
  preread /\ Holds(SubSeq(document, 1, wb_position), "headend") =>
    [version |-> version, host |-> host, base |-> base] = Announced(document)

\* The head of a document comes before its end tag.
HeadsFirst ==
  \A d \in Documents : \A i, j \in DOMAIN d :
    /\ d[i] = "headend"
    /\ d[j] \in {"dtd10", "dtd11", "html", "base", "emptybase", "fragmentbase"}
    => j < i

(***************************************************************************)
(* A handler finds no context to work in only if the document's base is a  *)
(* fragment and the first chunk reaches the end of the head.               *)
(***************************************************************************)
CrashNeedsFragmentBase ==
  pc = "crashed" =>
    LET seen == SubSeq(document, 1, wb_position)
    IN  Holds(seen, "fragmentbase") /\ Holds(seen, "headend")

(***************************************************************************)
(* The comment at c/rdfa.c:1424, "continue looking if in first 131072      *)
(* bytes of data": the base is found wherever the head is cut.             *)
(***************************************************************************)
BaseIsFound ==
  Holds(handled, "headend") => base = Announced(document).base
=============================================================================
