------------------------ MODULE RdfaLifeCycleProofs ------------------------
(***************************************************************************)
(* Theorems about RdfaLifeCycle.  At every moment of a parse, what has     *)
(* been handled, what the XML parser holds, the chunk in hand and what has *)
(* not been read yet make up the document, in this order; from there the   *)
(* steps of the calls and the parser implement those of the stream.        *)
(***************************************************************************)
EXTENDS RdfaLifeCycle, FiniteSetTheorems, TLAPS

Active == {"read", "parse", "parsing"}

\* The base that rdfa_init_base finds in the first chunk.
BaseIn(s) ==
  IF ~Holds(s, "headend") THEN "given"
  ELSE IF Holds(s, "base") THEN "document"
  ELSE IF Holds(s, "fragmentbase") THEN "empty"
  ELSE "given"

DocumentInv ==
  /\ pc = "new" => input = document /\ ~preread
  /\ pc \in {"read", "parsing"} => document = handled \o (pending \o input)
  /\ pc = "parse" => document = handled \o (pending \o (chunk \o input))

\* Before the first chunk nothing has happened to the context.
FirstInv ==
  ~preread => /\ pc \in {"new", "read", "parse"}
              /\ handled = << >> /\ pending = << >> /\ ~broken
              /\ wb_position = 0 /\ base = "given"

SeenInv ==
  preread =>
    LET seen == SubSeq(document, 1, wb_position)
    IN  /\ version = Sniff(seen).version /\ host = Sniff(seen).host
        /\ base = BaseIn(seen)

BaseInv ==
  /\ pc \in Active => \A i \in DOMAIN stack : stack[i] = base
  /\ pc = "crashed" => preread /\ base = "empty"

CallInv ==
  /\ pc \in Active => ~done
  /\ pc \in {"parse", "parsing"} /\ last => input = << >>
  /\ pc = "parse" /\ last /\ ~preread => chunk = << >>

\* Where the stream would fail.
Failing(d, h) ==
  \/ Len(h) < Len(d) /\ IsBad(d, Len(h) + 1)
  \/ h = d /\ (IsOpen(d) \/ d = << >>)

ErrorInv ==
  /\ pc \in Active => Len(stack) = Depth(handled) + 1
  /\ broken => Failing(document, handled)

Inv ==
  /\ TypeOK /\ DocumentInv /\ FirstInv /\ SeenInv
  /\ BaseInv /\ CallInv /\ ErrorInv

-----------------------------------------------------------------------------
(* Sequences of tokens.                                                    *)

LEMMA Concatenation ==
  ASSUME NEW a \in Seq(Tokens), NEW b \in Seq(Tokens)
  PROVE  /\ a \o b \in Seq(Tokens) /\ Len(a \o b) = Len(a) + Len(b)
         /\ \A i \in 1 .. Len(a) : (a \o b)[i] = a[i]
         /\ \A i \in 1 .. Len(b) : (a \o b)[Len(a) + i] = b[i]
OBVIOUS

LEMMA SameSequence ==
  ASSUME NEW a \in Seq(Tokens), NEW b \in Seq(Tokens), Len(a) = Len(b),
         \A i \in 1 .. Len(b) : a[i] = b[i]
  PROVE  a = b
OBVIOUS

LEMMA CutInTwo ==
  ASSUME NEW s \in Seq(Tokens), NEW n \in 0 .. Len(s)
  PROVE  /\ SubSeq(s, 1, n) \in Seq(Tokens)
         /\ SubSeq(s, n + 1, Len(s)) \in Seq(Tokens)
         /\ SubSeq(s, 1, n) \o SubSeq(s, n + 1, Len(s)) = s
         /\ n = 0 => SubSeq(s, 1, n) = << >>
<1>1. /\ SubSeq(s, 1, n) \in Seq(Tokens) /\ Len(SubSeq(s, 1, n)) = n
      /\ \A i \in 1 .. n : SubSeq(s, 1, n)[i] = s[i]
  OBVIOUS
<1>2. /\ SubSeq(s, n + 1, Len(s)) \in Seq(Tokens)
      /\ Len(SubSeq(s, n + 1, Len(s))) = Len(s) - n
      /\ \A i \in 1 .. Len(s) - n : SubSeq(s, n + 1, Len(s))[i] = s[n + i]
  OBVIOUS
<1>3. n = 0 => SubSeq(s, 1, n) = << >>
  BY <1>1
<1>4. SubSeq(s, 1, n) \o SubSeq(s, n + 1, Len(s)) = s
  <2> DEFINE a == SubSeq(s, 1, n)
             b == SubSeq(s, n + 1, Len(s))
  <2>1. /\ a \in Seq(Tokens) /\ Len(a) = n /\ b \in Seq(Tokens)
        /\ Len(b) = Len(s) - n /\ Len(s) \in Nat
    BY <1>1, <1>2
  <2>2. \A i \in 1 .. n : a[i] = s[i]
    BY <1>1
  <2>3. \A i \in 1 .. Len(s) - n : b[i] = s[n + i]
    BY <1>2
  <2> HIDE DEF a, b
  <2>4. /\ a \o b \in Seq(Tokens) /\ Len(a \o b) = Len(a) + Len(b)
        /\ \A i \in 1 .. Len(a) : (a \o b)[i] = a[i]
        /\ \A i \in 1 .. Len(b) : (a \o b)[Len(a) + i] = b[i]
    BY <2>1, Concatenation
  <2>5. ASSUME NEW i \in 1 .. Len(s) PROVE (a \o b)[i] = s[i]
    <3>1. CASE i <= n
      BY <2>1, <2>2, <2>4, <3>1
    <3>2. CASE i > n
      <4>1. i - n \in 1 .. Len(s) - n /\ n + (i - n) = i
        BY <2>1, <3>2
      <4>2. (a \o b)[n + (i - n)] = b[i - n]
        BY <2>1, <2>4, <4>1
      <4>3. b[i - n] = s[n + (i - n)]
        BY <2>3, <4>1
      <4> QED BY <4>1, <4>2, <4>3
    <3> QED BY <2>1, <3>1, <3>2
  <2>6. Len(a \o b) = Len(s)
    BY <2>1, <2>4
  <2>7. a \o b = s
    BY <2>4, <2>5, <2>6, SameSequence
  <2> QED BY <2>7 DEF a, b
<1> QED BY <1>1, <1>2, <1>3, <1>4

LEMMA HandOver ==
  ASSUME NEW h \in Seq(Tokens), NEW p \in Seq(Tokens), NEW i \in Seq(Tokens),
         p # << >>
  PROVE  Append(h, Head(p)) \o (Tail(p) \o i) = h \o (p \o i)
BY SMTT(30)

LEMMA NextToken ==
  ASSUME NEW h \in Seq(Tokens), NEW p \in Seq(Tokens), NEW i \in Seq(Tokens),
         NEW d, d = h \o (p \o i), p # << >>
  PROVE  /\ Len(h) < Len(d) /\ d[Len(h) + 1] = Head(p)
         /\ SubSeq(d, 1, Len(h)) = h
OBVIOUS

LEMMA Associative ==
  ASSUME NEW p \in Seq(Tokens), NEW c \in Seq(Tokens), NEW i \in Seq(Tokens)
  PROVE  (p \o c) \o i = p \o (c \o i)
OBVIOUS

LEMMA NothingLeft ==
  ASSUME NEW h \in Seq(Tokens)
  PROVE  /\ h \o (<< >> \o << >>) = h
         /\ << >> \o (<< >> \o h) = h
OBVIOUS

LEMMA FirstChunk ==
  ASSUME NEW c \in Seq(Tokens), NEW i \in Seq(Tokens), NEW d,
         d = << >> \o (<< >> \o (c \o i))
  PROVE  /\ SubSeq(d, 1, Len(c)) = c /\ Len(c) <= Len(d)
         /\ d = << >> \o (c \o i)
OBVIOUS

LEMMA SeenHolds ==
  ASSUME NEW d \in Seq(Tokens), NEW n \in 0 .. Len(d), NEW t,
         Holds(SubSeq(d, 1, n), t)
  PROVE  Holds(d, t)
<1>1. /\ SubSeq(d, 1, n) \in Seq(Tokens) /\ Len(SubSeq(d, 1, n)) = n
      /\ \A i \in 1 .. n : SubSeq(d, 1, n)[i] = d[i]
  OBVIOUS
<1>2. PICK i \in DOMAIN SubSeq(d, 1, n) : SubSeq(d, 1, n)[i] = t
  BY DEF Holds
<1>3. i \in 1 .. n /\ i \in DOMAIN d
  BY <1>1, <1>2
<1> QED BY <1>1, <1>2, <1>3 DEF Holds

LEMMA HeadSeen ==
  ASSUME HeadsFirst, NEW d \in Documents, NEW n \in 0 .. Len(d),
         NEW t \in {"dtd10", "dtd11", "html", "base", "emptybase",
                    "fragmentbase"},
         Holds(SubSeq(d, 1, n), "headend"), Holds(d, t)
  PROVE  Holds(SubSeq(d, 1, n), t)
<1>1. d \in Seq(Tokens)
  BY LifeCycleAssumption
<1>2. /\ SubSeq(d, 1, n) \in Seq(Tokens) /\ Len(SubSeq(d, 1, n)) = n
      /\ \A i \in 1 .. n : SubSeq(d, 1, n)[i] = d[i]
  BY <1>1
<1>3. PICK i \in DOMAIN SubSeq(d, 1, n) : SubSeq(d, 1, n)[i] = "headend"
  BY DEF Holds
<1>4. i \in 1 .. n /\ i \in DOMAIN d /\ d[i] = "headend"
  BY <1>1, <1>2, <1>3
<1>5. PICK j \in DOMAIN d : d[j] = t
  BY DEF Holds
<1>6. j < i
  BY <1>4, <1>5 DEF HeadsFirst
<1>7. j \in 1 .. n /\ j \in DOMAIN SubSeq(d, 1, n)
  BY <1>1, <1>2, <1>4, <1>5, <1>6
<1> QED BY <1>2, <1>5, <1>7 DEF Holds

LEMMA PlacesAppend ==
  ASSUME NEW d \in Seq(Tokens), NEW t \in Tokens, NEW T
  PROVE  /\ IsFiniteSet(Places(d, T)) /\ Cardinality(Places(d, T)) \in Nat
         /\ Cardinality(Places(Append(d, t), T)) =
              Cardinality(Places(d, T)) + (IF t \in T THEN 1 ELSE 0)
<1>1. IsFiniteSet(Places(d, T)) /\ Cardinality(Places(d, T)) \in Nat
  <2>1. IsFiniteSet(1 .. Len(d))
    BY FS_Interval
  <2>2. Places(d, T) \subseteq 1 .. Len(d)
    BY DEF Places
  <2> QED BY <2>1, <2>2, FS_Subset, FS_CardinalityType
<1>2. Len(d) + 1 \notin Places(d, T)
  BY DEF Places
<1>3. Places(Append(d, t), T) =
        IF t \in T THEN Places(d, T) \cup {Len(d) + 1} ELSE Places(d, T)
  BY DEF Places
<1>4. Cardinality(Places(d, T) \cup {Len(d) + 1}) =
        Cardinality(Places(d, T)) + 1
  BY <1>1, <1>2, FS_AddElement
<1> QED BY <1>1, <1>3, <1>4

LEMMA DepthAppend ==
  ASSUME NEW d \in Seq(Tokens), NEW t \in Tokens
  PROVE  /\ Depth(d) \in Int
         /\ Depth(Append(d, t)) =
              IF t \in {"html", "open"} THEN Depth(d) + 1
              ELSE IF t = "close" THEN Depth(d) - 1 ELSE Depth(d)
<1>1. /\ Cardinality(Places(d, {"html", "open"})) \in Nat
      /\ Cardinality(Places(Append(d, t), {"html", "open"})) =
           Cardinality(Places(d, {"html", "open"}))
             + (IF t \in {"html", "open"} THEN 1 ELSE 0)
  BY PlacesAppend
<1>2. /\ Cardinality(Places(d, {"close"})) \in Nat
      /\ Cardinality(Places(Append(d, t), {"close"})) =
           Cardinality(Places(d, {"close"}))
             + (IF t \in {"close"} THEN 1 ELSE 0)
  BY PlacesAppend
<1> QED BY <1>1, <1>2 DEF Depth

LEMMA DepthEmpty == Depth(<< >>) = 0
<1>1. Places(<< >>, {"html", "open"}) = {} /\ Places(<< >>, {"close"}) = {}
  BY DEF Places
<1>2. Cardinality({}) = 0
  BY FS_EmptySet
<1>3. Depth(<< >>) = Cardinality({}) - Cardinality({})
  BY <1>1 DEF Depth
<1> QED BY <1>2, <1>3

LEMMA InvInit == Init => Inv
<1> SUFFICES ASSUME Init PROVE Inv
  OBVIOUS
<1>1. document \in Seq(Tokens) /\ Len(document) \in Nat
  BY LifeCycleAssumption DEF Init
<1>2. << >> \in Seq(Tokens) /\ << >> \in Seq({"given", "document", "empty"})
  OBVIOUS
<1>3. wb_position \in 0 .. Len(document)
  BY <1>1 DEF Init
<1>4. TypeOK
  BY <1>1, <1>2, <1>3, Zenon DEF Init, TypeOK
<1>5. DocumentInv /\ FirstInv
  BY DEF Init, DocumentInv, FirstInv
<1>6. SeenInv /\ BaseInv
  BY DEF Init, SeenInv, BaseInv, Active
<1>7. CallInv /\ ErrorInv
  BY DEF Init, CallInv, ErrorInv, Active
<1> QED BY <1>4, <1>5, <1>6, <1>7 DEF Inv

-----------------------------------------------------------------------------
(* The calls.                                                              *)

LEMMA ParseStartKeeps ==
  ASSUME Inv, ParseStart
  PROVE  Inv'
<1>1. /\ handled = << >> /\ pending = << >> /\ ~preread /\ ~broken
      /\ input = document /\ document \in Seq(Tokens)
      /\ base \in {"given", "document", "empty"}
  BY LifeCycleAssumption DEF Inv, TypeOK, FirstInv, DocumentInv, ParseStart
<1>2. stack' = <<base>> /\ Len(stack') = 1 /\ stack' # << >>
      /\ stack' \in Seq({"given", "document", "empty"})
  BY <1>1 DEF ParseStart
<1>3. TypeOK'
  <2>1. /\ UNCHANGED <<document, api, input, chunk, last, base, preread,
                       wb_position, pending, broken, handled>>
        /\ done' = FALSE /\ version' = "1.1" /\ host' = "XML1"
        /\ rval' = "success" /\ pc' = "read"
    BY DEF ParseStart, app, call
  <2> QED BY <1>2, <2>1, Zenon DEF Inv, TypeOK
<1>4. DocumentInv'
  BY <1>1, NothingLeft DEF DocumentInv, ParseStart, app, call
<1>5. FirstInv' /\ SeenInv'
  BY <1>1 DEF Inv, FirstInv, SeenInv, ParseStart, app, call
<1>6. BaseInv' /\ CallInv'
  BY <1>1, <1>2 DEF BaseInv, CallInv, ParseStart, app, call, Active
<1>7. ErrorInv'
  BY <1>1, <1>2, DepthEmpty DEF ErrorInv, ParseStart, app, call, Active
<1> QED BY <1>3, <1>4, <1>5, <1>6, <1>7 DEF Inv

LEMMA ReadKeeps ==
  ASSUME Inv, Read
  PROVE  Inv'
<1>1. /\ input \in Seq(Tokens) /\ handled \in Seq(Tokens)
      /\ pending \in Seq(Tokens)
  BY DEF Inv, TypeOK
<1>2. PICK n \in 0 .. Len(input) :
        /\ chunk' = SubSeq(input, 1, n)
        /\ input' = SubSeq(input, n + 1, Len(input))
        /\ last' \in BOOLEAN
        /\ last' => input' = << >>
        /\ last' /\ ~preread => chunk' = << >>
  <2>1. PICK n \in 0 .. Len(input) :
          /\ chunk' = SubSeq(input, 1, n)
          /\ input' = SubSeq(input, n + 1, Len(input))
          /\ IF api = "rdfa_parse_chunk"
             THEN /\ last' \in BOOLEAN /\ (last' => input' = << >> /\ preread)
                  /\ n > 0 \/ last' \/ ~preread
             ELSE /\ last' = (n = 0)
                  /\ n <= BufferSize /\ (n = 0 => input = << >>)
    BY DEF Read
  <2>2. CASE api = "rdfa_parse_chunk"
    BY <2>1, <2>2
  <2>3. CASE api # "rdfa_parse_chunk"
    <3>1. last' = (n = 0) /\ (n = 0 => input = << >>)
      BY <2>1, <2>3
    <3>2. last' \in BOOLEAN
      BY <3>1
    <3>3. n = 0 => chunk' = << >>
      BY <1>1, <2>1, CutInTwo
    <3>4. n = 0 => input' = << >>
      BY <1>1, <2>1, <3>1
    <3> QED BY <2>1, <3>1, <3>2, <3>3, <3>4
  <2> QED BY <2>2, <2>3
<1>3. /\ chunk' \in Seq(Tokens) /\ input' \in Seq(Tokens)
      /\ chunk' \o input' = input
  BY <1>1, <1>2, CutInTwo
<1>4. /\ pc = "read" /\ pc' = "parse"
      /\ UNCHANGED <<app, root, parser, rval, done>>
  BY DEF Read
<1>5. TypeOK'
  BY <1>2, <1>3, <1>4, ZenonT(30) DEF Inv, TypeOK, app, root, parser
<1>6. DocumentInv'
  BY <1>3, <1>4 DEF Inv, DocumentInv, app, parser, root
<1>7. FirstInv' /\ SeenInv' /\ BaseInv' /\ ErrorInv'
  BY <1>4 DEF Inv, FirstInv, SeenInv, BaseInv, ErrorInv, app, parser, root,
          Active
<1>8. CallInv'
  BY <1>2, <1>4 DEF Inv, CallInv, app, parser, root, Active
<1> QED BY <1>5, <1>6, <1>7, <1>8 DEF Inv

LEMMA AfterReturned ==
  ASSUME NEW r \in {"success", "failed"}, Returned(r),
         last \in BOOLEAN, done \in BOOLEAN, ~done
  PROVE  /\ rval' \in {"success", "failed"} /\ pc' \in {"end", "read"}
         /\ done' \in BOOLEAN /\ (pc' = "read" => ~done' /\ ~last)
<1>1. /\ rval' = r
      /\ done' = (IF api = "rdfa_parse_chunk" THEN done ELSE last)
      /\ pc' = IF last \/ (api = "rdfa_parse" /\ r = "failed")
               THEN "end" ELSE "read"
  BY DEF Returned
<1>2. done' = done \/ done' = last
  BY <1>1
<1>3. pc' = "end" \/ (pc' = "read" /\ ~last)
  BY <1>1
<1> QED BY <1>1, <1>2, <1>3

LEMMA ParseChunkKeeps ==
  ASSUME Inv, ParseChunk
  PROVE  Inv'
<1>1. /\ pc = "parse" /\ ~done /\ UNCHANGED <<document, api>>
      /\ UNCHANGED <<input, chunk, last>>
  BY DEF Inv, CallInv, Active, ParseChunk, app, call
<1>2. /\ input \in Seq(Tokens) /\ chunk \in Seq(Tokens)
      /\ handled \in Seq(Tokens) /\ pending \in Seq(Tokens)
      /\ document = handled \o (pending \o (chunk \o input))
      /\ last \in BOOLEAN /\ (last => input = << >>)
  BY <1>1 DEF Inv, TypeOK, DocumentInv, CallInv
<1>3. CASE ~preread
  <2>1. /\ PrereadChunk /\ Returned("success")
    BY <1>1, <1>3 DEF ParseChunk
  <2>2. /\ handled = << >> /\ pending = << >> /\ ~broken /\ wb_position = 0
        /\ base = "given" /\ (last => chunk = << >>)
    BY <1>1, <1>3 DEF Inv, FirstInv, CallInv
  <2>3. /\ SubSeq(document, 1, Len(chunk)) = chunk
        /\ Len(chunk) \in 0 .. Len(document)
        /\ document = << >> \o (chunk \o input)
    <3>1. document = << >> \o (<< >> \o (chunk \o input))
      BY <1>2, <2>2
    <3>2. /\ SubSeq(document, 1, Len(chunk)) = chunk
          /\ Len(chunk) <= Len(document)
          /\ document = << >> \o (chunk \o input)
      BY <1>2, <3>1, FirstChunk
    <3>3. Len(chunk) \in Nat /\ Len(document) \in Nat
      BY <1>2, <3>1
    <3> QED BY <3>2, <3>3
  <2>4. /\ wb_position' = Len(chunk) /\ pending' = chunk /\ preread'
        /\ UNCHANGED <<broken, handled>> /\ stack' = <<base'>>
        /\ base' = BaseIn(chunk)
        /\ version' = Sniff(chunk).version /\ host' = Sniff(chunk).host
    <3>1. Len(chunk) \in Nat
      BY <1>2
    <3>2. wb_position' = Len(chunk)
      BY <2>1, <2>2, <3>1 DEF PrereadChunk
    <3> QED BY <2>1, <2>2, <3>2 DEF PrereadChunk, SniffBase, BaseIn
  <2>5. /\ rval' \in {"success", "failed"} /\ pc' \in {"end", "read"}
        /\ done' \in BOOLEAN /\ (pc' = "read" => ~done' /\ ~last)
    <3>1. done \in BOOLEAN
      BY DEF Inv, TypeOK
    <3> QED BY <1>1, <1>2, <2>1, <3>1, AfterReturned
  <2>6. /\ base' \in {"given", "document", "empty"}
        /\ version' \in {"none", "1.0", "1.1"}
        /\ host' \in {"none", "XML1", "XHTML1", "HTML"}
    BY <2>4 DEF BaseIn, Sniff
  <2>7. /\ stack' \in Seq({"given", "document", "empty"}) /\ stack' # << >>
        /\ Len(stack') = 1 /\ \A i \in DOMAIN stack' : stack'[i] = base'
    BY <2>4, <2>6
  <2>8. pc' \in {"end", "read"}
    BY <2>5
  <2>9. preread' \in BOOLEAN
    BY <2>1 DEF PrereadChunk
  <2>10. TypeOK'
    BY <1>1, <2>3, <2>4, <2>5, <2>6, <2>7, <2>8, <2>9, <1>2, Zenon
    DEF Inv, TypeOK
  <2>11. DocumentInv'
    BY <1>1, <2>2, <2>3, <2>4, <2>8 DEF DocumentInv
  <2>12. FirstInv' /\ SeenInv'
    BY <1>1, <2>3, <2>4 DEF FirstInv, SeenInv
  <2>13. BaseInv' /\ CallInv'
    BY <2>5, <2>7, <2>8 DEF BaseInv, CallInv, Active
  <2>14. ErrorInv'
    BY <2>2, <2>4, <2>7, DepthEmpty DEF ErrorInv
  <2> QED BY <2>10, <2>11, <2>12, <2>13, <2>14 DEF Inv
<1>4. CASE preread
  <2>1. /\ pending' = pending \o chunk /\ pc' = "parsing"
        /\ UNCHANGED <<version, host, base, preread, wb_position, stack,
                       broken, handled, rval, done>>
    BY <1>1, <1>4 DEF ParseChunk, root
  <2>2. /\ pending' \in Seq(Tokens)
        /\ pending' \o input = pending \o (chunk \o input)
    BY <1>2, <2>1, Concatenation, Associative
  <2>3. stack # << >>
    BY <1>1 DEF Inv, TypeOK
  <2>4. TypeOK'
    BY <1>1, <2>1, <2>2, <2>3, ZenonT(30) DEF Inv, TypeOK
  <2>5. DocumentInv'
    BY <1>1, <1>2, <2>1, <2>2 DEF DocumentInv
  <2>6. FirstInv' /\ SeenInv' /\ ErrorInv'
    BY <1>1, <1>4, <2>1 DEF Inv, FirstInv, SeenInv, ErrorInv, Active
  <2>7. BaseInv' /\ CallInv'
    BY <1>1, <1>2, <2>1 DEF Inv, BaseInv, CallInv, Active
  <2> QED BY <2>4, <2>5, <2>6, <2>7 DEF Inv
<1> QED BY <1>3, <1>4

LEMMA ReturnKeeps ==
  ASSUME Inv, ParserReturns
  PROVE  Inv'
<1>1. /\ UNCHANGED <<document, api, input, chunk, last, version, host, base,
                     preread, wb_position, stack, pending, broken, handled>>
      /\ pc = "parsing" /\ Returned(IF broken THEN "failed" ELSE "success")
  BY DEF ParserReturns, app, call, root, parser
<1>2. /\ last \in BOOLEAN /\ done \in BOOLEAN /\ ~done
      /\ preread /\ stack # << >>
  BY <1>1 DEF Inv, TypeOK, CallInv, FirstInv, Active
<1>3. /\ rval' \in {"success", "failed"} /\ pc' \in {"end", "read"}
      /\ done' \in BOOLEAN /\ (pc' = "read" => ~done' /\ ~last)
  BY <1>1, <1>2, AfterReturned
<1>4. TypeOK'
  BY <1>1, <1>2, <1>3, ZenonT(30) DEF Inv, TypeOK
<1>5. DocumentInv' /\ FirstInv' /\ SeenInv'
  BY <1>1, <1>2, <1>3 DEF Inv, DocumentInv, FirstInv, SeenInv
<1>6. BaseInv' /\ CallInv' /\ ErrorInv'
  BY <1>1, <1>2, <1>3 DEF Inv, BaseInv, CallInv, ErrorInv, Active
<1> QED BY <1>4, <1>5, <1>6 DEF Inv

LEMMA EndKeeps ==
  ASSUME Inv, ParseEnd \/ FreeContext
  PROVE  Inv'
<1>1. /\ UNCHANGED <<document, api, input, chunk, last, version, host, base,
                     preread, wb_position, broken, handled, rval, done>>
      /\ pc \in {"end", "returned"} /\ pc' \in {"returned", "freed"}
      /\ stack' = << >> \/ stack' = stack
      /\ pending' = << >> \/ pending' = pending
  BY DEF ParseEnd, FreeContext, app, call, root, parser
<1>2. /\ << >> \in Seq(Tokens) /\ << >> \in Seq({"given", "document", "empty"})
      /\ TypeOK
  BY DEF Inv
<1>3. TypeOK'
  <2>1. /\ pending' \in Seq(Tokens)
        /\ stack' \in Seq({"given", "document", "empty"})
    BY <1>1, <1>2 DEF TypeOK
  <2>2. /\ pc' \in {"new", "read", "parse", "parsing", "end", "returned",
                   "freed", "crashed"}
        /\ pc' \notin {"read", "parse", "parsing"}
    BY <1>1
  <2> QED BY <1>1, <1>2, <2>1, <2>2, ZenonT(60) DEF TypeOK
<1>4. DocumentInv' /\ FirstInv' /\ SeenInv'
  BY <1>1 DEF Inv, DocumentInv, FirstInv, SeenInv
<1>5. BaseInv' /\ CallInv' /\ ErrorInv'
  BY <1>1 DEF Inv, BaseInv, CallInv, ErrorInv, Active
<1> QED BY <1>3, <1>4, <1>5 DEF Inv

-----------------------------------------------------------------------------
(* The parser.                                                             *)

\* A token that is handled leaves the order of the document.
LEMMA HandledKeeps ==
  ASSUME Inv, pc = "parsing", ~broken, pending # << >>,
         Handled(Head(pending)), pc' = pc, broken' = broken
  PROVE  /\ DocumentInv' /\ FirstInv' /\ SeenInv' /\ CallInv'
         /\ handled' \in Seq(Tokens) /\ pending' \in Seq(Tokens)
         /\ Head(pending) \in Tokens /\ handled \in Seq(Tokens)
         /\ UNCHANGED <<document, api, input, chunk, last, version, host, base,
                        preread, wb_position, rval, done>>
<1>1. /\ handled \in Seq(Tokens) /\ pending \in Seq(Tokens)
      /\ input \in Seq(Tokens)
      /\ document = handled \o (pending \o input) /\ preread
  BY DEF Inv, TypeOK, DocumentInv, FirstInv
<1>2. /\ UNCHANGED <<document, api, input, chunk, last, version, host, base,
                     preread, wb_position, rval, done>>
      /\ handled' = Append(handled, Head(pending)) /\ pending' = Tail(pending)
  BY DEF Handled, app, call, root
<1>3. /\ handled' \in Seq(Tokens) /\ pending' \in Seq(Tokens)
      /\ Head(pending) \in Tokens
  BY <1>1, <1>2
<1>4. handled' \o (pending' \o input) = handled \o (pending \o input)
  BY <1>1, <1>2, HandOver
<1>5. DocumentInv'
  BY <1>1, <1>2, <1>4 DEF DocumentInv
<1>6. FirstInv' /\ SeenInv'
  BY <1>1, <1>2 DEF Inv, FirstInv, SeenInv
<1>7. CallInv'
  BY <1>2 DEF Inv, CallInv, Active
<1> QED BY <1>1, <1>2, <1>3, <1>5, <1>6, <1>7

LEMMA StartElementKeeps ==
  ASSUME Inv, StartElement
  PROVE  Inv'
<1>1. /\ pc = "parsing" /\ ~broken /\ pending # << >>
      /\ Head(pending) \in {"html", "open"}
  BY DEF StartElement
<1>2. /\ stack \in Seq({"given", "document", "empty"}) /\ stack # << >>
      /\ \A i \in DOMAIN stack : stack[i] = base
      /\ preread /\ Len(stack) = Depth(handled) + 1
      /\ base \in {"given", "document", "empty"}
  BY <1>1 DEF Inv, TypeOK, BaseInv, FirstInv, ErrorInv, Active
<1>3. Len(stack) \in DOMAIN stack /\ stack[Len(stack)] = base
  BY <1>2
<1>4. CASE stack[Len(stack)] = "empty"
  <2>1. /\ pc' = "crashed" /\ base = "empty"
        /\ UNCHANGED <<document, api, input, chunk, last, version, host, base,
                       preread, wb_position, stack, pending, broken, handled,
                       rval, done>>
    BY <1>3, <1>4 DEF StartElement, app, call, root, parser
  <2>2. TypeOK'
    BY <2>1, ZenonT(30) DEF Inv, TypeOK
  <2>3. DocumentInv' /\ FirstInv' /\ SeenInv'
    BY <1>2, <2>1 DEF Inv, DocumentInv, FirstInv, SeenInv
  <2>4. BaseInv' /\ CallInv' /\ ErrorInv'
    BY <1>2, <2>1 DEF Inv, BaseInv, CallInv, ErrorInv, Active
  <2> QED BY <2>2, <2>3, <2>4 DEF Inv
<1>5. CASE stack[Len(stack)] # "empty"
  <2>1. /\ stack' = Append(stack, base) /\ Handled(Head(pending))
        /\ pc' = pc /\ broken' = broken
    BY <1>3, <1>5 DEF StartElement
  <2>2. /\ DocumentInv' /\ FirstInv' /\ SeenInv' /\ CallInv'
        /\ handled' \in Seq(Tokens) /\ pending' \in Seq(Tokens)
        /\ Head(pending) \in Tokens /\ handled \in Seq(Tokens)
        /\ UNCHANGED <<document, api, input, chunk, last, version, host, base,
                       preread, wb_position, rval, done>>
    BY <1>1, <2>1, HandledKeeps
  <2>3. /\ stack' \in Seq({"given", "document", "empty"}) /\ stack' # << >>
        /\ Len(stack') = Len(stack) + 1 /\ Len(stack) \in Nat
        /\ \A i \in DOMAIN stack' : stack'[i] = base
    BY <1>2, <2>1
  <2>4. TypeOK'
    <3>1. TypeOK
      BY DEF Inv
    <3> QED BY <2>1, <2>2, <2>3, <3>1 DEF TypeOK
  <2>5. BaseInv'
    BY <1>1, <2>1, <2>2, <2>3 DEF BaseInv
  <2>6. Depth(handled') = Depth(handled) + 1
    BY <1>1, <2>1, <2>2, DepthAppend DEF Handled
  <2>7. ErrorInv'
    BY <1>1, <1>2, <2>1, <2>3, <2>6 DEF ErrorInv
  <2> QED BY <2>2, <2>4, <2>5, <2>7 DEF Inv
<1> QED BY <1>4, <1>5

LEMMA EndElementKeeps ==
  ASSUME Inv, EndElement
  PROVE  Inv'
<1>1. /\ pc = "parsing" /\ ~broken /\ pending # << >>
      /\ Head(pending) = "close" /\ Len(stack) > 1
      /\ stack' = SubSeq(stack, 1, Len(stack) - 1)
      /\ Handled(Head(pending)) /\ pc' = pc /\ broken' = broken
  BY DEF EndElement
<1>2. /\ stack \in Seq({"given", "document", "empty"})
      /\ \A i \in DOMAIN stack : stack[i] = base
      /\ Len(stack) = Depth(handled) + 1
  BY <1>1 DEF Inv, TypeOK, BaseInv, ErrorInv, Active
<1>3. /\ DocumentInv' /\ FirstInv' /\ SeenInv' /\ CallInv'
      /\ handled' \in Seq(Tokens) /\ pending' \in Seq(Tokens)
      /\ Head(pending) \in Tokens /\ handled \in Seq(Tokens)
      /\ UNCHANGED <<document, api, input, chunk, last, version, host, base,
                     preread, wb_position, rval, done>>
  BY <1>1, HandledKeeps
<1>4. /\ stack' \in Seq({"given", "document", "empty"}) /\ stack' # << >>
      /\ Len(stack') = Len(stack) - 1
      /\ \A i \in DOMAIN stack' : stack'[i] = base
  BY <1>1, <1>2
<1>5. TypeOK'
  BY <1>1, <1>3, <1>4, ZenonT(30) DEF Inv, TypeOK
<1>6. BaseInv'
  BY <1>1, <1>3, <1>4 DEF BaseInv
<1>7. Depth(handled') = Depth(handled) - 1 /\ Depth(handled) \in Int
  BY <1>1, <1>3, DepthAppend DEF Handled
<1>8. ErrorInv'
  BY <1>1, <1>2, <1>4, <1>7 DEF ErrorInv
<1> QED BY <1>3, <1>5, <1>6, <1>8 DEF Inv

LEMMA OtherMarkupKeeps ==
  ASSUME Inv, OtherMarkup
  PROVE  Inv'
<1>1. /\ pc = "parsing" /\ ~broken /\ pending # << >>
      /\ Head(pending) \notin {"html", "open", "close", "bad"}
      /\ Handled(Head(pending)) /\ pc' = pc /\ broken' = broken
      /\ stack' = stack
  BY DEF OtherMarkup
<1>2. /\ DocumentInv' /\ FirstInv' /\ SeenInv' /\ CallInv'
      /\ handled' \in Seq(Tokens) /\ pending' \in Seq(Tokens)
      /\ Head(pending) \in Tokens /\ handled \in Seq(Tokens)
      /\ UNCHANGED <<document, api, input, chunk, last, version, host, base,
                     preread, wb_position, rval, done>>
  BY <1>1, HandledKeeps
<1>3. TypeOK'
  BY <1>1, <1>2, ZenonT(30) DEF Inv, TypeOK
<1>4. Depth(handled') = Depth(handled)
  BY <1>1, <1>2, DepthAppend DEF Handled
<1>5. BaseInv' /\ ErrorInv'
  BY <1>1, <1>2, <1>4 DEF Inv, BaseInv, ErrorInv
<1> QED BY <1>2, <1>3, <1>5 DEF Inv

\* The parser reports an error only where the stream may fail.
LEMMA ReportsWhereFailing ==
  ASSUME Inv, ReportError
  PROVE  Failing(document, handled)
<1>0. /\ handled \in Seq(Tokens) /\ pc = "parsing"
      /\ stack \in Seq({"given", "document", "empty"})
  BY DEF Inv, TypeOK, ReportError
<1>1. /\ pending \in Seq(Tokens) /\ input \in Seq(Tokens)
      /\ document = handled \o (pending \o input)
      /\ Len(stack) = Depth(handled) + 1
      /\ last => input = << >>
  BY <1>0 DEF Inv, TypeOK, DocumentInv, ErrorInv, CallInv, Active
<1>4. Depth(handled) \in Int
  BY <1>0, DepthAppend DEF Tokens
<1>5. Len(stack) = Depth(handled) + 1
  BY <1>1
<1>2. CASE /\ pending # << >>
           /\ Head(pending) = "bad" \/ (Head(pending) = "close" /\ Len(stack) = 1)
  <2>1. /\ Len(handled) < Len(document)
        /\ document[Len(handled) + 1] = Head(pending)
        /\ SubSeq(document, 1, Len(handled)) = handled
    BY <1>0, <1>1, <1>2, NextToken
  <2>2. Len(handled) + 1 - 1 = Len(handled)
    BY <1>0
  <2>3. ASSUME Len(stack) = 1 PROVE Depth(handled) = 0
    <3>1. Depth(handled) + 1 = 1
      BY <1>5, <2>3, Zenon
    <3> QED BY <1>4, <3>1
  <2>4. IsBad(document, Len(handled) + 1)
    <3>1. CASE Head(pending) = "bad"
      BY <2>1, <3>1 DEF IsBad
    <3>2. CASE Head(pending) = "close" /\ Len(stack) = 1
      <4>1. SubSeq(document, 1, Len(handled) + 1 - 1) = handled
        BY <2>1, <2>2, Zenon
      <4>2. Depth(SubSeq(document, 1, Len(handled) + 1 - 1)) = 0
        BY <2>3, <3>2, <4>1, Zenon
      <4>3. document[Len(handled) + 1] = "close"
        BY <2>1, <3>2, Zenon
      <4> QED BY <4>2, <4>3 DEF IsBad
    <3> QED BY <1>2, <3>1, <3>2
  <2> QED BY <2>1, <2>4 DEF Failing
<1>3. CASE pending = << >> /\ last /\ (Len(stack) > 1 \/ handled = << >>)
  <2>1. document = handled
    BY <1>0, <1>1, <1>3, NothingLeft
  <2>2. Len(stack) > 1 => Depth(handled) # 0
    BY <1>4, <1>5
  <2>3. Len(stack) > 1 => IsOpen(handled)
    BY <2>2, DepthEmpty DEF IsOpen
  <2> QED BY <1>3, <2>1, <2>3 DEF Failing
<1> QED BY <1>2, <1>3 DEF ReportError

LEMMA ReportKeeps ==
  ASSUME Inv, ReportError
  PROVE  Inv'
<1>1. /\ UNCHANGED <<document, api, input, chunk, last, version, host, base,
                     preread, wb_position, stack, pending, handled, pc, rval,
                     done>>
      /\ broken' = TRUE /\ pc = "parsing"
  BY DEF ReportError, app, call, root
<1>2. preread
  BY <1>1 DEF Inv, FirstInv
<1>3. TypeOK'
  BY <1>1, ZenonT(30) DEF Inv, TypeOK
<1>4. DocumentInv' /\ FirstInv' /\ SeenInv'
  BY <1>1, <1>2 DEF Inv, DocumentInv, FirstInv, SeenInv
<1>5. BaseInv' /\ CallInv'
  BY <1>1, <1>2 DEF Inv, BaseInv, CallInv, Active
<1>6. ErrorInv'
  BY <1>1, ReportsWhereFailing DEF Inv, ErrorInv
<1> QED BY <1>3, <1>4, <1>5, <1>6 DEF Inv

LEMMA StutterKeeps ==
  ASSUME Inv, UNCHANGED vars
  PROVE  Inv'
<1>1. /\ UNCHANGED <<document, api, input, chunk, last, version, host, base,
                     preread, wb_position, stack, pending, broken, handled>>
      /\ UNCHANGED <<pc, rval, done>>
  BY DEF vars, app, call, root, parser
<1>2. TypeOK'
  <2>1. TypeOK
    BY DEF Inv
  <2> QED BY <1>1, <2>1 DEF TypeOK
<1>3. DocumentInv' /\ FirstInv' /\ SeenInv'
  BY <1>1 DEF Inv, DocumentInv, FirstInv, SeenInv
<1>4. BaseInv' /\ CallInv' /\ ErrorInv'
  BY <1>1 DEF Inv, BaseInv, CallInv, ErrorInv, Active
<1> QED BY <1>2, <1>3, <1>4 DEF Inv

LEMMA InvNext == Inv /\ [Next]_vars => Inv'
BY ParseStartKeeps, ReadKeeps, ParseChunkKeeps, StartElementKeeps,
   EndElementKeeps, OtherMarkupKeeps, ReportKeeps, ReturnKeeps, EndKeeps,
   StutterKeeps, Zenon DEF Next

LEMMA InvAlways == Spec => []Inv
BY InvInit, InvNext, PTL DEF Spec

-----------------------------------------------------------------------------
(***************************************************************************)
(* The root context, the calls and the parser keep their types: the        *)
(* position in the working buffer stays within the document and the        *)
(* handlers always find a context on the stack.                            *)
(***************************************************************************)
THEOREM LifeCycleTypeCorrect == Spec => []TypeOK
<1>1. Inv => TypeOK
  BY DEF Inv
<1> QED BY <1>1, InvAlways, PTL

(***************************************************************************)
(* rdfa_create_context fails only when the first chunk held the end of the *)
(* head and a base whose href is a fragment.                               *)
(***************************************************************************)
THEOREM CrashesNeedFragmentBases == Spec => []CrashNeedsFragmentBase
<1>1. Inv => CrashNeedsFragmentBase
  BY DEF Inv, BaseInv, SeenInv, CrashNeedsFragmentBase, BaseIn
<1> QED BY <1>1, InvAlways, PTL

-----------------------------------------------------------------------------
(* The stream.                                                             *)

\* The result that the stream sees.
Result == IF pc \in {"end", "returned", "freed"} THEN rval
          ELSE IF pc = "crashed" THEN "crashed" ELSE "none"

LEMMA StreamInit == Init => Stream!Init
BY DEF Init, Stream!Init

LEMMA StreamStutters ==
  ASSUME document' = document, handled' = handled, Result' = Result
  PROVE  UNCHANGED Stream!vars
BY DEF Stream!vars, Result

LEMMA StreamHandles ==
  ASSUME Inv, pc = "parsing", pending # << >>, Handled(Head(pending)),
         pc' = pc, Head(pending) # "bad",
         Head(pending) = "close" => Depth(handled) # 0
  PROVE  Stream!Handle
<1>1. /\ handled \in Seq(Tokens) /\ pending \in Seq(Tokens)
      /\ input \in Seq(Tokens)
      /\ document = handled \o (pending \o input)
  BY DEF Inv, TypeOK, DocumentInv
<1>2. /\ Len(handled) < Len(document)
      /\ document[Len(handled) + 1] = Head(pending)
      /\ SubSeq(document, 1, Len(handled)) = handled
  BY <1>1, NextToken
<1>3. SubSeq(document, 1, Len(handled) + 1 - 1) = handled
  <2>1. Len(handled) + 1 - 1 = Len(handled)
    BY <1>1
  <2> QED BY <1>2, <2>1, Zenon
<1>4. ~IsBad(document, Len(handled) + 1)
  <2>1. document[Len(handled) + 1] # "bad"
    BY <1>2, Zenon
  <2>2. document[Len(handled) + 1] = "close"
          => Depth(SubSeq(document, 1, Len(handled) + 1 - 1)) # 0
    <3>1. Depth(SubSeq(document, 1, Len(handled) + 1 - 1)) = Depth(handled)
      BY <1>3, Zenon
    <3> QED BY <1>2, <3>1, Zenon
  <2> QED BY <2>1, <2>2 DEF IsBad
<1>5. /\ handled' = Append(handled, document[Len(handled) + 1])
      /\ document' = document
  BY <1>2 DEF Handled, app
<1>6. Result = "none" /\ Result' = "none"
  BY DEF Result
<1> QED BY <1>2, <1>4, <1>5, <1>6 DEF Stream!Handle, Result

LEMMA StreamFails ==
  ASSUME Inv, Failing(document, handled), Result = "none", Result' = "failed",
         UNCHANGED <<document, handled>>
  PROVE  Stream!Fail
BY DEF Failing, Stream!Fail, Result

LEMMA StreamSucceeds ==
  ASSUME document = handled, ~IsOpen(document),
         Result = "none", Result' = "success", UNCHANGED <<document, handled>>
  PROVE  Stream!Succeed
BY DEF Stream!Succeed, Result

LEMMA StreamCrashes ==
  ASSUME MayCrash(document), Result = "none", Result' = "crashed",
         UNCHANGED <<document, handled>>
  PROVE  Stream!Crash
BY DEF Stream!Crash, Result

LEMMA StreamStep == Inv /\ [Next]_vars => [Stream!Next]_(Stream!vars)
<1> SUFFICES ASSUME Inv, [Next]_vars
             PROVE  [Stream!Next]_(Stream!vars)
  OBVIOUS
<1> USE DEF Stream!Next
<1>1. CASE ParseStart
  <2>1. document' = document /\ handled' = handled /\ Result' = Result
    BY <1>1 DEF ParseStart, Result, app
  <2> QED BY <2>1, StreamStutters
<1>2. CASE Read
  <2>1. document' = document /\ handled' = handled /\ Result' = Result
    BY <1>2 DEF Read, Result, app, parser
  <2> QED BY <2>1, StreamStutters
<1>3. CASE ParseChunk
  <2>1. /\ pc = "parse" /\ ~done /\ document' = document /\ Result = "none"
    BY <1>3 DEF Inv, CallInv, Active, ParseChunk, app, Result
  <2>2. CASE ~preread
    <3>1. PrereadChunk /\ Returned("success")
      BY <1>3, <2>1, <2>2 DEF ParseChunk
    <3>2. handled' = handled /\ handled = << >> /\ pending = << >>
      BY <2>2, <3>1 DEF PrereadChunk, Inv, FirstInv
    <3>3. CASE last
      <4>1. chunk = << >> /\ input = << >>
        BY <2>1, <2>2, <3>3 DEF Inv, CallInv
      <4>2. document = << >>
        BY <2>1, <3>2, <4>1 DEF Inv, DocumentInv
      <4>3. Result' = "success"
        BY <3>1, <3>3 DEF Returned, Result
      <4>4. ~IsOpen(document)
        BY <4>2 DEF IsOpen
      <4> QED BY <2>1, <3>2, <4>2, <4>3, <4>4, StreamSucceeds
    <3>4. CASE ~last
      <4>1. Result' = "none"
        BY <3>1, <3>4 DEF Returned, Result
      <4> QED BY <2>1, <3>2, <4>1, StreamStutters
    <3> QED BY <3>3, <3>4
  <2>3. CASE preread
    <3>1. handled' = handled /\ Result' = "none"
      BY <1>3, <2>1, <2>3 DEF ParseChunk, Result
    <3> QED BY <2>1, <3>1, StreamStutters
  <2> QED BY <2>2, <2>3
<1>4. CASE StartElement
  <2>1. CASE stack[Len(stack)] = "empty"
    <3>1. /\ pc' = "crashed" /\ UNCHANGED <<document, handled>>
          /\ pc = "parsing"
      BY <1>4, <2>1 DEF StartElement, app, parser
    <3>2. base = "empty" /\ preread
      <4>1. /\ stack \in Seq({"given", "document", "empty"}) /\ stack # << >>
            /\ \A i \in DOMAIN stack : stack[i] = base
        BY <3>1 DEF Inv, TypeOK, BaseInv, Active
      <4>2. preread
        BY <3>1 DEF Inv, FirstInv
      <4> QED BY <2>1, <4>1, <4>2
    <3>3. Holds(SubSeq(document, 1, wb_position), "fragmentbase")
      BY <3>2 DEF Inv, SeenInv, BaseIn
    <3>4. MayCrash(document)
      <4>1. /\ document \in Seq(Tokens) /\ wb_position \in 0 .. Len(document)
        BY LifeCycleAssumption DEF Inv, TypeOK
      <4> QED BY <3>3, <4>1, SeenHolds DEF MayCrash
    <3>5. Result = "none" /\ Result' = "crashed"
      BY <3>1 DEF Result
    <3> QED BY <3>1, <3>4, <3>5, StreamCrashes
  <2>2. CASE stack[Len(stack)] # "empty"
    <3>1. /\ pc = "parsing" /\ pending # << >> /\ Handled(Head(pending))
          /\ pc' = pc /\ Head(pending) \notin {"bad", "close"}
      BY <1>4, <2>2 DEF StartElement
    <3> QED BY <3>1, StreamHandles
  <2> QED BY <2>1, <2>2
<1>5. CASE EndElement
  <2>1. /\ pc = "parsing" /\ pending # << >> /\ Handled(Head(pending))
        /\ pc' = pc /\ Head(pending) = "close" /\ Len(stack) > 1
    BY <1>5 DEF EndElement
  <2>2. Len(stack) = Depth(handled) + 1
    BY <2>1 DEF Inv, ErrorInv, Active
  <2>3. ASSUME Depth(handled) = 0 PROVE FALSE
    <3>1. Len(stack) = 0 + 1
      BY <2>2, <2>3, Zenon
    <3> QED BY <2>1, <3>1
  <2> QED BY <2>1, <2>3, StreamHandles
<1>6. CASE OtherMarkup
  <2>1. /\ pc = "parsing" /\ pending # << >> /\ Handled(Head(pending))
        /\ pc' = pc /\ Head(pending) \notin {"bad", "close"}
    BY <1>6 DEF OtherMarkup
  <2> QED BY <2>1, StreamHandles
<1>7. CASE ReportError
  <2>1. document' = document /\ handled' = handled /\ Result' = Result
    BY <1>7 DEF ReportError, Result, app
  <2> QED BY <2>1, StreamStutters
<1>8. CASE ParserReturns
  <2>1. /\ pc = "parsing" /\ UNCHANGED <<document, handled>>
        /\ Returned(IF broken THEN "failed" ELSE "success")
        /\ Result = "none" /\ broken \in BOOLEAN
    BY <1>8 DEF ParserReturns, app, parser, Result, Inv, TypeOK
  <2>2. CASE pc' = "read"
    <3>1. Result' = "none"
      BY <2>2 DEF Result
    <3> QED BY <2>1, <3>1, StreamStutters
  <2>3. CASE pc' = "end" /\ broken
    <3>1. Result' = "failed"
      BY <2>1, <2>3 DEF Returned, Result
    <3>2. Failing(document, handled)
      BY <2>3 DEF Inv, ErrorInv
    <3> QED BY <2>1, <3>1, <3>2, StreamFails
  <2>4. CASE pc' = "end" /\ ~broken
    <3>1. Result' = "success"
      BY <2>1, <2>4 DEF Returned, Result
    <3>2. last
      BY <2>1, <2>4 DEF Returned
    <3>3. pending = << >> /\ Len(stack) = 1
      BY <1>8, <2>4, <3>2 DEF ParserReturns
    <3>4. document = handled
      <4>1. /\ handled \in Seq(Tokens) /\ input = << >>
            /\ document = handled \o (pending \o input)
        BY <2>1, <3>2 DEF Inv, TypeOK, DocumentInv, CallInv
      <4> QED BY <3>3, <4>1, NothingLeft
    <3>5. ~IsOpen(document)
      <4>1. Len(stack) = Depth(handled) + 1
        BY <2>1 DEF Inv, ErrorInv, Active
      <4>2. handled \in Seq(Tokens)
        BY DEF Inv, TypeOK
      <4>3. Depth(handled) \in Int
        BY <4>2, DepthAppend DEF Tokens
      <4>4. Depth(handled) + 1 = 1
        BY <3>3, <4>1, Zenon
      <4>5. Depth(handled) = 0
        BY <4>3, <4>4
      <4> QED BY <3>4, <4>5, Zenon DEF IsOpen
    <3> QED BY <2>1, <3>1, <3>4, <3>5, StreamSucceeds
  <2> QED BY <2>1, <2>2, <2>3, <2>4 DEF Returned
<1>9. CASE ParseEnd \/ FreeContext
  <2>1. document' = document /\ handled' = handled /\ Result' = Result
    BY <1>9 DEF ParseEnd, FreeContext, Result, app, parser
  <2> QED BY <2>1, StreamStutters
<1>10. CASE UNCHANGED vars
  <2>1. document' = document /\ handled' = handled /\ Result' = Result
    BY <1>10 DEF vars, Result, app, parser
  <2> QED BY <2>1, StreamStutters
<1> QED BY <1>1, <1>2, <1>3, <1>4, <1>5, <1>6, <1>7, <1>8, <1>9, <1>10
        DEF Next

(***************************************************************************)
(* Whichever functions bring the document and however it is cut, every tag *)
(* is handled once and in order, success means that the whole document has *)
(* been handled, and failure that the XML is wrong where the handlers      *)
(* stopped.                                                                *)
(***************************************************************************)
THEOREM CallsImplementStream ==
  Spec => Stream!Init /\ [][Stream!Next]_(Stream!vars)
<1>1. Init => Stream!Init
  BY StreamInit
<1>2. Inv /\ [Next]_vars => [Stream!Next]_(Stream!vars)
  BY StreamStep
<1> QED BY <1>1, <1>2, InvAlways, PTL DEF Spec

-----------------------------------------------------------------------------
(***************************************************************************)
(* In documents whose heads come before the end of the head, the version,  *)
(* the host language and the base are those of the whole document once the *)
(* first chunk has reached the end of its head.                            *)
(***************************************************************************)
THEOREM ModesAreAnnounced ==
  ASSUME HeadsFirst
  PROVE  Spec => []ModeAsAnnounced
<1>1. ASSUME Inv PROVE ModeAsAnnounced
  <2> SUFFICES ASSUME preread,
                      Holds(SubSeq(document, 1, wb_position), "headend")
               PROVE  [version |-> version, host |-> host, base |-> base] =
                        Announced(document)
    BY DEF ModeAsAnnounced
  <2> DEFINE seen == SubSeq(document, 1, wb_position)
  <2>1. /\ document \in Seq(Tokens) /\ wb_position \in 0 .. Len(document)
        /\ document \in Documents
    BY <1>1, LifeCycleAssumption DEF Inv, TypeOK
  <2>2. \A t \in {"dtd10", "dtd11", "html", "base", "emptybase",
                  "fragmentbase"} : Holds(document, t) <=> Holds(seen, t)
    BY <2>1, SeenHolds, HeadSeen
  <2>3. /\ version = Sniff(seen).version /\ host = Sniff(seen).host
        /\ base = BaseIn(seen)
    BY <1>1 DEF Inv, SeenInv
  <2> HIDE DEF seen
  <2>4. Sniff(seen) = [version |-> Announced(document).version,
                       host |-> Announced(document).host]
    BY <2>2 DEF Sniff, Announced
  <2>5. BaseIn(seen) = Announced(document).base
    BY <2>2 DEF BaseIn, Announced, seen
  <2> QED BY <2>3, <2>4, <2>5 DEF Announced
<1> QED BY <1>1, InvAlways, PTL
=============================================================================
