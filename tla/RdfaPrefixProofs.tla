-------------------------- MODULE RdfaPrefixProofs --------------------------
(***************************************************************************)
(* Proofs about the prefix mappings, for every document, every set of      *)
(* names and every capacity: the arrays hold no key twice, so that they    *)
(* implement the functions of RdfaScopes and fill up only with prefixes    *)
(* that are all different.  Nor do they ever map "_", from which follows   *)
(* what values mean under any declarations.                                *)
(***************************************************************************)
EXTENDS RdfaPrefixes, Integers, FiniteSetTheorems, WellFoundedInduction, TLAPS

Unique(m) == \A i, j \in DOMAIN m : m[i].key = m[j].key => i = j

Pairs(V) == [key : Keys, value : V]

MappingsTo(V) == {m \in Seq(Pairs(V)) : Unique(m)}

-----------------------------------------------------------------------------
\* rdfa_update_mapping on a key that is there changes that pair only.
LEMMA UpdateFound ==
  ASSUME NEW V, NEW m \in MappingsTo(V), NEW key \in Keys, NEW value \in V,
         NEW i \in DOMAIN m, m[i].key = key
  PROVE  UpdateMapping(m, key, value) = [m EXCEPT ![i].value = value]
<1>1. Positions(m, key) = {i}
  BY DEF MappingsTo, Unique, Positions
<1>2. IsKey(m, key)
  BY <1>1 DEF IsKey
<1>3. (CHOOSE k \in {i} : \A j \in {i} : k <= j) = i
  BY DEF MappingsTo
<1> QED BY <1>1, <1>2, <1>3 DEF UpdateMapping

\* rdfa_get_mapping finds the only pair with the key, if there is one.
LEMMA GetFound ==
  ASSUME NEW V, NEW m \in MappingsTo(V), NEW i \in DOMAIN m
  PROVE  GetMapping(m, m[i].key) = m[i].value
<1>1. Positions(m, m[i].key) = {i}
  BY DEF MappingsTo, Unique, Positions
<1>2. (CHOOSE k \in {i} : \A j \in {i} : j <= k) = i
  BY DEF MappingsTo
<1> QED BY <1>1, <1>2 DEF GetMapping, IsKey

LEMMA GetMissing ==
  ASSUME NEW m, NEW key, \A i \in DOMAIN m : m[i].key # key
  PROVE  GetMapping(m, key) = NULL
BY DEF GetMapping, IsKey, Positions

\* An update keeps the keys apart.
LEMMA UpdateType ==
  ASSUME NEW V, NEW m \in MappingsTo(V), NEW key \in Keys, NEW value \in V
  PROVE  UpdateMapping(m, key, value) \in MappingsTo(V)
<1>1. CASE IsKey(m, key)
  <2>1. PICK i \in DOMAIN m : m[i].key = key
    BY <1>1 DEF IsKey, Positions
  <2> DEFINE n == [m EXCEPT ![i].value = value]
  <2>2. m \in Seq(Pairs(V)) /\ i \in 1 .. Len(m) /\ m[i] \in Pairs(V)
    BY <2>1 DEF MappingsTo
  <2>3. [m[i] EXCEPT !.value = value] \in Pairs(V)
    BY <2>2 DEF Pairs
  <2>4. n \in Seq(Pairs(V)) /\ DOMAIN n = DOMAIN m
    BY <2>2, <2>3
  <2>5. \A j \in DOMAIN m : n[j].key = m[j].key
    BY <2>2 DEF Pairs
  <2> HIDE DEF n
  <2>6. Unique(m)
    BY DEF MappingsTo
  <2>7. Unique(n)
    BY <2>4, <2>5, <2>6 DEF Unique
  <2>8. n \in MappingsTo(V)
    BY <2>4, <2>7 DEF MappingsTo
  <2> QED BY <2>1, <2>8, UpdateFound DEF n
<1>2. CASE ~IsKey(m, key)
  <2> DEFINE n == Append(m, [key |-> key, value |-> value])
  <2>1. n \in Seq(Pairs(V)) /\ DOMAIN n = 1 .. Len(m) + 1
    BY DEF MappingsTo, Pairs
  <2>2. n[Len(m) + 1].key = key /\ \A j \in 1 .. Len(m) : n[j] = m[j]
    BY DEF MappingsTo
  <2>3. \A j \in 1 .. Len(m) : m[j].key # key
    BY <1>2 DEF IsKey, Positions, MappingsTo
  <2>4. Unique(n)
    BY <2>1, <2>2, <2>3 DEF Unique, MappingsTo
  <2> QED BY <1>2, <2>1, <2>4 DEF MappingsTo, UpdateMapping
<1> QED BY <1>1, <1>2

\* As a function from keys to values, an updated mapping differs from the old
\* one in the value of the key, and in nothing else.
LEMMA UpdateGets ==
  ASSUME NEW V, NEW m \in MappingsTo(V), NEW key \in Keys, NEW value \in V,
         NEW other \in Keys
  PROVE  GetMapping(UpdateMapping(m, key, value), other) =
           IF other = key THEN value ELSE GetMapping(m, other)
<1> DEFINE n == UpdateMapping(m, key, value)
<1>0. n \in MappingsTo(V)
  BY UpdateType
<1>1. CASE IsKey(m, key)
  <2>1. PICK i \in DOMAIN m : m[i].key = key
    BY <1>1 DEF IsKey, Positions
  <2>2. n = [m EXCEPT ![i].value = value]
    BY <2>1, UpdateFound
  <2>3. i \in 1 .. Len(m) /\ m \in Seq(Pairs(V)) /\ m[i] \in Pairs(V)
    BY <2>1 DEF MappingsTo
  <2>4. /\ DOMAIN n = DOMAIN m
        /\ n[i].key = key /\ n[i].value = value
        /\ \A j \in DOMAIN m : j # i => n[j] = m[j]
    <3> HIDE DEF n
    <3>1. n[i] = [m[i] EXCEPT !.value = value]
      BY <2>2, <2>3
    <3>2. n[i].key = m[i].key /\ n[i].value = value
      BY <2>3, <3>1 DEF Pairs
    <3> QED BY <2>1, <2>2, <2>3, <3>2
  <2>5. CASE other = key
    BY <1>0, <2>1, <2>4, <2>5, GetFound
  <2>6. CASE other # key /\ \E j \in DOMAIN m : m[j].key = other
    <3>1. PICK j \in DOMAIN m : m[j].key = other
      BY <2>6
    <3>2. j # i /\ j \in DOMAIN n /\ n[j].key = other
      BY <2>1, <2>4, <2>6, <3>1
    <3>3. GetMapping(n, other) = n[j].value
      BY <1>0, <3>2, GetFound
    <3>4. GetMapping(m, other) = m[j].value
      BY <3>1, GetFound
    <3>5. n[j] = m[j]
      BY <2>4, <3>2
    <3> QED BY <2>6, <3>3, <3>4, <3>5
  <2>7. CASE other # key /\ \A j \in DOMAIN m : m[j].key # other
    <3>1. \A j \in DOMAIN n : n[j].key # other
      BY <2>4, <2>7
    <3> QED BY <2>7, <3>1, GetMissing
  <2> QED BY <2>5, <2>6, <2>7
<1>2. CASE ~IsKey(m, key)
  <2>1. n = Append(m, [key |-> key, value |-> value])
    BY <1>2 DEF UpdateMapping
  <2>2. m \in Seq(Pairs(V)) /\ DOMAIN m = 1 .. Len(m) /\ Len(m) \in Nat
    BY DEF MappingsTo
  <2>3. /\ DOMAIN n = 1 .. Len(m) + 1
        /\ n[Len(m) + 1].key = key /\ n[Len(m) + 1].value = value
        /\ \A j \in DOMAIN m : n[j] = m[j]
    BY <2>1, <2>2
  <2>4. CASE other = key
    <3>1. Len(m) + 1 \in DOMAIN n
      BY <2>2, <2>3
    <3> QED BY <1>0, <2>3, <2>4, <3>1, GetFound
  <2>5. CASE other # key /\ \E j \in DOMAIN m : m[j].key = other
    <3>1. PICK j \in DOMAIN m : m[j].key = other
      BY <2>5
    <3>2. j \in DOMAIN n /\ n[j] = m[j]
      BY <2>2, <2>3, <3>1
    <3>3. GetMapping(n, other) = n[j].value
      BY <1>0, <3>1, <3>2, GetFound
    <3>4. GetMapping(m, other) = m[j].value
      BY <3>1, GetFound
    <3> QED BY <2>5, <3>2, <3>3, <3>4
  <2>6. CASE other # key /\ \A j \in DOMAIN m : m[j].key # other
    <3>1. \A j \in DOMAIN n : n[j].key # other
      BY <2>2, <2>3, <2>6
    <3> QED BY <2>6, <3>1, GetMissing
  <2> QED BY <2>4, <2>5, <2>6
<1> QED BY <1>1, <1>2

-----------------------------------------------------------------------------
\* What the contexts on the stack look like: the type invariant, no key twice
\* in a mapping to declared IRIs and "_" not among them, the terms of the
\* tables, and the base of the document.
PrefixMaps == {m \in MappingsTo(Bound) : GetMapping(m, Underscore) = NULL}

TermValues ==
  UNION {{t[i].value : i \in DOMAIN t} :
           t \in {Rdfa11Terms, SharedTerms, XhtmlTerms}}
Terms == [key : Names, value : TermValues]

GoodContexts ==
  [version : {"1.0", "1.1"}, host : {"XML1", "XHTML1", "HTML"},
   uris : PrefixMaps, terms : Seq(Terms), vocab : Iris \cup {NULL},
   base : {Base}]

FullBelow == \E i \in DOMAIN stack : IsFull(stack[i].uris)

Inv ==
  /\ stack \in Seq(GoodContexts)
  /\ phase \in Phases /\ declarations \in Nat
  /\ phase = "ended" <=> stack = << >>
  /\ phase \in {"xmlns", "prefixes"} => Len(stack) > 1
  /\ phase = "overrun" => FullBelow

\* Sequences over a set are sequences over a larger one.
LEMMA SeqGrows ==
  ASSUME NEW S, NEW T, S \subseteq T
  PROVE  Seq(S) \subseteq Seq(T)
OBVIOUS

LEMMA InitialPairs ==
  \A i \in DOMAIN InitialPrefixes :
    InitialPrefixes[i] \in [key : Names, value : Strings]
<1> DEFINE S == [key : Names, value : Strings]
<1>1. InitialPrefixes \in Seq(S)
  BY PrefixesAssumption
<1> HIDE DEF S
<1>2. \A i \in DOMAIN InitialPrefixes : InitialPrefixes[i] \in S
  BY <1>1
<1> QED BY <1>2 DEF S

\* The pairs of a table of terms.
LEMMA TermPairs ==
  ASSUME NEW t \in {Rdfa11Terms, SharedTerms, XhtmlTerms}
  PROVE  t \in Seq(Terms) /\ TermValues \subseteq Strings
<1> DEFINE S == [key : Names, value : Strings]
<1>1. /\ Rdfa11Terms \in Seq(S) /\ SharedTerms \in Seq(S)
      /\ XhtmlTerms \in Seq(S)
  BY PrefixesAssumption
<1>2. \A x \in S : x.key \in Names /\ x.value \in Strings
                 /\ x = [key |-> x.key, value |-> x.value]
  OBVIOUS
<1> HIDE DEF S
<1>3. TermValues \subseteq Strings
  BY <1>1, <1>2 DEF TermValues
<1>4. \A i \in DOMAIN t : t[i] \in S /\ t[i].value \in TermValues
  BY <1>1 DEF TermValues
<1>5. \A i \in DOMAIN t : t[i] \in Terms
  BY <1>2, <1>4 DEF Terms
<1>6. t \in Seq(Terms)
  <2>1. /\ t \in Seq(S) /\ DOMAIN t = 1 .. Len(t) /\ Len(t) \in Nat
        /\ t = [i \in 1 .. Len(t) |-> t[i]]
    BY <1>1
  <2> DEFINE n == Len(t)
  <2>2. n \in Nat /\ \A i \in 1 .. n : t[i] \in Terms
    BY <1>5, <2>1
  <2>3. [i \in 1 .. n |-> t[i]] \in Seq(Terms)
    BY <2>2
  <2> QED BY <2>1, <2>3
<1> QED BY <1>3, <1>6

LEMMA InvHasTypes == Inv => TypeOK
<1> SUFFICES ASSUME Inv PROVE TypeOK
  OBVIOUS
<1>1. Bound \subseteq Strings \cup {NULL}
  BY PrefixesAssumption, InitialPairs DEF Bound
<1>2. Pairs(Bound) \subseteq
        [key : Names \cup {DefaultMapping}, value : Strings \cup {NULL}]
  BY <1>1 DEF Pairs, Keys
<1>3. MappingsTo(Bound) \subseteq
        Seq([key : Names \cup {DefaultMapping}, value : Strings \cup {NULL}])
  BY <1>2, SeqGrows DEF MappingsTo
<1>4. Iris \cup {NULL} \subseteq Strings \cup {NULL}
  BY PrefixesAssumption
<1>5. Seq(Terms) \subseteq Seq([key : Names, value : Strings])
  <2>1. Terms \subseteq [key : Names, value : Strings]
    BY TermPairs DEF Terms
  <2> QED BY <2>1, SeqGrows
<1>6. GoodContexts \subseteq NameContexts
  BY <1>3, <1>4, <1>5, PrefixesAssumption
  DEF GoodContexts, NameContexts, PrefixMaps
<1> QED BY <1>6 DEF Inv, TypeOK

\* rdfa_setup_initial_context leaves a good root context.
LEMMA RootIsGood ==
  ASSUME NEW p \in Prologues
  PROVE  Root(p) \in GoodContexts
<1>1. InitialPrefixes \in Seq(Pairs(Bound))
  <2> DEFINE n == Len(InitialPrefixes)
  <2>1. InitialPrefixes \in Seq([key : Names, value : Strings])
    BY PrefixesAssumption
  <2>2. \A i \in DOMAIN InitialPrefixes : InitialPrefixes[i] \in Pairs(Bound)
    BY InitialPairs DEF Pairs, Bound, Keys
  <2>3. \A i \in 1 .. n : InitialPrefixes[i] \in Pairs(Bound)
    BY <2>1, <2>2
  <2>4. /\ n \in Nat /\ DOMAIN InitialPrefixes = 1 .. n
        /\ InitialPrefixes = [i \in 1 .. n |-> InitialPrefixes[i]]
    BY <2>1
  <2>5. [i \in 1 .. n |-> InitialPrefixes[i]] \in Seq(Pairs(Bound))
    BY <2>3, <2>4
  <2> QED BY <2>4, <2>5
<1>2. InitialPrefixes \in MappingsTo(Bound)
  BY <1>1, PrefixesAssumption DEF MappingsTo, Unique
<1>3. << >> \in MappingsTo(Bound)
  BY DEF MappingsTo, Unique
<1>4. InitialTerms(p) \in Seq(Terms)
  <2>1. /\ Rdfa11Terms \in Seq(Terms) /\ SharedTerms \in Seq(Terms)
        /\ XhtmlTerms \in Seq(Terms)
    BY TermPairs
  <2> QED BY <2>1 DEF InitialTerms
<1>5. InitialPrefixes \in PrefixMaps /\ << >> \in PrefixMaps
  <2>1. GetMapping(InitialPrefixes, Underscore) = NULL
    BY PrefixesAssumption, GetMissing
  <2>2. GetMapping(<< >>, Underscore) = NULL
    BY GetMissing
  <2> QED BY <1>2, <1>3, <2>1, <2>2 DEF PrefixMaps
<1> QED BY <1>4, <1>5, PrefixesAssumption DEF Root, GoodContexts

\* rdfa_update_uri_mappings accepts a declaration under the key it looks for,
\* or leaves the mapping as it is.
LEMMA UpdateUriType ==
  ASSUME NEW m \in PrefixMaps, NEW name \in Names \cup {NULL},
         NEW iri \in Bound
  PROVE  UpdateUriMappings(m, name, iri) \in PrefixMaps
<1>1. name # NULL => name \in Keys
  BY DEF Keys
<1>2. DefaultMapping \in Keys /\ Underscore \in Keys
      /\ DefaultMapping # Underscore
  BY NamesAssumption DEF Keys
<1>3. m \in MappingsTo(Bound) /\ GetMapping(m, Underscore) = NULL
  BY DEF PrefixMaps
<1>4. \A key \in Keys : key # Underscore =>
        UpdateMapping(m, key, iri) \in PrefixMaps
  BY <1>2, <1>3, UpdateType, UpdateGets DEF PrefixMaps
<1> QED BY <1>1, <1>2, <1>4 DEF UpdateUriMappings, Accepts

\* Replacing the context on top by a good one keeps the stack good.
LEMMA TopReplaced ==
  ASSUME NEW s \in Seq(GoodContexts), Len(s) > 0, NEW c \in GoodContexts
  PROVE  /\ [s EXCEPT ![Len(s)] = c] \in Seq(GoodContexts)
         /\ Len([s EXCEPT ![Len(s)] = c]) = Len(s)
         /\ DOMAIN [s EXCEPT ![Len(s)] = c] = DOMAIN s
OBVIOUS

\* A declaration changes the mapping of the context on top.
LEMMA DeclareStep ==
  ASSUME Inv, stack # << >>, NEW name \in Names \cup {NULL}, NEW iri \in Bound,
         Declare(name, iri)
  PROVE  /\ stack' \in Seq(GoodContexts) /\ Len(stack') = Len(stack)
         /\ declarations' \in Nat
<1>1. stack \in Seq(GoodContexts) /\ Len(stack) > 0 /\ Top \in GoodContexts
  BY DEF Inv, Top
<1> DEFINE c == [Top EXCEPT !.uris = UpdateUriMappings(Top.uris, name, iri)]
<1>2. UpdateUriMappings(Top.uris, name, iri) \in PrefixMaps
  BY <1>1, UpdateUriType DEF GoodContexts
<1>3. c \in GoodContexts
  BY <1>1, <1>2 DEF GoodContexts
<1>4. stack' = [stack EXCEPT ![Len(stack)] = c]
  BY <1>1 DEF Declare, Top
<1> QED BY <1>1, <1>3, <1>4, TopReplaced, SMTT(30) DEF Declare, Inv

LEMMA InitInv == Init => Inv
<1> SUFFICES ASSUME Init PROVE Inv
  OBVIOUS
<1>1. PICK p \in Prologues : stack = <<Root(p)>>
  BY DEF Init
<1>2. Root(p) \in GoodContexts
  BY RootIsGood
<1> QED BY <1>1, <1>2 DEF Init, Inv, Phases

LEMMA NextInv == Inv /\ [Next]_vars => Inv'
<1> SUFFICES ASSUME Inv, [Next]_vars PROVE Inv'
  OBVIOUS
<1> USE DEF Phases
<1>0. stack # << >> => Len(stack) > 0 /\ Top \in GoodContexts /\ Len(stack) \in DOMAIN stack
  BY DEF Inv, Top
<1>1. ASSUME Overrun, FullBelow, phase # "ended" PROVE Inv'
  BY <1>1 DEF Overrun, Inv, FullBelow
<1>2. CASE StartElement
  <2>1. stack # << >>
    BY <1>2 DEF StartElement, Inv
  <2>2. CASE IsFull(Top.uris)
    BY <1>0, <1>1, <1>2, <2>1, <2>2 DEF StartElement, FullBelow, Top
  <2>3. CASE ~IsFull(Top.uris)
    BY <1>0, <1>2, <2>1, <2>3 DEF StartElement, Inv
  <2> QED BY <2>2, <2>3
<1>3. ASSUME NEW name \in Names \cup {NULL}, NEW iri \in Iris,
             DeclareXmlns(name, iri)
      PROVE  Inv'
  <2>1. stack # << >> /\ Len(stack) > 1
    BY <1>3 DEF DeclareXmlns, Inv
  <2>2. XmlnsName(name) \in Names \cup {NULL} /\ iri \in Bound
    BY <1>3, NamesAssumption DEF XmlnsName, Bound
  <2>3. CASE SearchesOn(XmlnsName(name))
    BY <1>0, <1>1, <1>3, <2>1, <2>3
    DEF DeclareXmlns, SearchesOn, FullBelow, Top
  <2>4. CASE ~SearchesOn(XmlnsName(name))
    <3>1. Declare(XmlnsName(name), iri) /\ phase' = "xmlns" /\ phase = "xmlns"
      BY <1>3, <2>4 DEF DeclareXmlns
    <3>2. /\ stack' \in Seq(GoodContexts) /\ Len(stack') = Len(stack)
          /\ declarations' \in Nat
      BY <2>1, <2>2, <3>1, DeclareStep
    <3> QED BY <2>1, <3>1, <3>2 DEF Inv
  <2> QED BY <2>3, <2>4
<1>4. CASE ReadAttributes
  <2>1. stack # << >> /\ Len(stack) > 1
    BY <1>4 DEF ReadAttributes, Inv
  <2>2. PICK version \in {"1.0", "1.1"}, vocab \in Iris \cup {NULL, Top.vocab} :
          stack' = [stack EXCEPT
            ![Len(stack)].version = version,
            ![Len(stack)].vocab = IF version = "1.1" THEN vocab ELSE @]
    BY <1>4 DEF ReadAttributes
  <2> DEFINE c == [Top EXCEPT !.version = version,
                     !.vocab = IF version = "1.1" THEN vocab ELSE @]
  <2>3. c \in GoodContexts
    BY <1>0, <2>1 DEF GoodContexts
  <2>4. stack' = [stack EXCEPT ![Len(stack)] = c]
    BY <1>0, <2>1, <2>2 DEF Top, Inv
  <2>5. stack' \in Seq(GoodContexts) /\ Len(stack') = Len(stack)
    BY <1>0, <2>1, <2>3, <2>4, TopReplaced DEF Inv
  <2> QED BY <1>4, <2>1, <2>5 DEF ReadAttributes, Inv
<1>5. ASSUME NEW name \in Names, NEW iri \in Iris \cup {NULL},
             DeclarePrefix(name, iri)
      PROVE  Inv'
  <2>1. stack # << >> /\ Len(stack) > 1
    BY <1>5 DEF DeclarePrefix, Inv
  <2>2. iri \in Bound
    BY <1>5 DEF Bound
  <2>3. CASE SearchesOn(name)
    BY <1>0, <1>1, <1>5, <2>1, <2>3
    DEF DeclarePrefix, SearchesOn, FullBelow, Top
  <2>4. CASE ~SearchesOn(name)
    <3>1. Declare(name, iri) /\ phase' \in {"content", "prefixes"}
      BY <1>5, <2>4 DEF DeclarePrefix
    <3>2. /\ stack' \in Seq(GoodContexts) /\ Len(stack') = Len(stack)
          /\ declarations' \in Nat
      BY <2>1, <2>2, <3>1, DeclareStep
    <3> QED BY <2>1, <3>1, <3>2 DEF Inv
  <2> QED BY <2>3, <2>4
<1>6. CASE PrefixesRead
  BY <1>6 DEF PrefixesRead, Inv
<1>7. CASE EndElement
  <2>1. CASE IsFull(Top.uris)
    BY <1>0, <1>1, <1>7, <2>1 DEF EndElement, FullBelow, Top, Inv
  <2>2. CASE ~IsFull(Top.uris)
    BY <1>7, <2>2 DEF EndElement, Inv
  <2> QED BY <2>1, <2>2
<1>8. CASE ParseEnd
  <2>1. CASE FullBelow
    BY <1>1, <1>8, <2>1 DEF ParseEnd, FullBelow
  <2>2. CASE ~FullBelow
    BY <1>8, <2>2 DEF ParseEnd, FullBelow, Inv
  <2> QED BY <2>1, <2>2
<1>9. CASE UNCHANGED vars
  BY <1>9 DEF vars, Inv, FullBelow
<1> QED BY <1>2, <1>3, <1>4, <1>5, <1>6, <1>7, <1>8, <1>9 DEF Next

LEMMA InvAlways == Spec => []Inv
BY InitInv, NextInv, PTL DEF Spec

(***************************************************************************)
(* The contexts on the stack have their types, whatever is declared.       *)
(***************************************************************************)
THEOREM PrefixesTypeCorrect == Spec => []TypeOK
BY InvAlways, InvHasTypes, PTL

-----------------------------------------------------------------------------
\* A mapping without double keys is full only of as many different keys.
LEMMA FullOfKeys ==
  ASSUME NEW V, NEW m \in MappingsTo(V), IsFull(m)
  PROVE  Cardinality({key \in Keys : IsKey(m, key)}) >= Capacity
<1> DEFINE T == {key \in Keys : IsKey(m, key)}
           f == [i \in 1 .. Len(m) |-> m[i].key]
<1>1. m \in Seq(Pairs(V)) /\ Len(m) \in Nat /\ DOMAIN m = 1 .. Len(m)
  BY DEF MappingsTo
<1>2. \A i \in 1 .. Len(m) : m[i].key \in T
  <2>1. \A i \in 1 .. Len(m) : m[i] \in Pairs(V)
    BY <1>1
  <2>2. \A i \in 1 .. Len(m) : i \in Positions(m, m[i].key)
    BY <1>1 DEF Positions
  <2> QED BY <2>1, <2>2 DEF Pairs, IsKey
<1>3. \A key \in T : \E i \in 1 .. Len(m) : m[i].key = key
  BY <1>1 DEF IsKey, Positions
<1>4. f \in Injection(1 .. Len(m), T)
  <2>1. f \in [1 .. Len(m) -> T]
    BY <1>2
  <2>2. \A i, j \in 1 .. Len(m) : m[i].key = m[j].key => i = j
    BY <1>1 DEF MappingsTo, Unique
  <2>3. \A i, j \in 1 .. Len(m) : f[i] = f[j] => i = j
    BY <2>2
  <2> QED BY <2>1, <2>3 DEF Injection, IsInjective
<1>5. f \in Surjection(1 .. Len(m), T)
  BY <1>2, <1>3 DEF Surjection
<1>6. IsFiniteSet(1 .. Len(m)) /\ Cardinality(1 .. Len(m)) = Len(m)
  BY <1>1, FS_Interval, SMTT(30)
<1>7. Cardinality(T) = Len(m)
  BY <1>4, <1>5, <1>6, FS_Surjection
<1> QED BY <1>1, <1>7, CapacityAssumption DEF IsFull

(***************************************************************************)
(* No loop over a mapping runs past its end unless an open element has     *)
(* Capacity different prefixes in scope.                                   *)
(***************************************************************************)
THEOREM OverrunsNeedManyPrefixes == Spec => []OverrunNeedsManyPrefixes
<1>1. Inv => OverrunNeedsManyPrefixes
  <2> SUFFICES ASSUME Inv, phase = "overrun"
               PROVE  \E i \in DOMAIN stack :
                        Cardinality({key \in Keys : IsKey(stack[i].uris, key)})
                          >= Capacity
    BY DEF OverrunNeedsManyPrefixes
  <2>1. PICK i \in DOMAIN stack : IsFull(stack[i].uris)
    BY DEF Inv, FullBelow
  <2>2. stack[i].uris \in MappingsTo(Bound)
    <3>1. stack \in Seq(GoodContexts)
      BY DEF Inv
    <3>2. stack[i] \in GoodContexts
      BY <2>1, <3>1
    <3> QED BY <3>2 DEF GoodContexts, PrefixMaps
  <2> QED BY <2>1, <2>2, FullOfKeys
<1> QED BY <1>1, InvAlways, PTL

-----------------------------------------------------------------------------
AllScopes == [i \in DOMAIN stack |-> Scope(stack[i])]

\* A context maps to a function from prefixes to declared IRIs.
LEMMA ScopeType ==
  ASSUME NEW c \in GoodContexts
  PROVE  Scope(c) \in [Keys -> Bound]
<1>1. c.uris \in MappingsTo(Bound)
  BY DEF GoodContexts, PrefixMaps
<1>2. ASSUME NEW key \in Keys PROVE GetMapping(c.uris, key) \in Bound
  <2>1. CASE \E i \in DOMAIN c.uris : c.uris[i].key = key
    <3>1. PICK i \in DOMAIN c.uris : c.uris[i].key = key
      BY <2>1
    <3>2. GetMapping(c.uris, key) = c.uris[i].value
      BY <1>1, <3>1, GetFound
    <3>3. c.uris \in Seq(Pairs(Bound))
      BY <1>1 DEF MappingsTo
    <3>4. c.uris[i] \in Pairs(Bound)
      BY <3>1, <3>3
    <3> QED BY <3>2, <3>4 DEF Pairs
  <2>2. CASE \A i \in DOMAIN c.uris : c.uris[i].key # key
    BY <2>2, GetMissing DEF Bound
  <2> QED BY <2>1, <2>2
<1> QED BY <1>2 DEF Scope

\* An accepted declaration changes the function in one place; one that is
\* refused changes nothing.
LEMMA DeclareMaps ==
  ASSUME Inv, stack # << >>, NEW name \in Names \cup {NULL}, NEW iri \in Bound,
         Declare(name, iri)
  PROVE  \/ UNCHANGED AllScopes
         \/ \E key \in Keys : Scopes!Declare(key, iri)
<1>1. stack \in Seq(GoodContexts) /\ Len(stack) > 0 /\ Top \in GoodContexts
  BY DEF Inv, Top
<1>2. Top.uris \in MappingsTo(Bound)
  BY <1>1 DEF GoodContexts, PrefixMaps
<1> DEFINE c == [Top EXCEPT !.uris = UpdateUriMappings(Top.uris, name, iri)]
<1>3. stack' = [stack EXCEPT ![Len(stack)] = c]
  BY <1>1 DEF Declare, Top
<1>4. CASE UpdateUriMappings(Top.uris, name, iri) = Top.uris
  <2>1. c = Top
    BY <1>1, <1>4 DEF GoodContexts
  <2>2. stack' = stack
    BY <1>1, <1>3, <2>1 DEF Top
  <2> QED BY <2>2 DEF AllScopes, Scope
<1>5. ASSUME NEW key \in Keys,
             UpdateUriMappings(Top.uris, name, iri) =
               UpdateMapping(Top.uris, key, iri)
      PROVE  Scopes!Declare(key, iri)
  <2>1. c.uris = UpdateMapping(Top.uris, key, iri)
    BY <1>1, <1>5 DEF GoodContexts
  <2>2. Scope(c) = [Scope(Top) EXCEPT ![key] = iri]
    <3>1. \A other \in Keys :
            GetMapping(UpdateMapping(Top.uris, key, iri), other) =
              IF other = key THEN iri ELSE GetMapping(Top.uris, other)
      BY <1>2, UpdateGets
    <3>2. Scope(c) =
            [other \in Keys |->
               IF other = key THEN iri ELSE GetMapping(Top.uris, other)]
      BY <2>1, <3>1 DEF Scope
    <3> QED BY <3>2 DEF Scope
  <2>3. /\ DOMAIN stack' = DOMAIN stack /\ DOMAIN stack = 1 .. Len(stack)
        /\ stack'[Len(stack)] = c
        /\ \A i \in DOMAIN stack : i # Len(stack) => stack'[i] = stack[i]
    BY <1>1, <1>3
  <2>4. Len(AllScopes) = Len(stack) /\ AllScopes # << >>
    BY <1>1, <2>3 DEF AllScopes
  <2>5. AllScopes' = [AllScopes EXCEPT ![Len(stack)] = [@ EXCEPT ![key] = iri]]
    BY <1>1, <2>2, <2>3 DEF AllScopes, Top
  <2> QED BY <2>4, <2>5 DEF Scopes!Declare, AllScopes
<1>6. DefaultMapping \in Keys /\ (name # NULL => name \in Keys)
  BY DEF Keys
<1> QED BY <1>4, <1>5, <1>6 DEF UpdateUriMappings

\* Every step of the contexts is a step of the functions, or none.
LEMMA NextMaps == Inv /\ [Next]_vars => [Scopes!Next]_AllScopes
<1> SUFFICES ASSUME Inv, [Next]_vars
             PROVE  Scopes!Next \/ UNCHANGED AllScopes
  OBVIOUS
<1>0. /\ stack \in Seq(GoodContexts) /\ Len(stack) \in Nat
      /\ DOMAIN stack = 1 .. Len(stack) /\ Len(AllScopes) = Len(stack)
      /\ (stack # << >> => AllScopes # << >> /\ Len(stack) > 0 /\ Top \in GoodContexts)
  BY DEF Inv, AllScopes, Top
<1>1. ASSUME UNCHANGED stack PROVE UNCHANGED AllScopes
  BY <1>1 DEF AllScopes, Scope
<1>2. CASE StartElement
  <2>1. CASE IsFull(Top.uris)
    BY <1>1, <1>2, <2>1 DEF StartElement, Overrun
  <2>2. CASE ~IsFull(Top.uris)
    <3>1. stack # << >> /\ stack' = Append(stack, Top)
      BY <1>2, <2>2 DEF StartElement, Inv
    <3>2. AllScopes' = Append(AllScopes, AllScopes[Len(AllScopes)])
      BY <1>0, <3>1 DEF AllScopes, Top, Scope
    <3> QED BY <1>0, <3>1, <3>2 DEF Scopes!Next, Scopes!Enter, AllScopes
  <2> QED BY <2>1, <2>2
<1>3. ASSUME NEW name \in Names \cup {NULL}, NEW iri \in Iris,
             DeclareXmlns(name, iri)
      PROVE  Scopes!Next \/ UNCHANGED AllScopes
  <2>1. stack # << >>
    BY <1>3 DEF DeclareXmlns, Inv
  <2>2. XmlnsName(name) \in Names \cup {NULL} /\ iri \in Bound
    BY <1>3, NamesAssumption DEF XmlnsName, Bound
  <2>3. CASE SearchesOn(XmlnsName(name))
    BY <1>1, <1>3, <2>3 DEF DeclareXmlns, Overrun
  <2>4. CASE Declare(XmlnsName(name), iri)
    BY <2>1, <2>2, <2>4, DeclareMaps DEF Scopes!Next
  <2> QED BY <1>3, <2>3, <2>4 DEF DeclareXmlns
<1>4. CASE ReadAttributes
  <2>1. stack # << >>
    BY <1>4 DEF ReadAttributes, Inv
  <2>2. /\ DOMAIN stack' = DOMAIN stack
        /\ \A i \in DOMAIN stack : stack'[i].uris = stack[i].uris
    BY <1>0, <1>4, <2>1 DEF ReadAttributes, Top, GoodContexts
  <2> QED BY <2>2 DEF AllScopes, Scope
<1>5. ASSUME NEW name \in Names, NEW iri \in Iris \cup {NULL},
             DeclarePrefix(name, iri)
      PROVE  Scopes!Next \/ UNCHANGED AllScopes
  <2>1. stack # << >>
    BY <1>5 DEF DeclarePrefix, Inv
  <2>2. iri \in Bound
    BY <1>5 DEF Bound
  <2>3. CASE SearchesOn(name)
    BY <1>1, <1>5, <2>3 DEF DeclarePrefix, Overrun
  <2>4. CASE Declare(name, iri)
    BY <2>1, <2>2, <2>4, DeclareMaps DEF Scopes!Next
  <2> QED BY <1>5, <2>3, <2>4 DEF DeclarePrefix
<1>6. CASE PrefixesRead
  BY <1>1, <1>6 DEF PrefixesRead
<1>7. CASE EndElement
  <2>1. CASE IsFull(Top.uris)
    BY <1>1, <1>7, <2>1 DEF EndElement, Overrun
  <2>2. CASE ~IsFull(Top.uris)
    <3>1. Len(stack) > 1 /\ stack' = SubSeq(stack, 1, Len(stack) - 1)
      BY <1>7, <2>2 DEF EndElement
    <3>2. /\ DOMAIN stack' = 1 .. Len(stack) - 1
          /\ \A i \in DOMAIN stack' : stack'[i] = stack[i]
      BY <1>0, <3>1
    <3>3. AllScopes' = SubSeq(AllScopes, 1, Len(AllScopes) - 1)
      BY <1>0, <3>1, <3>2 DEF AllScopes
    <3> QED BY <1>0, <3>1, <3>3 DEF Scopes!Next, Scopes!Leave, AllScopes
  <2> QED BY <2>1, <2>2
<1>8. CASE ParseEnd
  <2>1. CASE UNCHANGED stack
    BY <1>1, <2>1
  <2>2. CASE stack' = << >>
    BY <2>2 DEF AllScopes, Scopes!Next, Scopes!Finish
  <2> QED BY <1>8, <2>1, <2>2 DEF ParseEnd, Overrun
<1>9. CASE UNCHANGED vars
  BY <1>1, <1>9 DEF vars
<1> QED BY <1>2, <1>3, <1>4, <1>5, <1>6, <1>7, <1>8, <1>9 DEF Next

LEMMA InitMaps == Init => Scopes!Init
<1> SUFFICES ASSUME Init PROVE Scopes!Init
  OBVIOUS
<1>1. PICK p \in Prologues : stack = <<Root(p)>>
  BY DEF Init
<1>2. Scope(Root(p)) \in [Keys -> Bound]
  BY RootIsGood, ScopeType
<1>3. Len(AllScopes) = 1 /\ AllScopes[1] = Scope(Root(p))
  BY <1>1 DEF AllScopes
<1> QED BY <1>2, <1>3 DEF Scopes!Init, AllScopes

(***************************************************************************)
(* The arrays of prefixes implement one function from prefixes to IRIs for *)
(* every open element.                                                     *)
(***************************************************************************)
THEOREM PrefixesAreScopes == Spec => ScopesSpec
<1>1. Spec => Scopes!Init /\ [][Scopes!Next]_AllScopes
  BY NextMaps, InitMaps, InvAlways, PTL DEF Spec
<1> QED BY <1>1, PTL DEF ScopesSpec, Scopes!Spec, AllScopes

(***************************************************************************)
(* Every declaration that is not refused takes effect.                     *)
(***************************************************************************)
THEOREM DeclarationsAlwaysTakeEffect == Spec => DeclarationsTakeEffect
<1>1. Inv /\ [Next]_vars => DeclarationTakesEffect \/ UNCHANGED vars
  <2> SUFFICES ASSUME Inv,
                      NEW name \in Names \cup {NULL}, NEW iri \in Iris \cup {NULL},
                      Accepts(name), Declares(name, iri), phase' # "overrun"
               PROVE  GetMapping(Top'.uris,
                        IF name = NULL THEN DefaultMapping ELSE name) = iri
    BY DEF DeclarationTakesEffect
  <2>1. Declare(name, iri) /\ phase # "ended"
    BY DEF Declares, DeclarePrefix, DeclareXmlns, Overrun
  <2>2. stack \in Seq(GoodContexts) /\ Len(stack) > 0 /\ Top \in GoodContexts
    BY <2>1 DEF Inv, Top
  <2>3. Top.uris \in MappingsTo(Bound) /\ iri \in Bound
    BY <2>2 DEF GoodContexts, PrefixMaps, Bound
  <2> DEFINE key == IF name = NULL THEN DefaultMapping ELSE name
  <2>4. key \in Keys /\ UpdateUriMappings(Top.uris, name, iri) =
                           UpdateMapping(Top.uris, key, iri)
    BY DEF Keys, UpdateUriMappings
  <2>5. stack' = [stack EXCEPT ![Len(stack)] =
                    [Top EXCEPT !.uris = UpdateUriMappings(Top.uris, name, iri)]]
    BY <2>1, <2>2 DEF Declare, Top
  <2>6. Top' = [Top EXCEPT !.uris = UpdateUriMappings(Top.uris, name, iri)]
    BY <2>2, <2>5 DEF Top
  <2>7. Top'.uris = UpdateMapping(Top.uris, key, iri)
    BY <2>2, <2>4, <2>6 DEF GoodContexts
  <2>8. GetMapping(UpdateMapping(Top.uris, key, iri), key) = iri
    BY <2>3, <2>4, UpdateGets
  <2> QED BY <2>7, <2>8
<1> QED BY <1>1, InvAlways, PTL DEF Spec, DeclarationsTakeEffect

-----------------------------------------------------------------------------
(* What values mean under the mappings of a context.                       *)

\* The last pair with a key is there if one is.
LEMMA LastPosition ==
  ASSUME NEW T, NEW n \in Nat, T \subseteq 1 .. n, T # {}
  PROVE  \E i \in T : \A j \in T : j <= i
<1> DEFINE S == {n - i : i \in T}
<1>1. S \subseteq Nat /\ S # {}
  <2>1. \A i \in T : n - i \in Nat
    OBVIOUS
  <2> QED BY <2>1, Zenon
<1> HIDE DEF S
<1>2. PICK x \in S : \A y \in S : ~ (<<y, x>> \in OpToRel(<, Nat))
  BY <1>1, WFMin, NatLessThanWellFounded, Zenon
<1>3. \A y \in S : y < x => <<y, x>> \in OpToRel(<, Nat)
  BY <1>1 DEF OpToRel
<1>4. \A y \in S : ~(y < x)
  BY <1>2, <1>3, Zenon
<1>5. PICK i \in T : x = n - i
  BY <1>2 DEF S
<1>6. \A j \in T : n - j \in S
  BY DEF S
<1> QED BY <1>4, <1>5, <1>6

\* A value that is found is one of those in the mapping.
LEMMA GetsValue ==
  ASSUME NEW P, NEW V, \A x \in P : x.value \in V,
         NEW m \in Seq(P), NEW key
  PROVE  GetMapping(m, key) \in V \cup {NULL}
<1>1. CASE IsKey(m, key)
  <2> DEFINE T == Positions(m, key)
             last == CHOOSE i \in T : \A j \in T : j <= i
  <2>1. T \subseteq 1 .. Len(m) /\ T # {} /\ Len(m) \in Nat
    BY <1>1 DEF IsKey, Positions
  <2>2. last \in T
    <3> HIDE DEF T
    <3> QED BY <2>1, LastPosition
  <2>3. m[last].value \in V
    <3> HIDE DEF last, T
    <3> QED BY <2>1, <2>2
  <2> QED BY <1>1, <2>3 DEF GetMapping
<1>2. CASE ~IsKey(m, key)
  BY <1>2 DEF GetMapping
<1> QED BY <1>1, <1>2

\* What a prefix or a term of a context may mean.
LEMMA GetsBound ==
  ASSUME NEW c \in GoodContexts, NEW key
  PROVE  /\ GetMapping(c.uris, key) \in Bound
         /\ GetMapping(c.terms, key) \in TermValues \cup {NULL}
         /\ GetMapping(c.uris, Underscore) = NULL
<1>1. /\ c.uris \in Seq(Pairs(Bound)) /\ c.terms \in Seq(Terms)
      /\ GetMapping(c.uris, Underscore) = NULL
  BY DEF GoodContexts, PrefixMaps, MappingsTo
<1>2. NULL \in Bound
  BY DEF Bound
<1>3. /\ \A x \in Pairs(Bound) : x.value \in Bound
      /\ \A x \in Terms : x.value \in TermValues
  BY DEF Pairs, Terms
<1> QED BY <1>1, <1>2, <1>3, GetsValue

\* The values that are written in attributes, and parts of them.
LEMMA WrittenParts ==
  ASSUME NEW s \in Strings
  PROVE  /\ s.safe \in BOOLEAN /\ s.prefix \in Names \cup {NULL}
         /\ s.colon \in BOOLEAN /\ s.ref \in Seq(Names)
         /\ Text(s) \in Seq(Names) /\ Parts(s).ref \in Seq(Names)
<1>1. /\ s.safe \in BOOLEAN /\ s.prefix \in Names \cup {NULL}
      /\ s.colon \in BOOLEAN /\ s.ref \in Seq(Names)
  BY DEF Strings
<1>2. Text(s) \in Seq(Names)
  <2> DEFINE text == IF s.prefix = NULL THEN s.ref ELSE <<s.prefix>> \o s.ref
  <2>1. text \in Seq(Names)
    BY <1>1
  <2>2. Open \in Names /\ Close \in Names
    BY NamesAssumption
  <2> HIDE DEF text
  <2>3. <<Open>> \o text \o <<Close>> \in Seq(Names)
    BY <2>1, <2>2
  <2> QED BY <2>1, <2>3 DEF Text, text
<1>3. Parts(s).ref \in Seq(Names)
  BY <1>1 DEF Parts
<1> QED BY <1>1, <1>2, <1>3

\* Values are resolved under the context on top.
LEMMA ResolvingTop ==
  ASSUME Inv, Resolving
  PROVE  Top \in GoodContexts
<1>1. stack \in Seq(GoodContexts) /\ stack # << >>
  BY DEF Inv, Resolving
<1> QED BY <1>1 DEF Top

(***************************************************************************)
(* A value with the prefix "_" is the blank node of its reference in every *)
(* attribute for subjects, objects and types, and as a @property nothing   *)
(* else, whatever the document declares: no context ever maps "_".         *)
(***************************************************************************)
THEOREM BlankValuesAlwaysStayBlank == Spec => []BlankValuesStayBlank
<1>1. ASSUME Inv, Resolving, NEW s \in Written,
             s.prefix = Underscore, s.ref # << >>
      PROVE  /\ \A mode \in {"ABOUT_RESOURCE", "INSTANCEOF_DATATYPE", "HREF_SRC"} :
                  Resolve(Top, s, mode) = Iri(Underscore, s.ref)
             /\ Resolve(Top, s, "PROPERTY") \in {NULL, Iri(Underscore, s.ref)}
  <2>1. PICK c \in GoodContexts : c = Top
    BY <1>1, ResolvingTop
  <2>2. GetMapping(c.uris, Underscore) = NULL
    BY GetsBound
  <2>3. s \in Strings /\ s.colon
    BY <1>1, PrefixesAssumption
  <2>4. Underscore # NULL /\ Underscore \in Names
    BY NamesAssumption
  <2>5. /\ Name(Underscore) # NULL /\ Name(Underscore).prefix = Underscore
        /\ Iri(Underscore, s.ref) # NULL
    <3>1. << >> \in Seq(Names) /\ s.ref \in Seq(Names)
      BY <2>3, WrittenParts
    <3>2. Name(Underscore) \in Strings /\ Iri(Underscore, s.ref) \in Strings
      BY <2>4, <3>1 DEF Name, Iri, Strings
    <3> QED BY <3>2, NullAssumption DEF Name
  <2>6. /\ Parts(s).prefix = Underscore /\ Parts(s).ref = s.ref
        /\ ~IsAnonymous(s) /\ Term(c, s) = NULL
    BY <1>1, <2>3, <2>4 DEF Parts, IsAnonymous, Term
  <2>7. ASSUME NEW mode \in {"ABOUT_RESOURCE", "INSTANCEOF_DATATYPE", "HREF_SRC"}
        PROVE  Resolve(c, s, mode) = Iri(Underscore, s.ref)
    <3>1. ~IsPredicate(mode) /\ mode # "PROPERTY" /\ mode # "RELREV"
      BY DEF IsPredicate
    <3>2. Expansion(c, s, mode) = Name(Underscore)
      BY <2>3, <2>4, <2>6, <3>1 DEF Expansion
    <3>3. Curie(c, s, mode) = Iri(Underscore, s.ref)
      BY <1>1, <2>5, <2>6, <3>1, <3>2 DEF Curie, ExpandedCurie
    <3>4. IsIri(c, s, mode) => ResolveUri(c, s) = Iri(Underscore, s.ref)
      <4>1. ~s.safe => s = Iri(Underscore, s.ref)
        BY <1>1, <2>3 DEF Strings, Iri
      <4> QED BY <2>3, <4>1 DEF IsIri, ResolveUri
    <3> QED BY <2>5, <3>1, <3>3, <3>4 DEF Resolve, ResolveCurie
  <2>8. Resolve(c, s, "PROPERTY") = NULL
    <3>1. Expansion(c, s, "PROPERTY") = NULL
      BY <2>2, <2>3, <2>4, <2>6 DEF Expansion, IsPredicate
    <3>2. Curie(c, s, "PROPERTY") = NULL
      BY <2>6, <3>1 DEF Curie, ExpandedCurie
    <3>3. ~IsIri(c, s, "PROPERTY") /\ VocabularyOrBase(c, s, "PROPERTY") = NULL
      BY <1>1, <2>3 DEF IsIri, VocabularyOrBase
    <3> QED BY <2>6, <3>2, <3>3 DEF Resolve, ResolveCurie
  <2> QED BY <2>1, <2>7, <2>8
<1>2. Inv => BlankValuesStayBlank
  BY <1>1 DEF BlankValuesStayBlank, BlankValues
<1> QED BY <1>2, InvAlways, PTL

(***************************************************************************)
(* @vocab changes nothing of what a value with a prefix means.             *)
(***************************************************************************)
THEOREM VocabularyAlwaysForNamesOnly == Spec => []VocabularyIsForNamesOnly
<1>1. ASSUME Inv, Resolving, NEW s \in Written, s.colon, s.prefix # NULL,
             NEW mode \in Modes
      PROVE  Resolve(Top, s, mode) = Resolve([Top EXCEPT !.vocab = NULL], s, mode)
  <2>1. PICK c \in GoodContexts : c = Top
    BY <1>1, ResolvingTop
  <2>2. PICK d : d = [c EXCEPT !.vocab = NULL]
    OBVIOUS
  <2>3. /\ d.version = c.version /\ d.host = c.host /\ d.uris = c.uris
        /\ d.terms = c.terms /\ d.base = c.base
    BY <2>2 DEF GoodContexts
  <2>4. /\ Term(d, s) = Term(c, s) /\ ResolveUri(d, s) = ResolveUri(c, s)
        /\ IsIri(d, s, mode) <=> IsIri(c, s, mode)
        /\ IsIri(d, s, "RELREV") <=> IsIri(c, s, "RELREV")
    BY <2>3 DEF Term, ResolveUri, IsIri
  <2>5. \A m : Curie(d, s, m) = Curie(c, s, m)
    BY <2>3, <2>4 DEF Curie, ExpandedCurie, Expansion
  <2>6. \A m : VocabularyOrBase(d, s, m) = VocabularyOrBase(c, s, m)
    BY <1>1, <2>4 DEF VocabularyOrBase
  <2>7. RelRevTerm(d, s) = NULL /\ RelRevTerm(c, s) = NULL
    BY <1>1 DEF RelRevTerm
  <2>8. /\ ResolveCurie(d, s, mode) = ResolveCurie(c, s, mode)
        /\ ResolveCurie(d, s, "RELREV") = ResolveCurie(c, s, "RELREV")
    BY <2>3, <2>4, <2>5, <2>6 DEF ResolveCurie
  <2>9. ResolveRelRev(d, s) = ResolveRelRev(c, s)
    BY <2>3, <2>4, <2>7, <2>8 DEF ResolveRelRev
  <2>10. Resolve(d, s, mode) = Resolve(c, s, mode)
    BY <2>8, <2>9 DEF Resolve
  <2> QED BY <2>1, <2>2, <2>10
<1>2. Inv => VocabularyIsForNamesOnly
  BY <1>1 DEF VocabularyIsForNamesOnly
<1> QED BY <1>2, InvAlways, PTL

\* The IRIs of a document that are absolute, and have a scheme other than "_".
Absolute ==
  {s \in Strings : ~s.safe /\ s.colon /\ s.prefix \notin {NULL, Underscore}}

AbsoluteIris ==
  {Base, XhtmlVocab} \cup Iris \cup TermValues
    \cup {InitialPrefixes[i].value : i \in DOMAIN InitialPrefixes} \subseteq Absolute

LEMMA JoinAbsolute ==
  ASSUME NEW iri \in Absolute, NEW ref \in Seq(Names)
  PROVE  Join(iri, ref) \in Absolute
<1>1. iri.ref \o ref \in Seq(Names)
  BY DEF Absolute, Strings
<1> QED BY <1>1 DEF Absolute, Strings, Join

\* What a predicate resolves to: nothing, "_:", an absolute IRI, or what was
\* written.
LEMMA PredicateIs ==
  ASSUME AbsoluteIris, NEW c \in GoodContexts, c.version = "1.1",
         NEW s \in Written
  PROVE  ResolveRelRev(c, s) \in Absolute \cup {NULL, Anonymous, s}
<1>1. s \in Strings /\ Text(s) \in Seq(Names) /\ Parts(s).ref \in Seq(Names)
  BY WrittenParts, PrefixesAssumption
<1>2. /\ Base \in Absolute /\ XhtmlVocab \in Absolute /\ Iris \subseteq Absolute
      /\ TermValues \subseteq Absolute /\ Bound \subseteq Absolute \cup {NULL}
  BY DEF AbsoluteIris, Bound
<1>3. c.base = Base /\ c.vocab \in Iris \cup {NULL}
  BY DEF GoodContexts
<1>4. RelRevTerm(c, s) \in Absolute \cup {NULL}
  <2>1. \A key : GetMapping(c.terms, key) \in Absolute \cup {NULL}
    BY <1>2, GetsBound
  <2> QED BY <2>1 DEF RelRevTerm
<1>5. Expansion(c, s, "RELREV") \in Absolute \cup {NULL}
  <2>1. \A key : GetMapping(c.uris, key) \in Absolute \cup {NULL}
    BY <1>2, GetsBound
  <2>2. IsPredicate("RELREV")
    BY DEF IsPredicate
  <2> QED BY <1>2, <2>1, <2>2 DEF Expansion
<1>6. ExpandedCurie(c, s, "RELREV") \in Absolute \cup {NULL}
  <2>1. Expansion(c, s, "RELREV") \in Absolute =>
          /\ Expansion(c, s, "RELREV").prefix # Underscore
          /\ Expansion(c, s, "RELREV") # Name(Underscore)
    BY DEF Absolute, Name
  <2> QED BY <1>1, <1>5, <2>1, JoinAbsolute DEF ExpandedCurie
<1>7. VocabularyOrBase(c, s, "RELREV") \in Absolute \cup {NULL}
  BY <1>1, <1>2, <1>3, JoinAbsolute DEF VocabularyOrBase
<1>8. ResolveCurie(c, s, "RELREV") \in Absolute \cup {NULL, Anonymous}
  <2>1. Curie(c, s, "RELREV") \in Absolute \cup {NULL}
    BY <1>6 DEF Curie
  <2>2. ~IsIri(c, s, "RELREV")
    BY DEF IsIri
  <2> QED BY <1>7, <2>1, <2>2 DEF ResolveCurie
<1>9. ResolveUri(c, s) \in Absolute \cup {s}
  BY <1>1, <1>2, <1>3, JoinAbsolute DEF ResolveUri
<1> QED BY <1>4, <1>8, <1>9 DEF ResolveRelRev

\* An absolute IRI whose scheme is no prefix stays as it is.
LEMMA AbsoluteStays ==
  ASSUME NEW c \in GoodContexts, c.version = "1.1", NEW p \in Absolute,
         ~IsKey(c.uris, p.prefix)
  PROVE  ResolveRelRev(c, p) = p
<1>1. /\ ~p.safe /\ p.colon /\ p.prefix # NULL /\ p.prefix # Underscore
  BY DEF Absolute
<1>2. GetMapping(c.uris, p.prefix) = NULL
  BY DEF GetMapping
<1>3. Expansion(c, p, "RELREV") = NULL
  BY <1>1, <1>2 DEF Expansion, Parts
<1>4. Curie(c, p, "RELREV") = NULL
  BY <1>3 DEF Curie, ExpandedCurie
<1>5. /\ ~IsAnonymous(p) /\ ~IsIri(c, p, "RELREV")
      /\ VocabularyOrBase(c, p, "RELREV") = NULL
      /\ RelRevTerm(c, p) = NULL /\ ResolveUri(c, p) = p
  BY <1>1 DEF IsAnonymous, IsIri, VocabularyOrBase, RelRevTerm, ResolveUri
<1>6. ResolveCurie(c, p, "RELREV") = NULL
  BY <1>4, <1>5 DEF ResolveCurie
<1> QED BY <1>5, <1>6 DEF ResolveRelRev

(***************************************************************************)
(* In RDFa 1.1, resolving the predicate of a list again changes nothing    *)
(* but one whose scheme is also a prefix, if the IRIs that the document    *)
(* declares and is found at are absolute: a relative one that has been     *)
(* joined to a reference would be taken for a name and joined once more.   *)
(***************************************************************************)
THEOREM PredicatesAlwaysResolveOnce ==
  ASSUME AbsoluteIris
  PROVE  Spec => []PredicatesResolveOnce
<1>1. ASSUME Inv, Resolving, Top.version = "1.1", NEW s \in Written
      PROVE  LET predicate == ResolveRelRev(Top, s)
             IN  \/ predicate \in {NULL, Anonymous}
                 \/ IsKey(Top.uris, predicate.prefix)
                 \/ ResolveRelRev(Top, predicate) = predicate
  <2>1. PICK c \in GoodContexts : c = Top
    BY <1>1, ResolvingTop
  <2>2. PICK p : p = ResolveRelRev(c, s)
    OBVIOUS
  <2>3. p \in Absolute \cup {NULL, Anonymous, s} /\ c.version = "1.1"
    BY <1>1, <2>1, <2>2, PredicateIs
  <2>4. \/ p \in {NULL, Anonymous} \/ IsKey(c.uris, p.prefix)
        \/ ResolveRelRev(c, p) = p
    BY <2>2, <2>3, AbsoluteStays
  <2> QED BY <2>1, <2>2, <2>4
<1>2. Inv => PredicatesResolveOnce
  BY <1>1 DEF PredicatesResolveOnce
<1> QED BY <1>2, InvAlways, PTL
=============================================================================
