--------------------------- MODULE RdfaIriProofs ---------------------------
(***************************************************************************)
(* Proofs about rdfa_resolve_uri, for every base, reference and set of     *)
(* names: the destination has room, no dot segment is left, the loop ends, *)
(* and each ".." has cancelled the segment it should.  A segment that is   *)
(* kept although it is a dot is the last one.                              *)
(***************************************************************************)
EXTENDS RdfaIri, FiniteSetTheorems, SequenceTheorems, TLAPS

Cleared ==
  \A i \in DOMAIN output :
    output[i] \in Dots =>
      i = Len(output) /\ reference.tail # "" /\ rest = << >>

Inv == TypeOK /\ Cleared

-----------------------------------------------------------------------------
LEMMA OneOrMore == \A n \in Nat \ {0} : n - 1 \in 0 .. n /\ (n = 1 \/ n > 1)
OBVIOUS

LEMMA Single == ASSUME NEW S, NEW e \in S PROVE <<e>> \in Seq(S)
OBVIOUS

LEMMA Empty ==
  ASSUME NEW S, NEW p \in Seq(S)
  PROVE  Len(p) = 0 <=> p = << >>
OBVIOUS

\* What there is to know of a sequence that is not empty.
LEMMA NonEmpty ==
  ASSUME NEW S, NEW p \in Seq(S), p # << >>
  PROVE  /\ Len(p) \in Nat \ {0} /\ Len(p) - 1 \in 0 .. Len(p)
         /\ Len(p) = 1 \/ Len(p) > 1
         /\ Head(p) = p[1] /\ Head(p) \in S
         /\ Tail(p) \in Seq(S) /\ Len(Tail(p)) = Len(p) - 1
         /\ Len(p) = 1 => Tail(p) = << >>
         /\ Len(p) > 1 => Tail(p) # << >>
         /\ Len(p) > 1 => Tail(p)[Len(Tail(p))] = p[Len(p)]
<1>1. Len(p) \in Nat \ {0}
  OBVIOUS
<1>2. Len(p) - 1 \in 0 .. Len(p) /\ (Len(p) = 1 \/ Len(p) > 1)
  BY <1>1, OneOrMore
<1>3. Tail(p) \in Seq(S) /\ Len(Tail(p)) = Len(p) - 1
  OBVIOUS
<1>4. ASSUME Len(p) = 1 PROVE Tail(p) = << >>
  <2>1. Len(Tail(p)) = 0
    BY <1>3, <1>4
  <2> QED BY <1>3, <2>1, Empty
<1>5. ASSUME Len(p) > 1
      PROVE  Tail(p) # << >> /\ Tail(p)[Len(Tail(p))] = p[Len(p)]
  <2> DEFINE n == Len(p)
             m == Len(Tail(p))
  <2>1. n \in Nat /\ n > 1 /\ m = n - 1
    BY <1>1, <1>3, <1>5
  <2> HIDE DEF n, m
  <2>2. m # 0
    BY <2>1
  <2>3. Tail(p) # << >>
    <3>1. Len(Tail(p)) # 0
      BY <2>2 DEF m
    <3> QED BY <1>3, <3>1, Empty
  <2>4. Tail(p)[Len(Tail(p))] = p[Len(p)]
    BY <1>5
  <2> QED BY <2>3, <2>4
<1>6. Head(p) = p[1] /\ Head(p) \in S
  OBVIOUS
<1> QED BY <1>1, <1>2, <1>3, <1>4, <1>5, <1>6

LEMMA Prefix ==
  ASSUME NEW S, NEW p \in Seq(S), NEW n \in 0 .. Len(p)
  PROVE  /\ SubSeq(p, 1, n) \in Seq(S) /\ Len(SubSeq(p, 1, n)) = n
         /\ \A i \in 1 .. n : SubSeq(p, 1, n)[i] = p[i]
OBVIOUS

LEMMA JoinedType ==
  ASSUME NEW b \in Bases, NEW r \in References
  PROVE  /\ Joined(b, r).host \in Hosts \cup Segments
         /\ Joined(b, r).path \in Seq(Segments)
<1>1. /\ b \in [host : Hosts, path : Seq(Segments)]
      /\ r.host \in Hosts /\ r.path \in Seq(Segments)
      /\ r.kind = "relative" => r.path # << >>
      /\ r.kind \in {"empty", "absolute", "rooted", "relative"}
  BY IriAssumption
<1>2. r.path # << >> =>
        Head(r.path) \in Segments /\ Tail(r.path) \in Seq(Segments)
  BY <1>1
<1>3. ASSUME b.path # << >>
      PROVE  SubSeq(b.path, 1, Len(b.path) - 1) \o r.path \in Seq(Segments)
  <2>1. b.path \in Seq(Segments) /\ Len(b.path) - 1 \in 0 .. Len(b.path)
    BY <1>1, <1>3, NonEmpty
  <2>2. SubSeq(b.path, 1, Len(b.path) - 1) \in Seq(Segments)
    BY <2>1, Prefix
  <2> QED BY <1>1, <2>2
<1> QED BY <1>1, <1>2, <1>3 DEF Joined

\* A dot takes its segment away, or the one that ends the path its text.
LEMMA AfterDotType ==
  ASSUME NEW p \in Seq(Segments), p # << >>
  PROVE  /\ AfterDot(p) \in Seq(Segments)
         /\ Len(AfterDot(p)) <= Len(p)
         /\ Len(p) > 1 => AfterDot(p) = Tail(p)
         /\ Len(p) = 1 => AfterDot(p) = <<"">>
<1>1. CASE Len(p) > 1
  <2>1. AfterDot(p) = Tail(p)
    BY <1>1 DEF AfterDot
  <2>2. Tail(p) \in Seq(Segments) /\ Len(Tail(p)) = Len(p) - 1
    BY NonEmpty
  <2>3. Len(p) - 1 <= Len(p) /\ Len(p) # 1
    BY <1>1
  <2> QED BY <2>1, <2>2, <2>3
<1>2. CASE Len(p) = 1
  <2>1. AfterDot(p) = <<"">>
    BY <1>2 DEF AfterDot
  <2>2. <<"">> \in Seq(Segments)
    BY Single DEF Segments
  <2>3. Len(<<"">>) = 1
    OBVIOUS
  <2>4. Len(AfterDot(p)) = Len(p)
    BY <1>2, <2>1, <2>3
  <2>5. Len(p) <= Len(p) /\ ~(Len(p) > 1)
    BY <1>2
  <2> QED BY <1>2, <2>1, <2>2, <2>4, <2>5
<1> QED BY <1>1, <1>2, NonEmpty

\* What is left of the output is a prefix of it.
LEMMA WithoutLastType ==
  ASSUME NEW p \in Seq(Segments)
  PROVE  /\ WithoutLast(p) \in Seq(Segments)
         /\ Len(WithoutLast(p)) <= Len(p)
         /\ \A i \in DOMAIN WithoutLast(p) :
              i \in DOMAIN p /\ WithoutLast(p)[i] = p[i]
<1>1. PICK n \in 0 .. Len(p) : WithoutLast(p) = SubSeq(p, 1, n)
  <2>1. CASE p = << >>
    <3>1. WithoutLast(p) = SubSeq(p, 1, 0)
      BY <2>1 DEF WithoutLast
    <3> QED BY <3>1, 0 \in 0 .. Len(p)
  <2>2. CASE p # << >> /\ p[Len(p)] = "" /\ Len(p) > 1
    <3>1. WithoutLast(p) = SubSeq(p, 1, Len(p) - 2)
      BY <2>2 DEF WithoutLast
    <3>2. Len(p) > 1
      BY <2>2
    <3>3. Len(p) - 2 \in 0 .. Len(p)
      BY <3>2
    <3> QED BY <3>1, <3>3
  <2>3. CASE p # << >> /\ ~(p[Len(p)] = "" /\ Len(p) > 1)
    <3>1. WithoutLast(p) = SubSeq(p, 1, Len(p) - 1)
      BY <2>3 DEF WithoutLast
    <3>2. Len(p) - 1 \in 0 .. Len(p)
      BY <2>3, NonEmpty
    <3> QED BY <3>1, <3>2
  <2> QED BY <2>1, <2>2, <2>3
<1>2. WithoutLast(p) \in Seq(Segments) /\ Len(WithoutLast(p)) = n
  BY <1>1, Prefix
<1>3. \A i \in 1 .. n : i \in DOMAIN p /\ WithoutLast(p)[i] = p[i]
  BY <1>1, Prefix
<1> QED BY <1>2, <1>3

-----------------------------------------------------------------------------
LEMMA InvInitially == Init => Inv
<1> SUFFICES ASSUME Init PROVE Inv
  OBVIOUS
<1>1. base \in Bases /\ reference \in References /\ host = base.host
      /\ rest = << >> /\ output = << >> /\ pc = "join"
  BY DEF Init
<1>2. host \in Hosts
  BY <1>1, IriAssumption
<1>3. rest \in Seq(Segments) /\ output \in Seq(Segments)
  BY <1>1
<1>4. Cleared
  <2>1. DOMAIN output = {}
    BY <1>1
  <2> QED BY <2>1 DEF Cleared
<1> QED BY <1>1, <1>2, <1>3, <1>4 DEF Inv, TypeOK

LEMMA InvKept == Inv /\ [Next]_vars => Inv'
<1> SUFFICES ASSUME Inv, [Next]_vars PROVE Inv'
  OBVIOUS
<1> DEFINE room == Len(Joined(base, reference).path)
<1>0. /\ base \in Bases /\ reference \in References
      /\ host \in Hosts \cup Segments
      /\ rest \in Seq(Segments) /\ output \in Seq(Segments)
      /\ pc # "join" => Len(output) + Len(rest) <= room
      /\ Cleared
  BY DEF Inv, TypeOK
<1>1. CASE Join
  <2> DEFINE iri == Joined(base, reference)
  <2>1. iri.host \in Hosts \cup Segments /\ iri.path \in Seq(Segments)
    BY <1>0, JoinedType
  <2>2. UNCHANGED <<base, reference>> /\ host' = iri.host
    BY <1>1 DEF Join, args
  <2>3. CASE HasDots(iri)
    <3>1. rest' = iri.path /\ output' = << >> /\ pc' = "remove"
      BY <1>1, <2>3 DEF Join
    <3>2. output' \in Seq(Segments) /\ Len(output') = 0 /\ Cleared'
      BY <3>1 DEF Cleared
    <3>3. Len(output') + Len(rest') <= room
      BY <2>1, <3>1, <3>2
    <3> QED BY <1>0, <2>1, <2>2, <3>1, <3>2, <3>3 DEF Inv, TypeOK
  <2>4. CASE ~HasDots(iri)
    <3>1. rest' = << >> /\ output' = iri.path /\ pc' = "done"
      BY <1>1, <2>4 DEF Join
    <3>2. \A i \in DOMAIN output' : output'[i] \notin Dots
      BY <2>4, <3>1 DEF HasDots
    <3>3. Cleared'
      BY <3>2 DEF Cleared
    <3>4. rest' \in Seq(Segments) /\ Len(rest') = 0
      BY <3>1
    <3>5. Len(output') + Len(rest') <= room
      BY <2>1, <3>1, <3>4
    <3> QED BY <1>0, <2>1, <2>2, <3>1, <3>3, <3>4, <3>5 DEF Inv, TypeOK
  <2> QED BY <2>3, <2>4
<1>2. CASE SkipDot
  <2>1. /\ rest # << >> /\ rest' = AfterDot(rest) /\ pc = "remove"
        /\ UNCHANGED <<base, reference, host, output, pc>>
    BY <1>2 DEF SkipDot, IsDot, args
  <2>2. rest' \in Seq(Segments) /\ Len(rest') <= Len(rest)
    BY <1>0, <2>1, AfterDotType
  <2>3. Cleared'
    BY <1>0, <2>1 DEF Cleared
  <2>4. Len(output') + Len(rest') <= room
    BY <1>0, <2>1, <2>2
  <2> QED BY <1>0, <2>1, <2>2, <2>3, <2>4 DEF Inv, TypeOK
<1>3. CASE RemoveSegment
  <2>1. /\ rest # << >> /\ rest' = AfterDot(rest) /\ pc = "remove"
        /\ output' = WithoutLast(output)
        /\ UNCHANGED <<base, reference, host, pc>>
    BY <1>3 DEF RemoveSegment, IsDot, args
  <2>2. rest' \in Seq(Segments) /\ Len(rest') <= Len(rest)
    BY <1>0, <2>1, AfterDotType
  <2>3. /\ output' \in Seq(Segments) /\ Len(output') <= Len(output)
        /\ \A i \in DOMAIN output' :
             i \in DOMAIN output /\ output'[i] = output[i]
    BY <1>0, <2>1, WithoutLastType
  <2>4. Cleared'
    BY <1>0, <2>1, <2>3 DEF Cleared
  <2>5. Len(output') + Len(rest') <= room
    BY <1>0, <2>1, <2>2, <2>3
  <2> QED BY <1>0, <2>1, <2>2, <2>3, <2>4, <2>5 DEF Inv, TypeOK
<1>4. CASE CopySegment
  <2>1. /\ rest # << >> /\ output' = Append(output, Head(rest))
        /\ rest' = Tail(rest) /\ pc = "remove"
        /\ UNCHANGED <<base, reference, host, pc>>
    BY <1>4 DEF CopySegment, args
  <2>2. /\ rest' \in Seq(Segments) /\ Len(rest') = Len(rest) - 1
        /\ Head(rest) \in Segments
        /\ Len(rest) = 1 \/ Len(rest) > 1
        /\ Len(rest) = 1 => rest' = << >>
    BY <1>0, <2>1, NonEmpty
  <2>3. ASSUME Head(rest) \in Dots
        PROVE  reference.tail # "" /\ rest' = << >>
    <3>1. ~(Len(rest) > 1 \/ reference.tail = "")
      BY <1>4, <2>1, <2>3 DEF CopySegment, IsDot
    <3> QED BY <2>2, <3>1
  <2>4. \A i \in DOMAIN output : output[i] \notin Dots
    BY <1>0, <2>1 DEF Cleared
  <2>5. /\ output' \in Seq(Segments) /\ Len(output') = Len(output) + 1
        /\ \A i \in DOMAIN output' :
             IF i = Len(output) + 1 THEN output'[i] = Head(rest)
             ELSE i \in DOMAIN output /\ output'[i] = output[i]
    BY <1>0, <2>1, <2>2
  <2>6. Cleared'
    BY <2>1, <2>3, <2>4, <2>5 DEF Cleared
  <2>7. Len(output') + Len(rest') <= room
    BY <1>0, <2>1, <2>2, <2>5
  <2> QED BY <1>0, <2>1, <2>2, <2>5, <2>6, <2>7 DEF Inv, TypeOK
<1>5. CASE CopyTail
  BY <1>0, <1>5 DEF CopyTail, args, Inv, TypeOK, Cleared
<1>6. CASE UNCHANGED vars
  BY <1>0, <1>6 DEF vars, args, Inv, TypeOK, Cleared
<1> QED BY <1>1, <1>2, <1>3, <1>4, <1>5, <1>6 DEF Next

-----------------------------------------------------------------------------
(***************************************************************************)
(* rdfa_resolve_uri keeps its types, and never writes more to the          *)
(* destination than it allocated.                                          *)
(***************************************************************************)
THEOREM IrisTypeCorrect == Spec => []TypeOK
<1>1. Inv => TypeOK
  BY DEF Inv
<1> QED BY <1>1, InvInitially, InvKept, PTL DEF Spec

(***************************************************************************)
(* A resolved IRI has no "." or ".." in its path, except at its end before *)
(* a query or fragment.                                                    *)
(***************************************************************************)
THEOREM NoDotsAreLeft == Spec => []NoDotsLeft
<1>1. Inv => NoDotsLeft
  BY DEF Inv, Cleared, NoDotsLeft
<1> QED BY <1>1, InvInitially, InvKept, PTL DEF Spec

(***************************************************************************)
(* Every turn of the loop that removes dot segments leaves it less to do.  *)
(***************************************************************************)
THEOREM LoopAlwaysShrinks == Spec => LoopShrinks
<1>1. ASSUME Inv, Next, pc = "remove", pc' = "remove" PROVE Work' < Work
  <2>1. /\ SkipDot \/ RemoveSegment \/ CopySegment
        /\ rest \in Seq(Segments)
    BY <1>1 DEF Next, Join, CopyTail, Inv, TypeOK
  <2>2. rest # << >> /\ reference' = reference
    BY <2>1 DEF SkipDot, RemoveSegment, CopySegment, IsDot, args
  <2>3. /\ Len(rest) = 1 \/ Len(rest) > 1
        /\ Tail(rest) \in Seq(Segments) /\ Len(Tail(rest)) = Len(rest) - 1
        /\ Len(rest) = 1 => Tail(rest) = << >>
        /\ Len(rest) > 1 => Tail(rest)[Len(Tail(rest))] = rest[Len(rest)]
        /\ Head(rest) = rest[1] /\ Len(rest) \in Nat
    BY <2>1, <2>2, NonEmpty
  <2>4. CASE rest' = Tail(rest)
    <3> DEFINE extra(p) == IF p # << >> /\ reference.tail = ""
                                /\ p[Len(p)] \in Dots THEN 1 ELSE 0
    <3>1. Work = 2 * Len(rest) + extra(rest)
          /\ Work' = 2 * Len(Tail(rest)) + extra(Tail(rest))
      BY <2>2, <2>4 DEF Work
    <3>2. extra(rest) \in 0 .. 1 /\ extra(Tail(rest)) \in 0 .. 1
      OBVIOUS
    <3> HIDE DEF extra
    <3> QED BY <2>3, <3>1, <3>2
  <2>5. CASE rest' # Tail(rest)
    <3>1. /\ rest' = AfterDot(rest)
          /\ IsDot(".", rest, reference.tail)
             \/ IsDot("..", rest, reference.tail)
      BY <2>1, <2>5 DEF SkipDot, RemoveSegment, CopySegment
    <3>0. Len(rest) = 1 /\ ~(Len(rest) > 1)
      BY <2>1, <2>2, <2>3, <2>5, <3>1, AfterDotType
    <3>2. Len(rest) = 1 /\ rest' = <<"">>
      BY <2>1, <2>2, <3>0, <3>1, AfterDotType
    <3>3. reference.tail = ""
      BY <3>0, <3>1 DEF IsDot
    <3>4. Head(rest) \in Dots
      BY <3>1 DEF IsDot, Dots
    <3>5. rest[Len(rest)] \in Dots
      BY <2>3, <3>2, <3>4
    <3>6. Work = 2 * 1 + 1
      BY <2>2, <3>2, <3>3, <3>5 DEF Work
    <3>7. Len(<<"">>) = 1 /\ <<"">>[1] = "" /\ "" \notin Dots
      BY DEF Dots
    <3>8. Len(rest') = 1 /\ rest'[Len(rest')] \notin Dots
      BY <3>2, <3>7
    <3>9. Work' = 2 * 1 + 0
      BY <3>8 DEF Work
    <3> QED BY <3>6, <3>9
  <2> QED BY <2>4, <2>5
<1>2. Inv /\ [Next]_vars =>
        [pc = "remove" /\ pc' = "remove" => Work' < Work]_vars
  BY <1>1
<1> QED BY <1>2, InvInitially, InvKept, PTL DEF Spec, LoopShrinks

-----------------------------------------------------------------------------
(***************************************************************************)
(* The survivors of the first n segments.  The invariant of the loop is    *)
(* that what it has written are the survivors of what it has read; for a   *)
(* ".." to take the right one, the names behind a survivor that have not   *)
(* been cancelled must be as many as the survivors behind it.              *)
(***************************************************************************)
Plains(path, i, j)  == Cardinality({k \in i + 1 .. j : path[k] \notin Dots})
Doubles(path, i, j) == Cardinality({k \in i + 1 .. j : path[k] = ".."})

\* The segments that survive the first n.
Kept(path, n) ==
  {i \in 1 .. n : /\ path[i] \notin Dots
                  /\ \A j \in i + 1 .. n :
                       Doubles(path, i, j) <= Plains(path, i, j)}

UpTo(path, n, i)   == {s \in Kept(path, n) : s <= i}
Behind(path, n, i) == {s \in Kept(path, n) : s > i}

\* What is left over behind a segment that survives are the survivors.
Balanced(path, n) ==
  \A i \in Kept(path, n) :
    Plains(path, i, n) = Doubles(path, i, n) + Cardinality(Behind(path, n, i))

\* The text holds the survivors, in their order.
Holds(path, n, text) ==
  /\ Len(text) = Cardinality(Kept(path, n))
  /\ \A i \in Kept(path, n) : text[Cardinality(UpTo(path, n, i))] = path[i]
  /\ \A m \in 1 .. Len(text) :
       \E i \in Kept(path, n) : Cardinality(UpTo(path, n, i)) = m

-----------------------------------------------------------------------------
LEMMA KeptFinite ==
  ASSUME NEW path, NEW n \in Nat
  PROVE  /\ IsFiniteSet(Kept(path, n)) /\ Cardinality(Kept(path, n)) \in Nat
         /\ \A i : /\ IsFiniteSet(UpTo(path, n, i))
                   /\ Cardinality(UpTo(path, n, i)) \in Nat
                   /\ IsFiniteSet(Behind(path, n, i))
                   /\ Cardinality(Behind(path, n, i)) \in Nat
<1>1. IsFiniteSet(1 .. n)
  BY FS_Interval
<1>2. IsFiniteSet(Kept(path, n))
  <2>1. Kept(path, n) \in SUBSET (1 .. n)
    BY DEF Kept
  <2> QED BY <1>1, <2>1, FS_Subset
<1>3. ASSUME NEW i
      PROVE  IsFiniteSet(UpTo(path, n, i)) /\ IsFiniteSet(Behind(path, n, i))
  <2>1. /\ UpTo(path, n, i) \in SUBSET Kept(path, n)
        /\ Behind(path, n, i) \in SUBSET Kept(path, n)
    BY DEF UpTo, Behind
  <2> QED BY <1>2, <2>1, FS_Subset
<1> QED BY <1>2, <1>3, FS_CardinalityType

LEMMA CountsNatural ==
  ASSUME NEW path, NEW i \in Nat, NEW j \in Nat
  PROVE  Plains(path, i, j) \in Nat /\ Doubles(path, i, j) \in Nat
<1>1. IsFiniteSet(i + 1 .. j)
  BY FS_Interval
<1>2. /\ {k \in i + 1 .. j : path[k] \notin Dots} \in SUBSET (i + 1 .. j)
      /\ {k \in i + 1 .. j : path[k] = ".."} \in SUBSET (i + 1 .. j)
  OBVIOUS
<1>3. /\ IsFiniteSet({k \in i + 1 .. j : path[k] \notin Dots})
      /\ IsFiniteSet({k \in i + 1 .. j : path[k] = ".."})
  BY <1>1, <1>2, FS_Subset
<1> QED BY <1>3, FS_CardinalityType DEF Plains, Doubles

\* One more segment counts for one, or for none if it is ".".
LEMMA CountOne ==
  ASSUME NEW path, NEW i \in Nat, NEW n \in Nat, i <= n
  PROVE  /\ Plains(path, i, n + 1) =
              Plains(path, i, n) + (IF path[n + 1] \notin Dots THEN 1 ELSE 0)
         /\ Doubles(path, i, n + 1) =
              Doubles(path, i, n) + (IF path[n + 1] = ".." THEN 1 ELSE 0)
<1> DEFINE P(m) == {k \in i + 1 .. m : path[k] \notin Dots}
           D(m) == {k \in i + 1 .. m : path[k] = ".."}
<1>1. IsFiniteSet(P(n)) /\ IsFiniteSet(D(n)) /\ n + 1 \notin P(n) \cup D(n)
  <2>1. IsFiniteSet(i + 1 .. n)
    BY FS_Interval
  <2>2. P(n) \in SUBSET (i + 1 .. n) /\ D(n) \in SUBSET (i + 1 .. n)
    OBVIOUS
  <2>3. n + 1 \notin i + 1 .. n
    OBVIOUS
  <2> QED BY <2>1, <2>2, <2>3, FS_Subset
<1>2. /\ Cardinality(P(n)) \in Nat /\ Cardinality(D(n)) \in Nat
      /\ Cardinality(P(n) \cup {n + 1}) = Cardinality(P(n)) + 1
      /\ Cardinality(D(n) \cup {n + 1}) = Cardinality(D(n)) + 1
  BY <1>1, FS_AddElement, FS_CardinalityType
<1>3. i + 1 .. n + 1 = (i + 1 .. n) \cup {n + 1}
  OBVIOUS
<1>4. P(n + 1) = IF path[n + 1] \notin Dots THEN P(n) \cup {n + 1} ELSE P(n)
  BY <1>3
<1>5. D(n + 1) = IF path[n + 1] = ".." THEN D(n) \cup {n + 1} ELSE D(n)
  BY <1>3
<1>6. /\ Plains(path, i, n + 1) = Cardinality(P(n + 1))
      /\ Plains(path, i, n) = Cardinality(P(n))
      /\ Doubles(path, i, n + 1) = Cardinality(D(n + 1))
      /\ Doubles(path, i, n) = Cardinality(D(n))
  BY DEF Plains, Doubles
<1> HIDE DEF P, D
<1> QED BY <1>2, <1>4, <1>5, <1>6

\* Nothing is counted where there is nothing.
LEMMA CountNone ==
  ASSUME NEW path, NEW i \in Nat
  PROVE  Plains(path, i, i) = 0 /\ Doubles(path, i, i) = 0
<1>1. i + 1 .. i = {}
  OBVIOUS
<1>2. /\ {k \in i + 1 .. i : path[k] \notin Dots} = {}
      /\ {k \in i + 1 .. i : path[k] = ".."} = {}
  BY <1>1
<1> QED BY <1>2, FS_EmptySet DEF Plains, Doubles

\* Which of the first segments survive one more.
LEMMA KeptNext ==
  ASSUME NEW path, NEW n \in Nat
  PROVE  /\ n + 1 \in Kept(path, n + 1) <=> path[n + 1] \notin Dots
         /\ \A i \in 1 .. n :
              i \in Kept(path, n + 1) <=>
                /\ i \in Kept(path, n)
                /\ Doubles(path, i, n + 1) <= Plains(path, i, n + 1)
         /\ Kept(path, n) \subseteq 1 .. n
         /\ Kept(path, n + 1) \subseteq (1 .. n) \cup {n + 1}
<1>1. n + 1 + 1 .. n + 1 = {} /\ n + 1 \in 1 .. n + 1
  OBVIOUS
<1>2. n + 1 \in Kept(path, n + 1) <=> path[n + 1] \notin Dots
  BY <1>1 DEF Kept
<1>3. ASSUME NEW i \in 1 .. n
      PROVE  i \in Kept(path, n + 1) <=>
                /\ i \in Kept(path, n)
                /\ Doubles(path, i, n + 1) <= Plains(path, i, n + 1)
  <2>1. i + 1 .. n + 1 = (i + 1 .. n) \cup {n + 1} /\ i \in 1 .. n + 1
    OBVIOUS
  <2> QED BY <2>1 DEF Kept
<1>4. 1 .. n + 1 = (1 .. n) \cup {n + 1}
  OBVIOUS
<1> QED BY <1>2, <1>3, <1>4 DEF Kept

\* A survivor has survived up to the end.
LEMMA KeptEnough ==
  ASSUME NEW path, NEW n \in Nat, NEW i \in Kept(path, n)
  PROVE  /\ i \in 1 .. n /\ path[i] \notin Dots
         /\ Doubles(path, i, n) <= Plains(path, i, n)
<1>1. i \in 1 .. n /\ path[i] \notin Dots
  BY DEF Kept
<1>2. CASE i = n
  BY <1>1, <1>2, CountNone
<1>3. CASE i # n
  <2>1. n \in i + 1 .. n
    BY <1>1, <1>3
  <2> QED BY <1>1, <2>1 DEF Kept
<1> QED BY <1>1, <1>2, <1>3

\* A "." changes nothing.
LEMMA StepOver ==
  ASSUME NEW path, NEW n \in Nat, path[n + 1] = ".", Balanced(path, n)
  PROVE  Kept(path, n + 1) = Kept(path, n) /\ Balanced(path, n + 1)
<1>1. path[n + 1] \in Dots /\ path[n + 1] # ".."
  BY DEF Dots
<1>2. \A i \in 1 .. n : /\ Plains(path, i, n + 1) = Plains(path, i, n)
                        /\ Doubles(path, i, n + 1) = Doubles(path, i, n)
  <2> TAKE i \in 1 .. n
  <2>1. i \in Nat /\ i <= n
    OBVIOUS
  <2>2. Plains(path, i, n) \in Nat /\ Doubles(path, i, n) \in Nat
    BY <2>1, CountsNatural
  <2> QED BY <1>1, <2>1, <2>2, CountOne
<1>3. Kept(path, n + 1) = Kept(path, n)
  <2>1. \A i \in 1 .. n : i \in Kept(path, n + 1) <=> i \in Kept(path, n)
    <3> TAKE i \in 1 .. n
    <3>1. i \in Kept(path, n) => Doubles(path, i, n) <= Plains(path, i, n)
      BY KeptEnough
    <3>2. Doubles(path, i, n + 1) <= Plains(path, i, n + 1)
            <=> Doubles(path, i, n) <= Plains(path, i, n)
      BY <1>2
    <3>3. i \in Kept(path, n + 1) <=>
            /\ i \in Kept(path, n)
            /\ Doubles(path, i, n + 1) <= Plains(path, i, n + 1)
      BY KeptNext
    <3> QED BY <3>1, <3>2, <3>3
  <2>2. /\ Kept(path, n) \subseteq 1 .. n
        /\ Kept(path, n + 1) \subseteq (1 .. n) \cup {n + 1}
        /\ n + 1 \notin Kept(path, n + 1)
    BY <1>1, KeptNext
  <2> QED BY <2>1, <2>2
<1>4. \A i : Behind(path, n + 1, i) = Behind(path, n, i)
  BY <1>3 DEF Behind
<1>5. \A i \in Kept(path, n) : i \in 1 .. n
  BY KeptEnough
<1> QED BY <1>2, <1>3, <1>4, <1>5 DEF Balanced

\* The ranks depend on the survivors alone.
LEMMA HoldsStill ==
  ASSUME NEW path, NEW n, NEW m, NEW text,
         Kept(path, m) = Kept(path, n), Holds(path, n, text)
  PROVE  Holds(path, m, text)
<1>1. \A i : UpTo(path, m, i) = UpTo(path, n, i)
  BY DEF UpTo
<1> QED BY <1>1 DEF Holds

\* A name survives, the last of all.
LEMMA StepCopy ==
  ASSUME NEW path, NEW n \in Nat, path[n + 1] \notin Dots,
         Balanced(path, n), NEW S, NEW text \in Seq(S), path[n + 1] \in S,
         Holds(path, n, text)
  PROVE  /\ Kept(path, n + 1) = Kept(path, n) \cup {n + 1}
         /\ Balanced(path, n + 1)
         /\ Holds(path, n + 1, Append(text, path[n + 1]))
<1>1. path[n + 1] # ".."
  BY DEF Dots
<1>2. \A i \in 1 .. n : /\ Plains(path, i, n + 1) = Plains(path, i, n) + 1
                        /\ Doubles(path, i, n + 1) = Doubles(path, i, n)
                        /\ Plains(path, i, n) \in Nat
                        /\ Doubles(path, i, n) \in Nat
  <2> TAKE i \in 1 .. n
  <2>1. i \in Nat /\ i <= n
    OBVIOUS
  <2>2. Plains(path, i, n) \in Nat /\ Doubles(path, i, n) \in Nat
    BY <2>1, CountsNatural
  <2>3. /\ Plains(path, i, n + 1) = Plains(path, i, n) +
              (IF path[n + 1] \notin Dots THEN 1 ELSE 0)
        /\ Doubles(path, i, n + 1) = Doubles(path, i, n) +
              (IF path[n + 1] = ".." THEN 1 ELSE 0)
    BY <2>1, CountOne
  <2> QED BY <1>1, <2>2, <2>3
<1>3. Kept(path, n + 1) = Kept(path, n) \cup {n + 1}
  <2>1. \A i \in 1 .. n : i \in Kept(path, n + 1) <=> i \in Kept(path, n)
    <3> TAKE i \in 1 .. n
    <3>1. i \in Kept(path, n + 1) => i \in Kept(path, n)
      BY KeptNext
    <3>2. ASSUME i \in Kept(path, n) PROVE i \in Kept(path, n + 1)
      <4>1. Doubles(path, i, n) <= Plains(path, i, n)
        BY <3>2, KeptEnough
      <4>2. Doubles(path, i, n + 1) <= Plains(path, i, n + 1)
        BY <1>2, <4>1
      <4> QED BY <3>2, <4>2, KeptNext
    <3> QED BY <3>1, <3>2
  <2> QED BY <2>1, KeptNext
<1>4. n + 1 \notin Kept(path, n) /\ \A i \in Kept(path, n) : i \in 1 .. n
  BY KeptEnough
<1>5. ASSUME NEW i \in Kept(path, n)
      PROVE  /\ Behind(path, n + 1, i) = Behind(path, n, i) \cup {n + 1}
             /\ UpTo(path, n + 1, i) = UpTo(path, n, i)
  <2>1. i \in Nat /\ i < n + 1 /\ ~(n + 1 <= i)
    BY <1>4
  <2> QED BY <1>3, <2>1 DEF Behind, UpTo
<1>6. /\ Behind(path, n + 1, n + 1) = {}
      /\ UpTo(path, n + 1, n + 1) = Kept(path, n) \cup {n + 1}
  <2>1. \A i \in Kept(path, n + 1) : i \in Nat /\ i <= n + 1
    BY KeptEnough
  <2>2. Behind(path, n + 1, n + 1) = {}
    BY <2>1 DEF Behind
  <2>3. UpTo(path, n + 1, n + 1) = Kept(path, n + 1)
    BY <2>1 DEF UpTo
  <2> QED BY <1>3, <2>2, <2>3
<1>7. Cardinality(Kept(path, n) \cup {n + 1}) = Cardinality(Kept(path, n)) + 1
  BY <1>4, KeptFinite, FS_AddElement
<1>8. Balanced(path, n + 1)
  <2> SUFFICES ASSUME NEW i \in Kept(path, n + 1)
               PROVE  Plains(path, i, n + 1) =
                        Doubles(path, i, n + 1)
                          + Cardinality(Behind(path, n + 1, i))
    BY DEF Balanced
  <2>1. CASE i \in Kept(path, n)
    <3>1. n + 1 \notin Behind(path, n, i)
      BY <1>4 DEF Behind
    <3>2. /\ Cardinality(Behind(path, n + 1, i)) =
               Cardinality(Behind(path, n, i)) + 1
          /\ Cardinality(Behind(path, n, i)) \in Nat
      BY <1>5, <2>1, <3>1, KeptFinite, FS_AddElement
    <3>3. Plains(path, i, n) =
            Doubles(path, i, n) + Cardinality(Behind(path, n, i))
      BY <2>1 DEF Balanced
    <3>4. i \in 1 .. n
      BY <1>4, <2>1
    <3> QED BY <1>2, <3>2, <3>3, <3>4
  <2>2. CASE i = n + 1
    <3>1. Cardinality(Behind(path, n + 1, n + 1)) = 0
      BY <1>6, FS_EmptySet
    <3>2. Plains(path, n + 1, n + 1) = 0 /\ Doubles(path, n + 1, n + 1) = 0
      BY CountNone
    <3> QED BY <2>2, <3>1, <3>2
  <2> QED BY <1>3, <2>1, <2>2
<1>9. Holds(path, n + 1, Append(text, path[n + 1]))
  <2> DEFINE new == Append(text, path[n + 1])
             c   == Cardinality(Kept(path, n))
  <2>1. c \in Nat /\ Len(text) = c
    BY KeptFinite DEF Holds
  <2>2. /\ Len(new) = c + 1 /\ new[c + 1] = path[n + 1]
        /\ \A k \in 1 .. c : new[k] = text[k]
    BY <2>1
  <2> HIDE DEF new
  <2>3. \A i \in Kept(path, n) : Cardinality(UpTo(path, n, i)) \in 1 .. c
    <3> TAKE i \in Kept(path, n)
    <3>1. UpTo(path, n, i) \in SUBSET Kept(path, n) /\ i \in UpTo(path, n, i)
      BY <1>4 DEF UpTo
    <3>2. /\ Cardinality(UpTo(path, n, i)) <= c
          /\ Cardinality(UpTo(path, n, i)) \in Nat
          /\ Cardinality(UpTo(path, n, i)) # 0
      BY <3>1, KeptFinite, FS_Subset, FS_EmptySet
    <3> HIDE DEF c
    <3> QED BY <2>1, <3>2
  <2>4. Len(new) = Cardinality(Kept(path, n + 1))
    BY <1>3, <1>7, <2>2
  <2>5. Cardinality(UpTo(path, n + 1, n + 1)) = c + 1
    BY <1>6, <1>7
  <2>6. \A i \in Kept(path, n) :
          Cardinality(UpTo(path, n + 1, i)) = Cardinality(UpTo(path, n, i))
    BY <1>5
  <2> HIDE DEF c
  <2>7. \A i \in Kept(path, n + 1) :
          new[Cardinality(UpTo(path, n + 1, i))] = path[i]
    <3> TAKE i \in Kept(path, n + 1)
    <3>1. CASE i \in Kept(path, n)
      <4>1. text[Cardinality(UpTo(path, n, i))] = path[i]
        BY <3>1 DEF Holds
      <4> QED BY <2>2, <2>3, <2>6, <3>1, <4>1
    <3>2. CASE i = n + 1
      BY <2>2, <2>5, <3>2
    <3> QED BY <1>3, <3>1, <3>2
  <2>8. \A m \in 1 .. Len(new) :
          \E i \in Kept(path, n + 1) : Cardinality(UpTo(path, n + 1, i)) = m
    <3> TAKE m \in 1 .. Len(new)
    <3>1. CASE m = c + 1
      <4>1. n + 1 \in Kept(path, n + 1)
        BY <1>3
      <4> QED BY <2>5, <3>1, <4>1
    <3>2. CASE m # c + 1
      <4>1. m \in 1 .. Len(text)
        BY <2>1, <2>2, <3>2
      <4>2. PICK i \in Kept(path, n) : Cardinality(UpTo(path, n, i)) = m
        BY <4>1 DEF Holds
      <4>3. i \in Kept(path, n + 1)
        BY <1>3
      <4> QED BY <2>6, <4>2, <4>3
    <3> QED BY <3>1, <3>2
  <2>9. Holds(path, n + 1, new)
    BY <2>4, <2>7, <2>8 DEF Holds
  <2> QED BY <2>9 DEF new
<1> QED BY <1>3, <1>8, <1>9

\* A ".." takes the last survivor, if there is one.
LEMMA StepCancel ==
  ASSUME NEW path, NEW n \in Nat, path[n + 1] = "..", Balanced(path, n),
         NEW S, NEW text \in Seq(S), Holds(path, n, text)
  PROVE  /\ Balanced(path, n + 1)
         /\ Holds(path, n + 1, IF text = << >> THEN << >>
                               ELSE SubSeq(text, 1, Len(text) - 1))
<1> DEFINE new == IF text = << >> THEN << >>
                  ELSE SubSeq(text, 1, Len(text) - 1)
           c   == Cardinality(Kept(path, n))
<1>1. path[n + 1] \in Dots
  BY DEF Dots
<1>2. \A i \in 1 .. n : /\ Plains(path, i, n + 1) = Plains(path, i, n)
                        /\ Doubles(path, i, n + 1) = Doubles(path, i, n) + 1
                        /\ Plains(path, i, n) \in Nat
                        /\ Doubles(path, i, n) \in Nat
  <2> TAKE i \in 1 .. n
  <2>1. i \in Nat /\ i <= n
    OBVIOUS
  <2>2. Plains(path, i, n) \in Nat /\ Doubles(path, i, n) \in Nat
    BY <2>1, CountsNatural
  <2>3. /\ Plains(path, i, n + 1) = Plains(path, i, n) +
              (IF path[n + 1] \notin Dots THEN 1 ELSE 0)
        /\ Doubles(path, i, n + 1) = Doubles(path, i, n) +
              (IF path[n + 1] = ".." THEN 1 ELSE 0)
    BY <2>1, CountOne
  <2> QED BY <1>1, <2>2, <2>3
<1>3. \A i : i \in Kept(path, n + 1) <=>
        i \in Kept(path, n) /\ Behind(path, n, i) # {}
  <2>1. ASSUME NEW i \in Kept(path, n)
        PROVE  i \in Kept(path, n + 1) <=> Behind(path, n, i) # {}
    <3>1. i \in 1 .. n
      BY KeptEnough
    <3>2. Plains(path, i, n) =
            Doubles(path, i, n) + Cardinality(Behind(path, n, i))
      BY DEF Balanced
    <3>3. /\ Cardinality(Behind(path, n, i)) \in Nat
          /\ Cardinality(Behind(path, n, i)) = 0 <=> Behind(path, n, i) = {}
      BY KeptFinite, FS_EmptySet
    <3>4. Doubles(path, i, n + 1) <= Plains(path, i, n + 1)
            <=> Cardinality(Behind(path, n, i)) # 0
      BY <1>2, <3>1, <3>2, <3>3
    <3> QED BY <3>1, <3>3, <3>4, KeptNext
  <2>2. \A i \in Kept(path, n + 1) : i \in Kept(path, n)
    BY <1>1, KeptNext
  <2> QED BY <2>1, <2>2
<1>4. \A i \in Kept(path, n) : i \in 1 .. n
  BY KeptEnough
<1>5. c \in Nat /\ Len(text) = c /\ IsFiniteSet(Kept(path, n))
  BY KeptFinite DEF Holds
<1>6. CASE Kept(path, n) = {}
  <2>1. Kept(path, n + 1) = {}
    BY <1>3, <1>6
  <2>2. Len(text) = 0
    BY <1>5, <1>6, FS_EmptySet
  <2>3. text = << >>
    BY <2>2, Empty
  <2>4. Holds(path, n + 1, text)
    BY <1>6, <2>1, HoldsStill
  <2> QED BY <2>1, <2>3, <2>4 DEF Balanced
<1>7. CASE Kept(path, n) # {}
  <2>1. c > 0
    BY <1>5, <1>7, FS_EmptySet
  <2>2. PICK last \in Kept(path, n) : Cardinality(UpTo(path, n, last)) = c
    <3>1. c \in 1 .. Len(text)
      BY <1>5, <2>1
    <3> HIDE DEF c
    <3> QED BY <3>1 DEF Holds
  <2>3. \A i \in Kept(path, n) : i <= last
    <3>1. UpTo(path, n, last) \in SUBSET Kept(path, n)
      BY DEF UpTo
    <3>2. UpTo(path, n, last) = Kept(path, n)
      BY <1>5, <2>2, <3>1, FS_Subset
    <3> QED BY <3>2 DEF UpTo
  <2>4. Kept(path, n + 1) = Kept(path, n) \ {last}
    <3>1. Behind(path, n, last) = {}
      BY <1>4, <2>3 DEF Behind
    <3>2. \A i \in Kept(path, n) \ {last} : last \in Behind(path, n, i)
      BY <1>4, <2>3 DEF Behind
    <3> QED BY <1>3, <3>1, <3>2
  <2>5. ASSUME NEW i \in Kept(path, n + 1)
        PROVE  /\ i \in Kept(path, n) /\ i < last
               /\ UpTo(path, n + 1, i) = UpTo(path, n, i)
               /\ Behind(path, n + 1, i) = Behind(path, n, i) \ {last}
               /\ last \in Behind(path, n, i)
    <3>1. i \in Kept(path, n) /\ i < last
      BY <1>4, <2>3, <2>4
    <3>2. i \in Nat /\ last \in Nat /\ ~(last <= i)
      BY <1>4, <3>1
    <3> QED BY <2>4, <3>1, <3>2 DEF UpTo, Behind
  <2>6. Balanced(path, n + 1)
    <3> SUFFICES ASSUME NEW i \in Kept(path, n + 1)
                 PROVE  Plains(path, i, n + 1) =
                          Doubles(path, i, n + 1)
                            + Cardinality(Behind(path, n + 1, i))
      BY DEF Balanced
    <3>1. /\ Cardinality(Behind(path, n, i)) \in Nat
          /\ Cardinality(Behind(path, n + 1, i)) =
               Cardinality(Behind(path, n, i)) - 1
      BY <2>5, KeptFinite, FS_RemoveElement
    <3>2. Plains(path, i, n) =
            Doubles(path, i, n) + Cardinality(Behind(path, n, i))
      BY <2>5 DEF Balanced
    <3>3. i \in 1 .. n
      BY <1>4, <2>5
    <3> QED BY <1>2, <3>1, <3>2, <3>3
  <2>7. Cardinality(Kept(path, n + 1)) = c - 1
    BY <1>5, <2>4, FS_RemoveElement
  <2>8. /\ Len(new) = c - 1
        /\ \A k \in 1 .. c - 1 : new[k] = text[k]
    <3>1. text # << >> /\ Len(text) - 1 \in 0 .. Len(text)
      BY <1>5, <2>1, Empty
    <3>2. new = SubSeq(text, 1, Len(text) - 1)
      BY <3>1
    <3> QED BY <1>5, <3>1, <3>2, Prefix
  <2> HIDE DEF new
  <2>9. \A i \in Kept(path, n + 1) :
          Cardinality(UpTo(path, n, i)) \in 1 .. c - 1
    <3> TAKE i \in Kept(path, n + 1)
    <3>0. \A s \in UpTo(path, n, i) : s # last
      BY <1>4, <2>5 DEF UpTo
    <3>1. /\ UpTo(path, n, i) \in SUBSET Kept(path, n + 1)
          /\ i \in UpTo(path, n, i)
      BY <1>4, <2>4, <2>5, <3>0 DEF UpTo
    <3>2. /\ Cardinality(UpTo(path, n, i)) <= c - 1
          /\ Cardinality(UpTo(path, n, i)) \in Nat
          /\ Cardinality(UpTo(path, n, i)) # 0
      BY <2>7, <3>1, KeptFinite, FS_Subset, FS_EmptySet
    <3> HIDE DEF c
    <3> QED BY <1>5, <3>2
  <2> HIDE DEF c
  <2>10. \A i \in Kept(path, n + 1) :
          new[Cardinality(UpTo(path, n + 1, i))] = path[i]
    <3> TAKE i \in Kept(path, n + 1)
    <3>1. text[Cardinality(UpTo(path, n, i))] = path[i]
      BY <2>5 DEF Holds
    <3> QED BY <2>5, <2>8, <2>9, <3>1
  <2>11. \A m \in 1 .. Len(new) :
          \E i \in Kept(path, n + 1) : Cardinality(UpTo(path, n + 1, i)) = m
    <3> TAKE m \in 1 .. Len(new)
    <3>1. m \in 1 .. Len(text) /\ m # c
      BY <1>5, <2>8
    <3>2. PICK i \in Kept(path, n) : Cardinality(UpTo(path, n, i)) = m
      BY <3>1 DEF Holds
    <3>3. i # last
      BY <2>2, <3>1, <3>2
    <3>4. i \in Kept(path, n + 1)
      BY <2>4, <3>3
    <3> QED BY <2>5, <3>2, <3>4
  <2>12. Holds(path, n + 1, new)
    BY <2>7, <2>8, <2>10, <2>11 DEF Holds
  <2> QED BY <2>6, <2>12 DEF new
<1> QED BY <1>6, <1>7

\* At the start nothing has survived.
LEMMA KeptNothing ==
  ASSUME NEW path
  PROVE  Kept(path, 0) = {} /\ Balanced(path, 0) /\ Holds(path, 0, << >>)
<1>1. Kept(path, 0) = {}
  BY DEF Kept
<1>2. Len(<< >>) = 0 /\ Cardinality({}) = 0 /\ 1 .. 0 = {}
  BY FS_EmptySet
<1> QED BY <1>1, <1>2 DEF Balanced, Holds

\* Survivors of a whole path, as the property has them.
LEMMA KeptOfPath ==
  ASSUME NEW path \in Seq(Segments)
  PROVE  {i \in DOMAIN path : Survives(path, i)} = Kept(path, Len(path))
<1>1. DOMAIN path = 1 .. Len(path)
  OBVIOUS
<1>2. \A i : Survives(path, i) <=>
        /\ path[i] \notin Dots
        /\ \A j \in i + 1 .. Len(path) :
             Doubles(path, i, j) <= Plains(path, i, j)
  BY DEF Survives, Doubles, Plains
<1> QED BY <1>1, <1>2 DEF Kept

\* A text that holds the survivors is what the property asks for.
LEMMA HoldsAll ==
  ASSUME NEW path \in Seq(Segments), NEW text \in Seq(Segments),
         Holds(path, Len(path), text)
  PROVE  LET ended == path # << >> /\ path[Len(path)] \in Dots
         IN  /\ ended => WithoutDots(path) = Append(text, "")
             /\ ~ended => WithoutDots(path) = text
<1> DEFINE kept   == {i \in DOMAIN path : Survives(path, i)}
           nth(n) == CHOOSE i \in kept : Cardinality({k \in kept : k <= i}) = n
           all    == [n \in 1 .. Cardinality(kept) |-> path[nth(n)]]
           ended  == path # << >> /\ path[Len(path)] \in Dots
<1>1. kept = Kept(path, Len(path))
  BY KeptOfPath
<1>2. \A i : {k \in kept : k <= i} = UpTo(path, Len(path), i)
  BY <1>1 DEF UpTo
<1>3. Cardinality(kept) = Len(text)
  BY <1>1 DEF Holds
<1>4. \A n \in 1 .. Len(text) : path[nth(n)] = text[n]
  <2> TAKE n \in 1 .. Len(text)
  <2>1. \E i \in kept : Cardinality({k \in kept : k <= i}) = n
    BY <1>1, <1>2 DEF Holds
  <2>2. nth(n) \in kept /\ Cardinality({k \in kept : k <= nth(n)}) = n
    BY <2>1
  <2> HIDE DEF nth
  <2>3. text[Cardinality(UpTo(path, Len(path), nth(n)))] = path[nth(n)]
    BY <1>1, <2>2 DEF Holds
  <2> QED BY <1>2, <2>2, <2>3
<1>5. all = text
  <2>1. all = [n \in 1 .. Len(text) |-> all[n]]
    BY <1>3
  <2>2. text = [n \in 1 .. Len(text) |-> text[n]]
    OBVIOUS
  <2>3. \A n \in 1 .. Len(text) : all[n] = path[nth(n)]
    BY <1>3
  <2> HIDE DEF nth, all
  <2>4. \A n \in 1 .. Len(text) : all[n] = text[n]
    BY <1>4, <2>3
  <2> QED BY <2>1, <2>2, <2>4
<1>6. WithoutDots(path) = all \o (IF ended THEN <<"">> ELSE << >>)
  BY DEF WithoutDots
<1> HIDE DEF all, ended
<1>7. text \o << >> = text /\ text \o <<"">> = Append(text, "")
  <2>1. "" \in Segments
    BY DEF Segments
  <2>2. text \o << >> = text
    OBVIOUS
  <2>3. text \o <<"">> = Append(text, "")
    BY <2>1, AppendIsConcat
  <2> QED BY <2>2, <2>3
<1>8. ended => WithoutDots(path) = Append(text, "")
  BY <1>5, <1>6, <1>7
<1>9. ~ended => WithoutDots(path) = text
  BY <1>5, <1>6, <1>7
<1> QED BY <1>8, <1>9 DEF ended

\* A path without dots survives.
LEMMA NothingToCancel ==
  ASSUME NEW path \in Seq(Segments),
         \A i \in DOMAIN path : path[i] \notin Dots
  PROVE  WithoutDots(path) = path
<1> DEFINE n == Len(path)
<1>1. n \in Nat /\ DOMAIN path = 1 .. n
  OBVIOUS
<1>2. Kept(path, n) = 1 .. n
  <2> SUFFICES ASSUME NEW i \in 1 .. n, NEW j \in i + 1 .. n
               PROVE  Doubles(path, i, j) <= Plains(path, i, j)
    BY <1>1 DEF Kept
  <2>1. i \in Nat /\ j \in Nat /\ \A k \in i + 1 .. j : k \in 1 .. n
    OBVIOUS
  <2>2. ".." \in Dots
    BY DEF Dots
  <2>3. {k \in i + 1 .. j : path[k] = ".."} = {}
    BY <1>1, <2>1, <2>2
  <2>4. Doubles(path, i, j) = 0 /\ Plains(path, i, j) \in Nat
    BY <2>1, <2>3, FS_EmptySet, CountsNatural DEF Doubles
  <2> QED BY <2>4
<1>3. \A i \in 1 .. n : UpTo(path, n, i) = 1 .. i
  BY <1>2 DEF UpTo
<1>4. \A i \in 0 .. n : Cardinality(1 .. i) = i
  BY <1>1, FS_Interval
<1>5. Holds(path, n, path)
  <2>1. \A i \in 1 .. n : Cardinality(UpTo(path, n, i)) = i
    BY <1>3, <1>4
  <2>2. Cardinality(Kept(path, n)) = n
    BY <1>1, <1>2, <1>4
  <2> HIDE DEF n
  <2>3. Len(path) = n
    BY DEF n
  <2> QED BY <1>2, <2>1, <2>2, <2>3 DEF Holds
<1>6. path # << >> => path[n] \notin Dots
  BY <1>1, NonEmpty
<1> QED BY <1>5, <1>6, HoldsAll DEF n

-----------------------------------------------------------------------------
(***************************************************************************)
(* The loop has read the first n segments of the joined path and written   *)
(* those that survive; a dot that ended the path has left its slash.       *)
(***************************************************************************)
Path  == Joined(base, reference).path
Ended == Path # << >> /\ Path[Len(Path)] \in Dots

Reading(n) ==
  /\ Holds(Path, n, output) /\ Len(rest) = Len(Path) - n
  /\ \A k \in 1 .. Len(rest) : rest[k] = Path[n + k]
  /\ n = Len(Path) => ~Ended

LastSlash ==
  Holds(Path, Len(Path), output) /\ rest = <<"">> /\ Ended

SlashWritten ==
  /\ \E text \in Seq(Segments) :
       Holds(Path, Len(Path), text) /\ output = Append(text, "")
  /\ rest = << >> /\ Ended

Expected ==
  /\ Plain(Path)
  /\ reference.kind = "relative" => base.path # << >>

LoopInv ==
  /\ pc # "join" => host = Joined(base, reference).host
  /\ pc = "remove" /\ Expected =>
       \/ \E n \in 0 .. Len(Path) : Balanced(Path, n) /\ Reading(n)
       \/ LastSlash \/ SlashWritten
  /\ pc = "done" /\ Expected => output = WithoutDots(Path)

\* What the next segment is, while the loop reads the path.
LEMMA ReadingNext ==
  ASSUME Inv, NEW n \in 0 .. Len(Path), Reading(n), rest # << >>
  PROVE  /\ Path \in Seq(Segments) /\ n \in Nat /\ n + 1 \in 0 .. Len(Path)
         /\ Path[n + 1] = Head(rest) /\ Head(rest) \in Segments
         /\ Len(rest) > 1 <=> n + 1 # Len(Path)
         /\ Len(rest) > 1 \/ Len(rest) = 1
         /\ Len(Tail(rest)) = Len(Path) - (n + 1)
         /\ \A k \in 1 .. Len(Tail(rest)) : Tail(rest)[k] = Path[(n + 1) + k]
<1> DEFINE p == Path
           N == Len(p)
<1>1. Path \in Seq(Segments) /\ rest \in Seq(Segments)
  BY JoinedType DEF Inv, TypeOK, Path
<1>2. N \in Nat /\ n \in 0 .. N
  BY <1>1
<1>3. /\ Len(rest) \in Nat \ {0} /\ Head(rest) = rest[1]
      /\ Head(rest) \in Segments
      /\ Len(rest) = 1 \/ Len(rest) > 1
      /\ Tail(rest) \in Seq(Segments) /\ Len(Tail(rest)) = Len(rest) - 1
  BY <1>1, NonEmpty
<1>4. /\ Len(rest) = N - n
      /\ \A k \in 1 .. Len(rest) : rest[k] = p[n + k]
  BY DEF Reading
<1>5. \A k \in 1 .. Len(rest) - 1 : Tail(rest)[k] = rest[k + 1]
  BY <1>1
<1> HIDE DEF N, p
<1>6. \A k \in 1 .. Len(rest) - 1 : Tail(rest)[k] = p[(n + 1) + k]
  <2> TAKE k \in 1 .. Len(rest) - 1
  <2>1. k + 1 \in 1 .. Len(rest) /\ n + (k + 1) = (n + 1) + k
    BY <1>2, <1>3
  <2>2. rest[k + 1] = p[n + (k + 1)]
    BY <1>4, <2>1
  <2> QED BY <1>5, <2>1, <2>2
<1>7. 1 \in 1 .. Len(rest)
  BY <1>3
<1>8. p[n + 1] = Head(rest)
  BY <1>3, <1>4, <1>7
<1>9. /\ n \in Nat /\ n + 1 \in 0 .. N /\ Len(rest) > 1 <=> n + 1 # N
      /\ Len(Tail(rest)) = N - (n + 1)
  BY <1>2, <1>3, <1>4
<1> QED BY <1>1, <1>3, <1>6, <1>8, <1>9 DEF N, p

\* What a dot segment leaves of the source.
LEMMA ReadDot ==
  ASSUME Inv, NEW n \in 0 .. Len(Path), Reading(n), rest # << >>,
         Head(rest) \in Dots, rest' = AfterDot(rest), Path' = Path,
         NEW text, Holds(Path, n + 1, text), output' = text,
         Balanced(Path, n + 1)
  PROVE  \/ \E m \in 0 .. Len(Path) : (Balanced(Path, m) /\ Reading(m))'
         \/ LastSlash'
<1>1. /\ Path \in Seq(Segments) /\ n \in Nat /\ n + 1 \in 0 .. Len(Path)
      /\ Path[n + 1] = Head(rest) /\ Head(rest) \in Segments
      /\ Len(rest) > 1 <=> n + 1 # Len(Path)
      /\ Len(rest) > 1 \/ Len(rest) = 1
      /\ Len(Tail(rest)) = Len(Path) - (n + 1)
      /\ \A k \in 1 .. Len(Tail(rest)) : Tail(rest)[k] = Path[(n + 1) + k]
  BY ReadingNext
<1>2. rest \in Seq(Segments)
  BY DEF Inv, TypeOK
<1>3. CASE Len(rest) > 1
  <2>1. rest' = Tail(rest)
    BY <1>2, <1>3, AfterDotType
  <2>2. Reading(n + 1)'
    BY <1>1, <1>3, <2>1 DEF Reading
  <2>3. Balanced(Path, n + 1)'
    BY DEF Balanced
  <2> QED BY <1>1, <2>2, <2>3
<1>4. CASE Len(rest) = 1
  <2>1. rest' = <<"">>
    BY <1>2, <1>4, AfterDotType
  <2>2. n + 1 = Len(Path)
    BY <1>1, <1>4
  <2>3. Ended
    BY <1>1, <2>2, Empty DEF Ended
  <2>4. Ended'
    BY <2>3 DEF Ended
  <2> QED BY <2>1, <2>2, <2>4 DEF LastSlash
<1> QED BY <1>1, <1>3, <1>4

\* While the loop reads the path, what is written has no empty segment.
LEMMA NothingEmpty ==
  ASSUME NEW path, NEW n \in Nat, NEW text,
         Holds(path, n, text), \A i \in 1 .. n : path[i] # ""
  PROVE  \A m \in 1 .. Len(text) : text[m] # ""
<1> TAKE m \in 1 .. Len(text)
<1>1. PICK i \in Kept(path, n) : Cardinality(UpTo(path, n, i)) = m
  BY DEF Holds
<1>2. text[m] = path[i] /\ i \in 1 .. n
  BY <1>1, KeptEnough DEF Holds
<1> QED BY <1>2

LEMMA LoopInitially == Init => LoopInv
BY DEF Init, LoopInv

LEMMA LoopKept == Inv /\ LoopInv /\ [Next]_vars => LoopInv'
<1> SUFFICES ASSUME Inv, LoopInv, [Next]_vars PROVE LoopInv'
  OBVIOUS
<1>0. /\ base \in Bases /\ reference \in References
      /\ rest \in Seq(Segments) /\ output \in Seq(Segments)
      /\ Path \in Seq(Segments)
  BY JoinedType DEF Inv, TypeOK, Path
<1>a. UNCHANGED args =>
        Path' = Path /\ (Expected <=> Expected') /\ (Ended <=> Ended')
  BY DEF args, Path, Expected, Plain, Ended
<1>1. CASE Join
  <2>1. UNCHANGED args /\ host' = Joined(base, reference).host
    BY <1>1 DEF Join
  <2>2. host' = Joined(base, reference)'.host
    BY <2>1 DEF args
  <2>3. CASE HasDots(Joined(base, reference))
    <3>1. rest' = Path /\ output' = << >> /\ pc' = "remove"
      BY <1>1, <2>3 DEF Join, Path
    <3>2. Balanced(Path, 0) /\ Holds(Path, 0, << >>)
      BY KeptNothing
    <3>3. Len(Path) = 0 => ~Ended
      BY <1>0, Empty DEF Ended
    <3>4. /\ Len(Path) = Len(Path) - 0 /\ 0 \in 0 .. Len(Path)
          /\ \A k \in 1 .. Len(Path) : Path[k] = Path[0 + k]
      BY <1>0
    <3>5. Reading(0)' /\ Balanced(Path, 0)'
      BY <1>a, <2>1, <3>1, <3>2, <3>3, <3>4 DEF Reading, Balanced
    <3> QED BY <1>a, <2>1, <2>2, <3>1, <3>4, <3>5 DEF LoopInv
  <2>4. CASE ~HasDots(Joined(base, reference))
    <3>1. output' = Path /\ pc' = "done"
      BY <1>1, <2>4 DEF Join, Path
    <3>2. \A i \in DOMAIN Path : Path[i] \notin Dots
      BY <2>4 DEF HasDots, Path
    <3>3. WithoutDots(Path) = Path
      BY <1>0, <3>2, NothingToCancel
    <3>4. WithoutDots(Path)' = WithoutDots(Path)
      BY <1>a, <2>1
    <3> QED BY <1>a, <2>1, <2>2, <3>1, <3>3, <3>4 DEF LoopInv
  <2> QED BY <2>3, <2>4
<1>2. CASE SkipDot
  <2>1. /\ pc = "remove" /\ UNCHANGED <<args, host, output, pc>>
        /\ rest # << >> /\ Head(rest) = "." /\ rest' = AfterDot(rest)
    BY <1>2 DEF SkipDot, IsDot
  <2>2. host' = Joined(base, reference)'.host
    BY <2>1 DEF LoopInv, args
  <2>3. CASE ~Expected'
    BY <2>1, <2>2, <2>3 DEF LoopInv
  <2>4. CASE Expected'
    <3>1. ~LastSlash /\ ~SlashWritten
      <4>1. <<"">> \in Seq({""}) /\ Head(<<"">>) = ""
        OBVIOUS
      <4> QED BY <2>1, <4>1 DEF LastSlash, SlashWritten
    <3>2. PICK n \in 0 .. Len(Path) : Balanced(Path, n) /\ Reading(n)
      BY <1>a, <2>1, <2>4, <3>1 DEF LoopInv
    <3>3. Path[n + 1] = "." /\ n \in Nat
      BY <2>1, <3>2, ReadingNext
    <3>4. Kept(Path, n + 1) = Kept(Path, n) /\ Balanced(Path, n + 1)
      BY <3>2, <3>3, StepOver
    <3>5. Holds(Path, n + 1, output)
      BY <3>2, <3>4, HoldsStill DEF Reading
    <3>6. "." \in Dots
      BY DEF Dots
    <3>7. \/ \E m \in 0 .. Len(Path) : (Balanced(Path, m) /\ Reading(m))'
          \/ LastSlash'
      BY <1>a, <2>1, <3>2, <3>4, <3>5, <3>6, ReadDot
    <3> QED BY <1>a, <2>1, <2>2, <3>7 DEF LoopInv
  <2> QED BY <2>3, <2>4
<1>3. CASE RemoveSegment
  <2>1. /\ pc = "remove" /\ UNCHANGED <<args, host, pc>>
        /\ rest # << >> /\ Head(rest) = ".." /\ rest' = AfterDot(rest)
        /\ output' = WithoutLast(output)
    BY <1>3 DEF RemoveSegment, IsDot
  <2>2. host' = Joined(base, reference)'.host
    BY <2>1 DEF LoopInv, args
  <2>3. CASE ~Expected'
    BY <2>1, <2>2, <2>3 DEF LoopInv
  <2>4. CASE Expected'
    <3>1. ~LastSlash /\ ~SlashWritten
      <4>1. Head(<<"">>) = ""
        OBVIOUS
      <4> QED BY <2>1, <4>1 DEF LastSlash, SlashWritten
    <3>2. PICK n \in 0 .. Len(Path) : Balanced(Path, n) /\ Reading(n)
      BY <1>a, <2>1, <2>4, <3>1 DEF LoopInv
    <3>3. Path[n + 1] = ".." /\ n \in Nat /\ n + 1 \in 0 .. Len(Path)
      BY <2>1, <3>2, ReadingNext
    <3> DEFINE text == IF output = << >> THEN << >>
                       ELSE SubSeq(output, 1, Len(output) - 1)
    <3>4. Balanced(Path, n + 1) /\ Holds(Path, n + 1, text)
      BY <1>0, <3>2, <3>3, StepCancel DEF Reading
    <3>5. \A i \in 1 .. n : Path[i] # ""
      <4>1. \A i \in 1 .. Len(Path) - 1 : Path[i] # ""
        BY <1>a, <2>1, <2>4 DEF Expected, Plain
      <4>2. \A i \in 1 .. n : i \in 1 .. Len(Path) - 1
        BY <1>0, <3>3
      <4> QED BY <4>1, <4>2
    <3>6. \A m \in 1 .. Len(output) : output[m] # ""
      <4>1. Holds(Path, n, output)
        BY <3>2 DEF Reading
      <4> QED BY <3>3, <3>5, <4>1, NothingEmpty
    <3>7. output # << >> => Len(output) \in 1 .. Len(output)
      BY <1>0, NonEmpty
    <3>8. output' = text
      BY <2>1, <3>6, <3>7 DEF WithoutLast
    <3> HIDE DEF text
    <3>9. ".." \in Dots
      BY DEF Dots
    <3>10. \/ \E m \in 0 .. Len(Path) : (Balanced(Path, m) /\ Reading(m))'
           \/ LastSlash'
      BY <1>a, <2>1, <3>2, <3>4, <3>8, <3>9, ReadDot
    <3> QED BY <1>a, <2>1, <2>2, <3>10 DEF LoopInv
  <2> QED BY <2>3, <2>4
<1>4. CASE CopySegment
  <2>1. /\ pc = "remove" /\ UNCHANGED <<args, host, pc>> /\ rest # << >>
        /\ \A dot \in Dots : ~IsDot(dot, rest, reference.tail)
        /\ output' = Append(output, Head(rest)) /\ rest' = Tail(rest)
    BY <1>4 DEF CopySegment
  <2>2. host' = Joined(base, reference)'.host
    BY <2>1 DEF LoopInv, args
  <2>3. CASE ~Expected'
    BY <2>1, <2>2, <2>3 DEF LoopInv
  <2>4. CASE Expected'
    <3>1. \/ \E n \in 0 .. Len(Path) : Balanced(Path, n) /\ Reading(n)
          \/ LastSlash
      BY <1>a, <2>1, <2>4 DEF LoopInv, SlashWritten
    <3>2. ASSUME NEW n \in 0 .. Len(Path), Balanced(Path, n), Reading(n)
          PROVE  LoopInv'
      <4>1. /\ n \in Nat /\ n + 1 \in 0 .. Len(Path)
            /\ Path[n + 1] = Head(rest) /\ Head(rest) \in Segments
            /\ Len(rest) > 1 <=> n + 1 # Len(Path)
            /\ Len(Tail(rest)) = Len(Path) - (n + 1)
            /\ \A k \in 1 .. Len(Tail(rest)) :
                 Tail(rest)[k] = Path[(n + 1) + k]
        BY <2>1, <3>2, ReadingNext
      <4>2. Path[n + 1] \notin Dots
        <5> SUFFICES ASSUME Path[n + 1] \in Dots PROVE FALSE
          OBVIOUS
        <5>1. n + 1 = Len(Path) /\ reference.tail # ""
          BY <2>1, <4>1 DEF IsDot
        <5>2. Path # << >>
          <6>1. n + 1 # 0
            BY <4>1
          <6>2. Len(Path) # 0
            BY <5>1, <6>1
          <6> QED BY <6>2
        <5> QED BY <1>a, <2>1, <2>4, <5>1, <5>2 DEF Expected, Plain
      <4>3. Balanced(Path, n + 1) /\ Holds(Path, n + 1, output')
        <5>1. Holds(Path, n, output)
          BY <3>2 DEF Reading
        <5>2. Balanced(Path, n + 1)
              /\ Holds(Path, n + 1, Append(output, Path[n + 1]))
          BY <1>0, <3>2, <4>1, <4>2, <5>1, StepCopy
        <5> QED BY <2>1, <4>1, <5>2
      <4>4. n + 1 = Len(Path) => ~Ended
        BY <4>2 DEF Ended
      <4>5. Reading(n + 1)' /\ Balanced(Path, n + 1)'
        BY <1>a, <2>1, <4>1, <4>3, <4>4 DEF Reading
      <4> QED BY <1>a, <2>1, <2>2, <4>1, <4>5 DEF LoopInv
    <3>3. CASE LastSlash
      <4>1. Head(<<"">>) = "" /\ Tail(<<"">>) = << >>
        OBVIOUS
      <4>2. output' = Append(output, "") /\ rest' = << >>
        BY <2>1, <3>3, <4>1 DEF LastSlash
      <4>3. SlashWritten'
        BY <1>0, <1>a, <2>1, <3>3, <4>2 DEF LastSlash, SlashWritten
      <4> QED BY <2>1, <2>2, <4>3 DEF LoopInv
    <3> QED BY <3>1, <3>2, <3>3
  <2> QED BY <2>3, <2>4
<1>5. CASE CopyTail
  <2>1. /\ pc = "remove" /\ rest = << >> /\ pc' = "done"
        /\ UNCHANGED <<args, host, output>>
    BY <1>5 DEF CopyTail
  <2>2. host' = Joined(base, reference)'.host
    BY <2>1 DEF LoopInv, args
  <2>3. CASE ~Expected'
    BY <2>1, <2>2, <2>3 DEF LoopInv
  <2>4. CASE Expected'
    <3>1. \/ \E n \in 0 .. Len(Path) : Balanced(Path, n) /\ Reading(n)
          \/ SlashWritten
      BY <1>a, <2>1, <2>4 DEF LoopInv, LastSlash
    <3>2. ASSUME NEW n \in 0 .. Len(Path), Balanced(Path, n), Reading(n)
          PROVE  output = WithoutDots(Path)
      <4>1. n = Len(Path)
        <5>1. Len(rest) = 0 /\ Len(rest) = Len(Path) - n
          BY <2>1, <3>2 DEF Reading
        <5> QED BY <1>0, <5>1
      <4> QED BY <1>0, <3>2, <4>1, HoldsAll DEF Reading, Ended
    <3>3. ASSUME SlashWritten PROVE output = WithoutDots(Path)
      <4>1. PICK text \in Seq(Segments) :
              /\ Holds(Path, Len(Path), text) /\ output = Append(text, "")
        BY <3>3 DEF SlashWritten
      <4> QED BY <1>0, <3>3, <4>1, HoldsAll DEF SlashWritten, Ended
    <3>4. WithoutDots(Path)' = WithoutDots(Path)
      BY <1>a, <2>1
    <3> QED BY <2>1, <2>2, <3>1, <3>2, <3>3, <3>4 DEF LoopInv
  <2> QED BY <2>3, <2>4
<1>6. CASE UNCHANGED vars
  BY <1>6 DEF vars, args, LoopInv, Expected, Plain, Path, Balanced, Reading,
              Ended, LastSlash, SlashWritten
<1> QED BY <1>1, <1>2, <1>3, <1>4, <1>5, <1>6 DEF Next

(***************************************************************************)
(* In the IRI that rdfa_resolve_uri returns each ".." has cancelled the    *)
(* last segment that no ".." before it has cancelled, and nothing else is  *)
(* gone, whatever the base and the reference, except those the property    *)
(* names.                                                                  *)
(***************************************************************************)
THEOREM EachDotDotCancelsOne == Spec => []DotsCancelSegments
<1>1. LoopInv => DotsCancelSegments
  BY DEF LoopInv, DotsCancelSegments, Expected, Path
<1> QED BY <1>1, InvInitially, InvKept, LoopInitially, LoopKept, PTL DEF Spec
=============================================================================
