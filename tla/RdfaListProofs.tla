--------------------------- MODULE RdfaListProofs ---------------------------
(***************************************************************************)
(* Proofs about the lists of RDFa 1.1: what the document adds to a list is *)
(* delivered, once and in order.                                           *)
(*                                                                         *)
(* An addition waits in the list mapping under its subject and predicate   *)
(* until the list is sent at the end of an element; the same subject and   *)
(* predicate may start another list later.  The ledger relates the two     *)
(* sides: every addition the tree names is in one entry of the mapping or  *)
(* in one list that was sent, and each holds its additions in order.  An   *)
(* application reads a list cell by cell, so a list that is sent is read   *)
(* back as its items only because no other list of the same element uses   *)
(* the names of its cells.                                                 *)
(***************************************************************************)
EXTENDS RdfaTripleProofs, FiniteSetTheorems, FunctionTheorems, SequenceTheorems

(***************************************************************************)
(* The ledger.  Every addition the document makes to a list is in one      *)
(* place: it waits under its key, or it was sent with one list.  L is the  *)
(* set of additions, M the list mapping, G the lists that were sent and V  *)
(* their values.                                                           *)
(***************************************************************************)
KeyOf(e) == <<e.t.s, e.t.p>>

\* Additions to one list, in the order in which they were made.
Chronicle(xs, k) ==
  /\ \A i \in DOMAIN xs : xs[i].key = k
  /\ \A i, j \in DOMAIN xs : i < j => xs[i] # xs[j] /\ xs[i].pos <= xs[j].pos

Carries(xs, values) ==
  Len(xs) = Len(values) /\ \A i \in DOMAIN xs : xs[i].value = values[i]

Among(xs, x) == \E i \in DOMAIN xs : xs[i] = x

AdditionsOK(L) ==
  IsFiniteSet(L) /\ \A x \in L : x.pos \in Int /\ x.key \in Keys

\* Where the additions are.
Placed(L, G, waiting, sent) ==
  /\ \A x \in L : Among(waiting[x.key], x) \/ \E e \in G : Among(sent[e], x)
  /\ \A x \in L : \A d, e \in G : Among(sent[d], x) /\ Among(sent[e], x) => d = e
  /\ \A x \in L : \A e \in G : Among(sent[e], x) => ~Among(waiting[x.key], x)

Sending(L, G, V, sent) ==
  /\ sent \in [G -> Seq(L)]
  /\ \A e \in G : Chronicle(sent[e], KeyOf(e)) /\ Carries(sent[e], V[e])

Waiting(L, M, waiting) ==
  /\ waiting \in [Keys -> Seq(L)]
  /\ \A k \in Keys : Chronicle(waiting[k], k)
  /\ \A l \in M : Carries(waiting[l.key], l.items)
  /\ \A k \in Keys : waiting[k] # << >> => \E l \in M : l.key = k

IsLedger(L, M, G, V, waiting, sent) ==
  /\ AdditionsOK(L) /\ Placed(L, G, waiting, sent)
  /\ Sending(L, G, V, sent) /\ Waiting(L, M, waiting)

Ledger(L, M, G, V) == \E waiting, sent : IsLedger(L, M, G, V, waiting, sent)

\* The additions of one tag, by key.
Batch(N, keys, value, pos, q) ==
  /\ AdditionsOK(N) /\ \A x \in N : x.value = value /\ x.pos = pos
  /\ q \in [Keys -> Seq(N)]
  /\ \A k \in Keys : /\ Chronicle(q[k], k)
                     /\ Len(q[k]) = Len(Copies(keys, k, value))
  /\ \A x \in N : Among(q[x.key], x)

-----------------------------------------------------------------------------
(* The additions of one tag: a chronicle for each key.                     *)

\* A function from 1 .. n is a sequence.
LEMMA FunctionIsSeq ==
  ASSUME NEW S, NEW n \in Nat, NEW f \in [1 .. n -> S]
  PROVE  f \in Seq(S) /\ Len(f) = n /\ DOMAIN f = 1 .. n
OBVIOUS

HoldersOf(keys, k) == {i \in DOMAIN keys : keys[i] = k}

Enumerates(b, n, S) ==
  /\ b \in [1 .. n -> S]
  /\ \A i, j \in 1 .. n : b[i] = b[j] => i = j
  /\ \A x \in S : \E i \in 1 .. n : b[i] = x

\* The copies of a value for one key stand for the positions that hold it.
LEMMA CopiesAre ==
  ASSUME NEW D \in Positions, NEW keys \in [D -> Keys], NEW k, NEW V,
         NEW value \in V
  PROVE  LET copies == Copies(keys, k, value)
         IN  /\ copies \in Seq(V) /\ Len(copies) \in Nat
             /\ \A j \in 1 .. Len(copies) : copies[j] = value
             /\ \E b : Enumerates(b, Len(copies), HoldersOf(keys, k))
<1> DEFINE S == HoldersOf(keys, k)
           n == Cardinality(S)
<1>1. IsFiniteSet(S)
  BY FS_Subset DEF Positions, HoldersOf
<1> HIDE DEF S
<1>2. n \in Nat /\ Bijection(1 .. n, S) # {}
  BY <1>1, FS_CardinalityType, Fun_ExistsBij
<1>3. \E b : Enumerates(b, n, S)
  <2>1. PICK b \in Bijection(1 .. n, S) : TRUE
    BY <1>2
  <2> HIDE DEF n
  <2>2. Enumerates(b, n, S)
    <3>1. /\ b \in [1 .. n -> S]
          /\ \A i, j \in 1 .. n : b[i] = b[j] => i = j
          /\ \A x \in S : \E i \in 1 .. n : b[i] = x
      BY <2>1 DEF Bijection, Injection, Surjection, IsInjective
    <3> QED BY <3>1 DEF Enumerates
  <2> QED BY <2>2
<1>4. Copies(keys, k, value) = [j \in 1 .. n |-> value]
  BY DEF Copies, S, HoldersOf
<1> HIDE DEF n
<1>5. [j \in 1 .. n |-> value] \in Seq(V) /\ Len([j \in 1 .. n |-> value]) = n
  BY <1>2
<1> QED BY <1>2, <1>3, <1>4, <1>5 DEF S

\* What one tag adds under each key is a chronicle of its own.
LEMMA BatchOfTag ==
  ASSUME NEW D \in Positions, NEW keys \in [D -> Keys], NEW value,
         NEW pos \in Int
  PROVE  \E q : Batch({[pos |-> pos, i |-> i, value |-> value, key |-> keys[i]] :
                         i \in D}, keys, value, pos, q)
<1> DEFINE made(i) == [pos |-> pos, i |-> i, value |-> value, key |-> keys[i]]
           N == {made(i) : i \in D}
           size(k) == Len(Copies(keys, k, value))
           b(k) == CHOOSE f : Enumerates(f, size(k), HoldersOf(keys, k))
           q == [k \in Keys |-> [j \in 1 .. size(k) |-> made(b(k)[j])]]
<1>1. \A k : size(k) \in Nat /\ Enumerates(b(k), size(k), HoldersOf(keys, k))
  <2> TAKE k
  <2>1. value \in {value}
    OBVIOUS
  <2>2. size(k) \in Nat /\ \E f : Enumerates(f, size(k), HoldersOf(keys, k))
    BY <2>1, CopiesAre
  <2> HIDE DEF size
  <2> QED BY <2>2
<1>2. \A k : /\ \A j \in 1 .. size(k) : b(k)[j] \in D /\ keys[b(k)[j]] = k
             /\ \A i, j \in 1 .. size(k) : b(k)[i] = b(k)[j] => i = j
             /\ \A i \in D : keys[i] = k => \E j \in 1 .. size(k) : b(k)[j] = i
  <2> HIDE DEF b, size
  <2> QED BY <1>1 DEF Enumerates, HoldersOf
<1>3. AdditionsOK(N)
  <2> DEFINE f == [i \in D |-> made(i)]
  <2>1. f \in [D -> N]
    OBVIOUS
  <2>2. N = {f[i] : i \in D}
    OBVIOUS
  <2>3. IsFiniteSet({f[i] : i \in D})
    <3>1. IsFiniteSet(D)
      BY DEF Positions
    <3> HIDE DEF f, N, made
    <3> QED BY <2>1, <3>1, FiniteImage
  <2>4. \A x \in N : x.pos \in Int /\ x.key \in Keys
    OBVIOUS
  <2> QED BY <2>2, <2>3, <2>4 DEF AdditionsOK
<1>4. \A x \in N : x.value = value /\ x.pos = pos
  OBVIOUS
<1>5. \A i \in D : /\ made(i) \in N /\ made(i).key = keys[i]
                   /\ made(i).pos = pos /\ made(i).i = i
  OBVIOUS
<1>6. /\ \A x \in N : \E i \in D : x = made(i)
      /\ \A i \in D : keys[i] \in Keys
  OBVIOUS
<1>7. \A k \in Keys : q[k] = [j \in 1 .. size(k) |-> made(b(k)[j])]
  OBVIOUS
<1>8. q = [k \in Keys |-> q[k]]
  OBVIOUS
<1>9. N = {[pos |-> pos, i |-> i, value |-> value, key |-> keys[i]] : i \in D}
  OBVIOUS
<1>10. \A k : size(k) = Len(Copies(keys, k, value))
  OBVIOUS
<1> HIDE DEF made, b, size, q, N
<1>11. \A k \in Keys : /\ q[k] \in Seq(N) /\ Len(q[k]) = size(k)
                       /\ DOMAIN q[k] = 1 .. size(k)
                       /\ \A j \in 1 .. size(k) : q[k][j] = made(b(k)[j])
  <2> TAKE k \in Keys
  <2>1. \A j \in 1 .. size(k) : made(b(k)[j]) \in N
    BY <1>2, <1>5
  <2>2. q[k] \in [1 .. size(k) -> N] /\ size(k) \in Nat
    BY <1>1, <1>7, <2>1
  <2>3. q[k] \in Seq(N) /\ Len(q[k]) = size(k) /\ DOMAIN q[k] = 1 .. size(k)
    BY <2>2, FunctionIsSeq
  <2> QED BY <1>7, <2>3
<1>12. q \in [Keys -> Seq(N)]
  BY <1>8, <1>11
<1>13. \A k \in Keys : Chronicle(q[k], k)
  <2> TAKE k \in Keys
  <2>1. \A i \in DOMAIN q[k] : q[k][i].key = k /\ q[k][i].pos = pos
    BY <1>2, <1>5, <1>11
  <2>2. \A i, j \in 1 .. size(k) : i < j => q[k][i] # q[k][j]
    <3> SUFFICES ASSUME NEW i \in 1 .. size(k), NEW j \in 1 .. size(k),
                        q[k][i] = q[k][j]
                 PROVE  i = j
      BY <1>1
    <3>1. b(k)[i] = b(k)[j]
      BY <1>2, <1>5, <1>11
    <3> QED BY <1>2, <3>1
  <2> QED BY <1>11, <2>1, <2>2 DEF Chronicle
<1>14. \A x \in N : Among(q[x.key], x)
  <2> TAKE x \in N
  <2>1. PICK i \in D : x = made(i)
    BY <1>6
  <2>2. x.key = keys[i] /\ x.key \in Keys
    BY <1>5, <1>6, <2>1
  <2>3. PICK j \in 1 .. size(x.key) : b(x.key)[j] = i
    BY <1>2, <2>2
  <2> QED BY <1>11, <2>1, <2>2, <2>3 DEF Among
<1>15. Batch(N, keys, value, pos, q)
  BY <1>3, <1>4, <1>10, <1>11, <1>12, <1>13, <1>14 DEF Batch
<1> QED BY <1>9, <1>15

-----------------------------------------------------------------------------
(* Adding to the ledger.                                                   *)

\* A chronicle may go on with a later one.
LEMMA ChroniclesJoin ==
  ASSUME NEW S, \A x \in S : x.pos \in Int, NEW f \in Seq(S), NEW g \in Seq(S),
         NEW k, Chronicle(f, k), Chronicle(g, k),
         \A i \in DOMAIN f, j \in DOMAIN g : f[i].pos < g[j].pos
  PROVE  Chronicle(f \o g, k)
<1> DEFINE h == f \o g
<1>1. /\ h \in Seq(S) /\ Len(h) = Len(f) + Len(g) /\ Len(f) \in Nat /\ Len(g) \in Nat
      /\ \A i \in 1 .. Len(f) + Len(g) :
           h[i] = IF i <= Len(f) THEN f[i] ELSE g[i - Len(f)]
  BY ConcatProperties, LenProperties
<1>2. DOMAIN h = 1 .. Len(f) + Len(g) /\ DOMAIN f = 1 .. Len(f) /\ DOMAIN g = 1 .. Len(g)
  BY <1>1
<1> HIDE DEF h
<1>3. \A i \in DOMAIN h :
        \/ i \in DOMAIN f /\ h[i] = f[i]
        \/ i > Len(f) /\ i - Len(f) \in DOMAIN g /\ h[i] = g[i - Len(f)]
  BY <1>1, <1>2
<1>4. \A i \in DOMAIN h : h[i].key = k
  BY <1>3 DEF Chronicle
<1>5. ASSUME NEW i \in DOMAIN h, NEW j \in DOMAIN h, i < j
      PROVE  h[i] # h[j] /\ h[i].pos <= h[j].pos
  <2>1. CASE j \in DOMAIN f /\ h[j] = f[j]
    <3>1. i \in DOMAIN f /\ h[i] = f[i]
      BY <1>1, <1>2, <1>5, <2>1
    <3> QED BY <1>5, <2>1, <3>1 DEF Chronicle
  <2>2. CASE j > Len(f) /\ j - Len(f) \in DOMAIN g /\ h[j] = g[j - Len(f)]
    <3>1. CASE i \in DOMAIN f /\ h[i] = f[i]
      <4>1. f[i].pos < g[j - Len(f)].pos
        BY <2>2, <3>1
      <4>2. f[i] \in S /\ g[j - Len(f)] \in S
        BY <2>2, <3>1
      <4>3. f[i].pos \in Int /\ g[j - Len(f)].pos \in Int
        BY <4>2
      <4>4. h[i].pos < h[j].pos /\ h[i].pos \in Int /\ h[j].pos \in Int
        BY <2>2, <3>1, <4>1, <4>3
      <4> QED BY <4>4
    <3>2. CASE i > Len(f) /\ i - Len(f) \in DOMAIN g /\ h[i] = g[i - Len(f)]
      <4>1. i - Len(f) < j - Len(f)
        BY <1>1, <1>2, <1>5
      <4> QED BY <2>2, <3>2, <4>1 DEF Chronicle
    <3> QED BY <1>3, <1>5, <3>1, <3>2
  <2> QED BY <1>3, <1>5, <2>1, <2>2
<1>6. Chronicle(h, k)
  BY <1>4, <1>5 DEF Chronicle
<1> QED BY <1>6 DEF h

\* What two chronicles carry, one after the other.
LEMMA CarriesJoin ==
  ASSUME NEW S, NEW f \in Seq(S), NEW g \in Seq(S), NEW T, NEW u \in Seq(T),
         NEW v \in Seq(T), Carries(f, u), Carries(g, v)
  PROVE  Carries(f \o g, u \o v)
<1> DEFINE h == f \o g
           w == u \o v
<1>1. /\ h \in Seq(S) /\ Len(h) = Len(f) + Len(g) /\ Len(f) \in Nat /\ Len(g) \in Nat
      /\ \A i \in 1 .. Len(f) + Len(g) :
           h[i] = IF i <= Len(f) THEN f[i] ELSE g[i - Len(f)]
  BY ConcatProperties, LenProperties
<1>2. /\ Len(w) = Len(u) + Len(v)
      /\ \A i \in 1 .. Len(u) + Len(v) :
           w[i] = IF i <= Len(u) THEN u[i] ELSE v[i - Len(u)]
  BY ConcatProperties
<1>3. DOMAIN h = 1 .. Len(f) + Len(g) /\ DOMAIN f = 1 .. Len(f) /\ DOMAIN g = 1 .. Len(g)
  BY <1>1
<1>4. Len(f) = Len(u) /\ Len(g) = Len(v)
  BY DEF Carries
<1> HIDE DEF h, w
<1>5. ASSUME NEW i \in DOMAIN h
      PROVE  h[i].value = w[i]
  <2>1. CASE i <= Len(f)
    <3>1. i \in DOMAIN f /\ h[i] = f[i] /\ w[i] = u[i]
      BY <1>1, <1>2, <1>3, <1>4, <1>5, <2>1
    <3> QED BY <3>1 DEF Carries
  <2>2. CASE ~(i <= Len(f))
    <3>1. i - Len(f) \in DOMAIN g /\ h[i] = g[i - Len(f)] /\ w[i] = v[i - Len(f)]
      BY <1>1, <1>2, <1>3, <1>4, <1>5, <2>2
    <3> QED BY <3>1 DEF Carries
  <2> QED BY <2>1, <2>2
<1>6. Carries(h, w)
  BY <1>1, <1>2, <1>4, <1>5 DEF Carries
<1> QED BY <1>6 DEF h, w

\* An addition is among two joined chronicles if it is among either.
LEMMA AmongBoth ==
  ASSUME NEW S, NEW f \in Seq(S), NEW g \in Seq(S)
  PROVE  \A x : Among(f \o g, x) <=> Among(f, x) \/ Among(g, x)
<1>1. Joins(f \o g, f, g, S)
  BY DEF Joins
<1>2. HoldsBoth(f \o g, f, g)
  BY <1>1, ElementsOfBoth
<1> QED BY <1>2 DEF HoldsBoth, Among

\* Entries of a mapping after one tag has added a value under its keys.
Grown(M, more, keys, value) ==
  /\ \A m \in more : \E items \in Seq(Values) :
       /\ m.key \in Keys /\ m.items = items \o Copies(keys, m.key, value)
       /\ \/ \E l \in M : l.key = m.key /\ l.items = items
          \/ items = << >> /\ \A l \in M : l.key # m.key
  /\ \A l \in M : \E m \in more : m.key = l.key
  /\ \A i \in DOMAIN keys : \E m \in more : m.key = keys[i]

\* A tag adds to the ledger, after all that is in it.
LEMMA LedgerAdd ==
  ASSUME NEW L, NEW M, NEW G, NEW V, Ledger(L, M, G, V),
         NEW D \in Positions, NEW keys \in [D -> Keys],
         NEW value \in Values, NEW pos \in Int,
         NEW N, NEW q, Batch(N, keys, value, pos, q),
         \A x \in L : x.pos < pos,
         NEW more, Grown(M, more, keys, value)
  PROVE  Ledger(L \cup N, more, G, V)
<1>1. PICK waiting, sent : IsLedger(L, M, G, V, waiting, sent)
  BY DEF Ledger
<1> DEFINE both == L \cup N
           w == [k \in Keys |-> waiting[k] \o q[k]]
<1>2. /\ AdditionsOK(L) /\ AdditionsOK(N)
      /\ \A x \in N : x.pos = pos /\ x.value = value
      /\ \A x \in L : x \notin N
  BY <1>1 DEF IsLedger, Batch, AdditionsOK
<1>3. AdditionsOK(both)
  <2>1. IsFiniteSet(both)
    BY <1>2, FS_Union DEF AdditionsOK
  <2> QED BY <1>2, <2>1 DEF AdditionsOK
<1>4. \A k \in Keys : /\ waiting[k] \in Seq(L) /\ q[k] \in Seq(N)
                      /\ waiting[k] \in Seq(both) /\ q[k] \in Seq(both)
                      /\ w[k] = waiting[k] \o q[k] /\ w[k] \in Seq(both)
  <2> TAKE k \in Keys
  <2>1. waiting[k] \in Seq(L) /\ q[k] \in Seq(N)
    BY <1>1 DEF IsLedger, Waiting, Batch
  <2>2. waiting[k] \in Seq(both) /\ q[k] \in Seq(both)
    <3>1. L \subseteq both /\ N \subseteq both
      OBVIOUS
    <3> HIDE DEF both
    <3> QED BY <2>1, <3>1, SeqMonotonic
  <2> HIDE DEF both
  <2>3. waiting[k] \o q[k] \in Seq(both)
    BY <2>2, ConcatProperties
  <2> QED BY <2>1, <2>2, <2>3
<1>5. w \in [Keys -> Seq(both)]
  <2>1. w = [k \in Keys |-> w[k]]
    OBVIOUS
  <2> HIDE DEF w
  <2> QED BY <1>4, <2>1
<1>6. sent \in [G -> Seq(both)]
  <2>1. sent \in [G -> Seq(L)] /\ L \subseteq both
    BY <1>1 DEF IsLedger, Sending
  <2>2. \A e \in G : sent[e] \in Seq(both)
    <3> HIDE DEF both
    <3> QED BY <2>1, SeqMonotonic
  <2> QED BY <2>1, <2>2
<1> HIDE DEF w, both
<1>7. \A k \in Keys : /\ DOMAIN waiting[k] = 1 .. Len(waiting[k])
                      /\ DOMAIN q[k] = 1 .. Len(q[k])
                      /\ Len(waiting[k]) \in Nat /\ Len(q[k]) \in Nat
                      /\ \A i \in DOMAIN waiting[k] : waiting[k][i] \in L
                      /\ \A i \in DOMAIN q[k] : q[k][i] \in N
  <2> TAKE k \in Keys
  <2>1. waiting[k] \in Seq(L) /\ q[k] \in Seq(N)
    BY <1>4
  <2> QED BY <2>1
<1>8. \A k \in Keys : Chronicle(w[k], k)
  <2> TAKE k \in Keys
  <2>1. Chronicle(waiting[k], k) /\ Chronicle(q[k], k)
    BY <1>1 DEF IsLedger, Waiting, Batch
  <2>2. \A i \in DOMAIN waiting[k], j \in DOMAIN q[k] :
          waiting[k][i].pos < q[k][j].pos
    BY <1>2, <1>7
  <2>3. \A x \in both : x.pos \in Int
    BY <1>3 DEF AdditionsOK
  <2> QED BY <1>4, <2>1, <2>2, <2>3, ChroniclesJoin
<1>9. ASSUME NEW m \in more
      PROVE  Carries(w[m.key], m.items)
  <2>1. PICK items \in Seq(Values) :
          /\ m.key \in Keys /\ m.items = items \o Copies(keys, m.key, value)
          /\ \/ \E l \in M : l.key = m.key /\ l.items = items
             \/ items = << >> /\ \A l \in M : l.key # m.key
    BY <1>9 DEF Grown
  <2>2. Carries(waiting[m.key], items)
    <3>1. CASE \E l \in M : l.key = m.key /\ l.items = items
      BY <1>1, <3>1 DEF IsLedger, Waiting
    <3>2. CASE items = << >> /\ \A l \in M : l.key # m.key
      <4>1. waiting[m.key] = << >>
        BY <1>1, <2>1, <3>2 DEF IsLedger, Waiting
      <4> QED BY <3>2, <4>1 DEF Carries
    <3> QED BY <2>1, <3>1, <3>2
  <2>3. /\ Copies(keys, m.key, value) \in Seq(Values)
        /\ Len(q[m.key]) = Len(Copies(keys, m.key, value))
        /\ \A j \in 1 .. Len(q[m.key]) : Copies(keys, m.key, value)[j] = value
    <3>1. Len(q[m.key]) = Len(Copies(keys, m.key, value))
      BY <2>1 DEF Batch
    <3> QED BY <3>1, CopiesAre
  <2>4. \A j \in DOMAIN q[m.key] : q[m.key][j].value = value
    BY <1>2, <1>7, <2>1
  <2>5. Carries(q[m.key], Copies(keys, m.key, value))
    BY <1>7, <2>1, <2>3, <2>4 DEF Carries
  <2>6. waiting[m.key] \in Seq(both) /\ q[m.key] \in Seq(both)
    BY <1>4, <2>1
  <2>7. Carries(waiting[m.key] \o q[m.key], items \o Copies(keys, m.key, value))
    BY <2>2, <2>3, <2>5, <2>6, CarriesJoin
  <2> QED BY <1>4, <2>1, <2>7
<1>10. ASSUME NEW k \in Keys, w[k] # << >>
       PROVE  \E m \in more : m.key = k
  <2>1. CASE waiting[k] # << >>
    <3>1. PICK l \in M : l.key = k
      BY <1>1, <1>10, <2>1 DEF IsLedger, Waiting
    <3> QED BY <3>1 DEF Grown
  <2>2. CASE q[k] # << >>
    <3>1. Len(q[k]) \in Nat /\ Len(q[k]) # 0
      BY <1>4, <1>10, <2>2
    <3>2. PICK b : Enumerates(b, Len(Copies(keys, k, value)), HoldersOf(keys, k))
      BY CopiesAre
    <3>3. Len(q[k]) = Len(Copies(keys, k, value))
      BY <1>10 DEF Batch
    <3>4. b[1] \in HoldersOf(keys, k)
      BY <3>1, <3>2, <3>3 DEF Enumerates
    <3>5. PICK i \in DOMAIN keys : keys[i] = k
      BY <3>4 DEF HoldersOf
    <3> QED BY <3>5 DEF Grown
  <2>3. CASE waiting[k] = << >> /\ q[k] = << >>
    <3>1. w[k] = << >> \o << >>
      BY <1>4, <1>10, <2>3
    <3>2. << >> \o << >> = << >>
      OBVIOUS
    <3> QED BY <1>10, <3>1, <3>2
  <2> QED BY <2>1, <2>2, <2>3
<1>11. Sending(both, G, V, sent)
  BY <1>1, <1>6 DEF IsLedger, Sending
<1>12. Waiting(both, more, w)
  BY <1>5, <1>8, <1>9, <1>10 DEF Waiting
<1>13. Placed(both, G, w, sent)
  <2>1. \A k \in Keys : \A x : Among(w[k], x) <=> Among(waiting[k], x) \/ Among(q[k], x)
    <3> TAKE k \in Keys
    <3>1. waiting[k] \in Seq(both) /\ q[k] \in Seq(both) /\ w[k] = waiting[k] \o q[k]
      BY <1>4
    <3>2. \A x : Among(waiting[k] \o q[k], x) <=> Among(waiting[k], x) \/ Among(q[k], x)
      BY <3>1, AmongBoth
    <3> QED BY <3>1, <3>2
  <2>2. \A x \in both : x.key \in Keys /\ (x \in L \/ x \in N)
    BY <1>3 DEF AdditionsOK, both
  <2>3. \A x, e : e \in G /\ Among(sent[e], x) => x \in L
    BY <1>1 DEF IsLedger, Sending, Among
  <2>4. \A x : \A k \in Keys : /\ Among(waiting[k], x) => x \in L
                               /\ Among(q[k], x) => x \in N
    BY <1>7 DEF Among
  <2>5. \A x \in N : Among(q[x.key], x)
    BY DEF Batch
  <2>6. Placed(L, G, waiting, sent)
    BY <1>1 DEF IsLedger
  <2>7. \A x \in both : Among(w[x.key], x) \/ \E e \in G : Among(sent[e], x)
    BY <2>1, <2>2, <2>5, <2>6 DEF Placed
  <2>8. \A x \in both : \A d, e \in G : Among(sent[d], x) /\ Among(sent[e], x) => d = e
    BY <2>3, <2>6 DEF Placed
  <2>9. \A x \in both : \A e \in G : Among(sent[e], x) => ~Among(w[x.key], x)
    BY <1>2, <2>1, <2>2, <2>3, <2>4, <2>6 DEF Placed
  <2> QED BY <2>7, <2>8, <2>9 DEF Placed
<1>14. IsLedger(both, more, G, V, w, sent)
  BY <1>3, <1>11, <1>12, <1>13 DEF IsLedger
<1> QED BY <1>14 DEF Ledger, both

\* Empty entries may come, and change nothing.
LEMMA LedgerKeeps ==
  ASSUME NEW L, NEW M, NEW G, NEW V, Ledger(L, M, G, V), NEW more,
         \A m \in more : m.key \in Keys /\
           \/ \E l \in M : l.key = m.key /\ l.items = m.items
           \/ m.items = << >> /\ \A l \in M : l.key # m.key,
         \A l \in M : \E m \in more : m.key = l.key
  PROVE  Ledger(L, more, G, V)
<1>1. PICK waiting, sent : IsLedger(L, M, G, V, waiting, sent)
  BY DEF Ledger
<1>2. ASSUME NEW m \in more
      PROVE  Carries(waiting[m.key], m.items)
  <2>1. CASE \E l \in M : l.key = m.key /\ l.items = m.items
    BY <1>1, <2>1 DEF IsLedger, Waiting
  <2>2. CASE m.items = << >> /\ \A l \in M : l.key # m.key
    <3>1. waiting[m.key] = << >>
      BY <1>1, <1>2, <2>2 DEF IsLedger, Waiting
    <3> QED BY <2>2, <3>1 DEF Carries
  <2> QED BY <1>2, <2>1, <2>2
<1>3. Waiting(L, more, waiting)
  BY <1>1, <1>2 DEF IsLedger, Waiting
<1>4. IsLedger(L, more, G, V, waiting, sent)
  BY <1>1, <1>3 DEF IsLedger
<1> QED BY <1>4 DEF Ledger

(***************************************************************************)
(* F are the entries that are finished; event tells the first triple of    *)
(* each that has a value.                                                  *)
(***************************************************************************)
Delivers(M, F, G, lists, V, values, event) ==
  LET sent == {l \in F : l.items # << >>}
  IN  /\ F \subseteq M /\ M \subseteq Lists
      /\ \A l, m \in M : l.key = m.key => l = m
      /\ event \in [sent -> lists] /\ lists = G \cup {event[l] : l \in sent}
      /\ \A l \in sent : /\ event[l] \notin G /\ KeyOf(event[l]) = l.key
                         /\ values[event[l]] = l.items
                         /\ \A m \in sent : event[l] = event[m] => l = m
      /\ \A e \in G : values[e] = V[e]

\* Finished entries go to their lists.
LEMMA LedgerDeliver ==
  ASSUME NEW L, NEW M, NEW G, NEW V, Ledger(L, M, G, V),
         NEW F, NEW lists, NEW values, NEW event,
         Delivers(M, F, G, lists, V, values, event)
  PROVE  Ledger(L, M \ F, lists, values)
<1>1. PICK waiting, sent : IsLedger(L, M, G, V, waiting, sent)
  BY DEF Ledger
<1> DEFINE done == {l \in F : l.items # << >>}
           of(e) == CHOOSE l \in done : event[l] = e
           s == [e \in lists |-> IF e \in G THEN sent[e] ELSE waiting[of(e).key]]
           w == [k \in Keys |-> IF \E l \in F : l.key = k THEN << >> ELSE waiting[k]]
<1>2. /\ F \subseteq M /\ M \subseteq Lists /\ \A l, m \in M : l.key = m.key => l = m
      /\ event \in [done -> lists] /\ lists = G \cup {event[l] : l \in done}
      /\ \A e \in G : values[e] = V[e]
  BY DEF Delivers
<1>3. \A l \in done : /\ event[l] \notin G /\ KeyOf(event[l]) = l.key
                      /\ values[event[l]] = l.items
                      /\ \A m \in done : event[l] = event[m] => l = m
  BY DEF Delivers
<1>4. \A l \in M : l.key \in Keys
  BY <1>2 DEF Lists
<1>5. \A e \in lists : e \notin G =>
        of(e) \in done /\ event[of(e)] = e
  <2> HIDE DEF done
  <2> TAKE e \in lists
  <2> HAVE e \notin G
  <2>1. \E l \in done : event[l] = e
    BY <1>2
  <2> QED BY <2>1
<1>6. \A e \in G : e \in lists /\ s[e] = sent[e]
  BY <1>2
<1>7. \A l \in done : event[l] \in lists /\ s[event[l]] = waiting[l.key]
  <2> TAKE l \in done
  <2>1. event[l] \in lists /\ event[l] \notin G
    BY <1>2, <1>3
  <2>2. of(event[l]) = l
    <3> HIDE DEF of, done
    <3>1. of(event[l]) \in done /\ event[of(event[l])] = event[l]
      BY <1>5, <2>1
    <3> QED BY <1>3, <3>1
  <2> HIDE DEF of
  <2> QED BY <2>1, <2>2
<1>8. \A k \in Keys : w[k] = IF \E l \in F : l.key = k THEN << >> ELSE waiting[k]
  OBVIOUS
<1>9. \A e \in lists : e \in G \/ \E l \in done : e = event[l]
  BY <1>2
<1>10. done \subseteq F
  OBVIOUS
<1>11. \A l \in F : l \notin done => l.items = << >>
  OBVIOUS
<1>12. s = [e \in lists |-> s[e]] /\ w = [k \in Keys |-> w[k]]
  OBVIOUS
<1> HIDE DEF s, w, of, done
<1>13. \A k \in Keys : /\ waiting[k] \in Seq(L) /\ Chronicle(waiting[k], k)
                       /\ waiting[k] # << >> => \E l \in M : l.key = k
  BY <1>1 DEF IsLedger, Waiting
<1>14. \A e \in G : /\ sent[e] \in Seq(L) /\ Chronicle(sent[e], KeyOf(e))
                    /\ Carries(sent[e], V[e])
  BY <1>1 DEF IsLedger, Sending
<1>15. \A l \in M : Carries(waiting[l.key], l.items)
  BY <1>1 DEF IsLedger, Waiting
<1>16. Sending(L, lists, values, s)
  <2>1. \A e \in lists : /\ s[e] \in Seq(L) /\ Chronicle(s[e], KeyOf(e))
                         /\ Carries(s[e], values[e])
    <3> TAKE e \in lists
    <3>1. CASE e \in G
      BY <1>2, <1>6, <1>14, <3>1
    <3>2. ASSUME NEW l \in done, e = event[l]
          PROVE  /\ s[e] \in Seq(L) /\ Chronicle(s[e], KeyOf(e))
                 /\ Carries(s[e], values[e])
      <4>1. s[e] = waiting[l.key] /\ KeyOf(e) = l.key /\ values[e] = l.items
        BY <1>3, <1>7, <3>2
      <4>2. l \in M /\ l.key \in Keys
        BY <1>2, <1>4, <1>10
      <4> QED BY <1>13, <1>15, <4>1, <4>2
    <3> QED BY <1>9, <3>1, <3>2
  <2>2. s \in [lists -> Seq(L)]
    BY <1>12, <2>1
  <2> QED BY <2>1, <2>2 DEF Sending
<1>17. Waiting(L, M \ F, w)
  <2>1. w \in [Keys -> Seq(L)]
    <3>1. \A k \in Keys : w[k] \in Seq(L)
      <4> TAKE k \in Keys
      <4>1. w[k] = << >> \/ w[k] = waiting[k]
        BY <1>8
      <4>2. waiting[k] \in Seq(L) /\ << >> \in Seq(L)
        BY <1>13
      <4> QED BY <4>1, <4>2
    <3> QED BY <1>12, <3>1
  <2>2. \A k \in Keys : Chronicle(w[k], k)
    <3>1. \A k : Chronicle(<< >>, k)
      BY DEF Chronicle
    <3> QED BY <1>8, <1>13, <3>1
  <2>3. \A l \in M \ F : Carries(w[l.key], l.items)
    <3> TAKE l \in M \ F
    <3>1. l.key \in Keys /\ ~ \E m \in F : m.key = l.key
      BY <1>2, <1>4
    <3> QED BY <1>8, <1>15, <3>1
  <2>4. \A k \in Keys : w[k] # << >> => \E l \in M \ F : l.key = k
    BY <1>8, <1>13
  <2> QED BY <2>1, <2>2, <2>3, <2>4 DEF Waiting
<1>18. Placed(L, lists, w, s)
  <2>1. Placed(L, G, waiting, sent) /\ \A x \in L : x.key \in Keys
    BY <1>1 DEF IsLedger, AdditionsOK
  <2>2. \A x \in L : Among(w[x.key], x) =>
          Among(waiting[x.key], x) /\ ~ \E l \in F : l.key = x.key
    <3>1. \A x : ~Among(<< >>, x)
      BY DEF Among
    <3> QED BY <1>8, <2>1, <3>1
  <2>3. \A x \in L : \A k \in Keys : Among(waiting[k], x) => k = x.key
    BY <1>13 DEF Chronicle, Among
  <2>4. \A x \in L : Among(w[x.key], x) \/ \E e \in lists : Among(s[e], x)
    <3> TAKE x \in L
    <3>1. CASE \E e \in G : Among(sent[e], x)
      BY <1>6, <3>1
    <3>2. CASE Among(waiting[x.key], x)
      <4>1. CASE \E l \in F : l.key = x.key
        <5>1. PICK l \in F : l.key = x.key
          BY <4>1
        <5>2. Carries(waiting[l.key], l.items)
          BY <1>2, <1>15
        <5>3. l.items # << >>
          <6> SUFFICES ASSUME l.items = << >> PROVE FALSE
            OBVIOUS
          <6>1. Len(waiting[x.key]) = 0 /\ waiting[x.key] \in Seq(L)
            BY <1>13, <2>1, <5>1, <5>2 DEF Carries
          <6>2. DOMAIN waiting[x.key] = {}
            BY <6>1
          <6> QED BY <3>2, <6>2 DEF Among
        <5>4. l \in done
          BY <1>11, <5>3
        <5> QED BY <1>7, <3>2, <5>1, <5>4
      <4>2. CASE ~ \E l \in F : l.key = x.key
        BY <1>8, <2>1, <3>2, <4>2
      <4> QED BY <4>1, <4>2
    <3> QED BY <2>1, <3>1, <3>2 DEF Placed
  <2>5. \A x \in L : \A e \in lists : Among(s[e], x) =>
          \/ e \in G /\ Among(sent[e], x)
          \/ \E l \in done : e = event[l] /\ l.key = x.key /\ Among(waiting[x.key], x)
    <3> TAKE x \in L
    <3> TAKE e \in lists
    <3> HAVE Among(s[e], x)
    <3>1. CASE e \in G
      BY <1>6, <3>1
    <3>2. ASSUME NEW l \in done, e = event[l]
          PROVE  l.key = x.key /\ Among(waiting[x.key], x)
      <4>1. Among(waiting[l.key], x) /\ l.key \in Keys
        BY <1>2, <1>4, <1>7, <1>10, <3>2
      <4> QED BY <2>3, <4>1
    <3> QED BY <1>9, <3>1, <3>2
  <2>6. \A x \in L : \A d, e \in lists : Among(s[d], x) /\ Among(s[e], x) => d = e
    <3> TAKE x \in L
    <3> TAKE d, e \in lists
    <3> HAVE Among(s[d], x) /\ Among(s[e], x)
    <3>1. CASE d \in G /\ Among(sent[d], x)
      <4>1. ~Among(waiting[x.key], x)
        BY <2>1, <3>1 DEF Placed
      <4>2. e \in G /\ Among(sent[e], x)
        BY <2>5, <4>1
      <4> QED BY <2>1, <3>1, <4>2 DEF Placed
    <3>2. CASE e \in G /\ Among(sent[e], x)
      <4>1. ~Among(waiting[x.key], x)
        BY <2>1, <3>2 DEF Placed
      <4>2. d \in G /\ Among(sent[d], x)
        BY <2>5, <4>1
      <4> QED BY <2>1, <3>2, <4>2 DEF Placed
    <3>3. CASE /\ \E l \in done : d = event[l] /\ l.key = x.key
               /\ \E l \in done : e = event[l] /\ l.key = x.key
      <4>1. PICK l \in done : d = event[l] /\ l.key = x.key
        BY <3>3
      <4>2. PICK m \in done : e = event[m] /\ m.key = x.key
        BY <3>3
      <4>3. l = m
        BY <1>2, <1>10, <4>1, <4>2
      <4> QED BY <4>1, <4>2, <4>3
    <3> QED BY <2>5, <3>1, <3>2, <3>3
  <2>7. \A x \in L : \A e \in lists : Among(s[e], x) => ~Among(w[x.key], x)
    BY <1>10, <2>1, <2>2, <2>5 DEF Placed
  <2> QED BY <2>4, <2>6, <2>7 DEF Placed
<1>19. IsLedger(L, M \ F, lists, values, w, s)
  BY <1>1, <1>16, <1>17, <1>18 DEF IsLedger
<1> QED BY <1>19 DEF Ledger

(***************************************************************************)
(* What a ledger says of the lists that were sent.                         *)
(***************************************************************************)
LEMMA LedgerInOrder ==
  ASSUME NEW L, NEW M, NEW G, NEW V, Ledger(L, M, G, V), NEW e \in G,
         V[e] \in Seq(Values),
         NEW added, \A x : x \in added <=> x \in L /\ x.key = KeyOf(e)
  PROVE  InOrder(V[e], added)
<1>1. PICK waiting, sent : IsLedger(L, M, G, V, waiting, sent)
  BY DEF Ledger
<1> DEFINE f == sent[e]
<1>2. /\ f \in Seq(L) /\ Chronicle(f, KeyOf(e)) /\ Carries(f, V[e])
  BY <1>1 DEF IsLedger, Sending
<1> HIDE DEF f
<1>3. DOMAIN f = DOMAIN V[e] /\ \A i \in DOMAIN f : f[i] \in L
  BY <1>2 DEF Carries
<1>4. f \in [DOMAIN V[e] -> added]
  BY <1>2, <1>3 DEF Chronicle
<1>5. /\ \A i \in DOMAIN V[e] : f[i].value = V[e][i]
      /\ \A i, j \in DOMAIN V[e] : i < j => f[i] # f[j] /\ f[i].pos <= f[j].pos
  BY <1>2, <1>3 DEF Chronicle, Carries
<1> QED BY <1>4, <1>5 DEF InOrder

AddedOf(added, L, k, v) ==
  \A x : x \in added <=> x \in L /\ x.key = k /\ x.value = v
PlacesOf(places, G, V, k, v) ==
  \A p : p \in places <=>
    \E e \in G : /\ KeyOf(e) = k
                 /\ \E i \in DOMAIN V[e] : V[e][i] = v /\ p = <<e, i>>

\* With no entry left, each addition is in one place of one list.
LEMMA LedgerEmpty ==
  ASSUME NEW L, NEW G, NEW V, Ledger(L, {}, G, V), NEW k \in Keys, NEW v,
         \A e \in G : V[e] \in Seq(Values),
         NEW added, AddedOf(added, L, k, v),
         NEW places, PlacesOf(places, G, V, k, v)
  PROVE  Cardinality(added) = Cardinality(places)
<1> USE DEF AddedOf, PlacesOf
<1>1. PICK waiting, sent : IsLedger(L, {}, G, V, waiting, sent)
  BY DEF Ledger
<1> DEFINE f == [p \in places |-> sent[p[1]][p[2]]]
<1>2. \A e \in G : /\ sent[e] \in Seq(L) /\ Chronicle(sent[e], KeyOf(e))
                   /\ DOMAIN sent[e] = DOMAIN V[e]
                   /\ \A i \in DOMAIN sent[e] : /\ sent[e][i].value = V[e][i]
                                                /\ sent[e][i] \in L
  <2> TAKE e \in G
  <2>1. sent[e] \in Seq(L) /\ Chronicle(sent[e], KeyOf(e)) /\ Carries(sent[e], V[e])
    BY <1>1 DEF IsLedger, Sending
  <2>2. DOMAIN sent[e] = DOMAIN V[e]
    BY <2>1 DEF Carries
  <2> QED BY <2>1, <2>2 DEF Carries
<1>3. \A p \in places : /\ p = <<p[1], p[2]>> /\ p[1] \in G /\ KeyOf(p[1]) = k
                        /\ p[2] \in DOMAIN V[p[1]] /\ V[p[1]][p[2]] = v
  OBVIOUS
<1>4. \A e \in G : KeyOf(e) = k =>
        \A i \in DOMAIN V[e] : V[e][i] = v => <<e, i>> \in places
  OBVIOUS
<1>5. \A p \in places : f[p] = sent[p[1]][p[2]]
  OBVIOUS
<1>6. f = [p \in places |-> f[p]]
  OBVIOUS
<1>7. added \subseteq L /\ \A x \in L : x \in added <=> x.key = k /\ x.value = v
  OBVIOUS
<1>8. IsFiniteSet(added)
  BY <1>1, FS_Subset DEF IsLedger, AdditionsOK
<1> HIDE DEF f
<1>9. \A p \in places : f[p] \in added
  <2> TAKE p \in places
  <2>1. p[1] \in G /\ p[2] \in DOMAIN sent[p[1]] /\ KeyOf(p[1]) = k
    BY <1>2, <1>3
  <2>2. sent[p[1]][p[2]].key = k
    BY <1>2, <2>1 DEF Chronicle
  <2> QED BY <1>2, <1>3, <1>5, <1>7, <2>1, <2>2
<1>10. f \in [places -> added]
  BY <1>6, <1>9
<1>11. \A x \in added : \E p \in places : f[p] = x
  <2> TAKE x \in added
  <2>1. x \in L /\ x.key = k /\ x.value = v
    BY <1>7
  <2>2. waiting[k] = << >>
    BY <1>1 DEF IsLedger, Waiting
  <2>3. ~Among(waiting[x.key], x)
    BY <2>1, <2>2 DEF Among
  <2>4. PICK e \in G : Among(sent[e], x)
    BY <1>1, <2>1, <2>3 DEF IsLedger, Placed
  <2>5. PICK i \in DOMAIN sent[e] : sent[e][i] = x
    BY <2>4 DEF Among
  <2>6. KeyOf(e) = k /\ i \in DOMAIN V[e] /\ V[e][i] = v
    BY <1>2, <2>1, <2>5 DEF Chronicle
  <2>7. <<e, i>> \in places
    BY <1>4, <2>6
  <2>8. f[<<e, i>>] = sent[e][i]
    BY <1>5, <2>7
  <2> QED BY <2>5, <2>7, <2>8
<1>12. \A p, r \in places : f[p] = f[r] => p = r
  <2> TAKE p, r \in places
  <2> HAVE f[p] = f[r]
  <2>1. /\ p[1] \in G /\ p[2] \in DOMAIN sent[p[1]]
        /\ r[1] \in G /\ r[2] \in DOMAIN sent[r[1]]
    BY <1>2, <1>3
  <2>2. Among(sent[p[1]], f[p]) /\ Among(sent[r[1]], f[p]) /\ f[p] \in L
    BY <1>5, <1>7, <1>9, <2>1 DEF Among
  <2>3. p[1] = r[1]
    BY <1>1, <2>1, <2>2 DEF IsLedger, Placed
  <2>4. sent[p[1]][p[2]] = sent[p[1]][r[2]] /\ r[2] \in DOMAIN sent[p[1]]
    BY <1>5, <2>1, <2>3
  <2>5. sent[p[1]] \in Seq(L) /\ Chronicle(sent[p[1]], KeyOf(p[1]))
    BY <1>2, <2>1
  <2>6. p[2] \in Nat /\ r[2] \in Nat
    BY <2>1, <2>4, <2>5
  <2>7. ~(p[2] < r[2]) /\ ~(r[2] < p[2])
    BY <2>1, <2>4, <2>5 DEF Chronicle
  <2>8. p[2] = r[2]
    BY <2>6, <2>7
  <2> QED BY <1>3, <2>3, <2>8
<1>13. f \in Bijection(places, added)
  BY <1>10, <1>11, <1>12 DEF Bijection, Injection, Surjection, IsInjective
<1>14. Cardinality(added) = Cardinality(places)
  <2>1. Inverse(f, places, added) \in Bijection(added, places)
    BY <1>13, Fun_BijInverse
  <2>2. ExistsBijection(added, places)
    BY <2>1 DEF ExistsBijection
  <2> QED BY <1>8, <2>2, FS_Bijection
<1> QED BY <1>14

-----------------------------------------------------------------------------
(* The entries of a list mapping.                                          *)

EntriesOK(M, slots, count) ==
  /\ \A l, m \in M : (l.key = m.key \/ l.slot = m.slot \/ l.head = m.head) => l = m
  /\ \A l \in M : l.slot < slots /\ l.head.bnode < count

\* The same list, but for its items.
SameEntry(l, m) ==
  m.key = l.key /\ m.slot = l.slot /\ m.head = l.head /\ m.depth = l.depth

\* One more element, one more in number.
LEMMA StrictlyMore ==
  ASSUME NEW S, IsFiniteSet(S), NEW A \in SUBSET S, NEW B \in SUBSET S,
         A \subseteq B, NEW x \in B, x \notin A
  PROVE  /\ Cardinality(A) \in Nat /\ Cardinality(B) \in Nat
         /\ Cardinality(A) < Cardinality(B)
<1>1. IsFiniteSet(A) /\ IsFiniteSet(B)
  BY FS_Subset
<1>2. Cardinality(A) \in Nat /\ Cardinality(B) \in Nat
  BY <1>1, FS_CardinalityType
<1>3. A \in SUBSET B
  OBVIOUS
<1>4. Cardinality(A) <= Cardinality(B) /\ (Cardinality(B) = Cardinality(A) => B = A)
  BY <1>1, <1>3, FS_Subset
<1>5. Cardinality(A) # Cardinality(B)
  BY <1>4
<1> QED BY <1>2, <1>4, <1>5

\* The first position of a key holds that key.
LEMMA FirstAtIs ==
  ASSUME NEW D \in Positions, NEW keys \in [D -> Keys], NEW i \in D
  PROVE  FirstAt(keys, keys[i]) \in Nat /\ keys[FirstAt(keys, keys[i])] = keys[i]
<1> DEFINE T == {j \in D : keys[j] = keys[i]}
<1>1. T \in SUBSET Nat /\ T # {}
  BY DEF Positions
<1>2. PICK x \in T : \A y \in T : x <= y
  <2> HIDE DEF T
  <2> QED BY <1>1, SmallestNumber
<1>3. \E n \in DOMAIN keys :
        keys[n] = keys[i] /\ \A j \in DOMAIN keys : keys[j] = keys[i] => n <= j
  BY <1>2
<1>4. /\ FirstAt(keys, keys[i]) \in DOMAIN keys
      /\ keys[FirstAt(keys, keys[i])] = keys[i]
  BY <1>3 DEF FirstAt
<1> QED BY <1>4 DEF Positions

\* Each fresh key has a turn of its own.
LEMMA FreshInOrder ==
  ASSUME NEW c \in Contexts, NEW D \in Positions, NEW keys \in [D -> Keys],
         NEW k \in FreshKeys(c, keys)
  PROVE  /\ FreshBefore(c, keys, k) \in Nat
         /\ FreshBefore(c, keys, k) < Cardinality(FreshKeys(c, keys))
         /\ \A m \in FreshKeys(c, keys) :
              FreshBefore(c, keys, k) = FreshBefore(c, keys, m) => k = m
<1> DEFINE S == FreshKeys(c, keys)
           at(m) == FirstAt(keys, m)
           before(m) == {j \in S : at(j) < at(m)}
<1>1. IsFiniteSet(S) /\ \A m : FreshBefore(c, keys, m) \in Nat
  BY FreshKeysFinite
<1>2. \A m \in S : at(m) \in Nat /\ keys[at(m)] = m
  <2> TAKE m \in S
  <2>1. PICK i \in D : m = keys[i]
    BY DEF FreshKeys
  <2> QED BY <2>1, FirstAtIs
<1>3. \A m : FreshBefore(c, keys, m) = Cardinality(before(m))
  BY DEF FreshBefore
<1> HIDE DEF S, at
<1>4. \A m \in S : before(m) \in SUBSET S /\ m \notin before(m)
  BY <1>2
<1>5. \A m \in S : Cardinality(before(m)) < Cardinality(S)
  <2> TAKE m \in S
  <2>1. before(m) \in SUBSET S /\ m \notin before(m) /\ S \in SUBSET S
        /\ before(m) \subseteq S
    BY <1>4
  <2> HIDE DEF before
  <2> QED BY <1>1, <2>1, StrictlyMore
<1>6. \A m, j \in S : at(m) < at(j) => Cardinality(before(m)) < Cardinality(before(j))
  <2> TAKE m, j \in S
  <2> HAVE at(m) < at(j)
  <2>1. /\ before(m) \in SUBSET S /\ before(j) \in SUBSET S
        /\ before(m) \subseteq before(j) /\ m \in before(j) /\ m \notin before(m)
    BY <1>2
  <2> HIDE DEF before
  <2> QED BY <1>1, <2>1, StrictlyMore
<1>7. \A m \in S : Cardinality(before(m)) \in Nat
  BY <1>1, <1>3
<1> HIDE DEF before
<1>8. k \in S
  BY DEF S
<1>9. \A m \in S : Cardinality(before(k)) = Cardinality(before(m)) => k = m
  <2> TAKE m \in S
  <2> HAVE Cardinality(before(k)) = Cardinality(before(m))
  <2>1. ~(at(k) < at(m)) /\ ~(at(m) < at(k))
    BY <1>6, <1>7, <1>8
  <2>2. at(k) = at(m)
    BY <1>2, <1>8, <2>1
  <2> QED BY <1>2, <1>8, <2>2
<1> QED BY <1>1, <1>3, <1>5, <1>8, <1>9 DEF S

CreatedFrom(c, keys, d) ==
  /\ c.local_list_mappings \subseteq d.local_list_mappings
  /\ \A l \in d.local_list_mappings :
       \/ l \in c.local_list_mappings
       \/ /\ l.key \in Keys /\ l.items = << >> /\ l.depth = c.depth
          /\ \E i \in DOMAIN keys : keys[i] = l.key
          /\ \A m \in c.local_list_mappings : m.key # l.key
  /\ \A i \in DOMAIN keys : \E l \in d.local_list_mappings : l.key = keys[i]
  /\ EntriesOK(d.local_list_mappings, d.list_slots, d.bnode_count)
  /\ (\A i \in DOMAIN keys : \E l \in c.local_list_mappings : l.key = keys[i]) =>
       d.local_list_mappings = c.local_list_mappings /\ d.bnode_count = c.bnode_count

\* CreateListMappings adds empty entries for the keys without one.
LEMMA CreatedEntries ==
  ASSUME NEW c \in Contexts, NEW D \in Positions, NEW keys \in [D -> Keys],
         EntriesOK(c.local_list_mappings, c.list_slots, c.bnode_count)
  PROVE  CreatedFrom(c, keys, CreateListMappings(c, keys))
<1> DEFINE M == c.local_list_mappings
           fresh == FreshKeys(c, keys)
           rank(k) == FreshBefore(c, keys, k)
           entry(k) == [key |-> k, slot |-> c.list_slots + rank(k),
                        depth |-> c.depth, head |-> Bnode(c.bnode_count + rank(k)),
                        items |-> << >>]
           d == CreateListMappings(c, keys)
           size == Cardinality(fresh)
<1>1. /\ d.local_list_mappings = M \cup {entry(k) : k \in fresh}
      /\ d.list_slots = c.list_slots + size
      /\ d.bnode_count = c.bnode_count + size
  BY DEF CreateListMappings, Contexts
<1>2. /\ \A k \in fresh : rank(k) \in Nat /\ rank(k) < size
      /\ \A k, m \in fresh : rank(k) = rank(m) => k = m
      /\ size \in Nat
  BY FreshInOrder, FreshKeysFinite
<1>3. /\ M \subseteq Lists /\ c.list_slots \in Nat /\ c.bnode_count \in Nat
  BY ListFields
<1>4. /\ fresh \subseteq Keys
      /\ \A k \in fresh : /\ \E i \in DOMAIN keys : keys[i] = k
                          /\ \A m \in M : m.key # k
      /\ \A i \in DOMAIN keys : keys[i] \in fresh \/ \E m \in M : m.key = keys[i]
      /\ fresh = {} => size = 0
  <2>1. fresh = {} => size = 0
    BY FS_EmptySet
  <2> QED BY <2>1 DEF FreshKeys
<1>5. \A k : /\ entry(k).key = k /\ entry(k).slot = c.list_slots + rank(k)
             /\ entry(k).depth = c.depth /\ entry(k).items = << >>
             /\ entry(k).head = Bnode(c.bnode_count + rank(k))
  OBVIOUS
<1>6. \A l \in M : l.slot \in Nat /\ l.head \in Bnodes /\ l.head.bnode \in Nat
  BY <1>3 DEF Lists, Bnodes
<1>7. \A m, n : (Bnode(m) = Bnode(n) => m = n) /\ Bnode(m).bnode = m
  BY DEF Bnode
<1> HIDE DEF entry, rank, fresh, size, d, M
<1>8. \A l \in d.local_list_mappings : l \in M \/ \E k \in fresh : l = entry(k)
  BY <1>1
<1>9. EntriesOK(d.local_list_mappings, d.list_slots, d.bnode_count)
  <2>1. /\ \A l, m \in M : (l.key = m.key \/ l.slot = m.slot \/ l.head = m.head) => l = m
        /\ \A l \in M : l.slot < c.list_slots /\ l.head.bnode < c.bnode_count
    BY DEF EntriesOK, M
  <2>2. \A l \in d.local_list_mappings :
          l.slot < d.list_slots /\ l.head.bnode < d.bnode_count
    <3> TAKE l \in d.local_list_mappings
    <3>1. CASE l \in M
      BY <1>1, <1>2, <1>3, <1>6, <2>1, <3>1
    <3>2. ASSUME NEW k \in fresh, l = entry(k)
          PROVE  l.slot < d.list_slots /\ l.head.bnode < d.bnode_count
      BY <1>1, <1>2, <1>3, <1>5, <1>7, <3>2
    <3> QED BY <1>8, <3>1, <3>2
  <2>3. ASSUME NEW k \in fresh, NEW m \in M
        PROVE  /\ entry(k).key # m.key /\ entry(k).slot # m.slot
               /\ entry(k).head # m.head
    <3>1. entry(k).key # m.key
      BY <1>4, <1>5
    <3>2. entry(k).slot # m.slot
      BY <1>2, <1>3, <1>5, <1>6, <2>1
    <3>3. entry(k).head # m.head
      <4>1. entry(k).head.bnode = c.bnode_count + rank(k)
        BY <1>5, <1>7
      <4>2. m.head.bnode < c.bnode_count /\ m.head.bnode \in Nat
        BY <1>6, <2>1
      <4>3. entry(k).head.bnode # m.head.bnode
        BY <1>2, <1>3, <4>1, <4>2
      <4> QED BY <4>3
    <3> QED BY <3>1, <3>2, <3>3
  <2>4. ASSUME NEW k \in fresh, NEW j \in fresh,
               \/ entry(k).key = entry(j).key \/ entry(k).slot = entry(j).slot
               \/ entry(k).head = entry(j).head
        PROVE  k = j
    <3>1. entry(k).key = entry(j).key => k = j
      BY <1>5
    <3>2. c.list_slots + rank(k) = c.list_slots + rank(j) => rank(k) = rank(j)
      BY <1>2, <1>3
    <3>3. c.bnode_count + rank(k) = c.bnode_count + rank(j) => rank(k) = rank(j)
      BY <1>2, <1>3
    <3>4. entry(k).slot = entry(j).slot => k = j
      BY <1>2, <1>5, <3>2
    <3>5. entry(k).head = entry(j).head => k = j
      BY <1>2, <1>5, <1>7, <3>3
    <3> QED BY <2>4, <3>1, <3>4, <3>5
  <2>5. \A l, m \in d.local_list_mappings :
          (l.key = m.key \/ l.slot = m.slot \/ l.head = m.head) => l = m
    <3> TAKE l, m \in d.local_list_mappings
    <3> HAVE l.key = m.key \/ l.slot = m.slot \/ l.head = m.head
    <3>1. CASE l \in M /\ m \in M
      BY <2>1, <3>1
    <3>2. CASE l \in M /\ \E k \in fresh : m = entry(k)
      BY <2>3, <3>2
    <3>3. CASE m \in M /\ \E k \in fresh : l = entry(k)
      BY <2>3, <3>3
    <3>4. CASE (\E k \in fresh : l = entry(k)) /\ \E k \in fresh : m = entry(k)
      BY <2>4, <3>4
    <3> QED BY <1>8, <3>1, <3>2, <3>3, <3>4
  <2> QED BY <2>2, <2>5 DEF EntriesOK
<1>10. M \subseteq d.local_list_mappings
  BY <1>1
<1>11. \A l \in d.local_list_mappings :
         \/ l \in M
         \/ /\ l.key \in Keys /\ l.items = << >> /\ l.depth = c.depth
            /\ \E i \in DOMAIN keys : keys[i] = l.key
            /\ \A m \in M : m.key # l.key
  BY <1>4, <1>5, <1>8
<1>12. \A i \in DOMAIN keys : \E l \in d.local_list_mappings : l.key = keys[i]
  <2> TAKE i \in DOMAIN keys
  <2>1. CASE keys[i] \in fresh
    <3>1. entry(keys[i]) \in d.local_list_mappings
      BY <1>1, <2>1
    <3> QED BY <1>5, <3>1
  <2>2. CASE \E m \in M : m.key = keys[i]
    BY <1>10, <2>2
  <2> QED BY <1>4, <2>1, <2>2
<1>13. (\A i \in DOMAIN keys : \E l \in M : l.key = keys[i]) =>
         d.local_list_mappings = M /\ d.bnode_count = c.bnode_count
  <2> HAVE \A i \in DOMAIN keys : \E l \in M : l.key = keys[i]
  <2>1. fresh = {}
    BY <1>4
  <2>2. size = 0
    BY <1>4, <2>1
  <2> QED BY <1>1, <1>3, <2>1, <2>2
<1> QED BY <1>9, <1>10, <1>11, <1>12, <1>13 DEF CreatedFrom, M, d

AppendedFrom(d, keys, value, e) ==
  /\ \A m \in e.local_list_mappings : \E l \in d.local_list_mappings :
       SameEntry(l, m) /\ m.items = l.items \o Copies(keys, l.key, value)
  /\ \A l \in d.local_list_mappings :
       \E m \in e.local_list_mappings : SameEntry(l, m)
  /\ EntriesOK(e.local_list_mappings, e.list_slots, e.bnode_count)
  /\ e.bnode_count = d.bnode_count

\* AppendToListMappings adds to the items and to nothing else.
LEMMA AppendedEntries ==
  ASSUME NEW d \in Contexts, NEW keys, NEW value,
         EntriesOK(d.local_list_mappings, d.list_slots, d.bnode_count)
  PROVE  AppendedFrom(d, keys, value, AppendToListMappings(d, keys, value))
<1> DEFINE M == d.local_list_mappings
           longer(l) == [l EXCEPT !.items = @ \o Copies(keys, l.key, value)]
           e == AppendToListMappings(d, keys, value)
<1>1. /\ e.local_list_mappings = {longer(l) : l \in M}
      /\ e.list_slots = d.list_slots /\ e.bnode_count = d.bnode_count
  BY DEF AppendToListMappings, Contexts
<1>2. \A l \in M : /\ SameEntry(l, longer(l))
                   /\ longer(l).items = l.items \o Copies(keys, l.key, value)
  BY ListFields DEF Lists, SameEntry
<1> HIDE DEF M, e, longer
<1>3. /\ \A m \in e.local_list_mappings : \E l \in M : m = longer(l)
      /\ \A l \in M : longer(l) \in e.local_list_mappings
  BY <1>1
<1>4. \A m \in e.local_list_mappings : \E l \in M :
         SameEntry(l, m) /\ m.items = l.items \o Copies(keys, l.key, value)
  BY <1>2, <1>3
<1>5. \A l \in M : \E m \in e.local_list_mappings : SameEntry(l, m)
  BY <1>2, <1>3
<1>6. /\ \A l, m \in M : (l.key = m.key \/ l.slot = m.slot \/ l.head = m.head) => l = m
      /\ \A l \in M : l.slot < d.list_slots /\ l.head.bnode < d.bnode_count
  BY DEF EntriesOK, M
<1>7. EntriesOK(e.local_list_mappings, e.list_slots, e.bnode_count)
  <2>1. \A l \in e.local_list_mappings :
          l.slot < e.list_slots /\ l.head.bnode < e.bnode_count
    BY <1>1, <1>4, <1>6 DEF SameEntry
  <2>2. \A l, m \in e.local_list_mappings :
          (l.key = m.key \/ l.slot = m.slot \/ l.head = m.head) => l = m
    <3> TAKE l, m \in e.local_list_mappings
    <3> HAVE l.key = m.key \/ l.slot = m.slot \/ l.head = m.head
    <3>1. PICK a \in M : l = longer(a)
      BY <1>3
    <3>2. PICK b \in M : m = longer(b)
      BY <1>3
    <3>3. a.key = b.key \/ a.slot = b.slot \/ a.head = b.head
      BY <1>2, <3>1, <3>2 DEF SameEntry
    <3>4. a = b
      BY <1>6, <3>3
    <3> QED BY <3>1, <3>2, <3>4
  <2> QED BY <2>1, <2>2 DEF EntriesOK
<1> QED BY <1>1, <1>4, <1>5, <1>7 DEF AppendedFrom, M, e

Extended(c, keys, value, e) ==
  /\ Grown(c.local_list_mappings, e.local_list_mappings, keys, value)
  /\ EntriesOK(e.local_list_mappings, e.list_slots, e.bnode_count)
  /\ \A m \in e.local_list_mappings :
       \/ \E l \in c.local_list_mappings : SameEntry(l, m)
       \/ m.depth = c.depth /\ \E i \in DOMAIN keys : keys[i] = m.key
  /\ \A l \in c.local_list_mappings :
       \E m \in e.local_list_mappings : SameEntry(l, m)
  /\ (\A i \in DOMAIN keys : \E l \in c.local_list_mappings : l.key = keys[i]) =>
       e.bnode_count = c.bnode_count

\* The two together: each key has an entry that ends in its copies.
LEMMA ExtendedEntries ==
  ASSUME NEW c \in Contexts, NEW D \in Positions, NEW keys \in [D -> Keys],
         NEW value \in Values,
         EntriesOK(c.local_list_mappings, c.list_slots, c.bnode_count)
  PROVE  Extended(c, keys, value,
           AppendToListMappings(CreateListMappings(c, keys), keys, value))
<1> DEFINE d == CreateListMappings(c, keys)
           e == AppendToListMappings(d, keys, value)
<1>1. d \in Contexts /\ d.depth = c.depth
  BY CreateListMappingsType DEF SameSubject
<1>2. CreatedFrom(c, keys, d)
  BY CreatedEntries
<1> HIDE DEF d
<1>3. EntriesOK(d.local_list_mappings, d.list_slots, d.bnode_count)
  BY <1>2 DEF CreatedFrom
<1>4. AppendedFrom(d, keys, value, e)
  BY <1>1, <1>3, AppendedEntries
<1> HIDE DEF e
<1>5. /\ \A m \in e.local_list_mappings : \E l \in d.local_list_mappings :
           SameEntry(l, m) /\ m.items = l.items \o Copies(keys, l.key, value)
      /\ \A l \in d.local_list_mappings :
           \E m \in e.local_list_mappings : SameEntry(l, m)
      /\ EntriesOK(e.local_list_mappings, e.list_slots, e.bnode_count)
      /\ e.bnode_count = d.bnode_count
  BY <1>4 DEF AppendedFrom
<1>6. /\ c.local_list_mappings \subseteq d.local_list_mappings
      /\ \A l \in d.local_list_mappings :
           \/ l \in c.local_list_mappings
           \/ /\ l.key \in Keys /\ l.items = << >> /\ l.depth = c.depth
              /\ \E i \in DOMAIN keys : keys[i] = l.key
              /\ \A m \in c.local_list_mappings : m.key # l.key
      /\ \A i \in DOMAIN keys : \E l \in d.local_list_mappings : l.key = keys[i]
  BY <1>2 DEF CreatedFrom
<1>7. \A l \in c.local_list_mappings : l.key \in Keys /\ l.items \in Seq(Values)
  BY ListFields DEF Lists
<1>8. ASSUME NEW m \in e.local_list_mappings
      PROVE  \E items \in Seq(Values) :
               /\ m.key \in Keys /\ m.items = items \o Copies(keys, m.key, value)
               /\ \/ \E l \in c.local_list_mappings : l.key = m.key /\ l.items = items
                  \/ items = << >> /\ \A l \in c.local_list_mappings : l.key # m.key
  <2>1. PICK l \in d.local_list_mappings :
          SameEntry(l, m) /\ m.items = l.items \o Copies(keys, l.key, value)
    BY <1>5, <1>8
  <2>2. l.key = m.key
    BY <2>1 DEF SameEntry
  <2>3. CASE l \in c.local_list_mappings
    BY <1>7, <2>1, <2>2, <2>3
  <2>4. CASE /\ l.key \in Keys /\ l.items = << >>
             /\ \A n \in c.local_list_mappings : n.key # l.key
    <3>1. << >> \in Seq(Values)
      OBVIOUS
    <3> QED BY <2>1, <2>2, <2>4, <3>1
  <2> QED BY <1>6, <2>3, <2>4
<1>9. \A l \in c.local_list_mappings :
        \E m \in e.local_list_mappings : SameEntry(l, m)
  BY <1>5, <1>6
<1>10. \A i \in DOMAIN keys : \E m \in e.local_list_mappings : m.key = keys[i]
  BY <1>5, <1>6 DEF SameEntry
<1>11. Grown(c.local_list_mappings, e.local_list_mappings, keys, value)
  <2>1. \A l \in c.local_list_mappings : \E m \in e.local_list_mappings : m.key = l.key
    BY <1>9 DEF SameEntry
  <2> QED BY <1>8, <1>10, <2>1 DEF Grown
<1>12. \A m \in e.local_list_mappings :
         \/ \E l \in c.local_list_mappings : SameEntry(l, m)
         \/ m.depth = c.depth /\ \E i \in DOMAIN keys : keys[i] = m.key
  <2> TAKE m \in e.local_list_mappings
  <2>1. PICK l \in d.local_list_mappings : SameEntry(l, m)
    BY <1>5
  <2>2. CASE l \in c.local_list_mappings
    BY <2>1, <2>2
  <2>3. CASE l.depth = c.depth /\ \E i \in DOMAIN keys : keys[i] = l.key
    BY <2>1, <2>3 DEF SameEntry
  <2> QED BY <1>6, <2>2, <2>3
<1>13. (\A i \in DOMAIN keys : \E l \in c.local_list_mappings : l.key = keys[i]) =>
         e.bnode_count = c.bnode_count
  BY <1>2, <1>5 DEF CreatedFrom
<1>14. Extended(c, keys, value, e)
  BY <1>5, <1>9, <1>11, <1>12, <1>13 DEF Extended
<1> QED BY <1>14 DEF e, d

\* Entries that end belong to an element inside c's.
LEMMA EntriesLeft ==
  ASSUME NEW c \in Contexts,
         EntriesOK(c.local_list_mappings, c.list_slots, c.bnode_count)
  PROVE  LET e == AfterLists(c)
         IN  /\ e.local_list_mappings = c.local_list_mappings \ Finished(c)
             /\ e.list_slots = c.list_slots
             /\ EntriesOK(e.local_list_mappings, e.list_slots, c.bnode_count)
             /\ \A l \in e.local_list_mappings : l.depth <= c.depth
<1>1. /\ AfterLists(c).local_list_mappings = c.local_list_mappings \ Finished(c)
      /\ AfterLists(c).list_slots = c.list_slots
  BY DEF AfterLists, Contexts
<1>2. \A l \in c.local_list_mappings \ Finished(c) : l.depth <= c.depth
  <2>1. c.depth \in Nat /\ \A l \in c.local_list_mappings : l.depth \in Nat
    BY ListFields DEF Lists
  <2> QED BY <2>1 DEF Finished
<1> QED BY <1>1, <1>2 DEF EntriesOK

-----------------------------------------------------------------------------
(* What an application reads of a list, from any set of triples.           *)

FirstsAt(G, e) == {d \in {x \in G : x.t.by = "first"} : d.at = e.at}
RestsAt(G, e)  == {d \in {x \in G : x.t.by = "rest"} : d.at = e.at}

NextIn(G, e, b) ==
  LET rest == {d.t.o : d \in {x \in {y \in {z \in G : z.t.by = "rest"} :
                                       y.t.s = b} : x.at = e.at}}
  IN  IF rest = {} THEN RdfNil ELSE CHOOSE o \in rest : TRUE

FirstIn(G, e, b) ==
  (CHOOSE d \in {x \in {y \in {z \in G : z.t.by = "first"} : y.t.s = b} :
                   x.at = e.at} : TRUE).t.o

ListRead(G, e) ==
  LET size == Cardinality(FirstsAt(G, e))
      cell[i \in 0 .. size] ==
        IF i = 0 THEN e.t.o ELSE NextIn(G, e, cell[i - 1])
      length == Cardinality({i \in 0 .. size : cell[i] # RdfNil})
  IN  [i \in 1 .. length |-> FirstIn(G, e, cell[i - 1])]

\* What the property calls the values of a list, before and after a step.
LEMMA ListValuesRead ==
  ASSUME NEW e
  PROVE  /\ ListValues(e) = ListRead(graph, e)
         /\ ListValues(e)' = ListRead(graph', e)
BY Zenon DEF ListValues, ListRead, NextCell, NextIn, FirstIn, FirstsAt, Here, By,
             FirstsOf, RestsOf

\* f visits the cells of the list e begins, and k of them.
Follow(G, e, k, f) ==
  f = [i \in 0 .. k |-> IF i = 0 THEN e.t.o ELSE NextIn(G, e, f[i - 1])]

\* There is such a visit, and only one, if the cells are the same.
LEMMA FollowExists ==
  ASSUME NEW G, NEW e, NEW k \in Nat
  PROVE  \E f : Follow(G, e, k, f)
<1> DEFINE T == {j \in Nat : ~ \E f : Follow(G, e, j, f)}
<1> SUFFICES ASSUME T # {} PROVE FALSE
  OBVIOUS
<1>1. PICK j \in T : \A y \in T : j <= y
  <2> HIDE DEF T
  <2>1. T \in SUBSET Nat
    BY DEF T
  <2> QED BY <2>1, SmallestNumber
<1>2. CASE j = 0
  <2> DEFINE f == [i \in 0 .. 0 |-> e.t.o]
  <2>1. Follow(G, e, 0, f)
    BY DEF Follow
  <2> QED BY <1>2, <2>1
<1>3. CASE j # 0
  <2>1. j \in Nat /\ j - 1 \in Nat /\ j - 1 \notin T
    BY <1>1, <1>3
  <2>2. PICK g : Follow(G, e, j - 1, g)
    BY <2>1
  <2> DEFINE last == NextIn(G, e, g[j - 1])
             f == [i \in 0 .. j |-> IF i = j THEN last ELSE g[i]]
  <2>3. \A i \in 0 .. j - 1 : f[i] = g[i]
    BY <2>1
  <2>4. f[j] = last
    BY <2>1
  <2> HIDE DEF last
  <2>5. \A i \in 0 .. j :
          f[i] = IF i = 0 THEN e.t.o ELSE NextIn(G, e, f[i - 1])
    <3> TAKE i \in 0 .. j
    <3>1. CASE i = j
      <4>1. f[i - 1] = g[j - 1]
        BY <2>1, <2>3, <3>1
      <4> HIDE DEF f
      <4> QED BY <1>3, <2>4, <3>1, <4>1 DEF last
    <3>2. CASE i # j
      <4>1. i \in 0 .. j - 1
        BY <2>1, <3>2
      <4>2. g[i] = IF i = 0 THEN e.t.o ELSE NextIn(G, e, g[i - 1])
        BY <2>2, <4>1 DEF Follow
      <4>3. i # 0 => f[i - 1] = g[i - 1]
        BY <2>1, <2>3, <4>1
      <4> QED BY <2>3, <4>1, <4>2, <4>3
    <3> QED BY <3>1, <3>2
  <2>6. Follow(G, e, j, f)
    <3> HIDE DEF f
    <3>1. f = [i \in 0 .. j |-> f[i]]
      BY DEF f
    <3> QED BY <2>5, <3>1 DEF Follow
  <2> QED BY <1>1, <2>6
<1> QED BY <1>2, <1>3

\* Two visits of the same cells are the same visit.
LEMMA FollowAgrees ==
  ASSUME NEW G, NEW H, NEW e, NEW k \in Nat,
         \A b : NextIn(G, e, b) = NextIn(H, e, b),
         NEW f, Follow(G, e, k, f), NEW g, Follow(H, e, k, g)
  PROVE  f = g
<1> DEFINE T == {i \in 0 .. k : f[i] # g[i]}
<1>1. T = {}
  <2> SUFFICES ASSUME T # {} PROVE FALSE
    OBVIOUS
  <2>1. PICK j \in T : \A y \in T : j <= y
    <3> HIDE DEF T
    <3>1. T \in SUBSET Nat
      BY DEF T
    <3> QED BY <3>1, SmallestNumber
  <2>2. j \in 0 .. k /\ f[j] # g[j]
    BY <2>1
  <2>3. /\ f[j] = IF j = 0 THEN e.t.o ELSE NextIn(G, e, f[j - 1])
        /\ g[j] = IF j = 0 THEN e.t.o ELSE NextIn(H, e, g[j - 1])
    BY <2>2 DEF Follow
  <2>4. j # 0
    BY <2>2, <2>3
  <2>5. j - 1 \in 0 .. k /\ j - 1 \notin T
    BY <2>1, <2>2, <2>4
  <2>6. f[j - 1] = g[j - 1]
    BY <2>5
  <2> QED BY <2>2, <2>3, <2>4, <2>6
<1>2. \A i \in 0 .. k : f[i] = g[i]
  BY <1>1
<1>3. f = [i \in 0 .. k |-> f[i]] /\ g = [i \in 0 .. k |-> g[i]]
  <2>1. f = [i \in 0 .. k |-> IF i = 0 THEN e.t.o ELSE NextIn(G, e, f[i - 1])]
    BY DEF Follow
  <2>2. g = [i \in 0 .. k |-> IF i = 0 THEN e.t.o ELSE NextIn(H, e, g[i - 1])]
    BY DEF Follow
  <2>3. \A i \in 0 .. k :
          /\ f[i] = IF i = 0 THEN e.t.o ELSE NextIn(G, e, f[i - 1])
          /\ g[i] = IF i = 0 THEN e.t.o ELSE NextIn(H, e, g[i - 1])
    BY DEF Follow
  <2> QED BY <2>1, <2>2, <2>3
<1> QED BY <1>2, <1>3

\* What is read depends on the path of cells and on what each of them holds.
LEMMA ReadAlong ==
  ASSUME NEW G, NEW e, Cardinality(FirstsAt(G, e)) \in Nat
  PROVE  \E f : LET size   == Cardinality(FirstsAt(G, e))
                    length == Cardinality({i \in 0 .. size : f[i] # RdfNil})
                IN  /\ Follow(G, e, size, f)
                    /\ ListRead(G, e) =
                         [i \in 1 .. length |-> FirstIn(G, e, f[i - 1])]
<1> DEFINE size == Cardinality(FirstsAt(G, e))
           cell == CHOOSE f : Follow(G, e, size, f)
           length == Cardinality({i \in 0 .. size : cell[i] # RdfNil})
<1>1. Follow(G, e, size, cell)
  BY FollowExists
<1>2. ListRead(G, e) = [i \in 1 .. length |-> FirstIn(G, e, cell[i - 1])]
  BY Zenon DEF ListRead, Follow
<1> QED BY <1>1, <1>2

NextOf(R, b) ==
  LET rest == {d.t.o : d \in {x \in R : x.t.s = b}}
  IN  IF rest = {} THEN RdfNil ELSE CHOOSE o \in rest : TRUE

FirstOf(F, b) == (CHOOSE d \in {x \in F : x.t.s = b} : TRUE).t.o

\* Reading looks only at what is sent of the cells, and where e is sent.
LEMMA NextRead ==
  ASSUME NEW G, NEW e, NEW b
  PROVE  /\ NextIn(G, e, b) = NextOf(RestsAt(G, e), b)
         /\ FirstIn(G, e, b) = FirstOf(FirstsAt(G, e), b)
<1>1. {x \in {y \in {z \in G : z.t.by = "rest"} : y.t.s = b} : x.at = e.at}
        = {x \in RestsAt(G, e) : x.t.s = b}
  BY DEF RestsAt
<1>2. {x \in {y \in {z \in G : z.t.by = "first"} : y.t.s = b} : x.at = e.at}
        = {x \in FirstsAt(G, e) : x.t.s = b}
  BY DEF FirstsAt
<1> QED BY <1>1, <1>2, Zenon DEF NextIn, FirstIn, NextOf, FirstOf

\* A list is read the same where its cells are the same.
LEMMA SameRead ==
  ASSUME NEW G, NEW H, NEW e, FirstsAt(H, e) = FirstsAt(G, e),
         RestsAt(H, e) = RestsAt(G, e), Cardinality(FirstsAt(G, e)) \in Nat
  PROVE  ListRead(H, e) = ListRead(G, e)
<1>1. \A b : NextIn(G, e, b) = NextIn(H, e, b) /\ FirstIn(G, e, b) = FirstIn(H, e, b)
  BY NextRead
<1> DEFINE size == Cardinality(FirstsAt(G, e))
           length(f) == Cardinality({i \in 0 .. size : f[i] # RdfNil})
<1>2. PICK f : /\ Follow(G, e, size, f)
               /\ ListRead(G, e) = [i \in 1 .. length(f) |-> FirstIn(G, e, f[i - 1])]
  BY ReadAlong
<1>3. PICK g : /\ Follow(H, e, size, g)
               /\ ListRead(H, e) = [i \in 1 .. length(g) |-> FirstIn(H, e, g[i - 1])]
  BY ReadAlong
<1>4. size \in Nat
  OBVIOUS
<1> HIDE DEF size
<1>5. f = g
  BY <1>1, <1>2, <1>3, <1>4, FollowAgrees
<1> HIDE DEF length
<1> QED BY <1>1, <1>2, <1>3, <1>5

\* The cells of a list, under their names.
CellsHold(G, e, n, name, items) ==
  /\ e.t.o = name[1]
  /\ \A i \in 1 .. n : name[i] # RdfNil
  /\ \A i, j \in 1 .. n : name[i] = name[j] => i = j
  /\ \A i \in 1 .. n :
       /\ \E d \in FirstsAt(G, e) : d.t.s = name[i]
       /\ \A d \in FirstsAt(G, e) : d.t.s = name[i] => d.t.o = items[i]
       /\ \E d \in RestsAt(G, e) : d.t.s = name[i]
       /\ \A d \in RestsAt(G, e) :
            d.t.s = name[i] => d.t.o = IF i < n THEN name[i + 1] ELSE RdfNil
  /\ \A d \in RestsAt(G, e) : d.t.s # RdfNil

\* There are at least as many triples as cells.
LEMMA EnoughFirsts ==
  ASSUME NEW S, IsFiniteSet(S), NEW n \in Nat, NEW name,
         \A i, j \in 1 .. n : name[i] = name[j] => i = j,
         \A i \in 1 .. n : \E d \in S : d.t.s = name[i]
  PROVE  Cardinality(S) \in Nat /\ n <= Cardinality(S)
<1> DEFINE f == [i \in 1 .. n |-> CHOOSE d \in S : d.t.s = name[i]]
<1>1. \A i \in 1 .. n : f[i] \in S /\ f[i].t.s = name[i]
  OBVIOUS
<1>2. f = [i \in 1 .. n |-> f[i]]
  OBVIOUS
<1> HIDE DEF f
<1>3. f \in [1 .. n -> S] /\ DOMAIN f = 1 .. n
  BY <1>1, <1>2
<1>4. \A i, j \in 1 .. n : f[i] = f[j] => i = j
  BY <1>1
<1>5. f \in Injection(1 .. n, S)
  BY <1>3, <1>4 DEF Injection, IsInjective
<1>6. Cardinality(1 .. n) <= Cardinality(S)
  BY <1>5, FS_Injection
<1>7. Cardinality(1 .. n) = n
  BY FS_Interval
<1> QED BY <1>6, <1>7, FS_CardinalityType

\* Cells under distinct names, each linked to the next, are read as they are.
LEMMA ListIsRead ==
  ASSUME NEW G, NEW e, NEW n \in Nat \ {0}, NEW name,
         NEW items \in Seq(Values), Len(items) = n,
         CellsHold(G, e, n, name, items), IsFiniteSet(FirstsAt(G, e))
  PROVE  ListRead(G, e) = items
<1> DEFINE size == Cardinality(FirstsAt(G, e))
           length(f) == Cardinality({i \in 0 .. size : f[i] # RdfNil})
           g == [i \in 0 .. size |-> IF i < n THEN name[i + 1] ELSE RdfNil]
<1>1. \A i \in 1 .. n :
        /\ NextIn(G, e, name[i]) = IF i < n THEN name[i + 1] ELSE RdfNil
        /\ FirstIn(G, e, name[i]) = items[i]
  <2> TAKE i \in 1 .. n
  <2> DEFINE next == IF i < n THEN name[i + 1] ELSE RdfNil
             rests == {x \in RestsAt(G, e) : x.t.s = name[i]}
             firsts == {x \in FirstsAt(G, e) : x.t.s = name[i]}
  <2>1. /\ NextIn(G, e, name[i]) = NextOf(RestsAt(G, e), name[i])
        /\ FirstIn(G, e, name[i]) = FirstOf(FirstsAt(G, e), name[i])
    BY NextRead
  <2>2. /\ rests # {} /\ \A d \in rests : d.t.o = next
        /\ firsts # {} /\ \A d \in firsts : d.t.o = items[i]
    <3> HIDE DEF next
    <3> QED BY DEF CellsHold, next
  <2>3. /\ NextOf(RestsAt(G, e), name[i]) =
             LET rest == {d.t.o : d \in rests}
             IN  IF rest = {} THEN RdfNil ELSE CHOOSE o \in rest : TRUE
        /\ FirstOf(FirstsAt(G, e), name[i]) = (CHOOSE d \in firsts : TRUE).t.o
    BY Zenon DEF NextOf, FirstOf
  <2> HIDE DEF rests, firsts, next
  <2>4. {d.t.o : d \in rests} = {next}
    BY <2>2
  <2>5. NextIn(G, e, name[i]) = next
    BY <2>1, <2>3, <2>4
  <2>6. FirstIn(G, e, name[i]) = items[i]
    BY <2>1, <2>2, <2>3
  <2> QED BY <2>5, <2>6 DEF next
<1>2. NextIn(G, e, RdfNil) = RdfNil
  <2>1. NextIn(G, e, RdfNil) = NextOf(RestsAt(G, e), RdfNil)
    BY NextRead
  <2>2. {x \in RestsAt(G, e) : x.t.s = RdfNil} = {}
    BY DEF CellsHold
  <2> QED BY <2>1, <2>2 DEF NextOf
<1>3. size \in Nat /\ n <= size
  BY EnoughFirsts DEF CellsHold
<1>4. PICK f : /\ Follow(G, e, size, f)
               /\ ListRead(G, e) = [i \in 1 .. length(f) |-> FirstIn(G, e, f[i - 1])]
  BY <1>3, ReadAlong
<1>5. e.t.o = name[1] /\ \A i \in 1 .. n : name[i] # RdfNil
  BY DEF CellsHold
<1> HIDE DEF size
<1>6. \A i \in 0 .. size : g[i] = IF i = 0 THEN e.t.o ELSE NextIn(G, e, g[i - 1])
  <2> TAKE i \in 0 .. size
  <2>1. CASE i = 0
    BY <1>3, <1>5, <2>1
  <2>2. CASE i # 0
    <3>1. i - 1 \in 0 .. size /\ g[i - 1] = IF i - 1 < n THEN name[i] ELSE RdfNil
      BY <1>3, <2>2
    <3>2. g[i] = IF i < n THEN name[i + 1] ELSE RdfNil
      OBVIOUS
    <3> HIDE DEF g
    <3>3. CASE i - 1 < n
      <4>1. i \in 1 .. n
        BY <1>3, <2>2, <3>3
      <4> QED BY <1>1, <2>2, <3>1, <3>2, <3>3, <4>1
    <3>4. CASE ~(i - 1 < n)
      <4>1. ~(i < n)
        BY <1>3, <3>4
      <4> QED BY <1>2, <2>2, <3>1, <3>2, <3>4, <4>1
    <3> QED BY <3>3, <3>4
  <2> QED BY <2>1, <2>2
<1>7. Follow(G, e, size, g)
  <2>1. g = [i \in 0 .. size |-> g[i]]
    OBVIOUS
  <2> HIDE DEF g
  <2> QED BY <1>6, <2>1 DEF Follow
<1>8. f = g
  <2>1. \A b : NextIn(G, e, b) = NextIn(G, e, b)
    OBVIOUS
  <2> HIDE DEF g
  <2> QED BY <1>3, <1>4, <1>7, <2>1, FollowAgrees
<1>9. length(g) = n
  <2>1. {i \in 0 .. size : g[i] # RdfNil} = 0 .. n - 1
    <3>1. \A i \in 0 .. size : g[i] # RdfNil <=> i < n
      <4> TAKE i \in 0 .. size
      <4>1. g[i] = IF i < n THEN name[i + 1] ELSE RdfNil
        OBVIOUS
      <4> HIDE DEF g
      <4> QED BY <1>3, <1>5, <4>1
    <3> HIDE DEF g
    <3> QED BY <1>3, <3>1
  <2>2. Cardinality(0 .. n - 1) = n
    BY FS_Interval
  <2> QED BY <2>1, <2>2
<1>10. \A i \in 1 .. n : g[i - 1] = name[i]
  BY <1>3
<1> HIDE DEF length, g
<1>11. ListRead(G, e) = [i \in 1 .. n |-> items[i]]
  BY <1>1, <1>4, <1>8, <1>9, <1>10
<1> QED BY <1>11

-----------------------------------------------------------------------------
(* The lists an element sends at its end.                                  *)

NamesOfCells(c) ==
  \A l, m \in Finished(c) : \A i \in 1 .. Len(l.items), j \in 1 .. Len(m.items) :
    /\ CellName(c, l, i) \in Bnodes
    /\ CellName(c, l, i) = CellName(c, m, j) => l = m /\ i = j

\* No two cells of the lists that end have the same name.
LEMMA CellNamesDiffer ==
  ASSUME NEW c \in Contexts,
         EntriesOK(c.local_list_mappings, c.list_slots, c.bnode_count)
  PROVE  NamesOfCells(c)
<1> DEFINE before(x) == {y \in Cells(c) : Earlier(y, x)}
           rank(x) == Cardinality(before(x))
<1>1. /\ c.local_list_mappings \subseteq Lists /\ c.bnode_count \in Nat
      /\ Finished(c) \subseteq c.local_list_mappings
  BY ListFields DEF Finished
<1>2. \A l \in Finished(c) : /\ l.slot \in Nat /\ Len(l.items) \in Nat
                             /\ l.head \in Bnodes /\ l.head.bnode \in Nat
                             /\ l.head.bnode < c.bnode_count
  BY <1>1 DEF Lists, EntriesOK, Bnodes
<1>3. \A l, m \in Finished(c) : l.slot = m.slot \/ l.head = m.head => l = m
  BY <1>1 DEF EntriesOK
<1>4. \A l \in Finished(c) : \A i \in 2 .. Len(l.items) : <<l.slot, i>> \in Cells(c)
  BY DEF Cells
<1>5. \A x \in Cells(c) : x[1] \in Nat /\ x[2] \in Nat /\ x = <<x[1], x[2]>>
  BY <1>2 DEF Cells
<1>6. \A x \in Cells(c) : rank(x) \in Nat
  <2> TAKE x \in Cells(c)
  <2>1. before(x) \in SUBSET Cells(c)
    OBVIOUS
  <2> HIDE DEF before
  <2> QED BY <2>1, CellsFinite
<1>7. \A x, y \in Cells(c) : Earlier(x, y) => rank(x) < rank(y)
  <2> TAKE x, y \in Cells(c)
  <2> HAVE Earlier(x, y)
  <2>1. x \in before(y) /\ x \notin before(x) /\ before(x) \subseteq before(y)
    BY <1>5 DEF Earlier
  <2>2. before(x) \in SUBSET Cells(c) /\ before(y) \in SUBSET Cells(c)
    OBVIOUS
  <2>3. IsFiniteSet(Cells(c))
    BY CellsFinite
  <2> HIDE DEF before
  <2> QED BY <2>1, <2>2, <2>3, StrictlyMore
<1>8. \A l \in Finished(c) : \A i : i # 1 =>
        CellName(c, l, i) = Bnode(c.bnode_count + rank(<<l.slot, i>>))
  BY DEF CellName
<1>9. \A l \in Finished(c) : CellName(c, l, 1) = l.head
  BY DEF CellName
<1> HIDE DEF rank
<1>10. \A x, y \in Cells(c) : rank(x) = rank(y) => x = y
  <2> TAKE x, y \in Cells(c)
  <2> HAVE rank(x) = rank(y)
  <2>1. ~Earlier(x, y) /\ ~Earlier(y, x)
    BY <1>6, <1>7
  <2>2. x[1] = y[1] /\ x[2] = y[2]
    BY <1>5, <2>1 DEF Earlier
  <2> QED BY <1>5, <2>2
<1>11. \A m : Bnode(m).bnode = m /\ (m \in Nat => Bnode(m) \in Bnodes)
  BY DEF Bnode, Bnodes
<1>12. ASSUME NEW l \in Finished(c), NEW i \in 2 .. Len(l.items)
       PROVE  /\ CellName(c, l, i) \in Bnodes
              /\ CellName(c, l, i).bnode = c.bnode_count + rank(<<l.slot, i>>)
              /\ rank(<<l.slot, i>>) \in Nat /\ <<l.slot, i>> \in Cells(c)
  <2>1. <<l.slot, i>> \in Cells(c) /\ i # 1
    BY <1>4
  <2>2. rank(<<l.slot, i>>) \in Nat
    BY <1>6, <2>1
  <2> QED BY <1>1, <1>8, <1>11, <2>1, <2>2
<1>13. SUFFICES ASSUME NEW l \in Finished(c), NEW m \in Finished(c),
                       NEW i \in 1 .. Len(l.items), NEW j \in 1 .. Len(m.items)
                PROVE  /\ CellName(c, l, i) \in Bnodes
                       /\ CellName(c, l, i) = CellName(c, m, j) => l = m /\ i = j
  BY DEF NamesOfCells
<1>14. i \in 2 .. Len(l.items) \/ i = 1
  BY <1>2
<1>15. j \in 2 .. Len(m.items) \/ j = 1
  BY <1>2
<1>16. CellName(c, l, i) \in Bnodes
  BY <1>2, <1>9, <1>12, <1>14
<1>17. ASSUME CellName(c, l, i) = CellName(c, m, j)
       PROVE  l = m /\ i = j
  <2>1. CASE i = 1 /\ j = 1
    BY <1>3, <1>9, <1>17, <2>1
  <2>2. CASE i = 1 /\ j \in 2 .. Len(m.items)
    <3>1. l.head = CellName(c, m, j)
      BY <1>9, <1>17, <2>2
    <3>2. l.head.bnode = c.bnode_count + rank(<<m.slot, j>>)
      BY <1>12, <2>2, <3>1
    <3>3. rank(<<m.slot, j>>) \in Nat
      BY <1>12, <2>2
    <3> QED BY <1>1, <1>2, <3>2, <3>3
  <2>3. CASE i \in 2 .. Len(l.items) /\ j = 1
    <3>1. m.head = CellName(c, l, i)
      BY <1>9, <1>17, <2>3
    <3>2. m.head.bnode = c.bnode_count + rank(<<l.slot, i>>)
      BY <1>12, <2>3, <3>1
    <3>3. rank(<<l.slot, i>>) \in Nat
      BY <1>12, <2>3
    <3> QED BY <1>1, <1>2, <3>2, <3>3
  <2>4. CASE i \in 2 .. Len(l.items) /\ j \in 2 .. Len(m.items)
    <3>1. /\ CellName(c, l, i).bnode = c.bnode_count + rank(<<l.slot, i>>)
          /\ rank(<<l.slot, i>>) \in Nat /\ <<l.slot, i>> \in Cells(c)
      BY <1>12, <2>4
    <3>2. /\ CellName(c, m, j).bnode = c.bnode_count + rank(<<m.slot, j>>)
          /\ rank(<<m.slot, j>>) \in Nat /\ <<m.slot, j>> \in Cells(c)
      BY <1>12, <2>4
    <3>3. c.bnode_count + rank(<<l.slot, i>>) = c.bnode_count + rank(<<m.slot, j>>)
      BY <1>17, <3>1, <3>2
    <3>4. rank(<<l.slot, i>>) = rank(<<m.slot, j>>)
      BY <1>1, <3>1, <3>2, <3>3
    <3>5. <<l.slot, i>> = <<m.slot, j>>
      BY <1>10, <3>1, <3>2, <3>4
    <3>6. l.slot = m.slot /\ i = j
      BY <3>5
    <3> QED BY <1>3, <3>6
  <2> QED BY <1>14, <1>15, <2>1, <2>2, <2>3, <2>4
<1> QED BY <1>16, <1>17

ListEvent(id, l) == [at |-> id, t |-> Triple("list", l.key[1], l.key[2], l.head)]

FirstTriple(c, l, i) ==
  [by |-> "first", s |-> CellName(c, l, i), p |-> RdfFirst, o |-> l.items[i]]
RestTriple(c, l, i) ==
  [by |-> "rest", s |-> CellName(c, l, i), p |-> RdfRest,
   o |-> IF i < Len(l.items) THEN CellName(c, l, i + 1) ELSE RdfNil]

\* What rdfa_complete_list_triples sends, by kind.
ListTriplesAre(c) ==
  /\ \A t : t \in ListTriples(c) /\ t.by = "first" <=>
       \E l \in Finished(c) : \E i \in 1 .. Len(l.items) : t = FirstTriple(c, l, i)
  /\ \A t : t \in ListTriples(c) /\ t.by = "rest" <=>
       \E l \in Finished(c) : \E i \in 1 .. Len(l.items) : t = RestTriple(c, l, i)
  /\ \A t : t \in ListTriples(c) /\ t.by = "list" <=>
       \E l \in Finished(c) :
         l.items # << >> /\ t = Triple("list", l.key[1], l.key[2], l.head)

\* They are the heads, the values and the links of its finished lists.
LEMMA ListTriplesByKind ==
  ASSUME NEW c \in Contexts, NamesOfCells(c)
  PROVE  ListTriplesAre(c)
<1>1. /\ Finished(c) \subseteq Lists
      /\ \A l \in Finished(c) : Len(l.items) \in Nat /\ l.items \in Seq(Values)
  BY ListFields DEF Finished, Lists
<1>2. ASSUME NEW l \in Finished(c), NEW i \in 1 .. Len(l.items)
      PROVE  Triple("rest", CellName(c, l, i), RdfRest,
                    IF i < Len(l.items) THEN CellName(c, l, i + 1) ELSE RdfNil)
               = RestTriple(c, l, i)
  <2> DEFINE next == IF i < Len(l.items) THEN CellName(c, l, i + 1) ELSE RdfNil
  <2>1. CellName(c, l, i) # NULL
    BY NullBnodeAssumption DEF NamesOfCells
  <2>2. next # NULL
    <3>1. CASE i < Len(l.items)
      <4>1. i + 1 \in 1 .. Len(l.items)
        BY <1>1, <3>1
      <4> QED BY <3>1, <4>1, NullBnodeAssumption DEF NamesOfCells
    <3>2. CASE ~(i < Len(l.items))
      BY <3>2, PartsAreSet
    <3> QED BY <3>1, <3>2
  <2>3. RdfRest # NULL
    BY PartsAreSet
  <2> HIDE DEF next
  <2>4. Triple("rest", CellName(c, l, i), RdfRest, next)
          = [by |-> "rest", s |-> CellName(c, l, i), p |-> RdfRest, o |-> next]
    BY <2>1, <2>2, <2>3, WholeTriple
  <2> QED BY <2>4 DEF RestTriple, next
<1> DEFINE chain(l) == Triple("list", l.key[1], l.key[2], l.head)
<1>3. \A l \in Finished(c) : \A t : t \in ChainTriples(c, l) <=>
        \/ t = chain(l)
        \/ \E i \in 1 .. Len(l.items) : t = FirstTriple(c, l, i)
        \/ \E i \in 1 .. Len(l.items) : t = RestTriple(c, l, i)
  <2> TAKE l \in Finished(c)
  <2> DEFINE last == Len(l.items)
             next(i) == IF i < last THEN CellName(c, l, i + 1) ELSE RdfNil
  <2>1. ChainTriples(c, l) =
          {chain(l)}
          \cup {FirstTriple(c, l, i) : i \in 1 .. last}
          \cup {Triple("rest", CellName(c, l, i), RdfRest, next(i)) : i \in 1 .. last}
    BY DEF ChainTriples, FirstTriple
  <2>2. \A i \in 1 .. last :
          Triple("rest", CellName(c, l, i), RdfRest, next(i)) = RestTriple(c, l, i)
    BY <1>2
  <2> HIDE DEF next, chain, last
  <2>3. ChainTriples(c, l) =
          {chain(l)}
          \cup {FirstTriple(c, l, i) : i \in 1 .. last}
          \cup {RestTriple(c, l, i) : i \in 1 .. last}
    BY <2>1, <2>2
  <2> QED BY <2>3 DEF last
<1>4. \A l \in Finished(c) :
        /\ chain(l).by = "list"
        /\ \A i : FirstTriple(c, l, i).by = "first" /\ RestTriple(c, l, i).by = "rest"
        /\ \A t \in EmptyListTriples(c, l) : t.by = "nil"
  BY TripleBy DEF FirstTriple, RestTriple, EmptyListTriples
<1>5. \A t : t \in ListTriples(c) <=>
        \E l \in Finished(c) :
          t \in IF l.items = << >> THEN EmptyListTriples(c, l) ELSE ChainTriples(c, l)
  BY DEF ListTriples
<1>6. \A l \in Finished(c) : l.items # << >> <=> \E i \in 1 .. Len(l.items) : TRUE
  BY <1>1
<1> HIDE DEF chain
<1>7. \A t : t \in ListTriples(c) <=>
        \E l \in Finished(c) :
          \/ l.items = << >> /\ t \in EmptyListTriples(c, l)
          \/ l.items # << >> /\ \/ t = chain(l)
                                \/ \E i \in 1 .. Len(l.items) : t = FirstTriple(c, l, i)
                                \/ \E i \in 1 .. Len(l.items) : t = RestTriple(c, l, i)
  BY <1>3, <1>5
<1>8. \A t : t \in ListTriples(c) /\ t.by = "first" <=>
       \E l \in Finished(c) : \E i \in 1 .. Len(l.items) : t = FirstTriple(c, l, i)
  BY <1>4, <1>6, <1>7
<1>9. \A t : t \in ListTriples(c) /\ t.by = "rest" <=>
       \E l \in Finished(c) : \E i \in 1 .. Len(l.items) : t = RestTriple(c, l, i)
  BY <1>4, <1>6, <1>7
<1>10. \A t : t \in ListTriples(c) /\ t.by = "list" <=>
       \E l \in Finished(c) : l.items # << >> /\ t = chain(l)
  BY <1>4, <1>7
<1> QED BY <1>8, <1>9, <1>10 DEF ListTriplesAre, chain

ListSenders == {"list", "first", "rest"}

\* An element sends finitely many cells.
LEMMA FirstTriplesFinite ==
  ASSUME NEW c \in Contexts, ListTriplesAre(c)
  PROVE  IsFiniteSet({t \in ListTriples(c) : t.by = "first"})
<1> DEFINE firsts(l) == {FirstTriple(c, l, i) : i \in 1 .. Len(l.items)}
           done == Finished(c)
           f == [l \in done |-> firsts(l)]
<1>1. IsFiniteSet(done) /\ done \subseteq Lists
  BY ListFields, FS_Subset DEF Finished
<1>2. \A l \in done : IsFiniteSet(firsts(l))
  <2> TAKE l \in done
  <2>1. Len(l.items) \in Nat
    BY <1>1 DEF Lists
  <2> DEFINE g == [i \in 1 .. Len(l.items) |-> FirstTriple(c, l, i)]
  <2>2. IsFiniteSet(1 .. Len(l.items))
    BY <2>1, FS_Interval
  <2>3. g \in [1 .. Len(l.items) -> firsts(l)]
    OBVIOUS
  <2>4. IsFiniteSet({g[i] : i \in 1 .. Len(l.items)})
    <3> HIDE DEF g, firsts
    <3> QED BY <2>2, <2>3, FiniteImage
  <2> QED BY <2>4
<1>3. {t \in ListTriples(c) : t.by = "first"} = UNION {f[l] : l \in done}
  <2>1. \A t : t \in ListTriples(c) /\ t.by = "first" <=>
          \E l \in done : t \in firsts(l)
    BY DEF ListTriplesAre
  <2> QED BY <2>1
<1>4. f \in [done -> {firsts(l) : l \in done}]
  OBVIOUS
<1>5. \A l \in done : f[l] = firsts(l)
  OBVIOUS
<1> HIDE DEF done, firsts, f
<1>6. IsFiniteSet({f[l] : l \in done})
  BY <1>1, <1>4, FiniteImage
<1>7. \A T \in {f[l] : l \in done} : IsFiniteSet(T)
  BY <1>2, <1>5
<1> QED BY <1>3, <1>6, <1>7, FS_UNION

\* H is G with T, of which the lists' triples are those of c.
ListsSent(c, id, G, H, T) ==
  /\ H = G \cup Sent(id, T)
  /\ \A t : t \in T /\ t.by \in ListSenders <=>
              t \in ListTriples(c) /\ t.by \in ListSenders
  /\ \A d \in G : d.t.by \in ListSenders => d.at # id

\* A list that ends is read back as its items.
LEMMA ListSent ==
  ASSUME NEW c \in Contexts, NamesOfCells(c), NEW id, NEW G, NEW H, NEW T,
         ListsSent(c, id, G, H, T), NEW l \in Finished(c), l.items # << >>
  PROVE  /\ ListRead(H, ListEvent(id, l)) = l.items
         /\ IsFiniteSet(FirstsAt(H, ListEvent(id, l)))
<1> DEFINE e == ListEvent(id, l)
           n == Len(l.items)
           name == [i \in 1 .. n |-> CellName(c, l, i)]
<1>1. ListTriplesAre(c)
  BY ListTriplesByKind
<1>2. l \in Lists /\ l.items \in Seq(Values) /\ n \in Nat \ {0}
  BY ListFields DEF Finished, Lists
<1>3. /\ e.at = id /\ e.t.o = l.head /\ CellName(c, l, 1) = l.head
  <2>1. /\ l.key[1] # NULL /\ l.key[2] # NULL /\ l.head # NULL
    BY <1>2, PartsAreSet, NullBnodeAssumption DEF Lists, Keys
  <2> QED BY <2>1, WholeTriple DEF ListEvent, CellName
<1>4. \A by \in {"first", "rest"} : \A d :
        d \in H /\ d.t.by = by /\ d.at = id <=>
          \E t : t \in ListTriples(c) /\ t.by = by /\ d = [at |-> id, t |-> t]
  BY DEF ListsSent, ListSenders, Sent
<1> HIDE DEF e
<1>5. \A d : d \in FirstsAt(H, e) <=>
        \E t : t \in ListTriples(c) /\ t.by = "first" /\ d = [at |-> id, t |-> t]
  BY <1>3, <1>4 DEF FirstsAt
<1>6. \A d : d \in RestsAt(H, e) <=>
        \E t : t \in ListTriples(c) /\ t.by = "rest" /\ d = [at |-> id, t |-> t]
  BY <1>3, <1>4 DEF RestsAt
<1>7. IsFiniteSet(FirstsAt(H, e))
  <2> DEFINE S == {t \in ListTriples(c) : t.by = "first"}
             f == [t \in S |-> [at |-> id, t |-> t]]
  <2>1. f \in [S -> FirstsAt(H, e)]
    BY <1>5
  <2>2. FirstsAt(H, e) = {f[t] : t \in S}
    BY <1>5
  <2>3. IsFiniteSet(S)
    BY <1>1, FirstTriplesFinite
  <2>4. IsFiniteSet({f[t] : t \in S})
    <3> HIDE DEF f, S
    <3> QED BY <2>1, <2>3, FiniteImage
  <2> QED BY <2>2, <2>4
<1>8. \A d : d \in FirstsAt(H, e) <=>
        \E m \in Finished(c) : \E j \in 1 .. Len(m.items) :
          d = [at |-> id, t |-> FirstTriple(c, m, j)]
  BY <1>1, <1>5 DEF ListTriplesAre
<1>9. \A d : d \in RestsAt(H, e) <=>
        \E m \in Finished(c) : \E j \in 1 .. Len(m.items) :
          d = [at |-> id, t |-> RestTriple(c, m, j)]
  BY <1>1, <1>6 DEF ListTriplesAre
<1>10. \A i \in 1 .. n : name[i] = CellName(c, l, i)
  OBVIOUS
<1>11. \A m, i : /\ FirstTriple(c, m, i).s = CellName(c, m, i)
                 /\ FirstTriple(c, m, i).o = m.items[i]
                 /\ RestTriple(c, m, i).s = CellName(c, m, i)
                 /\ RestTriple(c, m, i).o =
                      IF i < Len(m.items) THEN CellName(c, m, i + 1) ELSE RdfNil
  BY DEF FirstTriple, RestTriple
<1>12. RdfNil \notin Bnodes
  BY IriAssumption DEF Vocabulary
<1> HIDE DEF name
<1>13. CellsHold(H, e, n, name, l.items)
  <2>1. e.t.o = name[1]
    BY <1>2, <1>3, <1>10
  <2>2. \A i \in 1 .. n : name[i] # RdfNil
    BY <1>10, <1>12 DEF NamesOfCells
  <2>3. \A i, j \in 1 .. n : name[i] = name[j] => i = j
    BY <1>10 DEF NamesOfCells
  <2>4. ASSUME NEW i \in 1 .. n
        PROVE  /\ \E d \in FirstsAt(H, e) : d.t.s = name[i]
               /\ \A d \in FirstsAt(H, e) : d.t.s = name[i] => d.t.o = l.items[i]
    <3>1. [at |-> id, t |-> FirstTriple(c, l, i)] \in FirstsAt(H, e)
      BY <1>8
    <3>2. ASSUME NEW d \in FirstsAt(H, e), d.t.s = name[i]
          PROVE  d.t.o = l.items[i]
      <4>1. PICK m \in Finished(c) : \E j \in 1 .. Len(m.items) :
              d = [at |-> id, t |-> FirstTriple(c, m, j)]
        BY <1>8
      <4>2. PICK j \in 1 .. Len(m.items) : d = [at |-> id, t |-> FirstTriple(c, m, j)]
        BY <4>1
      <4>3. CellName(c, m, j) = CellName(c, l, i)
        BY <1>10, <1>11, <3>2, <4>2
      <4>4. m = l /\ j = i
        BY <4>3 DEF NamesOfCells
      <4> QED BY <1>11, <4>2, <4>4
    <3>3. [at |-> id, t |-> FirstTriple(c, l, i)].t.s = name[i]
      BY <1>10, <1>11
    <3> QED BY <3>1, <3>2, <3>3
  <2>5. ASSUME NEW i \in 1 .. n
        PROVE  /\ \E d \in RestsAt(H, e) : d.t.s = name[i]
               /\ \A d \in RestsAt(H, e) :
                    d.t.s = name[i] => d.t.o = IF i < n THEN name[i + 1] ELSE RdfNil
    <3>1. [at |-> id, t |-> RestTriple(c, l, i)] \in RestsAt(H, e)
      BY <1>9
    <3>2. ASSUME NEW d \in RestsAt(H, e), d.t.s = name[i]
          PROVE  d.t.o = IF i < n THEN name[i + 1] ELSE RdfNil
      <4>1. PICK m \in Finished(c) : \E j \in 1 .. Len(m.items) :
              d = [at |-> id, t |-> RestTriple(c, m, j)]
        BY <1>9
      <4>2. PICK j \in 1 .. Len(m.items) : d = [at |-> id, t |-> RestTriple(c, m, j)]
        BY <4>1
      <4>3. CellName(c, m, j) = CellName(c, l, i)
        BY <1>10, <1>11, <3>2, <4>2
      <4>4. m = l /\ j = i
        BY <4>3 DEF NamesOfCells
      <4>5. d.t.o = IF i < n THEN CellName(c, l, i + 1) ELSE RdfNil
        BY <1>11, <4>2, <4>4
      <4>6. i < n => i + 1 \in 1 .. n
        BY <1>2
      <4> QED BY <1>10, <4>5, <4>6
    <3>3. [at |-> id, t |-> RestTriple(c, l, i)].t.s = name[i]
      BY <1>10, <1>11
    <3> QED BY <3>1, <3>2, <3>3
  <2>6. \A d \in RestsAt(H, e) : d.t.s # RdfNil
    <3> TAKE d \in RestsAt(H, e)
    <3>1. PICK m \in Finished(c) : \E j \in 1 .. Len(m.items) :
            d = [at |-> id, t |-> RestTriple(c, m, j)]
      BY <1>9
    <3>2. PICK j \in 1 .. Len(m.items) : d = [at |-> id, t |-> RestTriple(c, m, j)]
      BY <3>1
    <3>3. CellName(c, m, j) \in Bnodes
      BY DEF NamesOfCells
    <3> QED BY <1>11, <1>12, <3>2, <3>3
  <2> QED BY <2>1, <2>2, <2>3, <2>4, <2>5, <2>6 DEF CellsHold
<1> HIDE DEF n
<1>14. Len(l.items) = n
  BY DEF n
<1>15. ListRead(H, e) = l.items
  BY <1>2, <1>7, <1>13, <1>14, ListIsRead
<1> QED BY <1>7, <1>15 DEF e

ListsIn(G)  == {e \in G : e.t.by = "list"}
ValuesIn(G) == [e \in ListsIn(G) |-> ListRead(G, e)]

Readable(G) ==
  \A e \in ListsIn(G) :
    IsFiniteSet(FirstsAt(G, e)) /\ ListRead(G, e) \in Seq(Values)

\* All that end are delivered, and the earlier lists are read as before.
LEMMA ListsDelivered ==
  ASSUME NEW c \in Contexts,
         EntriesOK(c.local_list_mappings, c.list_slots, c.bnode_count),
         NEW id, NEW G, NEW H, NEW T, ListsSent(c, id, G, H, T), Readable(G)
  PROVE  /\ Readable(H)
         /\ \E event : Delivers(c.local_list_mappings, Finished(c), ListsIn(G),
                                ListsIn(H), ValuesIn(G), ValuesIn(H), event)
<1> DEFINE M == c.local_list_mappings
           done == {l \in Finished(c) : l.items # << >>}
           event == [l \in done |-> ListEvent(id, l)]
<1>1. NamesOfCells(c) /\ ListTriplesAre(c)
  BY CellNamesDiffer, ListTriplesByKind
<1>2. Finished(c) \subseteq M /\ M \subseteq Lists
  BY ListFields DEF Finished
<1>3. \A l, m \in M : l.key = m.key => l = m
  BY DEF EntriesOK
<1>4. \A l \in M : /\ l.key = <<l.key[1], l.key[2]>>
                   /\ ListEvent(id, l).at = id /\ ListEvent(id, l).t.by = "list"
                   /\ KeyOf(ListEvent(id, l)) = l.key
  <2> TAKE l \in M
  <2>1. /\ l.key = <<l.key[1], l.key[2]>>
        /\ l.key[1] # NULL /\ l.key[2] # NULL /\ l.head # NULL
    BY <1>2, PartsAreSet, NullBnodeAssumption DEF Lists, Keys
  <2>2. Triple("list", l.key[1], l.key[2], l.head) =
          [by |-> "list", s |-> l.key[1], p |-> l.key[2], o |-> l.head]
    BY <2>1, WholeTriple
  <2> QED BY <2>1, <2>2 DEF ListEvent, KeyOf
<1>5. \A d : d \in ListsIn(H) <=> d \in ListsIn(G) \/ \E l \in done : d = ListEvent(id, l)
  <2>1. \A d : d \in ListsIn(H) <=>
          d \in ListsIn(G) \/ \E t : t \in ListTriples(c) /\ t.by = "list"
                                     /\ d = [at |-> id, t |-> t]
    BY DEF ListsIn, ListsSent, ListSenders, Sent
  <2> QED BY <1>1, <2>1 DEF ListTriplesAre, ListEvent
<1>6. event \in [done -> ListsIn(H)]
  BY <1>5
<1>7. ListsIn(H) = ListsIn(G) \cup {event[l] : l \in done}
  BY <1>5
<1>8. \A l \in done :
        /\ event[l] \notin ListsIn(G) /\ KeyOf(event[l]) = l.key
        /\ ValuesIn(H)[event[l]] = l.items
        /\ \A m \in done : event[l] = event[m] => l = m
  <2> TAKE l \in done
  <2>1. event[l] = ListEvent(id, l) /\ event[l] \in ListsIn(H)
    BY <1>5
  <2>2. event[l] \notin ListsIn(G)
    BY <1>2, <1>4, <2>1 DEF ListsSent, ListsIn, ListSenders
  <2>3. ListRead(H, ListEvent(id, l)) = l.items
    BY <1>1, ListSent
  <2>4. ValuesIn(H)[event[l]] = l.items
    BY <2>1, <2>3 DEF ValuesIn
  <2>5. \A m \in done : event[l] = event[m] => l = m
    BY <1>2, <1>3, <1>4
  <2> QED BY <1>2, <1>4, <2>1, <2>2, <2>4, <2>5
<1>9. \A e \in ListsIn(G) :
        ListRead(H, e) = ListRead(G, e) /\ FirstsAt(H, e) = FirstsAt(G, e)
  <2> TAKE e \in ListsIn(G)
  <2>1. e.at # id
    BY DEF ListsIn, ListsSent, ListSenders
  <2>2. FirstsAt(H, e) = FirstsAt(G, e) /\ RestsAt(H, e) = RestsAt(G, e)
    BY <2>1 DEF FirstsAt, RestsAt, ListsSent, Sent
  <2>3. Cardinality(FirstsAt(G, e)) \in Nat
    BY FS_CardinalityType DEF Readable
  <2> QED BY <2>2, <2>3, SameRead
<1>10. \A e \in ListsIn(G) : ValuesIn(H)[e] = ValuesIn(G)[e]
  BY <1>5, <1>9 DEF ValuesIn
<1>11. Readable(H)
  <2>1. \A e \in ListsIn(G) :
          IsFiniteSet(FirstsAt(H, e)) /\ ListRead(H, e) \in Seq(Values)
    BY <1>9 DEF Readable
  <2>2. \A l \in done : LET e == ListEvent(id, l)
                        IN  IsFiniteSet(FirstsAt(H, e)) /\ ListRead(H, e) \in Seq(Values)
    BY <1>1, <1>2, ListSent DEF Lists
  <2> QED BY <1>5, <2>1, <2>2 DEF Readable
<1> HIDE DEF event, done
<1>12. done = {l \in Finished(c) : l.items # << >>}
  BY DEF done
<1>13. Delivers(M, Finished(c), ListsIn(G), ListsIn(H), ValuesIn(G), ValuesIn(H), event)
  BY <1>2, <1>3, <1>6, <1>7, <1>8, <1>10, <1>12 DEF Delivers
<1> QED BY <1>11, <1>13

\* Triples that no list sends change no list.
LEMMA OtherTriples ==
  ASSUME NEW id, NEW G, NEW H, NEW T, H = G \cup Sent(id, T), Readable(G),
         \A t \in T : t.by \notin ListSenders
  PROVE  ListsIn(H) = ListsIn(G) /\ ValuesIn(H) = ValuesIn(G) /\ Readable(H)
<1>1. ListsIn(H) = ListsIn(G)
  BY DEF ListsIn, Sent, ListSenders
<1>2. \A e \in ListsIn(G) :
        ListRead(H, e) = ListRead(G, e) /\ FirstsAt(H, e) = FirstsAt(G, e)
  <2> TAKE e \in ListsIn(G)
  <2>1. FirstsAt(H, e) = FirstsAt(G, e) /\ RestsAt(H, e) = RestsAt(G, e)
    BY DEF FirstsAt, RestsAt, Sent, ListSenders
  <2>2. Cardinality(FirstsAt(G, e)) \in Nat
    BY FS_CardinalityType DEF Readable
  <2> QED BY <2>1, <2>2, SameRead
<1>3. ValuesIn(H) = ValuesIn(G)
  BY <1>1, <1>2 DEF ValuesIn
<1> QED BY <1>1, <1>2, <1>3 DEF Readable

-----------------------------------------------------------------------------
(* The lists of a context, from stage to stage of a start or an end tag.   *)

ListsOK(c, L, G, V) ==
  /\ EntriesOK(c.local_list_mappings, c.list_slots, c.bnode_count)
  /\ Ledger(L, c.local_list_mappings, G, V)

\* What one tag adds, and where the entries of e come from.
Made(D, keys, value, pos) ==
  {[pos |-> pos, i |-> i, value |-> value, key |-> keys[i]] : i \in D}

EntriesStay(c, e) ==
  \A l \in c.local_list_mappings : \E m \in e.local_list_mappings : SameEntry(l, m)

EntriesFrom(c, e, depths) ==
  \A m \in e.local_list_mappings :
    (\E l \in c.local_list_mappings : SameEntry(l, m)) \/ m.depth \in depths

\* Creating the entries for some keys and adding a value under each.
LEMMA StageAdds ==
  ASSUME NEW c \in Contexts, NEW D \in Positions, NEW keys \in [D -> Keys],
         NEW value \in Values, NEW pos \in Int, NEW L, NEW G, NEW V,
         ListsOK(c, L, G, V), \A x \in L : x.pos < pos
  PROVE  LET e == AppendToListMappings(CreateListMappings(c, keys), keys, value)
         IN  /\ ListsOK(e, L \cup Made(D, keys, value, pos), G, V)
             /\ EntriesStay(c, e) /\ EntriesFrom(c, e, {c.depth})
             /\ (\A i \in D : \E l \in c.local_list_mappings : l.key = keys[i]) =>
                  EntriesFrom(c, e, {}) /\ e.bnode_count = c.bnode_count
<1> DEFINE e == AppendToListMappings(CreateListMappings(c, keys), keys, value)
           N == Made(D, keys, value, pos)
<1>1. Extended(c, keys, value, e)
  BY ExtendedEntries DEF ListsOK
<1>2. PICK q : Batch(N, keys, value, pos, q)
  BY BatchOfTag DEF Made
<1>3. /\ Ledger(L, c.local_list_mappings, G, V)
      /\ Grown(c.local_list_mappings, e.local_list_mappings, keys, value)
  BY <1>1 DEF Extended, ListsOK
<1> HIDE DEF e, N
<1>4. Ledger(L \cup N, e.local_list_mappings, G, V)
  BY <1>2, <1>3, LedgerAdd
<1>5. ListsOK(e, L \cup N, G, V)
  BY <1>1, <1>4 DEF Extended, ListsOK
<1>6. EntriesStay(c, e) /\ EntriesFrom(c, e, {c.depth})
  BY <1>1 DEF Extended, EntriesStay, EntriesFrom
<1>7. ASSUME \A i \in D : \E l \in c.local_list_mappings : l.key = keys[i]
      PROVE  EntriesFrom(c, e, {}) /\ e.bnode_count = c.bnode_count
  <2>1. DOMAIN keys = D
    OBVIOUS
  <2>2. e.bnode_count = c.bnode_count
    BY <1>1, <1>7, <2>1 DEF Extended
  <2>3. \A m \in e.local_list_mappings :
          \E l \in c.local_list_mappings : SameEntry(l, m)
    <3> TAKE m \in e.local_list_mappings
    <3>1. CASE \E i \in D : keys[i] = m.key
      <4>1. PICK l \in c.local_list_mappings : l.key = m.key
        BY <1>7, <3>1
      <4>2. PICK k \in e.local_list_mappings : SameEntry(l, k)
        BY <1>6 DEF EntriesStay
      <4>3. k = m
        BY <1>1, <4>1, <4>2 DEF Extended, EntriesOK, SameEntry
      <4> QED BY <4>2, <4>3
    <3>2. CASE ~\E i \in D : keys[i] = m.key
      BY <1>1, <2>1, <3>2 DEF Extended
    <3> QED BY <3>1, <3>2
  <2> QED BY <2>2, <2>3 DEF EntriesFrom
<1> QED BY <1>5, <1>6, <1>7 DEF e, N

\* Creating the entries only.
LEMMA StageCreates ==
  ASSUME NEW c \in Contexts, NEW D \in Positions, NEW keys \in [D -> Keys],
         NEW L, NEW G, NEW V, ListsOK(c, L, G, V)
  PROVE  LET e == CreateListMappings(c, keys)
         IN  /\ ListsOK(e, L, G, V)
             /\ EntriesStay(c, e) /\ EntriesFrom(c, e, {c.depth})
             /\ \A i \in D : \E m \in e.local_list_mappings : m.key = keys[i]
<1> DEFINE e == CreateListMappings(c, keys)
<1>1. CreatedFrom(c, keys, e)
  BY CreatedEntries DEF ListsOK
<1>2. c.local_list_mappings \subseteq Lists
  BY ListFields
<1> HIDE DEF e
<1>3. \A l \in c.local_list_mappings : l.key \in Keys /\ SameEntry(l, l)
  BY <1>2 DEF Lists, SameEntry
<1>4. EntriesStay(c, e) /\ EntriesFrom(c, e, {c.depth})
  BY <1>1, <1>3 DEF CreatedFrom, EntriesStay, EntriesFrom
<1>5. \A m \in e.local_list_mappings : m.key \in Keys /\
        \/ \E l \in c.local_list_mappings : l.key = m.key /\ l.items = m.items
        \/ m.items = << >> /\ \A l \in c.local_list_mappings : l.key # m.key
  BY <1>1, <1>3 DEF CreatedFrom
<1>6. \A l \in c.local_list_mappings : \E m \in e.local_list_mappings : m.key = l.key
  BY <1>1 DEF CreatedFrom
<1>7. Ledger(L, e.local_list_mappings, G, V)
  BY <1>5, <1>6, LedgerKeeps DEF ListsOK
<1>8. ListsOK(e, L, G, V)
  BY <1>1, <1>7 DEF CreatedFrom, ListsOK
<1>9. \A i \in D : \E m \in e.local_list_mappings : m.key = keys[i]
  BY <1>1 DEF CreatedFrom
<1> QED BY <1>4, <1>8, <1>9 DEF e

\* Neither.
LEMMA SameLists ==
  ASSUME NEW c \in Contexts, NEW e \in Contexts, NEW L, NEW G, NEW V,
         ListsOK(c, L, G, V),
         e.local_list_mappings = c.local_list_mappings,
         e.list_slots = c.list_slots, c.bnode_count <= e.bnode_count
  PROVE  ListsOK(e, L, G, V) /\ EntriesStay(c, e) /\ EntriesFrom(c, e, {})
<1>1. /\ c.local_list_mappings \subseteq Lists
      /\ c.bnode_count \in Nat /\ e.bnode_count \in Nat
  BY ListFields
<1>2. \A l \in c.local_list_mappings : l.head.bnode \in Nat
  BY <1>1 DEF Lists, Bnodes
<1>3. EntriesOK(e.local_list_mappings, e.list_slots, e.bnode_count)
  <2>1. /\ \A l, m \in c.local_list_mappings :
             (l.key = m.key \/ l.slot = m.slot \/ l.head = m.head) => l = m
        /\ \A l \in c.local_list_mappings :
             l.slot < c.list_slots /\ l.head.bnode < c.bnode_count
    BY DEF ListsOK, EntriesOK
  <2>2. \A l \in c.local_list_mappings : l.head.bnode < e.bnode_count
    BY <1>1, <1>2, <2>1
  <2> QED BY <2>1, <2>2 DEF EntriesOK
<1> QED BY <1>3 DEF ListsOK, EntriesStay, EntriesFrom, SameEntry

\* OpenRelations adds the object of a listed @rel.
ListedAtStart(c, pos) ==
  IF ListsRel(c) /\ c.current_object_resource # NULL
  THEN Made(DOMAIN c.attrs.rel, KeysOf(c.new_subject, c.attrs.rel),
            ListedObject(c), pos)
  ELSE {}

\* It adds that, under the keys of the relations.
LEMMA OpenRelationsLists ==
  ASSUME NEW c \in Contexts, c.new_subject # NULL, NEW pos \in Int,
         NEW L, NEW G, NEW V, ListsOK(c, L, G, V), \A x \in L : x.pos < pos
  PROVE  LET e == OpenRelations(c)
         IN  /\ ListsOK(e, L \cup ListedAtStart(c, pos), G, V)
             /\ EntriesStay(c, e)
             /\ EntriesFrom(c, e, IF ListsRel(c) THEN {c.depth} ELSE {})
             /\ ListsRel(c) /\ c.current_object_resource = NULL =>
                  \A i \in DOMAIN c.attrs.rel : \E m \in e.local_list_mappings :
                    m.key = KeysOf(c.new_subject, c.attrs.rel)[i]
<1> DEFINE e == OpenRelations(c)
           rel == c.attrs.rel
           keys == KeysOf(c.new_subject, rel)
<1>1. c.new_subject \in Resources /\ e \in Contexts
  BY OpenRelationsType, SubjectsAreValues DEF Maybe, SameSubject
<1>2. ListsRel(c) => rel \in Seq(Iris) /\ DOMAIN rel \in Positions
                     /\ keys \in [DOMAIN rel -> Keys]
  <2>1. ListsRel(c) => rel \in Seq(Iris)
    BY AttributeTypes DEF ListsRel, Maybe
  <2> QED BY <1>1, <2>1, KeysOfType
<1>3. CASE ListsRel(c) /\ c.current_object_resource # NULL
  <2>1. e = AppendToListMappings(CreateListMappings(c, keys), keys, ListedObject(c))
    BY <1>3 DEF OpenRelations, EstablishNewInlistTriples
  <2>2. ListedObject(c) \in Values
    BY <1>3, ListedObjectType
  <2>3. ListedAtStart(c, pos) = Made(DOMAIN rel, keys, ListedObject(c), pos)
    BY <1>3 DEF ListedAtStart
  <2>4. ListsRel(c) /\ (ListsRel(c) /\ c.current_object_resource = NULL <=> FALSE)
    BY <1>3
  <2> HIDE DEF e, keys, rel
  <2>5. /\ ListsOK(e, L \cup ListedAtStart(c, pos), G, V)
        /\ EntriesStay(c, e) /\ EntriesFrom(c, e, {c.depth})
    BY <1>2, <1>3, <2>1, <2>2, <2>3, StageAdds
  <2> QED BY <2>4, <2>5 DEF e, keys, rel
<1>4. CASE ListsRel(c) /\ c.current_object_resource = NULL
  <2> DEFINE d == CreateListMappings(c, keys)
  <2>1. e.local_list_mappings = d.local_list_mappings /\ e.list_slots = d.list_slots
        /\ e.bnode_count = d.bnode_count
    BY <1>4 DEF OpenRelations, SaveIncompleteListTriples, CreateListMappings, Contexts
  <2>2. ListedAtStart(c, pos) = {}
    BY <1>4 DEF ListedAtStart
  <2> HIDE DEF e, keys, rel
  <2>3. /\ ListsOK(d, L, G, V) /\ EntriesStay(c, d) /\ EntriesFrom(c, d, {c.depth})
        /\ \A i \in DOMAIN rel : \E m \in d.local_list_mappings : m.key = keys[i]
    BY <1>2, <1>4, StageCreates
  <2> HIDE DEF d
  <2>4. /\ ListsOK(e, L \cup ListedAtStart(c, pos), G, V)
        /\ EntriesStay(c, e) /\ EntriesFrom(c, e, {c.depth})
        /\ \A i \in DOMAIN rel : \E m \in e.local_list_mappings : m.key = keys[i]
    BY <2>1, <2>2, <2>3 DEF ListsOK, EntriesStay, EntriesFrom
  <2> QED BY <1>4, <2>4 DEF e, keys, rel
<1>5. CASE ~ListsRel(c)
  <2>1. e = c \/ e = SaveIncompleteTriples(c)
    BY <1>5 DEF OpenRelations
  <2>2. e.local_list_mappings = c.local_list_mappings /\ e.list_slots = c.list_slots
    BY <2>1 DEF SaveIncompleteTriples, Contexts
  <2>3. c.bnode_count <= e.bnode_count
    <3>1. e.bnode_count >= c.bnode_count
      BY OpenRelationsDraw
    <3>2. c.bnode_count \in Nat /\ e.bnode_count \in Nat
      BY <1>1, ListFields
    <3> HIDE DEF e
    <3> QED BY <3>1, <3>2
  <2>4. ListedAtStart(c, pos) = {}
    BY <1>5 DEF ListedAtStart
  <2> HIDE DEF e
  <2>5. ListsOK(e, L, G, V) /\ EntriesStay(c, e) /\ EntriesFrom(c, e, {})
    BY <1>1, <2>2, <2>3, SameLists
  <2>6. L \cup ListedAtStart(c, pos) = L
    BY <2>4
  <2> QED BY <1>5, <2>5, <2>6 DEF e
<1> QED BY <1>3, <1>4, <1>5

\* A start tag hands the mapping on, up to the relations.
LEMMA StartedMapping ==
  ASSUME NEW parent \in Contexts, NEW tag \in Tags,
         InheritedObject(parent) # NULL, NEW L, NEW G, NEW V,
         ListsOK(parent, L, G, V)
  PROVE  LET set == EstablishSubject(ReadAttributes(NewElementContext(parent), tag))
         IN  /\ set \in Contexts /\ set.new_subject # NULL
             /\ set.depth = parent.depth + 1
             /\ ListsOK(set, L, G, V)
             /\ EntriesStay(parent, set) /\ EntriesFrom(parent, set, {})
<1> DEFINE new  == NewElementContext(parent)
           read == ReadAttributes(new, tag)
           set  == EstablishSubject(read)
<1>1. /\ read \in Contexts /\ set \in Contexts /\ set.new_subject # NULL
      /\ new \in Contexts
  BY StartedContext, NewElementContextType
<1>2. /\ new.local_list_mappings = parent.local_list_mappings
      /\ new.list_slots = parent.list_slots /\ new.depth = parent.depth + 1
      /\ new.parent_object = InheritedObject(parent)
  BY DEF NewElementContext
<1>3. set.depth = parent.depth + 1
  <2>1. read.depth = new.depth /\ read.parent_object = new.parent_object
    BY <1>1, ReadAttributesType
  <2>2. read.parent_object # NULL
    BY <1>2, <2>1
  <2> HIDE DEF read, new
  <2>3. set.depth = read.depth
    BY <1>1, <2>2, SubjectEstablished DEF Established
  <2> QED BY <1>2, <2>1, <2>3
<1>4. parent.bnode_count <= set.bnode_count
  <2>1. /\ parent.bnode_count + 2 * Reports(tag) <= read.bnode_count
        /\ read.bnode_count \in Nat
    BY StartedCounter
  <2>2. Reports(tag) \in Nat /\ parent.bnode_count \in Nat
    BY TagTypes, ListFields
  <2>3. PICK drawn \in BOOLEAN : set.bnode_count = Draw(read, drawn)
    <3> HIDE DEF read
    <3> QED BY <1>1, SubjectDraws
  <2>4. read.bnode_count <= set.bnode_count /\ set.bnode_count \in Nat
    <3> HIDE DEF read, set
    <3> QED BY <2>1, <2>3 DEF Draw
  <2> HIDE DEF read, set
  <2> QED BY <2>1, <2>2, <2>4
<1>5. set.local_list_mappings = parent.local_list_mappings
  BY <1>1, <1>2, StartKeepsLists
<1>6. set.list_slots = parent.list_slots
  <2>1. read.list_slots = new.list_slots
    BY <1>1 DEF ReadAttributes, Contexts
  <2> HIDE DEF read
  <2>2. set.list_slots = read.list_slots
    BY <1>1 DEF EstablishSubject, EstablishNew10Subject, EstablishPropertySubject,
       EstablishChainedSubject, EstablishNew11Subject,
       EstablishNew10SubjectWithRelRev, EstablishNew11SubjectWithRelRev, Contexts
  <2> QED BY <1>2, <2>1, <2>2
<1> HIDE DEF set
<1>7. ListsOK(set, L, G, V) /\ EntriesStay(parent, set) /\ EntriesFrom(parent, set, {})
  BY <1>1, <1>4, <1>5, <1>6, SameLists
<1> QED BY <1>1, <1>3, <1>7 DEF set

\* AfterProperty adds the value of a listed @property.
ListsProperty(c) == c.attrs.property # NULL /\ c.attrs.inlist

ListedByProperty(c, pos) ==
  IF ListsProperty(c)
  THEN Made(DOMAIN c.attrs.property, KeysOf(c.new_subject, c.attrs.property),
            CurrentPropertyValue(CloseLiteral(c)), pos)
  ELSE {}

\* A listed property adds its value under its keys, any other adds nothing.
LEMMA AfterPropertyLists ==
  ASSUME NEW c \in Contexts, c.new_subject # NULL, NEW pos \in Int,
         NEW L, NEW G, NEW V, ListsOK(c, L, G, V), \A x \in L : x.pos < pos
  PROVE  LET e == AfterProperty(CloseLiteral(c))
         IN  /\ ListsOK(e, L \cup ListedByProperty(c, pos), G, V)
             /\ EntriesStay(c, e)
             /\ EntriesFrom(c, e, IF ListsProperty(c) THEN {c.depth} ELSE {})
<1> DEFINE d == CloseLiteral(c)
           e == AfterProperty(d)
           preds == c.attrs.property
           keys == KeysOf(c.new_subject, preds)
           value == CurrentPropertyValue(d)
<1>1. SameSubject(c, d)
  BY CloseLiteralType
<1>2. /\ d.local_list_mappings = c.local_list_mappings
      /\ d.list_slots = c.list_slots /\ d.bnode_count = c.bnode_count
  BY DEF CloseLiteral, Contexts
<1>3. ListsOK(d, L, G, V)
  BY <1>2 DEF ListsOK
<1>4. d \in Contexts /\ d.new_subject = c.new_subject /\ d.attrs = c.attrs
      /\ d.depth = c.depth
  BY <1>1 DEF SameSubject
<1>5. c.new_subject \in Resources
  BY SubjectsAreValues DEF Maybe
<1>6. CASE ListsProperty(c)
  <2>1. preds \in Seq(Iris)
    BY <1>6, AttributeTypes DEF ListsProperty, Maybe
  <2>2. DOMAIN preds \in Positions /\ keys \in [DOMAIN preds -> Keys]
    BY <1>5, <2>1, KeysOfType
  <2> HIDE DEF d
  <2>3. e = AppendToListMappings(CreateListMappings(d, keys), keys, value)
    BY <1>4, <1>6 DEF AfterProperty, EstablishNewInlistTriples, ListsProperty
  <2>4. value \in Values
    BY <1>4, PropertyValueType
  <2>5. ListedByProperty(c, pos) = Made(DOMAIN preds, keys, value, pos)
    BY <1>6 DEF ListedByProperty, d
  <2> HIDE DEF e, keys, preds, value
  <2>6. /\ ListsOK(e, L \cup ListedByProperty(c, pos), G, V)
        /\ EntriesStay(d, e) /\ EntriesFrom(d, e, {d.depth})
    BY <1>3, <1>4, <2>2, <2>3, <2>4, <2>5, StageAdds
  <2>7. EntriesStay(c, e) /\ EntriesFrom(c, e, {c.depth})
    BY <1>2, <1>4, <2>6 DEF EntriesStay, EntriesFrom
  <2> QED BY <1>6, <2>6, <2>7 DEF e, d
<1>7. CASE ~ListsProperty(c)
  <2> HIDE DEF d
  <2>1. e = d
    BY <1>4, <1>7 DEF AfterProperty, ListsProperty
  <2>2. L \cup ListedByProperty(c, pos) = L
    BY <1>7 DEF ListedByProperty
  <2>3. EntriesStay(c, d) /\ EntriesFrom(c, d, {})
    BY <1>2 DEF EntriesStay, EntriesFrom, SameEntry
  <2> QED BY <1>3, <1>7, <2>1, <2>2, <2>3 DEF d
<1> QED BY <1>6, <1>7

\* AfterIncomplete adds the subject of an element below a listed @rel.
ListedIncompletes(c) ==
  {i \in DOMAIN c.incomplete_triples : c.incomplete_triples[i].dir = "none"}
ListedKeys(c) ==
  [i \in ListedIncompletes(c) |->
     <<c.parent_subject, c.incomplete_triples[i].pred>>]

ListedBySubject(c, pos) ==
  IF Completes(c)
  THEN Made(ListedIncompletes(c), ListedKeys(c), c.new_subject, pos)
  ELSE {}

\* A subject is added under the keys that wait for it.
LEMMA AfterIncompleteLists ==
  ASSUME NEW c \in Contexts, c.new_subject # NULL, NEW pos \in Int,
         NEW L, NEW G, NEW V, ListsOK(c, L, G, V), \A x \in L : x.pos < pos,
         Completes(c) => \A i \in ListedIncompletes(c) :
           \E l \in c.local_list_mappings : l.key = ListedKeys(c)[i]
  PROVE  LET e == AfterIncomplete(c)
         IN  /\ ListsOK(e, L \cup ListedBySubject(c, pos), G, V)
             /\ e.bnode_count = c.bnode_count
             /\ EntriesStay(c, e) /\ EntriesFrom(c, e, {})
<1> DEFINE e == AfterIncomplete(c)
           D == ListedIncompletes(c)
           keys == ListedKeys(c)
           d == AppendToListMappings(CreateListMappings(c, keys), keys, c.new_subject)
<1>1. CASE Completes(c)
  <2>1. c.incomplete_triples \in Seq(Incompletes) /\ c.parent_subject \in Resources
        /\ c.new_subject \in Values
    BY SubjectsAreValues DEF Contexts
  <2>2. D \in Positions
    BY <2>1, SequencePositions DEF ListedIncompletes
  <2>3. keys \in [D -> Keys]
    <3>1. \A i \in D : c.incomplete_triples[i] \in Incompletes
      BY <2>1 DEF ListedIncompletes
    <3>2. \A i \in D : c.incomplete_triples[i].pred \in Iris
      BY <3>1 DEF Incompletes
    <3>3. \A i \in D : <<c.parent_subject, c.incomplete_triples[i].pred>> \in Keys
      BY <2>1, <3>2 DEF Keys
    <3> QED BY <3>3 DEF ListedKeys
  <2>4. /\ e.local_list_mappings = d.local_list_mappings
        /\ e.list_slots = d.list_slots /\ e.bnode_count = d.bnode_count
    BY <1>1 DEF AfterIncomplete, CompleteIncompleteTriples, ListedKeys,
                ListedIncompletes, AppendToListMappings, CreateListMappings, Contexts
  <2>5. ListedBySubject(c, pos) = Made(D, keys, c.new_subject, pos)
    BY <1>1 DEF ListedBySubject
  <2>6. \A i \in D : \E l \in c.local_list_mappings : l.key = keys[i]
    BY <1>1
  <2> HIDE DEF D, keys, e
  <2>7. /\ ListsOK(d, L \cup ListedBySubject(c, pos), G, V)
        /\ EntriesStay(c, d) /\ EntriesFrom(c, d, {}) /\ d.bnode_count = c.bnode_count
    BY <2>1, <2>2, <2>3, <2>5, <2>6, StageAdds
  <2> HIDE DEF d
  <2>8. /\ ListsOK(e, L \cup ListedBySubject(c, pos), G, V)
        /\ EntriesStay(c, e) /\ EntriesFrom(c, e, {}) /\ e.bnode_count = c.bnode_count
    BY <2>4, <2>7 DEF ListsOK, EntriesStay, EntriesFrom
  <2> QED BY <2>8 DEF e
<1>2. CASE ~Completes(c)
  <2>1. e = c
    BY <1>2 DEF AfterIncomplete
  <2>2. L \cup ListedBySubject(c, pos) = L
    BY <1>2 DEF ListedBySubject
  <2>3. EntriesStay(c, c) /\ EntriesFrom(c, c, {})
    BY DEF EntriesStay, EntriesFrom, SameEntry
  <2> QED BY <2>1, <2>2, <2>3
<1> QED BY <1>1, <1>2

-----------------------------------------------------------------------------
(* What the document adds to lists, element by element.                    *)

ByRel(n) ==
  IF Listing(n) /\ tree[n].tag.rel # NULL /\ ~Hangs(n)
  THEN Additions(n, "rel", 2 * StartPosition(n), ObjectListed(n)) ELSE {}

ByProperty(n) ==
  IF Listing(n) /\ tree[n].tag.property # NULL
  THEN Additions(n, "property", 2 * EndPosition(n), ValueOf(n)) ELSE {}

BySubject(n) ==
  IF ~Transparent(n) /\ Enclosing(n) # 0 /\ HangsInList(Enclosing(n))
  THEN Additions(Enclosing(n), "rel", 2 * EndPosition(n) + 1, tree[n].subject)
  ELSE {}

ListedIs ==
  \A x : x \in Listed <=>
    \/ \E n \in Elements : x \in ByRel(n)
    \/ \E n \in Closed : x \in ByProperty(n) \cup BySubject(n)

\* The additions of the document are those of its elements.
LEMMA ListedByElement == ListedIs
<1> DEFINE R == {k \in Elements : /\ Listing(k) /\ tree[k].tag.rel # NULL
                                  /\ ~Hangs(k)}
           P == {k \in Closed : Listing(k) /\ tree[k].tag.property # NULL}
           S == {k \in Closed : /\ ~Transparent(k) /\ Enclosing(k) # 0
                                /\ HangsInList(Enclosing(k))}
           r(n) == Additions(n, "rel", 2 * StartPosition(n), ObjectListed(n))
           p(n) == Additions(n, "property", 2 * EndPosition(n), ValueOf(n))
           s(n) == Additions(Enclosing(n), "rel", 2 * EndPosition(n) + 1,
                             tree[n].subject)
<1>1. Listed = UNION ({r(n) : n \in R} \cup {p(n) : n \in P}
                      \cup {s(n) : n \in S})
  BY DEF Listed
<1>2. \A n : ByRel(n) = IF Listing(n) /\ tree[n].tag.rel # NULL /\ ~Hangs(n)
                        THEN r(n) ELSE {}
  BY DEF ByRel
<1>3. \A n : ByProperty(n) = IF Listing(n) /\ tree[n].tag.property # NULL
                             THEN p(n) ELSE {}
  BY DEF ByProperty
<1>4. \A n : BySubject(n) =
        IF ~Transparent(n) /\ Enclosing(n) # 0 /\ HangsInList(Enclosing(n))
        THEN s(n) ELSE {}
  BY DEF BySubject
<1> HIDE DEF r, p, s, R, P, S
<1>5. \A x : x \in Listed <=>
        \/ \E n \in R : x \in r(n)
        \/ \E n \in P : x \in p(n)
        \/ \E n \in S : x \in s(n)
  BY <1>1
<1>6. \A x : (\E n \in R : x \in r(n)) <=> \E n \in Elements : x \in ByRel(n)
  BY <1>2 DEF R
<1>7. \A x : (\E n \in P : x \in p(n)) <=> \E n \in Closed : x \in ByProperty(n)
  BY <1>3 DEF P
<1>8. \A x : (\E n \in S : x \in s(n)) <=> \E n \in Closed : x \in BySubject(n)
  BY <1>4 DEF S
<1> QED BY <1>5, <1>6, <1>7, <1>8 DEF ListedIs

\* What one element adds stays what it is while what it is read from does.
LEMMA ByRelStays ==
  ASSUME NEW n, tree'[n] = tree[n], Hangs(n)' <=> Hangs(n),
         LanguageOf(n)' = LanguageOf(n)
  PROVE  ByRel(n)' = ByRel(n)
<1>1. Listing(n)' <=> Listing(n)
  BY DEF Listing
<1>2. StartPosition(n)' = StartPosition(n) /\ ObjectListed(n)' = ObjectListed(n)
  BY DEF StartPosition, ObjectListed
<1>3. \A pos, v : Additions(n, "rel", pos, v)' = Additions(n, "rel", pos, v)
  BY DEF Additions
<1> HIDE DEF Additions, StartPosition, ObjectListed, Listing
<1> QED BY <1>1, <1>2, <1>3 DEF ByRel

\* What a property adds depends on its element, and the text and language there.
LEMMA ByPropertyStays ==
  ASSUME NEW n, tree'[n] = tree[n], Below(n)' = Below(n),
         HasAbout(n)' <=> HasAbout(n), LanguageOf(n)' = LanguageOf(n),
         TextWithin(n)' = TextWithin(n), Wordless(n)' <=> Wordless(n)
  PROVE  ByProperty(n)' = ByProperty(n)
<1>1. Listing(n)' <=> Listing(n)
  BY DEF Listing
<1>2. EndPosition(n)' = EndPosition(n)
  BY DEF EndPosition
<1>3. \A kind : LiteralOf(n, kind)' = LiteralOf(n, kind)
  BY DEF LiteralOf
<1>4. ResourceOf(n)' = ResourceOf(n)
  BY DEF ResourceOf, Unset
<1>5. ValueOf(n)' = ValueOf(n)
  BY <1>3, <1>4 DEF ValueOf
<1>6. \A pos, v : Additions(n, "property", pos, v)' = Additions(n, "property", pos, v)
  BY DEF Additions
<1> QED BY <1>1, <1>2, <1>5, <1>6 DEF ByProperty

\* What a subject adds depends on its element and the one that left relations open.
LEMMA BySubjectStays ==
  ASSUME NEW n, tree'[n] = tree[n], Below(n)' = Below(n),
         Transparent(n)' <=> Transparent(n), Enclosing(n)' = Enclosing(n),
         Enclosing(n) # 0 =>
           /\ tree'[Enclosing(n)] = tree[Enclosing(n)]
           /\ HangsInList(Enclosing(n))' <=> HangsInList(Enclosing(n))
  PROVE  BySubject(n)' = BySubject(n)
<1>1. EndPosition(n)' = EndPosition(n)
  BY DEF EndPosition
<1>2. PICK m : m = Enclosing(n)
  OBVIOUS
<1>3. CASE m = 0
  BY <1>2, <1>3 DEF BySubject
<1>4. CASE m # 0
  <2>1. PICK pos, v : pos = 2 * EndPosition(n) + 1 /\ v = tree[n].subject
    OBVIOUS
  <2>2. HangsInList(m)' <=> HangsInList(m)
    BY <1>2, <1>4
  <2>3. Enclosing(n)' = m /\ pos = 2 * EndPosition(n)' + 1 /\ v = tree'[n].subject
    BY <1>1, <1>2, <2>1
  <2>4. Additions(m, "rel", pos, v)' = Additions(m, "rel", pos, v)
    BY <1>2, <1>4 DEF Additions
  <2>5. BySubject(n)' = IF ~Transparent(n)' /\ m # 0 /\ HangsInList(m)'
          THEN Additions(m, "rel", pos, v)' ELSE {}
    BY <2>3 DEF BySubject
  <2>6. BySubject(n) = IF ~Transparent(n) /\ m # 0 /\ HangsInList(m)
          THEN Additions(m, "rel", pos, v) ELSE {}
    BY <1>2, <2>1 DEF BySubject
  <2> QED BY <2>2, <2>4, <2>5, <2>6
<1> QED BY <1>3, <1>4

-----------------------------------------------------------------------------
(* How the additions grow with the tree and with the text.                 *)

Unspoken(m) ==
  tree[m].tag.property # NULL /\ Below(m) = {m} /\ tree[m].tag.torn = "empty"

WordlessIs ==
  \A n : Wordless(n) <=>
    /\ \A run \in ToSet(text) : n \notin ToSet(run.path)
    /\ \A m \in Closed : Unspoken(m) => n \notin ToSet(tree[m].path)

\* Whether n has text is said by its runs and by its empty properties.
LEMMA WordlessElements == WordlessIs
<1> SUFFICES ASSUME NEW n
             PROVE  Wordless(n) <=>
                      /\ \A run \in ToSet(text) : n \notin ToSet(run.path)
                      /\ \A m \in Closed : Unspoken(m) => n \notin ToSet(tree[m].path)
  BY DEF WordlessIs
<1>1. \A p : p \in Spoken <=>
        \/ \E run \in ToSet(text) : p = run.path
        \/ \E m \in Closed : Unspoken(m) /\ p = tree[m].path
  BY DEF Spoken, Unspoken
<1> QED BY <1>1 DEF Wordless

\* More elements, and more that have ended, have more additions.
LEMMA ListedGrows ==
  ASSUME \A n \in Elements : n \in Elements' /\ ByRel(n)' = ByRel(n),
         \A n \in Closed : /\ n \in Closed' /\ ByProperty(n)' = ByProperty(n)
                           /\ BySubject(n)' = BySubject(n)
  PROVE  \A x : x \in Listed' <=>
           \/ x \in Listed
           \/ \E n \in Elements' \ Elements : x \in ByRel(n)'
           \/ \E n \in Closed' \ Closed : x \in ByProperty(n)' \cup BySubject(n)'
<1>1. ListedIs
  BY ListedByElement
<1>2. ListedIs'
  BY ListedByElement, PTL
<1>3. \A x : x \in Listed <=>
        \/ \E n \in Elements : x \in ByRel(n)
        \/ \E n \in Closed : x \in ByProperty(n) \cup BySubject(n)
  BY <1>1 DEF ListedIs
<1>4. \A x : x \in Listed' <=>
        \/ \E n \in Elements' : x \in ByRel(n)'
        \/ \E n \in Closed' : x \in ByProperty(n)' \cup BySubject(n)'
  BY <1>2 DEF ListedIs
<1> QED BY <1>3, <1>4

\* A start tag adds what its own relations add.
LEMMA ListedByStart ==
  ASSUME TreeOK, OpenOK, tree \in Seq(Nodes), open \in Seq(Nat),
         NEW node \in Nodes, NEW id \in Nat, id = Len(tree) + 1,
         node.path = Append(open, id), tree' = Append(tree, node),
         open' = Append(open, id), UNCHANGED text
  PROVE  /\ Listed' = Listed \cup ByRel(id)'
         /\ \A n : Wordless(n)' <=> Wordless(n)
<1>1. Closed' = Closed
  BY StartNesting
<1>2. /\ \A n \in Elements : tree'[n] = tree[n]
      /\ Elements' = Elements \cup {id} /\ id \notin Elements
      /\ \A n \in Closed : n \in Elements /\ n \notin ToSet(open)
  BY DEF Elements, Closed
<1>3. \A n \in Elements :
        /\ Transparent(n)' <=> Transparent(n)
        /\ Hangs(n)' <=> Hangs(n)
        /\ HangsInList(n)' <=> HangsInList(n)
        /\ Enclosing(n)' = Enclosing(n)
        /\ LanguageOf(n)' = LanguageOf(n)
  BY EarlierElements, LanguageNew
<1>4. \A n \in Closed : Below(n)' = Below(n)
  <2> TAKE n \in Closed
  <2>1. Below(n)' = Below(n) \cup
           (IF n \in ToSet(open) \/ n = id THEN {id} ELSE {})
    BY BelowNew
  <2> QED BY <1>2, <2>1
<1>5. \A n : Wordless(n)' <=> Wordless(n)
  <2>1. WordlessIs
    BY WordlessElements
  <2>2. WordlessIs'
    BY WordlessElements, PTL
  <2>3. \A m \in Closed : /\ tree'[m] = tree[m]
                          /\ Unspoken(m)' <=> Unspoken(m)
    BY <1>2, <1>4 DEF Unspoken
  <2> QED BY <1>1, <2>1, <2>2, <2>3 DEF WordlessIs
<1>6. \A n \in Elements : ByRel(n)' = ByRel(n)
  BY <1>2, <1>3, ByRelStays
<1>7. \A n \in Closed : ByProperty(n)' = ByProperty(n)
  <2> TAKE n \in Closed
  <2>1. tree'[n] = tree[n] /\ LanguageOf(n)' = LanguageOf(n)
    BY <1>2, <1>3
  <2>2. HasAbout(n)' <=> HasAbout(n)
    BY <2>1 DEF HasAbout, Unset
  <2>3. TextWithin(n)' = TextWithin(n)
    BY DEF TextWithin
  <2> QED BY <1>4, <1>5, <2>1, <2>2, <2>3, ByPropertyStays
<1>8. \A n \in Closed : BySubject(n)' = BySubject(n)
  <2> TAKE n \in Closed
  <2>1. n \in Elements
    BY <1>2
  <2>2. Enclosing(n) # 0 => Enclosing(n) \in Elements
    <3>1. Enclosing(n) \in 0 .. n
      BY <2>1 DEF TreeOK
    <3> QED BY <2>1, <3>1 DEF Elements
  <2> QED BY <1>2, <1>3, <1>4, <2>1, <2>2, BySubjectStays
<1>9. \A x : x \in Listed' <=>
        \/ x \in Listed
        \/ \E n \in Elements' \ Elements : x \in ByRel(n)'
        \/ \E n \in Closed' \ Closed : x \in ByProperty(n)' \cup BySubject(n)'
  BY <1>1, <1>2, <1>6, <1>7, <1>8, ListedGrows
<1>10. PICK R : R = ByRel(id)'
  OBVIOUS
<1>11. \A x : x \in Listed' <=> x \in Listed \/ x \in R
  BY <1>1, <1>2, <1>9, <1>10
<1>12. Listed' = Listed \cup R
  BY <1>11
<1> QED BY <1>5, <1>10, <1>12

\* An end tag adds what its property adds, and its subject.
LEMMA ListedByEnd ==
  ASSUME TreeOK, OpenOK, open \in Seq(Nat), open # << >>,
         UNCHANGED <<tree, text>>, open' = SubSeq(open, 1, Len(open) - 1),
         NEW id, id = open[Len(open)]
  PROVE  /\ Listed' = (Listed \cup ByProperty(id)') \cup BySubject(id)'
         /\ \A n : Wordless(n)' <=>
              Wordless(n) /\ (Unspoken(id) => n \notin ToSet(tree[id].path))
<1>1. Closed' = Closed \cup {id} /\ id \in Elements /\ id \notin Closed
  <2>1. Len(open) \in DOMAIN open
    OBVIOUS
  <2> QED BY <2>1, EndNesting DEF Closed, ToSet
<1>2. /\ Elements' = Elements
      /\ \A n : /\ Below(n)' = Below(n) /\ LanguageOf(n)' = LanguageOf(n)
                /\ TextWithin(n)' = TextWithin(n)
                /\ HasAbout(n)' <=> HasAbout(n)
                /\ Transparent(n)' <=> Transparent(n)
                /\ Hangs(n)' <=> Hangs(n)
                /\ HangsInList(n)' <=> HangsInList(n)
                /\ Enclosing(n)' = Enclosing(n)
  <2>1. tree' = tree /\ text' = text
    OBVIOUS
  <2>2. Elements' = Elements /\ \A n : Below(n)' = Below(n)
    BY <2>1 DEF Elements, Below
  <2>3. \A n : LanguageOf(n)' = LanguageOf(n) /\ TextWithin(n)' = TextWithin(n)
    BY <2>1 DEF LanguageOf, TextWithin
  <2>4. \A n : HasAbout(n)' <=> HasAbout(n)
    BY <2>1 DEF HasAbout, Unset
  <2>5. \A n : Hangs(n)' <=> Hangs(n)
    BY <2>1, <2>4 DEF Hangs, Unset
  <2>6. \A n : HangsInList(n)' <=> HangsInList(n)
    BY <2>1, <2>5 DEF HangsInList
  <2>7. \A n : Transparent(n)' <=> Transparent(n)
    BY <2>1 DEF Transparent, Unset
  <2>8. \A n : Enclosing(n)' = Enclosing(n)
    BY SameTree
  <2> QED BY <2>2, <2>3, <2>4, <2>5, <2>6, <2>7, <2>8
<1>3. \A n : Wordless(n)' <=>
        Wordless(n) /\ (Unspoken(id) => n \notin ToSet(tree[id].path))
  <2>1. WordlessIs
    BY WordlessElements
  <2>2. WordlessIs'
    BY WordlessElements, PTL
  <2>3. \A m : Unspoken(m)' <=> Unspoken(m)
    BY <1>2 DEF Unspoken
  <2> QED BY <1>1, <2>1, <2>2, <2>3 DEF WordlessIs
<1>4. \A n \in Closed : n \notin ToSet(tree[id].path)
  <2> SUFFICES ASSUME NEW n \in Closed, n \in ToSet(tree[id].path)
               PROVE  FALSE
    OBVIOUS
  <2>1. Len(open) \in DOMAIN open /\ Len(open) \in Nat
    OBVIOUS
  <2>2. /\ Len(tree[id].path) = Len(open)
        /\ \A k \in 1 .. Len(open) : tree[id].path[k] = open[k]
    BY <2>1 DEF OpenOK
  <2>3. PICK k \in DOMAIN tree[id].path : n = tree[id].path[k]
    BY DEF ToSet
  <2>4. DOMAIN tree[id].path = 1 .. Len(open) /\ DOMAIN open = 1 .. Len(open)
    BY <1>1, <2>2 DEF TreeOK
  <2>5. n = open[k] /\ k \in DOMAIN open
    BY <2>2, <2>3, <2>4
  <2> QED BY <2>5 DEF Closed, ToSet
<1>5. \A n \in Elements : ByRel(n)' = ByRel(n)
  BY <1>2, ByRelStays
<1>6. \A n \in Closed : ByProperty(n)' = ByProperty(n)
  BY <1>2, <1>3, <1>4, ByPropertyStays
<1>7. \A n \in Closed : BySubject(n)' = BySubject(n)
  BY <1>2, BySubjectStays
<1>8. \A x : x \in Listed' <=>
        \/ x \in Listed
        \/ \E n \in Elements' \ Elements : x \in ByRel(n)'
        \/ \E n \in Closed' \ Closed : x \in ByProperty(n)' \cup BySubject(n)'
  BY <1>1, <1>2, <1>5, <1>6, <1>7, ListedGrows
<1>9. PICK P, S : P = ByProperty(id)' /\ S = BySubject(id)'
  OBVIOUS
<1>10. \A x : x \in Listed' <=> x \in Listed \/ x \in P \/ x \in S
  BY <1>1, <1>2, <1>8, <1>9
<1>11. Listed' = (Listed \cup P) \cup S
  BY <1>10
<1> QED BY <1>3, <1>9, <1>11

\* Text is read inside open elements only.
LEMMA ListedByText ==
  ASSUME UNCHANGED <<tree, open>>, NEW run,
         text \in Seq([text : Texts, path : Seq(Nat)]),
         run \in [text : Texts, path : Seq(Nat)], run.path = open,
         text' = Append(text, run)
  PROVE  /\ Listed' = Listed
         /\ \A n : Wordless(n)' <=> Wordless(n) /\ n \notin ToSet(open)
<1>1. /\ Elements' = Elements /\ Closed' = Closed /\ tree' = tree
      /\ \A n : Below(n)' = Below(n) /\ LanguageOf(n)' = LanguageOf(n)
  BY DEF Elements, Closed, Below, LanguageOf
<1>2. \A n : /\ HasAbout(n)' <=> HasAbout(n)
             /\ Transparent(n)' <=> Transparent(n)
             /\ Hangs(n)' <=> Hangs(n)
             /\ HangsInList(n)' <=> HangsInList(n)
             /\ Enclosing(n)' = Enclosing(n)
  <2>1. \A n : HasAbout(n)' <=> HasAbout(n)
    BY <1>1 DEF HasAbout, Unset
  <2>2. \A n : Hangs(n)' <=> Hangs(n)
    BY <1>1, <2>1 DEF Hangs, Unset
  <2>3. \A n : HangsInList(n)' <=> HangsInList(n)
    BY <1>1, <2>2 DEF HangsInList
  <2>4. \A n : Transparent(n)' <=> Transparent(n)
    BY <1>1 DEF Transparent, Unset
  <2>5. \A n : Enclosing(n)' = Enclosing(n)
    BY <1>1, SameTree
  <2> QED BY <2>1, <2>2, <2>3, <2>4, <2>5
<1>3. \A n : Wordless(n)' <=> Wordless(n) /\ n \notin ToSet(open)
  <2>1. WordlessIs
    BY WordlessElements
  <2>2. WordlessIs'
    BY WordlessElements, PTL
  <2>3. \A m : Unspoken(m)' <=> Unspoken(m)
    BY <1>1 DEF Unspoken
  <2>4. ToSet(text') = ToSet(text) \cup {run}
    <3>1. PICK Runs : Runs = [text : Texts, path : Seq(Nat)]
      OBVIOUS
    <3>2. text \in Seq(Runs) /\ run \in Runs
      BY <3>1
    <3>3. ToSet(Append(text, run)) = ToSet(text) \cup {run}
      BY ONLY <3>2, ToSetAppend
    <3> QED BY <3>3
  <2> QED BY <1>1, <2>1, <2>2, <2>3, <2>4 DEF WordlessIs
<1>4. \A n \in Closed : n \notin ToSet(open)
  BY DEF Closed
<1>5. \A n \in Closed : TextWithin(n)' = TextWithin(n)
  <2> TAKE n \in Closed
  <2>1. TextRead(n, Append(text, run)) = TextRead(n, text)
    <3>1. PICK Runs : Runs = [text : Texts, path : Seq(Nat)]
      OBVIOUS
    <3>2. text \in Seq(Runs) /\ run \in Runs
      BY <3>1
    <3>3. TextRead(n, Append(text, run)) =
            IF n \in ToSet(run.path) THEN Append(TextRead(n, text), run.text)
            ELSE TextRead(n, text)
      BY ONLY <3>2, ReadOneMore
    <3> QED BY <1>4, <3>3
  <2> QED BY <2>1 DEF TextWithin
<1>6. \A n \in Elements : ByRel(n)' = ByRel(n)
  BY <1>1, <1>2, ByRelStays
<1>7. \A n \in Closed : ByProperty(n)' = ByProperty(n)
  BY <1>1, <1>2, <1>3, <1>4, <1>5, ByPropertyStays
<1>8. \A n \in Closed : BySubject(n)' = BySubject(n)
  BY <1>1, <1>2, BySubjectStays
<1>9. \A x : x \in Listed' <=>
        \/ x \in Listed
        \/ \E n \in Elements' \ Elements : x \in ByRel(n)'
        \/ \E n \in Closed' \ Closed : x \in ByProperty(n)' \cup BySubject(n)'
  BY <1>1, <1>6, <1>7, <1>8, ListedGrows
<1>10. \A x : x \in Listed' <=> x \in Listed
  BY <1>1, <1>9
<1>11. Listed' = Listed
  BY <1>10
<1> QED BY <1>3, <1>11

\* Without elements and text there is nothing to add.
LEMMA ListedElsewhere ==
  ASSUME UNCHANGED <<tree, open, text>>
  PROVE  Listed' = Listed /\ \A n : Wordless(n)' <=> Wordless(n)
<1>1. /\ Elements' = Elements /\ Closed' = Closed
      /\ \A n : Below(n)' = Below(n)
  BY DEF Elements, Closed, Below
<1>2. \A n : Wordless(n)' <=> Wordless(n)
  <2>1. WordlessIs
    BY WordlessElements
  <2>2. WordlessIs'
    BY WordlessElements, PTL
  <2>3. \A m : Unspoken(m)' <=> Unspoken(m)
    BY <1>1 DEF Unspoken
  <2> QED BY <1>1, <2>1, <2>2, <2>3 DEF WordlessIs
<1>3. \A n : /\ tree'[n] = tree[n] /\ LanguageOf(n)' = LanguageOf(n)
             /\ TextWithin(n)' = TextWithin(n)
             /\ HasAbout(n)' <=> HasAbout(n)
             /\ Transparent(n)' <=> Transparent(n)
             /\ Hangs(n)' <=> Hangs(n)
             /\ HangsInList(n)' <=> HangsInList(n)
             /\ Enclosing(n)' = Enclosing(n)
  <2>1. \A n : HasAbout(n)' <=> HasAbout(n)
    BY DEF HasAbout, Unset
  <2>2. \A n : Hangs(n)' <=> Hangs(n)
    BY <2>1 DEF Hangs, Unset
  <2>3. \A n : HangsInList(n)' <=> HangsInList(n)
    BY <2>2 DEF HangsInList
  <2>4. \A n : Transparent(n)' <=> Transparent(n)
    BY DEF Transparent, Unset
  <2>5. \A n : Enclosing(n)' = Enclosing(n)
    BY SameTree
  <2>6. \A n : LanguageOf(n)' = LanguageOf(n) /\ TextWithin(n)' = TextWithin(n)
    BY DEF LanguageOf, TextWithin
  <2> QED BY <2>1, <2>2, <2>3, <2>4, <2>5, <2>6
<1>4. \A n : ByRel(n)' = ByRel(n)
  BY <1>3, ByRelStays
<1>5. \A n : ByProperty(n)' = ByProperty(n)
  BY <1>1, <1>2, <1>3, ByPropertyStays
<1>6. \A n : BySubject(n)' = BySubject(n)
  BY <1>1, <1>3, BySubjectStays
<1>7. \A x : x \in Listed' <=>
        \/ x \in Listed
        \/ \E n \in Elements' \ Elements : x \in ByRel(n)'
        \/ \E n \in Closed' \ Closed : x \in ByProperty(n)' \cup BySubject(n)'
  BY <1>1, <1>4, <1>5, <1>6, ListedGrows
<1>8. \A x : x \in Listed' <=> x \in Listed
  BY <1>1, <1>7
<1>9. Listed' = Listed
  BY <1>8
<1> QED BY <1>2, <1>9

\* What an open context knows about its element, for the value it lists.
\* A listed property does not take "_:" for its value.
ListedNamed ==
  \A tag \in Tags : tag.inlist /\ tag.property # NULL =>
    Anonymous \notin {tag.resource, tag.href, tag.src}

PropertyAlone(tag) ==
  /\ tag.property # NULL /\ tag.content = NULL /\ tag.datatype = NULL
  /\ tag.rel = NULL /\ tag.rev = NULL

ListTold(c, n) ==
  LET a   == c.attrs
      tag == tree[n].tag
  IN  /\ c.rdfa_version = RDFA_VERSION_1_1
      /\ a.inlist <=> tag.inlist
      /\ tag.inlist /\ tag.property # NULL =>
           a.resource = tag.resource /\ a.href = tag.href /\ a.src = tag.src
      /\ PropertyAlone(tag) =>
           /\ tag.typeof = NULL => c.typed_resource = NULL
           /\ tag.typeof # NULL /\ ~HasAbout(n) =>
                c.typed_resource = tree[n].object

\* The value a context adds to lists is that of its element.
LEMMA ListedValue ==
  ASSUME NEW c \in Contexts, NEW n, UNCHANGED tree,
         AttributesOf(c, n), ListTold(c, n),
         tree[n].tag.inlist, tree[n].tag.property # NULL,
         XmlText(c) = TextWithin(n)', c.language = LanguageOf(n)',
         c.plain_literal = NULL <=> Wordless(n)'
  PROVE  CurrentPropertyValue(c) = ValueOf(n)'
<1> DEFINE a   == c.attrs
           tag == tree[n].tag
           mine == IF a.about = NULL THEN c.typed_resource ELSE NULL
           read == IF tag.typeof # NULL /\ ~HasAbout(n) THEN tree[n].object ELSE NULL
<1>1. /\ a.property = tag.property /\ a.content = tag.content
      /\ a.datatype = tag.datatype /\ a.rel = tag.rel /\ a.rev = tag.rev
      /\ a.about = NULL <=> ~HasAbout(n)
  BY DEF AttributesOf
<1>2. a.resource = tag.resource /\ a.href = tag.href /\ a.src = tag.src
  BY DEF ListTold
<1>3. PropertyAlone(tag) => mine = read
  BY <1>1 DEF ListTold
<1>4. tree'[n] = tree[n] /\ (HasAbout(n)' <=> HasAbout(n))
  BY DEF HasAbout, Unset
<1>5. ResourceOf(n)' =
        IF tag.content # NULL \/ tag.rel # NULL \/ tag.rev # NULL THEN NULL
        ELSE FirstSet(<<tag.resource, tag.href, tag.src, read>>)
  BY <1>4 DEF ResourceOf, Unset
<1>6. PICK words, lang : words = TextWithin(n)' /\ lang = LanguageOf(n)'
  OBVIOUS
<1>7. PICK wordless : wordless <=> Wordless(n)'
  OBVIOUS
<1>8. \A kind : LiteralOf(n, kind)' =
        IF tag.content # NULL THEN Literal(tag.content, kind, lang)
        ELSE IF wordless THEN NULL ELSE Literal(words, kind, lang)
  BY <1>4, <1>6, <1>7 DEF LiteralOf, Literal
<1>9. \A kind : LiteralOrNull(c, FirstSet(<<a.content, c.plain_literal>>), kind)
                  = LiteralOf(n, kind)'
  <2> TAKE kind
  <2>1. FirstSet(<<a.content, c.plain_literal>>) =
          IF a.content # NULL THEN a.content ELSE c.plain_literal
    BY FirstOfTwoIs
  <2>2. c.plain_literal # NULL => c.plain_literal = words
    BY <1>6 DEF XmlText
  <2>3. c.language = lang /\ (c.plain_literal = NULL <=> wordless)
    BY <1>6, <1>7
  <2> QED BY <1>1, <1>8, <2>1, <2>2, <2>3 DEF LiteralOrNull
<1>10. PICK resource, text0 :
         /\ resource = IF a.rel # NULL \/ a.rev # NULL THEN NULL
                       ELSE FirstSet(<<a.resource, a.href, a.src, mine>>)
         /\ text0 = FirstSet(<<a.content, c.plain_literal>>)
  OBVIOUS
<1>11. CurrentPropertyValue(c) =
         CASE a.datatype = XmlLiteral -> Literal(XmlText(c), "xml", c.language)
           [] a.datatype \notin {NULL, XmlLiteral} ->
                LiteralOrNull(c, text0, IF a.datatype = EmptyDatatype
                                        THEN "plain" ELSE "typed")
           [] a.datatype = NULL /\ a.content = NULL /\ resource # NULL -> resource
           [] OTHER -> LiteralOrNull(c, text0, "plain")
  BY <1>10 DEF CurrentPropertyValue
<1>12. ValueOf(n)' =
         CASE tag.datatype = XmlLiteral -> Literal(words, "xml", lang)
           [] tag.datatype = NULL /\ ResourceOf(n)' # NULL -> ResourceOf(n)'
           [] OTHER -> LiteralOf(n, IF tag.datatype \in {NULL, EmptyDatatype}
                                    THEN "plain" ELSE "typed")'
  BY <1>4, <1>6 DEF ValueOf, Literal
<1>13. tag.datatype = NULL =>
         ResourceOf(n)' = IF tag.content # NULL THEN NULL ELSE resource
  <2>1. CASE tag.content = NULL /\ tag.rel = NULL /\ tag.rev = NULL
             /\ tag.datatype = NULL
    <3>1. mine = read
      BY <1>3, <2>1 DEF PropertyAlone
    <3> QED BY <1>1, <1>2, <1>5, <1>10, <2>1, <3>1
  <2>2. CASE tag.content # NULL \/ tag.rel # NULL \/ tag.rev # NULL
    BY <1>1, <1>5, <1>10, <2>2
  <2> QED BY <2>1, <2>2
<1>14. /\ XmlText(c) = words /\ c.language = lang
       /\ \A kind : LiteralOrNull(c, text0, kind) = LiteralOf(n, kind)'
  BY <1>6, <1>9, <1>10
<1>15. XmlLiteral # NULL /\ EmptyDatatype # NULL /\ XmlLiteral # EmptyDatatype
  BY NullAssumption DEF DatatypeValues, XmlLiteral, EmptyDatatype
<1> HIDE DEF mine, read
<1>16. CASE tag.datatype = XmlLiteral
  <2>1. CurrentPropertyValue(c) = Literal(words, "xml", lang)
    BY <1>1, <1>11, <1>14, <1>15, <1>16
  <2>2. ValueOf(n)' = Literal(words, "xml", lang)
    BY <1>12, <1>15, <1>16
  <2> QED BY <2>1, <2>2
<1>17. CASE tag.datatype # XmlLiteral /\ tag.datatype # NULL
  <2>1. PICK kind : kind = IF tag.datatype = EmptyDatatype THEN "plain" ELSE "typed"
    OBVIOUS
  <2>2. CurrentPropertyValue(c) = LiteralOrNull(c, text0, kind)
    BY <1>1, <1>11, <1>17, <2>1
  <2>3. kind = IF tag.datatype \in {NULL, EmptyDatatype} THEN "plain" ELSE "typed"
    BY <1>17, <2>1
  <2>4. ValueOf(n)' = LiteralOf(n, kind)'
    BY <1>12, <1>17, <2>3
  <2> QED BY <1>14, <2>2, <2>4
<1>18. CASE tag.datatype = NULL
  <2>1. CASE tag.content = NULL /\ resource # NULL
    BY <1>1, <1>11, <1>12, <1>13, <1>15, <1>18, <2>1
  <2>2. CASE ~(tag.content = NULL /\ resource # NULL)
    <3>1. CurrentPropertyValue(c) = LiteralOrNull(c, text0, "plain")
      BY <1>1, <1>11, <1>15, <1>18, <2>2
    <3>2. ResourceOf(n)' = NULL
      BY <1>13, <1>18, <2>2
    <3>3. ValueOf(n)' = LiteralOf(n, "plain")'
      BY <1>12, <1>15, <1>18, <3>2
    <3> QED BY <1>14, <3>1, <3>3
  <2> QED BY <2>1, <2>2
<1> QED BY <1>16, <1>17, <1>18

\* What a context is told does not depend on its lists.
LEMMA ListToldStays ==
  ASSUME NEW c, NEW e, NEW n, ListTold(c, n), e.attrs = c.attrs,
         e.rdfa_version = c.rdfa_version, e.typed_resource = c.typed_resource,
         tree'[n] = tree[n]
  PROVE  ListTold(e, n) /\ ListTold(e, n)'
<1>1. HasAbout(n)' <=> HasAbout(n)
  BY DEF HasAbout, Unset
<1> QED BY <1>1 DEF ListTold

\* Nor does what it knows of its tag.
LEMMA AttributesOfStays ==
  ASSUME NEW c, NEW e, NEW n, AttributesOf(c, n), e.attrs = c.attrs,
         e.rdfa_version = c.rdfa_version
  PROVE  AttributesOf(e, n)
BY DEF AttributesOf

\* A new context knows it.
LEMMA StartedTold ==
  ASSUME NEW parent \in Contexts, NEW tag \in Tags, ListedNamed,
         InheritedObject(parent) # NULL, NEW id, NEW c,
         c = OpenRelations(EstablishSubject(
               ReadAttributes(NewElementContext(parent), tag))),
         c.rdfa_version = RDFA_VERSION_1_1,
         tree'[id].tag = tag, tree'[id].object = c.current_object_resource,
         HasAbout(id)' <=> AboutGiven(tag, c.host_language, parent.depth + 1)
  PROVE  ListTold(c, id)'
<1>1. PICK new : new = NewElementContext(parent)
  OBVIOUS
<1>2. PICK read : read = ReadAttributes(new, tag)
  OBVIOUS
<1>3. PICK set : set = EstablishSubject(read)
  OBVIOUS
<1>4. /\ new \in Contexts /\ read \in Contexts /\ set \in Contexts
      /\ set.new_subject # NULL /\ c = OpenRelations(set)
      /\ new.typed_resource = NULL
  <2>1. /\ NewElementContext(parent) \in Contexts
        /\ NewElementContext(parent).typed_resource = NULL
    BY NewElementContextType DEF NewElementContext
  <2> QED BY <1>1, <1>2, <1>3, <2>1, StartedContext
<1>5. /\ read.attrs = ResolvedAttributes(new, tag, read.rdfa_version)
      /\ read.host_language = new.host_language
      /\ read.attrs.rel = tag.rel /\ read.attrs.rev = tag.rev
      /\ read.attrs.typeof = tag.typeof /\ read.attrs.property = tag.property
      /\ read.attrs.content = tag.content /\ read.attrs.datatype = tag.datatype
      /\ read.attrs.inlist =
           (tag.inlist /\ read.rdfa_version = RDFA_VERSION_1_1)
      /\ read.attrs.about # NULL <=>
           AboutGiven(tag, new.host_language, new.depth)
  BY <1>2, <1>4, AttributesOfTag
<1>6. /\ set.attrs = read.attrs /\ set.rdfa_version = read.rdfa_version
      /\ set.host_language = read.host_language
  BY <1>3, <1>4, EstablishedAttributes
<1>7. SameContent(set, c)
  BY <1>4, OpenRelationsContent
<1>8. /\ c.attrs = read.attrs /\ c.rdfa_version = read.rdfa_version
      /\ c.host_language = new.host_language
      /\ c.typed_resource = set.typed_resource
  BY <1>5, <1>6, <1>7 DEF SameContent, SameSubject
<1>9. new.depth = parent.depth + 1
  BY <1>1 DEF NewElementContext
<1>10. tag.inlist /\ tag.property # NULL =>
         /\ read.attrs.resource = tag.resource /\ read.attrs.href = tag.href
         /\ read.attrs.src = tag.src
  BY <1>5 DEF ListedNamed, ResolvedAttributes, Resolved
<1>11. PropertyAlone(tag) =>
         /\ tag.typeof = NULL => c.typed_resource = NULL
         /\ tag.typeof # NULL /\ ~HasAbout(id)' =>
              c.typed_resource = c.current_object_resource
  <2> SUFFICES ASSUME PropertyAlone(tag)
               PROVE  /\ tag.typeof = NULL => c.typed_resource = NULL
                      /\ tag.typeof # NULL /\ ~HasAbout(id)' =>
                           c.typed_resource = c.current_object_resource
    OBVIOUS
  <2>1. set = EstablishPropertySubject(read)
    BY <1>3, <1>5, <1>8
    DEF PropertyAlone, EstablishSubject, EstablishNew11Subject,
        RDFA_VERSION_1_0, RDFA_VERSION_1_1
  <2>2. c = set
    BY <1>4, <1>5, <1>6 DEF PropertyAlone, OpenRelations, ListsRel
  <2>3. ~HasAbout(id)' => read.attrs.about = NULL
    BY <1>5, <1>8, <1>9
  <2> HIDE DEF PropertyAlone
  <2>4. /\ read.attrs.typeof = NULL => set.typed_resource = NULL
        /\ read.attrs.typeof # NULL /\ read.attrs.about = NULL =>
             set.typed_resource = set.current_object_resource
    BY <1>4, <2>1 DEF EstablishPropertySubject, Contexts
  <2> QED BY <1>5, <2>2, <2>3, <2>4
<1>12. c.attrs.inlist <=> tag.inlist
  BY <1>5, <1>8
<1> QED BY <1>8, <1>10, <1>11, <1>12 DEF ListTold

\* What the contexts add is what the tree says.
\* A resolved relation, resolved again, is itself.
ResolvesOnce == \A p \in Iris : Reresolved[p] = p

\* A relation resolved twice is resolved once.
LEMMA KeysAre ==
  ASSUME ResolvesOnce, NEW subject, NEW preds \in Seq(Iris)
  PROVE  \A i \in DOMAIN preds : KeysOf(subject, preds)[i] = <<subject, preds[i]>>
<1> TAKE i \in DOMAIN preds
<1>1. preds[i] \in Iris
  OBVIOUS
<1>2. Reresolved[preds[i]] = preds[i]
  BY <1>1 DEF ResolvesOnce
<1> QED BY <1>2 DEF KeysOf

\* At a start tag: the object of the relation.
LEMMA StartMatches ==
  ASSUME NEW parent \in Contexts, NEW tag \in Tags, ResolvesOnce,
         InheritedObject(parent) # NULL, NEW id, NEW set, NEW c, NEW node,
         set = EstablishSubject(ReadAttributes(NewElementContext(parent), tag)),
         c = OpenRelations(set), tree'[id] = node, node.tag = tag,
         node.version = c.rdfa_version, node.subject = c.new_subject,
         node.object = c.current_object_resource,
         HasAbout(id)' <=> AboutGiven(tag, c.host_language, parent.depth + 1),
         LanguageOf(id)' = c.language
  PROVE  /\ ByRel(id)' = ListedAtStart(set, 2 * StartPosition(id)')
         /\ HangsInList(id)' =>
              /\ ListsRel(set) /\ set.current_object_resource = NULL
              /\ \A j \in DOMAIN tag.rel :
                   /\ j \in DOMAIN set.attrs.rel
                   /\ KeysOf(set.new_subject, set.attrs.rel)[j]
                        = <<node.subject, tag.rel[j]>>
<1>1. PICK new : new = NewElementContext(parent)
  OBVIOUS
<1>2. PICK read : read = ReadAttributes(new, tag)
  OBVIOUS
<1>3. /\ new \in Contexts /\ read \in Contexts /\ set \in Contexts
      /\ set.new_subject # NULL /\ set = EstablishSubject(read)
      /\ new.depth = parent.depth + 1
  <2>1. NewElementContext(parent).depth = parent.depth + 1
    BY DEF NewElementContext
  <2> QED BY <1>1, <1>2, <2>1, NewElementContextType, StartedContext
<1>4. /\ read.host_language = new.host_language
      /\ read.attrs.rel = tag.rel /\ read.attrs.rev = tag.rev
      /\ read.attrs.property = tag.property
      /\ read.attrs.content = tag.content /\ read.attrs.datatype = tag.datatype
      /\ read.attrs.inlist <=>
           (tag.inlist /\ read.rdfa_version = RDFA_VERSION_1_1)
  <2>1. read.attrs.inlist = (tag.inlist /\ read.rdfa_version = RDFA_VERSION_1_1)
    BY <1>2, <1>3, AttributesOfTag
  <2>2. read.attrs.inlist <=> (tag.inlist /\ read.rdfa_version = RDFA_VERSION_1_1)
    BY <2>1, Zenon
  <2> QED BY <1>2, <1>3, <2>2, AttributesOfTag
<1>5. /\ set.attrs = read.attrs /\ set.rdfa_version = read.rdfa_version
      /\ set.host_language = read.host_language
  BY <1>3, EstablishedAttributes
<1>6. SameContent(set, c)
  BY <1>3, OpenRelationsContent
<1>7. /\ c.rdfa_version = read.rdfa_version /\ c.host_language = new.host_language
      /\ c.new_subject = set.new_subject /\ c.language = set.language
  BY <1>4, <1>5, <1>6 DEF SameContent, SameSubject
<1>8. ListsRel(set) <=> /\ node.version = RDFA_VERSION_1_1
                        /\ tag.inlist /\ tag.rel # NULL
  BY <1>4, <1>5, <1>7 DEF ListsRel
<1>9. tag.rel # NULL =>
        (Hangs(id)' <=> set.current_object_resource = NULL)
  <2> SUFFICES ASSUME tag.rel # NULL
               PROVE  Hangs(id)' <=> set.current_object_resource = NULL
    OBVIOUS
  <2>1. set.current_object_resource = NULL <=>
          LeavesOpen(tag, read.rdfa_version, new.host_language, new.depth)
    BY <1>2, <1>3, OpenHasNoObject
  <2>2. Hangs(id)' <=>
          LeavesOpen(tag, read.rdfa_version, new.host_language, new.depth)
    BY <1>3, <1>7 DEF Hangs, Unset, LeavesOpen
  <2> QED BY <2>1, <2>2
<1>10. /\ set.attrs.rel = tag.rel /\ set.attrs.property = tag.property
       /\ set.attrs.content = tag.content /\ set.attrs.datatype = tag.datatype
  BY <1>4, <1>5
<1>11. tag.rel # NULL => tag.rel \in Seq(Iris)
  BY TagTypes DEF StartTags, Maybe
<1>12. tag.rel # NULL => \A i \in DOMAIN tag.rel :
         KeysOf(set.new_subject, tag.rel)[i] = <<node.subject, tag.rel[i]>>
  BY <1>7, <1>11, KeysAre
<1>13. HangsInList(id)' =>
         /\ ListsRel(set) /\ set.current_object_resource = NULL
         /\ \A j \in DOMAIN tag.rel :
              /\ j \in DOMAIN set.attrs.rel
              /\ KeysOf(set.new_subject, set.attrs.rel)[j]
                   = <<node.subject, tag.rel[j]>>
  <2>1. HangsInList(id)' => /\ Hangs(id)' /\ node.version = RDFA_VERSION_1_1
                            /\ tag.inlist /\ tag.rel # NULL
    BY DEF HangsInList
  <2> QED BY <1>8, <1>9, <1>10, <1>12, <2>1
<1>14. PICK pos : pos = 2 * StartPosition(id)'
  OBVIOUS
<1>15. Listing(id)' <=> tag.inlist /\ node.version = RDFA_VERSION_1_1
  BY DEF Listing
<1>16. ByRel(id)' = ListedAtStart(set, pos)
  <2>1. CASE ListsRel(set) /\ set.current_object_resource # NULL
    <3>1. c.current_object_resource = set.current_object_resource
      BY <1>3, <2>1, ListedRelationsKeep
    <3>2. PICK value : value = ListedObject(set)
      OBVIOUS
    <3>3. ObjectListed(id)' = value
      BY <1>7, <1>10, <3>1, <3>2 DEF ObjectListed, ListedObject
    <3>4. Listing(id)' /\ tag.rel # NULL /\ ~Hangs(id)'
      BY <1>8, <1>9, <1>15, <2>1
    <3>5. ByRel(id)' = Additions(id, "rel", pos, value)'
      BY <1>14, <3>3, <3>4 DEF ByRel
    <3>6. Additions(id, "rel", pos, value)' =
            {[pos |-> pos, i |-> i, value |-> value,
              key |-> <<node.subject, tag.rel[i]>>] : i \in DOMAIN tag.rel}
      BY DEF Additions
    <3>7. ListedAtStart(set, pos) =
            Made(DOMAIN tag.rel, KeysOf(set.new_subject, tag.rel), value, pos)
      BY <1>10, <2>1, <3>2 DEF ListedAtStart
    <3>8. Made(DOMAIN tag.rel, KeysOf(set.new_subject, tag.rel), value, pos) =
            {[pos |-> pos, i |-> i, value |-> value,
              key |-> <<node.subject, tag.rel[i]>>] : i \in DOMAIN tag.rel}
      BY <1>12, <3>4 DEF Made
    <3> QED BY <3>5, <3>6, <3>7, <3>8
  <2>2. CASE ~(ListsRel(set) /\ set.current_object_resource # NULL)
    <3>1. ~(Listing(id)' /\ tag.rel # NULL /\ ~Hangs(id)')
      BY <1>8, <1>9, <1>15, <2>2
    <3>2. ByRel(id)' = {}
      BY <3>1 DEF ByRel
    <3>3. ListedAtStart(set, pos) = {}
      BY <2>2 DEF ListedAtStart
    <3> QED BY <3>2, <3>3
  <2> QED BY <2>1, <2>2
<1> QED BY <1>13, <1>14, <1>16

\* The element around another that matters is open while the other is.
LEMMA EnclosingIsAround ==
  ASSUME TreeOK, OpenOK, tree \in Seq(Nodes), open \in Seq(Nat),
         NEW i \in DOMAIN open, Enclosing(open[i]) # 0
  PROVE  \E k \in 1 .. i - 1 : Enclosing(open[i]) = open[k]
<1>1. PICK n : n = open[i]
  OBVIOUS
<1>2. /\ n \in Elements /\ Len(tree[n].path) = i /\ n \in Nat /\ i \in Nat
      /\ \A k \in 1 .. i : tree[n].path[k] = open[k]
      /\ \A k \in 1 .. i : open[k] \in Nat
  BY <1>1 DEF OpenOK
<1>3. PICK around : around = {tree[n].path[j] : j \in 1 .. i - 1}
  OBVIOUS
<1>4. PICK opaque : opaque = {m \in around : ~Transparent(m)}
  OBVIOUS
<1>5. Enclosing(n) = IF opaque = {} THEN 0
                     ELSE CHOOSE m \in opaque : \A k \in opaque : k <= m
  BY <1>2, <1>3, <1>4 DEF Enclosing
<1>6. \A m \in around : \E k \in 1 .. i - 1 : m = open[k]
  <2> TAKE m \in around
  <2>1. PICK k \in 1 .. i - 1 : m = tree[n].path[k]
    BY <1>3
  <2>2. k \in 1 .. i /\ k \in 1 .. i - 1
    BY <1>2, <2>1
  <2> QED BY <1>2, <2>1, <2>2
<1>7. opaque # {}
  BY <1>1, <1>5
<1>8. opaque \in SUBSET (1 .. n)
  <2>1. \A k \in 1 .. i : tree[n].path[k] \in 1 .. n
    BY <1>2 DEF TreeOK
  <2>2. \A k \in 1 .. i - 1 : tree[n].path[k] \in 1 .. n
    BY <1>2, <2>1
  <2> QED BY <1>3, <1>4, <2>2
<1>9. \E m \in opaque : \A k \in opaque : k <= m
  BY <1>2, <1>7, <1>8, GreatestNumber
<1>10. Enclosing(n) \in opaque
  BY <1>5, <1>7, <1>9
<1> QED BY <1>1, <1>4, <1>6, <1>10

\* At an end tag: the property's value, and the subject for the list of a
\* relation around it.
LEMMA EndMatchesProperty ==
  ASSUME NEW c \in Contexts, NEW id, UNCHANGED tree, ResolvesOnce,
         AttributesOf(c, id), ListTold(c, id), c.new_subject = tree[id].subject,
         XmlText(c) = TextWithin(id)', c.language = LanguageOf(id)',
         c.inner = "empty" => c.plain_literal = NULL,
         CloseLiteral(c).plain_literal = NULL <=> Wordless(id)'
  PROVE  ByProperty(id)' = ListedByProperty(c, 2 * EndPosition(id)')
<1>1. PICK d : d = CloseLiteral(c)
  OBVIOUS
<1>2. /\ d \in Contexts /\ d.attrs = c.attrs /\ d.rdfa_version = c.rdfa_version
      /\ d.typed_resource = c.typed_resource /\ XmlText(d) = XmlText(c)
      /\ d.language = c.language
  BY <1>1, CloseLiteralContent DEF SameSubject
<1>3. AttributesOf(d, id) /\ ListTold(d, id)
  BY <1>2, AttributesOfStays, ListToldStays
<1>4. PICK tag : tag = tree[id].tag
  OBVIOUS
<1>5. /\ c.attrs.property = tag.property
      /\ c.attrs.inlist <=> tag.inlist
      /\ tree[id].version = RDFA_VERSION_1_1
  BY <1>4 DEF AttributesOf, ListTold
<1>6. tree'[id] = tree[id]
  OBVIOUS
<1>7. ListsProperty(c) <=> Listing(id)' /\ tag.property # NULL
  BY <1>4, <1>5, <1>6 DEF Listing, ListsProperty
<1>8. PICK pos : pos = 2 * EndPosition(id)'
  OBVIOUS
<1>9. ByProperty(id)' = ListedByProperty(c, pos)
  <2>1. CASE ListsProperty(c)
    <3>1. PICK value : value = CurrentPropertyValue(d)
      OBVIOUS
    <3>2. ValueOf(id)' = value
      BY <1>1, <1>2, <1>3, <1>4, <1>5, <2>1, <3>1, ListedValue DEF ListsProperty
    <3>3. ByProperty(id)' = Additions(id, "property", pos, value)'
      BY <1>4, <1>6, <1>7, <1>8, <2>1, <3>2 DEF ByProperty
    <3>4. Additions(id, "property", pos, value)' =
            {[pos |-> pos, i |-> i, value |-> value,
              key |-> <<c.new_subject, tag.property[i]>>] :
               i \in DOMAIN tag.property}
      BY <1>4, <1>6 DEF Additions
    <3>5. tag.property \in Seq(Iris)
      BY <1>5, <2>1, AttributeTypes DEF ListsProperty, Maybe
    <3>6. \A i \in DOMAIN tag.property :
            KeysOf(c.new_subject, tag.property)[i]
              = <<c.new_subject, tag.property[i]>>
      BY <3>5, KeysAre
    <3>7. ListedByProperty(c, pos) =
            Made(DOMAIN tag.property, KeysOf(c.new_subject, tag.property),
                 value, pos)
      BY <1>1, <1>5, <2>1, <3>1 DEF ListedByProperty
    <3>8. Made(DOMAIN tag.property, KeysOf(c.new_subject, tag.property),
               value, pos) =
            {[pos |-> pos, i |-> i, value |-> value,
              key |-> <<c.new_subject, tag.property[i]>>] :
               i \in DOMAIN tag.property}
      BY <3>6 DEF Made
    <3> QED BY <3>3, <3>4, <3>7, <3>8
  <2>2. CASE ~ListsProperty(c)
    <3>1. ByProperty(id)' = {}
      BY <1>4, <1>6, <1>7, <2>2 DEF ByProperty
    <3>2. ListedByProperty(c, pos) = {}
      BY <2>2 DEF ListedByProperty
    <3> QED BY <3>1, <3>2
  <2> QED BY <2>1, <2>2
<1> QED BY <1>8, <1>9

\* At an end tag: the subject, under the relations the element inherited.
LEMMA EndMatchesSubject ==
  ASSUME NEW c \in Contexts, c.new_subject # NULL, NEW id \in Elements,
         UNCHANGED tree, ResolvesOnce, tree \in Seq(Nodes), TreeOK,
         ContextFollows(c, id)
  PROVE  /\ BySubject(id)' = ListedBySubject(c, 2 * EndPosition(id)' + 1)
         /\ Completes(c) => \A i \in ListedIncompletes(c) :
              /\ Enclosing(id) # 0 /\ HangsInList(Enclosing(id))
              /\ i \in DOMAIN tree[Enclosing(id)].tag.rel
              /\ ListedKeys(c)[i] = <<tree[Enclosing(id)].subject,
                                      tree[Enclosing(id)].tag.rel[i]>>
<1>1. PICK m : m = Enclosing(id)
  OBVIOUS
<1>2. PICK left : left = c.incomplete_triples
  OBVIOUS
<1>3. /\ c.new_subject = tree[id].subject
      /\ c.skip_element <=> Transparent(id)
      /\ m = 0 => left = << >>
      /\ m # 0 => c.parent_subject = tree[m].subject /\ LeftBy(m, left)
  BY <1>1, <1>2 DEF ContextFollows
<1>4. m # 0 => m \in Elements
  <2>1. m \in 0 .. id
    BY <1>1 DEF TreeOK
  <2> QED BY <2>1 DEF Elements
<1>5. /\ tree' = tree /\ Enclosing(id)' = m
      /\ Transparent(id)' <=> Transparent(id)
      /\ \A n : HangsInList(n)' <=> HangsInList(n)
  BY <1>1, SameTree DEF Transparent, HangsInList, Hangs, HasAbout, Unset
<1>6. CASE m # 0 /\ HangsInList(m)
  <2>1. PICK rel : rel = tree[m].tag.rel
    OBVIOUS
  <2>2. Hangs(m) /\ rel # NULL
    BY <1>6, <2>1 DEF HangsInList
  <2>3. left = ListedPredicates(rel)
    BY <1>3, <1>6, <2>1, <2>2 DEF LeftBy
  <2>4. rel \in Seq(Iris)
    <3>1. tree[m] \in Nodes
      BY <1>4, <1>6 DEF Elements
    <3> QED BY <2>1, <2>2, <3>1, PredicatesOfTag DEF Maybe
  <2>5. /\ DOMAIN left = DOMAIN rel
        /\ \A i \in DOMAIN rel : left[i].dir = "none" /\ left[i].pred = rel[i]
    <3>1. \A i \in DOMAIN rel : Reresolved[rel[i]] = rel[i]
      BY <2>4 DEF ResolvesOnce
    <3> QED BY <2>3, <3>1 DEF ListedPredicates
  <2>6. ListedIncompletes(c) = DOMAIN rel
    BY <1>2, <2>5 DEF ListedIncompletes
  <2>7. \A i \in DOMAIN rel : ListedKeys(c)[i] = <<tree[m].subject, rel[i]>>
    BY <1>2, <1>3, <1>6, <2>5, <2>6 DEF ListedKeys
  <2>8. PICK pos, v : pos = 2 * EndPosition(id)' + 1 /\ v = tree[id].subject
    OBVIOUS
  <2>9. BySubject(id)' =
          IF ~Transparent(id) THEN Additions(m, "rel", pos, v)' ELSE {}
    BY <1>5, <1>6, <2>8 DEF BySubject
  <2>10. Additions(m, "rel", pos, v)' =
           {[pos |-> pos, i |-> i, value |-> v, key |-> <<tree[m].subject, rel[i]>>] :
              i \in DOMAIN rel}
    BY <1>5, <2>1 DEF Additions
  <2>11. Completes(c) <=> ~Transparent(id)
    BY <1>3 DEF Completes
  <2>12. ListedBySubject(c, pos) =
           IF ~Transparent(id)
           THEN Made(DOMAIN rel, ListedKeys(c), v, pos) ELSE {}
    BY <1>3, <2>6, <2>8, <2>11 DEF ListedBySubject
  <2>13. Made(DOMAIN rel, ListedKeys(c), v, pos) = Additions(m, "rel", pos, v)'
    BY <2>7, <2>10 DEF Made
  <2>14. BySubject(id)' = ListedBySubject(c, pos)
    BY <2>9, <2>12, <2>13
  <2> QED BY <1>1, <1>6, <2>1, <2>6, <2>7, <2>8, <2>14
<1>7. CASE ~(m # 0 /\ HangsInList(m))
  <2>1. ListedIncompletes(c) = {}
    <3>1. CASE m = 0
      BY <1>2, <1>3, <3>1 DEF ListedIncompletes
    <3>2. CASE m # 0 /\ ~Hangs(m)
      BY <1>2, <1>3, <3>2 DEF ListedIncompletes, LeftBy
    <3>3. CASE m # 0 /\ Hangs(m) /\ ~HangsInList(m)
      <4>1. PICK p : p = OpenPredicates(tree[m].tag)
        OBVIOUS
      <4>2. left = p
        BY <1>3, <3>3, <4>1 DEF LeftBy
      <4>3. tree[m].tag.rel \in Maybe(Seq(Iris)) /\ tree[m].tag.rev \in Maybe(Seq(Iris))
        <5>1. tree[m] \in Nodes
          BY <1>4, <3>3 DEF Elements
        <5> QED BY <5>1, PredicatesOfTag
      <4>4. {p[i] : i \in DOMAIN p} =
              {[dir |-> "forward", pred |-> Rels(tree[m].tag)[i]] :
                 i \in DOMAIN Rels(tree[m].tag)}
              \cup
              {[dir |-> "reverse", pred |-> Revs(tree[m].tag)[i]] :
                 i \in DOMAIN Revs(tree[m].tag)}
        BY <4>1, <4>3, OpenPredicatesAre
      <4>5. \A i \in DOMAIN p : p[i].dir # "none"
        <5> TAKE i \in DOMAIN p
        <5>1. p[i] \in {p[j] : j \in DOMAIN p}
          OBVIOUS
        <5> QED BY <4>4, <5>1
      <4> QED BY <1>2, <4>2, <4>5 DEF ListedIncompletes
    <3> QED BY <1>7, <3>1, <3>2, <3>3
  <2>2. BySubject(id)' = {}
    BY <1>5, <1>7 DEF BySubject
  <2>3. \A pos : ListedBySubject(c, pos) = {}
    BY <2>1 DEF ListedBySubject, Made
  <2> QED BY <2>1, <2>2, <2>3
<1> QED BY <1>6, <1>7

\* The invariant of the lists.
\* The root element starts no list.
RootListsNothing == \A tag \in RootTags : ~tag.inlist

\* The last position of the tags read so far, see Listed.
Passed == 2 * (2 * Len(tree) - Len(open)) + 1

\* The last element is inside every open one, and nothing was added later than
\* at the last tag.
Places ==
  /\ \A i \in DOMAIN open : Len(tree) \in Below(open[i])
  /\ open # << >> => tree[open[1]].tag \in RootTags
  /\ \A x \in Listed : x.pos <= Passed

ListsTell == \A i \in DOMAIN open : ListTold(stack[i + 1], open[i])

\* A context from that of an open element up holds text if the element has
\* something in it for a literal.
SpokenFollows ==
  \A i \in DOMAIN open :
    (\E j \in i .. Len(open) : stack[j + 1].plain_literal # NULL)
      <=> ~Wordless(open[i])

\* What hangs in a list has an entry, which outlives the element.
HangingListed(M) ==
  \A i \in DOMAIN open : HangsInList(open[i]) =>
    \A j \in DOMAIN tree[open[i]].tag.rel :
      \E l \in M : /\ l.key = <<tree[open[i]].subject, tree[open[i]].tag.rel[j]>>
                   /\ l.depth <= i

MappingFollows(c) ==
  /\ Readable(graph) /\ ListsOK(c, Listed, ListsIn(graph), ValuesIn(graph))
  /\ \A l \in c.local_list_mappings : /\ l.depth <= Len(open) + 1
                                      /\ RootListsNothing => l.depth >= 2
  /\ HangingListed(c.local_list_mappings)

ListsFollow ==
  /\ Places /\ ListsTell /\ SpokenFollows /\ MappingFollows(Top)
  /\ \A e \in graph : e.t.by \in ListSenders => e.at \in Closed

ListInv ==
  /\ RelationsInv /\ WordsInv /\ ListsInDocumentOrder
  /\ status # "ended" => ListsFollow

\* The ledger holds the order of every list.
OrderIsKept ==
  \A c : Readable(graph) /\ ListsOK(c, Listed, ListsIn(graph), ValuesIn(graph))
           => ListsInDocumentOrder

\* So the order of the ledger is the one of the property.
LEMMA OrderFollows == OrderIsKept
<1> SUFFICES ASSUME NEW c, Readable(graph),
                    ListsOK(c, Listed, ListsIn(graph), ValuesIn(graph))
             PROVE  ListsInDocumentOrder
  BY DEF OrderIsKept
<1>1. PICK V, M : V = ValuesIn(graph) /\ M = c.local_list_mappings
  OBVIOUS
<1>2. Ledger(Listed, M, ListsIn(graph), V)
  BY <1>1 DEF ListsOK
<1>3. ASSUME NEW e \in By("list")
      PROVE  InOrder(ListValues(e), {x \in Listed : x.key = <<e.t.s, e.t.p>>})
  <2>1. e \in ListsIn(graph)
    BY DEF ListsIn, By
  <2>2. V[e] = ListValues(e) /\ V[e] \in Seq(Values)
    BY <1>1, <2>1, ListValuesRead DEF ValuesIn, Readable
  <2>3. InOrder(V[e], {x \in Listed : x.key = KeyOf(e)})
    <3>1. PICK L, G : L = Listed /\ G = ListsIn(graph)
      OBVIOUS
    <3>2. Ledger(L, M, G, V) /\ e \in G
      BY <1>2, <2>1, <3>1
    <3>3. PICK added : added = {x \in L : x.key = KeyOf(e)}
      OBVIOUS
    <3>4. \A x : x \in added <=> x \in L /\ x.key = KeyOf(e)
      BY <3>3
    <3>5. InOrder(V[e], added)
      BY <2>2, <3>2, <3>4, LedgerInOrder
    <3> QED BY <3>1, <3>3, <3>5
  <2> QED BY <2>2, <2>3 DEF KeyOf
<1> QED BY <1>3 DEF ListsInDocumentOrder

\* At the start there is neither an addition nor a list.
LEMMA InitLists == Init => ListInv
<1> SUFFICES ASSUME Init PROVE ListInv
  OBVIOUS
<1>1. PICK d \in Documents : stack = <<RootContext(d)>>
  BY DEF Init
<1>2. /\ open = << >> /\ graph = {} /\ tree = << >> /\ Top = RootContext(d)
      /\ RelationsInv /\ WordsInv
  BY <1>1, InitRelations, InitWords DEF Init, Top
<1>3. Top.local_list_mappings = {}
  BY <1>2 DEF RootContext
<1>4. \A x : x \notin Listed
  BY <1>2, ListedByElement DEF ListedIs, Elements, Closed
<1>5. ListsIn(graph) = {} /\ Readable(graph)
  BY <1>2 DEF ListsIn, Readable
<1>6. Listed = {}
  BY <1>4
<1>7. \E waiting, sent : IsLedger({}, {}, {}, ValuesIn(graph), waiting, sent)
  <2> DEFINE waiting == [k \in Keys |-> << >>]
             sent == [e \in {} |-> << >>]
  <2>1. waiting \in [Keys -> Seq({})] /\ sent \in [{} -> Seq({})]
    OBVIOUS
  <2>2. \A k \in Keys : waiting[k] = << >>
    OBVIOUS
  <2>3. \A k : Chronicle(<< >>, k)
    BY DEF Chronicle
  <2>4. AdditionsOK({})
    BY FS_EmptySet DEF AdditionsOK
  <2> HIDE DEF waiting, sent
  <2>5. IsLedger({}, {}, {}, ValuesIn(graph), waiting, sent)
    BY <2>1, <2>2, <2>3, <2>4 DEF IsLedger, Placed, Sending, Waiting
  <2> QED BY <2>5
<1>8. MappingFollows(Top)
  <2>1. EntriesOK({}, Top.list_slots, Top.bnode_count)
    BY DEF EntriesOK
  <2>2. ListsOK(Top, Listed, ListsIn(graph), ValuesIn(graph))
    BY <1>3, <1>5, <1>6, <1>7, <2>1 DEF ListsOK, Ledger
  <2> QED BY <1>2, <1>3, <1>5, <2>2 DEF MappingFollows, HangingListed
<1>9. ListsFollow
  BY <1>2, <1>6, <1>8 DEF ListsFollow, Places, ListsTell, SpokenFollows
<1>10. ListsInDocumentOrder
  BY <1>2 DEF ListsInDocumentOrder, By
<1> QED BY <1>2, <1>9, <1>10 DEF ListInv

-----------------------------------------------------------------------------
(* A start tag.                                                            *)

\* Positions can be compared.
LEMMA PositionsAreNumbers ==
  ASSUME NEW c, NEW L, NEW G, NEW V, ListsOK(c, L, G, V)
  PROVE  \A x \in L : x.pos \in Int
BY DEF ListsOK, Ledger, IsLedger, AdditionsOK

\* The new context has its parent's lists, and one value more for each relation.
LEMMA StartElementLists ==
  ASSUME ListInv, OnlyRdfa11, ResolvesOnce, ListedNamed,
         NEW tag \in Tags, StartElement(tag)
  PROVE  ListInv'
<1> DEFINE new  == NewElementContext(Top)
           read == ReadAttributes(new, tag)
           s    == EstablishSubject(read)
           e    == OpenRelations(s)
           node == [tag |-> tag, path |-> Append(open, Len(tree) + 1),
                    version |-> e.rdfa_version, host |-> e.host_language,
                    subject |-> e.new_subject,
                    object |-> e.current_object_resource]
           sent == AttributeTriples(new, read, tag)
                   \cup TypeTriples(s) \cup RelRevTriples(s)
<1>1. /\ RelationsInv /\ RelationsInv' /\ WordsInv /\ WordsInv' /\ Inv
      /\ status = "parsing" /\ status' = "parsing" /\ RelationsFollow
      /\ Places /\ ListsTell /\ SpokenFollows /\ MappingFollows(Top)
      /\ \A d \in graph : d.t.by \in ListSenders => d.at \in Closed
  BY StartElementRelations, StartElementWords
  DEF ListInv, ListsFollow, StartElement, RelationsInv, SkipsBareElements
<1>2. /\ TreeOK /\ OpenOK
      /\ tree \in Seq(Nodes) /\ open \in Seq(Nat) /\ stack \in Seq(Contexts)
      /\ text \in Seq([text : Texts, path : Seq(Nat)])
      /\ Len(stack) = Len(open) + 1 /\ Len(open) \in Nat /\ Len(tree) \in Nat
      /\ Top \in Contexts /\ InheritedObject(Top) # NULL /\ Top.depth = Len(open)
  BY <1>1, InvStack DEF RelationsInv, StackOK, Inv, TypeOK
<1>3. PICK id \in Nat : id = Len(tree) + 1
  BY <1>2
<1>4. PICK set, c : set = s /\ c = e
  OBVIOUS
<1>5. /\ stack' = Append(stack, e) /\ tree' = Append(tree, node)
      /\ open' = Append(open, Len(tree) + 1)
      /\ graph' = graph \cup Sent(Len(tree) + 1, sent)
      /\ UNCHANGED text
  BY DEF StartElement
<1>6. /\ c \in Contexts /\ set \in Contexts /\ set.new_subject # NULL
      /\ c.plain_literal = NULL
  BY <1>2, <1>4, StartedContent
<1>7. set = EstablishSubject(ReadAttributes(NewElementContext(Top), tag))
      /\ c = OpenRelations(set)
  BY <1>4
<1>8. \A t \in sent : t.by \notin ListSenders
  <2> HIDE DEF new, read, s
  <2> QED BY StartSenders DEF ListSenders
<1>9. node \in Nodes
  BY <1>2, <1>4, <1>6 DEF Nodes, Contexts
<1>10. /\ node.tag = tag /\ node.path = Append(open, id)
       /\ node.version = c.rdfa_version /\ node.host = c.host_language
       /\ node.subject = c.new_subject
       /\ node.object = c.current_object_resource
  BY <1>3, <1>4
<1>11. stack' = Append(stack, c) /\ open' = Append(open, id)
       /\ graph' = graph \cup Sent(id, sent) /\ tree' = Append(tree, node)
  BY <1>3, <1>4, <1>5
<1>12. id = 1 <=> Top.depth + 1 = 1
  <2>1. Len(stack) = 1 => tree = << >>
    BY DEF StartElement
  <2>2. open # << >> => open[1] \in 1 .. Len(tree)
    <3>1. open # << >> => 1 \in DOMAIN open
      BY <1>2
    <3> QED BY <1>2, <3>1 DEF OpenOK, Elements
  <2> QED BY <1>2, <1>3, <2>1, <2>2
<1>13. open = << >> => tag \in RootTags
  <2>1. open = << >> => Len(stack) = 1
    BY <1>2
  <2> QED BY <2>1 DEF StartElement
<1> HIDE DEF sent, node, e, new, read, s
<1>14. TreeOK' /\ OpenOK' /\ Closed' = Closed
  BY <1>2, <1>3, <1>9, <1>10, <1>11, StartNesting
<1>15. \A n : Below(n)' = Below(n) \cup
                (IF n \in ToSet(open) \/ n = id THEN {id} ELSE {})
  BY <1>2, <1>3, <1>9, <1>10, <1>11, BelowNew
<1>16. /\ tree'[id] = node /\ Elements = 1 .. id - 1 /\ id \notin Elements
       /\ Len(tree') = id
       /\ \A n \in Elements : tree'[n] = tree[n] /\ n # id
  BY <1>2, <1>3, <1>11 DEF Elements
<1>17. /\ DOMAIN open' = 1 .. Len(open) + 1 /\ Len(open') = Len(open) + 1
       /\ open'[Len(open) + 1] = id
       /\ \A i \in 1 .. Len(open) : open'[i] = open[i] /\ open[i] \in Elements
       /\ DOMAIN open = 1 .. Len(open)
       /\ stack'[Len(open) + 1 + 1] = c
       /\ \A i \in 1 .. Len(open) : stack'[i + 1] = stack[i + 1]
       /\ Top' = c
  <2>1. \A i \in DOMAIN open : open[i] \in Elements
    BY <1>2 DEF OpenOK
  <2> QED BY <1>2, <1>6, <1>11, <2>1 DEF Top
<1>18. \A i \in 1 .. Len(open) + 1 : i \in 1 .. Len(open) \/ i = Len(open) + 1
  BY <1>2
<1>19. HasAbout(id)' <=> AboutGiven(tag, c.host_language, Top.depth + 1)
  BY <1>10, <1>12, <1>16 DEF HasAbout, AboutGiven, Unset
<1>20. LanguageOf(id)' = c.language
  <2>1. LanguageFollows'
    BY <1>1 DEF WordsInv
  <2>2. Len(open) + 1 \in DOMAIN open'
    BY <1>2, <1>17
  <2>3. stack'[Len(open) + 1 + 1].language = LanguageOf(id)'
    <3>1. PICK k : k = Len(open) + 1
      OBVIOUS
    <3>2. stack'[k + 1].language = LanguageOf(open[k])'
      BY <2>1, <2>2, <3>1 DEF LanguageFollows
    <3>3. PICK n : n = open'[k]
      OBVIOUS
    <3>4. LanguageOf(open[k])' = LanguageOf(n)' /\ n = id
      BY <1>17, <3>1, <3>3
    <3> QED BY <1>17, <3>1, <3>2, <3>4
  <2> QED BY <1>17, <2>3
<1>21. Listed' = Listed \cup ByRel(id)' /\ \A n : Wordless(n)' <=> Wordless(n)
  BY <1>2, <1>3, <1>5, <1>9, <1>10, <1>11, ListedByStart
<1>22. PICK pos : pos = 2 * StartPosition(id)'
  OBVIOUS
<1>23. pos \in Int /\ Passed \in Int /\ pos = Passed + 1 /\ Passed' = Passed + 2
  <2>1. Len(tree'[id].path) = Len(open) + 1
    BY <1>2, <1>3, <1>10, <1>16
  <2>2. pos = 2 * (2 * id - (Len(open) + 1))
    BY <1>22, <2>1 DEF StartPosition
  <2>3. Passed' = 2 * (2 * id - (Len(open) + 1)) + 1
    BY <1>16, <1>17 DEF Passed
  <2> QED BY <1>2, <1>3, <2>2, <2>3 DEF Passed
<1>24. /\ ByRel(id)' = ListedAtStart(set, pos)
       /\ HangsInList(id)' =>
            /\ ListsRel(set) /\ set.current_object_resource = NULL
            /\ \A j \in DOMAIN tag.rel :
                 /\ j \in DOMAIN set.attrs.rel
                 /\ KeysOf(set.new_subject, set.attrs.rel)[j]
                      = <<node.subject, tag.rel[j]>>
  <2> SUFFICES /\ ByRel(id)' = ListedAtStart(set, 2 * StartPosition(id)')
               /\ HangsInList(id)' =>
                    /\ ListsRel(set) /\ set.current_object_resource = NULL
                    /\ \A j \in DOMAIN tag.rel :
                         /\ j \in DOMAIN set.attrs.rel
                         /\ KeysOf(set.new_subject, set.attrs.rel)[j]
                              = <<node.subject, tag.rel[j]>>
    BY <1>22
  <2>1. PICK parent, d : parent = Top /\ d = node
    OBVIOUS
  <2>2. /\ parent \in Contexts /\ InheritedObject(parent) # NULL
        /\ set = EstablishSubject(ReadAttributes(NewElementContext(parent), tag))
        /\ tree'[id] = d /\ d.tag = tag
        /\ d.version = c.rdfa_version /\ d.subject = c.new_subject
        /\ d.object = c.current_object_resource
    BY <1>2, <1>7, <1>10, <1>16, <2>1
  <2>3. HasAbout(id)' <=> AboutGiven(tag, c.host_language, parent.depth + 1)
    BY <1>19, <2>1
  <2> QED BY <1>7, <1>20, <2>1, <2>2, <2>3, StartMatches
<1>25. PICK L, G, V : L = Listed /\ G = ListsIn(graph) /\ V = ValuesIn(graph)
  OBVIOUS
<1>26. /\ Readable(graph) /\ ListsOK(Top, L, G, V)
       /\ \A l \in Top.local_list_mappings :
            /\ l.depth <= Len(open) + 1
            /\ RootListsNothing => l.depth >= 2
       /\ HangingListed(Top.local_list_mappings)
  BY <1>1, <1>25 DEF MappingFollows
<1>27. \A x \in L : x.pos < pos
  <2>1. \A x \in L : x.pos \in Int
    BY <1>26, PositionsAreNumbers
  <2>2. \A x \in L : x.pos <= Passed
    BY <1>1, <1>25 DEF Places
  <2> QED BY <1>23, <2>1, <2>2
<1>28. /\ set.depth = Len(open) + 1
       /\ ListsOK(set, L, G, V)
       /\ EntriesStay(Top, set) /\ EntriesFrom(Top, set, {})
  BY <1>2, <1>7, <1>26, StartedMapping
<1>29. PICK depths : depths = IF ListsRel(set) THEN {set.depth} ELSE {}
  OBVIOUS
<1>30. /\ ListsOK(c, L \cup ListedAtStart(set, pos), G, V)
       /\ EntriesStay(set, c) /\ EntriesFrom(set, c, depths)
       /\ ListsRel(set) /\ set.current_object_resource = NULL =>
            \A i \in DOMAIN set.attrs.rel : \E m \in c.local_list_mappings :
              m.key = KeysOf(set.new_subject, set.attrs.rel)[i]
  BY <1>6, <1>7, <1>23, <1>27, <1>28, <1>29, OpenRelationsLists
<1>31. PICK M, N : M = Top.local_list_mappings /\ N = c.local_list_mappings
  OBVIOUS
<1>32. /\ \A l \in M : \E m \in N : SameEntry(l, m)
       /\ \A m \in N : (\E l \in M : SameEntry(l, m)) \/ m.depth \in depths
  <2>1. \A k, l, m : SameEntry(k, l) /\ SameEntry(l, m) => SameEntry(k, m)
    BY DEF SameEntry
  <2>2. PICK O : O = set.local_list_mappings
    OBVIOUS
  <2>3. /\ \A l \in M : \E m \in O : SameEntry(l, m)
        /\ \A l \in O : \E m \in N : SameEntry(l, m)
        /\ \A m \in O : \E l \in M : SameEntry(l, m)
        /\ \A m \in N : (\E l \in O : SameEntry(l, m)) \/ m.depth \in depths
    BY <1>28, <1>30, <1>31, <2>2 DEF EntriesStay, EntriesFrom
  <2> QED BY <2>1, <2>3
<1>33. ListsRel(set) => tag.inlist
  <2>1. c.attrs.inlist => tag.inlist
    BY <1>2, <1>4, <1>7, StartedContent
  <2>2. c.attrs = set.attrs
    BY <1>6, <1>7, OpenRelationsContent DEF SameContent, SameSubject
  <2> QED BY <2>1, <2>2 DEF ListsRel
<1>34. \A m \in N : /\ m.depth \in Nat /\ m.depth <= Len(open) + 1
                    /\ RootListsNothing => m.depth >= 2
  <2> TAKE m \in N
  <2>1. m.depth \in Nat
    BY <1>6, <1>31, ListFields DEF Lists
  <2>2. CASE \E l \in M : SameEntry(l, m)
    BY <1>26, <1>31, <2>1, <2>2 DEF SameEntry
  <2>3. CASE m.depth \in depths
    <3>1. ListsRel(set) /\ m.depth = Len(open) + 1
      BY <1>28, <1>29, <2>3
    <3>2. RootListsNothing => Len(open) # 0
      BY <1>2, <1>13, <1>33, <3>1 DEF RootListsNothing
    <3> QED BY <1>2, <3>1, <3>2
  <2> QED BY <1>32, <2>2, <2>3
<1>35. /\ ListsIn(graph') = G /\ ValuesIn(graph') = V /\ Readable(graph')
  BY <1>8, <1>11, <1>25, <1>26, OtherTriples
<1>36. Places'
  <2>1. \A i \in DOMAIN open' : Len(tree') \in Below(open[i])'
    <3> TAKE i \in DOMAIN open'
    <3>1. PICK n : n = open'[i]
      OBVIOUS
    <3>2. n \in ToSet(open) \/ n = id
      BY <1>17, <1>18, <3>1 DEF ToSet
    <3>3. id \in Below(n)'
      BY <1>15, <3>2
    <3> QED BY <1>16, <3>1, <3>3
  <2>2. tree'[open'[1]].tag \in RootTags
    <3>1. CASE open = << >>
      <4>1. open'[1] = id
        BY <1>17, <3>1
      <4> QED BY <1>10, <1>13, <1>16, <3>1, <4>1
    <3>2. CASE open # << >>
      <4>1. 1 \in 1 .. Len(open)
        BY <1>2, <3>2
      <4> QED BY <1>1, <1>16, <1>17, <3>2, <4>1 DEF Places
    <3> QED BY <3>1, <3>2
  <2>3. \A x \in Listed' : x.pos <= Passed'
    <3>1. \A x \in L : x.pos \in Int /\ x.pos <= Passed
      BY <1>1, <1>25, <1>26, PositionsAreNumbers DEF Places
    <3>2. \A x \in ListedAtStart(set, pos) : x.pos = pos
      BY DEF ListedAtStart, Made
    <3>3. \A x \in Listed' : x \in L \/ x \in ListedAtStart(set, pos)
      BY <1>21, <1>24, <1>25
    <3> QED BY <1>23, <3>1, <3>2, <3>3
  <2> QED BY <2>1, <2>2, <2>3 DEF Places
<1>37. ListsTell'
  <2>1. ListTold(c, id)'
    <3>1. c.rdfa_version = RDFA_VERSION_1_1
      <4>1. ModeOK(c)
        <5>1. RelationsFollow'
          BY <1>1 DEF RelationsInv
        <5>2. Len(open) + 1 + 1 \in DOMAIN stack'
          BY <1>2, <1>6, <1>11
        <5> QED BY <1>17, <5>1, <5>2 DEF RelationsFollow
      <4> QED BY <4>1 DEF ModeOK
    <3> QED BY <1>2, <1>7, <1>10, <1>16, <1>19, <3>1, StartedTold
  <2>2. ASSUME NEW i \in DOMAIN open'
        PROVE  ListTold(stack[i + 1], open[i])'
    <3>1. PICK n, d : n = open'[i] /\ d = stack'[i + 1]
      OBVIOUS
    <3>2. ListTold(d, n)'
      <4>1. CASE i \in 1 .. Len(open)
        <5>1. ListTold(d, n) /\ n \in Elements
          BY <1>1, <1>17, <3>1, <4>1 DEF ListsTell
        <5>2. tree'[n] = tree[n] /\ (HasAbout(n)' <=> HasAbout(n))
          BY <1>16, <5>1 DEF HasAbout, Unset
        <5> QED BY <5>1, <5>2 DEF ListTold
      <4>2. CASE i = Len(open) + 1
        BY <1>17, <2>1, <3>1, <4>2
      <4> QED BY <1>17, <1>18, <4>1, <4>2
    <3> QED BY <3>1, <3>2
  <2> QED BY <2>2 DEF ListsTell
<1>38. SpokenFollows'
  <2>1. Wordless(id)
    <3>1. \A run \in ToSet(text) : id \notin ToSet(run.path)
      BY <1>1, <1>16 DEF WordsInv, WholeInv, TextOK
    <3>2. \A m \in Closed : id \notin ToSet(tree[m].path)
      <4> SUFFICES ASSUME NEW m \in Closed, id \in ToSet(tree[m].path)
                   PROVE  FALSE
        OBVIOUS
      <4>1. m \in Elements
        BY DEF Closed
      <4>2. PICK i \in DOMAIN tree[m].path : id = tree[m].path[i]
        BY DEF ToSet
      <4>3. id \in 1 .. m
        BY <1>2, <4>1, <4>2 DEF TreeOK
      <4> QED BY <1>16, <4>1, <4>3
    <3> QED BY <3>1, <3>2, WordlessElements DEF WordlessIs
  <2>2. ASSUME NEW i \in DOMAIN open'
        PROVE  ((\E j \in i .. Len(open) : stack[j + 1].plain_literal # NULL)
                  <=> ~Wordless(open[i]))'
    <3>1. PICK n : n = open'[i]
      OBVIOUS
    <3>2. PICK top : top = Len(open) + 1 /\ top \in Nat
      BY <1>2
    <3>3. (\E j \in i .. Len(open') : stack'[j + 1].plain_literal # NULL)
            <=> ~Wordless(n)
      <4>1. CASE i \in 1 .. Len(open)
        <5>1. (\E j \in i .. Len(open) : stack[j + 1].plain_literal # NULL)
                <=> ~Wordless(n)
          BY <1>1, <1>17, <3>1, <4>1 DEF SpokenFollows
        <5>2. \A j \in i .. Len(open') : j \in i .. Len(open) \/ j = top
          BY <1>17, <3>2, <4>1
        <5>3. \A j \in i .. Len(open) : j \in i .. Len(open') /\ j \in 1 .. Len(open)
          BY <1>2, <1>17, <4>1
        <5>4. stack'[top + 1].plain_literal = NULL
          BY <1>6, <1>17, <3>2
        <5>5. \A j \in i .. Len(open) : stack'[j + 1] = stack[j + 1]
          BY <1>17, <5>3
        <5> QED BY <5>1, <5>2, <5>3, <5>4, <5>5
      <4>2. CASE i = Len(open) + 1
        <5>1. \A j \in i .. Len(open') : j = top
          BY <1>17, <3>2, <4>2
        <5>2. stack'[top + 1].plain_literal = NULL
          BY <1>6, <1>17, <3>2
        <5>3. n = id
          BY <1>17, <3>1, <4>2
        <5> QED BY <2>1, <5>1, <5>2, <5>3
      <4> QED BY <1>17, <1>18, <4>1, <4>2
    <3>4. Wordless(n)' <=> Wordless(n)
      BY <1>21
    <3> QED BY <3>1, <3>3, <3>4
  <2> QED BY <2>2 DEF SpokenFollows
<1>39. HangingListed(N)'
  <2>1. ASSUME NEW i \in DOMAIN open', HangsInList(open[i])',
               NEW j \in DOMAIN tree'[open'[i]].tag.rel
        PROVE  \E l \in N :
                 /\ l.key = <<tree'[open'[i]].subject, tree'[open'[i]].tag.rel[j]>>
                 /\ l.depth <= i
    <3>1. PICK n : n = open'[i]
      OBVIOUS
    <3>2. HangsInList(n)' /\ j \in DOMAIN tree'[n].tag.rel
      BY <2>1, <3>1
    <3>3. \E l \in N : /\ l.key = <<tree'[n].subject, tree'[n].tag.rel[j]>>
                       /\ l.depth <= i
      <4>1. CASE i \in 1 .. Len(open)
        <5>1. n = open[i] /\ n \in Elements /\ tree'[n] = tree[n]
          BY <1>16, <1>17, <3>1, <4>1
        <5>2. HangsInList(n)
          BY <1>2, <1>9, <1>11, <3>2, <5>1, EarlierElements
        <5>3. PICK l \in M : /\ l.key = <<tree[n].subject, tree[n].tag.rel[j]>>
                             /\ l.depth <= i
          BY <1>17, <1>26, <1>31, <3>2, <4>1, <5>1, <5>2 DEF HangingListed
        <5>4. PICK m \in N : SameEntry(l, m)
          BY <1>32
        <5> QED BY <5>1, <5>3, <5>4 DEF SameEntry
      <4>2. CASE i = Len(open) + 1
        <5>1. n = id /\ tree'[n] = node
          BY <1>16, <1>17, <3>1, <4>2
        <5>2. j \in DOMAIN tag.rel
          BY <1>10, <3>2, <5>1
        <5>3. \E m \in N : m.key = <<node.subject, tag.rel[j]>>
          BY <1>24, <1>30, <1>31, <3>2, <5>1, <5>2
        <5> QED BY <1>10, <1>34, <4>2, <5>1, <5>3
      <4> QED BY <1>17, <1>18, <4>1, <4>2
    <3> QED BY <3>1, <3>3
  <2> QED BY <2>1 DEF HangingListed
<1>40. MappingFollows(Top)'
  <2>1. ListsOK(c, Listed', ListsIn(graph'), ValuesIn(graph'))
    BY <1>21, <1>24, <1>25, <1>30, <1>35
  <2>2. \A l \in N : /\ l.depth <= Len(open') + 1
                     /\ RootListsNothing => l.depth >= 2
    BY <1>2, <1>17, <1>34
  <2> QED BY <1>17, <1>31, <1>35, <1>39, <2>1, <2>2 DEF MappingFollows
<1>41. (\A d \in graph : d.t.by \in ListSenders => d.at \in Closed)'
  <2>1. \A d \in Sent(id, sent) : d.t.by \notin ListSenders
    BY <1>8 DEF Sent
  <2> QED BY <1>1, <1>11, <1>14, <2>1
<1>42. ListsFollow'
  BY <1>36, <1>37, <1>38, <1>40, <1>41 DEF ListsFollow
<1>43. ListsInDocumentOrder'
  <2>1. OrderIsKept'
    BY OrderFollows, PTL
  <2> QED BY <1>40, <2>1 DEF MappingFollows, OrderIsKept
<1> QED BY <1>1, <1>42, <1>43 DEF ListInv

-----------------------------------------------------------------------------
(* An end tag: the parent takes back the lists that are not finished.      *)

\* It also takes the counter.
LEMMA ReturnToLists ==
  ASSUME NEW parent \in Contexts, NEW c \in Contexts, SendsLists(c)
  PROVE  LET back == ReturnTo(parent, c)
             done == AfterLists(AfterIncomplete(c))
         IN  /\ back.local_list_mappings = done.local_list_mappings
             /\ back.list_slots = done.list_slots
             /\ back.bnode_count = c.bnode_count
<1> DEFINE done == AfterLists(AfterIncomplete(c))
<1>1. PICK d : d = done
  OBVIOUS
<1> HIDE DEF done
<1> QED BY <1>1 DEF ReturnTo, ListsReturned, NamesReturned, TextReturned,
                    Contexts, done

\* The end tag of the innermost element is the last one so far.
LEMMA EndComesLast ==
  ASSUME UNCHANGED tree, tree \in Seq(Nodes), open \in Seq(Nat), OpenOK,
         open # << >>, open' = SubSeq(open, 1, Len(open) - 1),
         NEW id, id = open[Len(open)], Len(tree) \in Below(id)
  PROVE  /\ Passed \in Int /\ Passed' = Passed + 2
         /\ 2 * EndPosition(id)' = Passed + 1
<1>2. /\ Len(open) \in Nat /\ Len(tree) \in Nat /\ Len(open) \in DOMAIN open
  OBVIOUS
<1>3. id \in Elements /\ Len(tree[id].path) = Len(open)
  BY <1>2 DEF OpenOK
<1>4. Below(id)' = Below(id) /\ tree' = tree
  BY DEF Below, Elements
<1>5. Below(id) \in SUBSET Nat /\ \A y \in Below(id) : y <= Len(tree)
  BY <1>2 DEF Below, Elements
<1>6. Max(Below(id)) = Len(tree)
  BY <1>5, GreatestIs
<1>7. EndPosition(id)' = 2 * Len(tree) - Len(open) + 1
  BY <1>3, <1>4, <1>6 DEF EndPosition
<1>8. Len(open') = Len(open) - 1
  BY <1>2, AllButLast
<1>9. Passed' = 2 * (2 * Len(tree) - (Len(open) - 1)) + 1
  BY <1>8 DEF Passed
<1>10. PICK at : at = EndPosition(id)'
  OBVIOUS
<1>11. 2 * at = Passed + 1
  BY <1>2, <1>7, <1>10 DEF Passed
<1>12. PICK height, size : height = Len(open) /\ size = Len(tree)
  OBVIOUS
<1>13. Passed = 2 * (2 * size - height) + 1
  BY <1>12 DEF Passed
<1>14. Passed' = 2 * (2 * size - (height - 1)) + 1
  BY <1>9, <1>12
<1>15. height \in Nat /\ size \in Nat
  BY <1>2, <1>12
<1>16. Passed \in Int /\ Passed' = Passed + 2
  BY ONLY <1>13, <1>14, <1>15
<1> QED BY <1>10, <1>11, <1>16

\* The lists of the element that ends, stage by stage, up to its parent's.
LEMMA EndStages ==
  ASSUME NEW top \in Contexts, top.new_subject # NULL, NEW parent \in Contexts,
         NEW c, c = AfterProperty(CloseLiteral(top)), SendsLists(c),
         NEW L, NEW G, ListsOK(top, L, ListsIn(G), ValuesIn(G)), Readable(G),
         NEW pos \in Int, \A x \in L : x.pos < pos,
         Completes(c) => \A i \in ListedIncompletes(c) :
           \E l \in top.local_list_mappings : l.key = ListedKeys(c)[i],
         NEW id, NEW H, NEW T, ListsSent(AfterIncomplete(c), id, G, H, T)
  PROVE  LET back == ReturnTo(parent, c)
         IN  /\ Readable(H)
             /\ ListsOK(back, (L \cup ListedByProperty(top, pos))
                                 \cup ListedBySubject(c, pos + 1),
                        ListsIn(H), ValuesIn(H))
             /\ \A l \in top.local_list_mappings : l.depth <= top.depth =>
                  \E m \in back.local_list_mappings : SameEntry(l, m)
             /\ \A m \in back.local_list_mappings :
                  /\ m.depth <= top.depth
                  /\ \/ \E l \in top.local_list_mappings : SameEntry(l, m)
                     \/ ListsProperty(top) /\ m.depth = top.depth
<1>1. c \in Contexts /\ c.new_subject # NULL /\ c.depth = top.depth
  BY EndKeepsRelations DEF SameRelations, SameSubject
<1>2. PICK depths : depths = IF ListsProperty(top) THEN {top.depth} ELSE {}
  OBVIOUS
<1>3. PICK N, O : N = L \cup ListedByProperty(top, pos)
                  /\ O = N \cup ListedBySubject(c, pos + 1)
  OBVIOUS
<1>4. PICK lists, values : lists = ListsIn(G) /\ values = ValuesIn(G)
  OBVIOUS
<1>5. /\ ListsOK(c, N, lists, values)
      /\ EntriesStay(top, c) /\ EntriesFrom(top, c, depths)
  BY <1>2, <1>3, <1>4, AfterPropertyLists
<1>6. \A x \in N : x.pos < pos + 1
  <2>1. \A x \in L : x.pos \in Int
    BY PositionsAreNumbers
  <2>2. \A x \in ListedByProperty(top, pos) : x.pos = pos
    BY DEF ListedByProperty, Made
  <2> QED BY <1>3, <2>1, <2>2
<1>7. Completes(c) => \A i \in ListedIncompletes(c) :
        \E m \in c.local_list_mappings : m.key = ListedKeys(c)[i]
  <2> SUFFICES ASSUME Completes(c), NEW i \in ListedIncompletes(c)
               PROVE  \E m \in c.local_list_mappings : m.key = ListedKeys(c)[i]
    OBVIOUS
  <2>1. PICK l \in top.local_list_mappings : l.key = ListedKeys(c)[i]
    OBVIOUS
  <2>2. PICK m \in c.local_list_mappings : SameEntry(l, m)
    BY <1>5 DEF EntriesStay
  <2> QED BY <2>1, <2>2 DEF SameEntry
<1>8. PICK d : d = AfterIncomplete(c)
  OBVIOUS
<1>9. d \in Contexts /\ d.depth = top.depth
  BY <1>1, <1>8, AfterIncompleteType DEF SameSubject
<1>10. /\ ListsOK(d, O, lists, values) /\ d.bnode_count = c.bnode_count
       /\ EntriesStay(c, d) /\ EntriesFrom(c, d, {})
  <2>1. pos + 1 \in Int
    OBVIOUS
  <2> QED BY <1>1, <1>3, <1>5, <1>6, <1>7, <1>8, <2>1, AfterIncompleteLists
<1>11. EntriesOK(d.local_list_mappings, d.list_slots, d.bnode_count)
       /\ Ledger(O, d.local_list_mappings, lists, values)
  BY <1>10 DEF ListsOK
<1>12. /\ Readable(H)
       /\ \E event : Delivers(d.local_list_mappings, Finished(d), lists,
                              ListsIn(H), values, ValuesIn(H), event)
  BY <1>4, <1>8, <1>9, <1>11, ListsDelivered
<1>13. PICK M : M = d.local_list_mappings \ Finished(d)
  OBVIOUS
<1>14. Ledger(O, M, ListsIn(H), ValuesIn(H))
  BY <1>11, <1>12, <1>13, LedgerDeliver
<1>15. /\ AfterLists(d).local_list_mappings = M
       /\ AfterLists(d).list_slots = d.list_slots
       /\ EntriesOK(M, d.list_slots, d.bnode_count)
       /\ \A l \in M : l.depth <= d.depth
  BY <1>9, <1>11, <1>13, EntriesLeft
<1>16. PICK back : back = ReturnTo(parent, c)
  OBVIOUS
<1>17. /\ back.local_list_mappings = M /\ back.list_slots = d.list_slots
       /\ back.bnode_count = d.bnode_count
  BY <1>1, <1>8, <1>10, <1>15, <1>16, ReturnToLists
<1>18. ListsOK(back, O, ListsIn(H), ValuesIn(H))
  BY <1>14, <1>15, <1>17 DEF ListsOK
<1>19. \A k, l, m : SameEntry(k, l) /\ SameEntry(l, m) => SameEntry(k, m)
  BY DEF SameEntry
<1>20. ASSUME NEW l \in top.local_list_mappings, l.depth <= top.depth
       PROVE  \E m \in M : SameEntry(l, m)
  <2>1. PICK m \in c.local_list_mappings : SameEntry(l, m)
    BY <1>5 DEF EntriesStay
  <2>2. PICK n \in d.local_list_mappings : SameEntry(m, n)
    BY <1>10 DEF EntriesStay
  <2>3. SameEntry(l, n)
    BY <1>19, <2>1, <2>2
  <2>4. n.depth \in Nat /\ n.depth <= d.depth /\ d.depth \in Nat
    BY <1>9, <1>20, <2>2, <2>3, ListFields DEF SameEntry, Lists
  <2>5. n \notin Finished(d)
    BY <2>4 DEF Finished
  <2> QED BY <1>13, <2>2, <2>3, <2>5
<1>21. ASSUME NEW m \in M
       PROVE  /\ m.depth <= top.depth
              /\ \/ \E l \in top.local_list_mappings : SameEntry(l, m)
                 \/ ListsProperty(top) /\ m.depth = top.depth
  <2>1. PICK l \in c.local_list_mappings : SameEntry(l, m)
    BY <1>10, <1>13 DEF EntriesFrom
  <2>2. \/ \E k \in top.local_list_mappings : SameEntry(k, l)
        \/ l.depth \in depths
    BY <1>5 DEF EntriesFrom
  <2>3. l.depth \in depths => ListsProperty(top) /\ m.depth = top.depth
    BY <1>2, <2>1 DEF SameEntry
  <2> QED BY <1>9, <1>15, <1>19, <2>1, <2>2, <2>3
<1> QED BY <1>3, <1>12, <1>16, <1>17, <1>18, <1>20, <1>21

\* The element that ends has text if something was read in it, or if it is an
\* empty one with a property.
LEMMA EndHasText ==
  ASSUME WordsInv, status # "ended", SpokenFollows, open \in Seq(Nat),
         stack \in Seq(Contexts), Len(stack) = Len(open) + 1, open # << >>,
         NEW id, id = open[Len(open)]
  PROVE  /\ (Top.plain_literal # NULL) <=> ~Wordless(id)
         /\ (CloseLiteral(Top).plain_literal # NULL) <=>
              (Top.plain_literal # NULL \/ Unspoken(id))
         /\ Top.inner = "empty" => Top.plain_literal = NULL
<1>1. PICK top, n : top = Top /\ n = Len(open)
  OBVIOUS
<1>2. /\ n \in Nat /\ n \in DOMAIN open /\ n .. n = {n} /\ top = stack[n + 1]
      /\ id = open[n]
  BY <1>1 DEF Top
<1>3. top.plain_literal # NULL <=> ~Wordless(id)
  <2>1. (\E j \in n .. n : stack[j + 1].plain_literal # NULL) <=> ~Wordless(open[n])
    BY <1>1, <1>2 DEF SpokenFollows
  <2> QED BY <1>2, <2>1
<1>4. ContextTells(top, id) /\ InnerTells(top, id)
  BY <1>1, <1>2 DEF WordsInv, WholeInv, ContextsTell, InnersTell
<1>5. /\ top.attrs.property = tree[id].tag.property
      /\ HasMarkup(id) => top.inner = "markup"
  <2>1. top.attrs.property = tree[id].tag.property
    BY <1>4 DEF ContextTells, AttributesOf
  <2>2. HasMarkup(id) => top.inner = "markup"
    BY <1>1, <1>2 DEF WordsInv, WholeInv, InnersTell, MarkupFollows
  <2> QED BY <2>1, <2>2
<1>6. top \in Contexts /\ << >> # NULL
  <2>1. << >> \in Seq(Texts)
    OBVIOUS
  <2>2. n + 1 \in DOMAIN stack
    BY <1>1, <1>2
  <2>3. top \in Contexts
    BY <1>2, <2>2
  <2>4. << >> # NULL
    BY <2>1, NullTextAssumption
  <2> QED BY <2>3, <2>4
<1>7. CloseLiteral(top).plain_literal # NULL <=>
        \/ top.plain_literal # NULL
        \/ top.attrs.property # NULL /\ top.inner = "empty"
  BY <1>6 DEF CloseLiteral, Contexts
<1>8. CloseLiteral(top).plain_literal # NULL <=>
        top.plain_literal # NULL \/ Unspoken(id)
  <2>1. top.inner = "empty" => Below(id) = {id} /\ tree[id].tag.torn = "empty"
    BY <1>4, <1>5 DEF InnerTells, HasMarkup
  <2>2. ASSUME top.plain_literal = NULL, Unspoken(id)
        PROVE  top.inner = "empty"
    <3>1. RunsWithin(id) = {}
      BY <1>3, <2>2, WordlessElements DEF WordlessIs, RunsWithin
    <3>2. ~HasMarkup(id)
      BY <2>2, <3>1 DEF HasMarkup, Unspoken
    <3> QED BY <1>4, <1>6, <2>2, <3>2 DEF InnerTells, Unspoken, Contexts, Inners
  <2> QED BY <1>5, <1>7, <2>1, <2>2 DEF Unspoken
<1> QED BY <1>1, <1>3, <1>4, <1>8 DEF InnerTells

\* The property adds its value, the subject comes next, then lists are sent.
LEMMA EndElementLists ==
  ASSUME ListInv, OnlyRdfa11, ResolvesOnce, EndElement
  PROVE  ListInv'
<1> DEFINE literal == CloseLiteral(Top)
           e       == AfterProperty(literal)
           parent  == Len(stack) - 1
           id      == open[Len(open)]
           lists   == IF SendsLists(e) THEN ListTriples(AfterIncomplete(e)) ELSE {}
           hanging == IF Completes(e) THEN HangingTriples(e) ELSE {}
           sent    == PropertyTriples(literal) \cup hanging \cup lists
           back    == ReturnTo(stack[parent], e)
<1>1. /\ RelationsInv /\ RelationsInv' /\ WordsInv /\ WordsInv' /\ Inv
      /\ status = "parsing" /\ status' = "parsing" /\ RelationsFollow
      /\ Places /\ ListsTell /\ SpokenFollows /\ MappingFollows(Top)
      /\ \A d \in graph : d.t.by \in ListSenders => d.at \in Closed
  BY EndElementRelations, EndElementWords
  DEF ListInv, ListsFollow, EndElement, RelationsInv
<1>2. /\ TreeOK /\ OpenOK /\ ContextsTell /\ LanguageFollows /\ TextFollows
      /\ tree \in Seq(Nodes) /\ open \in Seq(Nat) /\ stack \in Seq(Contexts)
      /\ text \in Seq([text : Texts, path : Seq(Nat)])
      /\ Len(stack) = Len(open) + 1 /\ Len(open) \in Nat /\ open # << >>
      /\ Top \in Contexts /\ Top.new_subject # NULL /\ Top.depth = Len(open)
      /\ parent \in Nat /\ parent > 0 /\ parent = Len(open)
      /\ stack[parent] \in Contexts
  <2>1. Len(stack) > 1
    BY DEF EndElement
  <2>2. /\ StackOK(stack, Len(open) + 1) /\ Len(open) \in Nat /\ TreeOK /\ OpenOK
        /\ tree \in Seq(Nodes) /\ open \in Seq(Nat) /\ ContextsTell
        /\ LanguageFollows /\ TextFollows
        /\ text \in Seq([text : Texts, path : Seq(Nat)])
    BY <1>1, InvStack DEF WordsInv, WholeInv, Inv, TypeOK
  <2>3. /\ stack \in Seq(Contexts) /\ Len(stack) = Len(open) + 1
        /\ open # << >> /\ Top \in Contexts /\ Top.new_subject # NULL
        /\ Top.depth = Len(open)
        /\ parent \in Nat /\ parent > 0 /\ parent = Len(open)
        /\ stack[parent] \in Contexts
    BY <2>1, <2>2 DEF StackOK, Top
  <2> QED BY <2>2, <2>3
<1>3. /\ stack' = [i \in 1 .. parent |-> IF i = parent THEN back ELSE stack[i]]
      /\ graph' = graph \cup Sent(id, sent)
      /\ open' = SubSeq(open, 1, Len(open) - 1)
      /\ UNCHANGED <<tree, text>>
  BY DEF EndElement
<1>4. /\ id \in Elements /\ Closed' = Closed \cup {id}
      /\ DOMAIN open' = 1 .. Len(open) - 1
      /\ \A i \in 1 .. Len(open) - 1 : open'[i] = open[i]
  BY <1>2, <1>3, EndNesting
<1>5. PICK n : n = id
  OBVIOUS
<1>6. PICK top, l, c, p, b : top = Top /\ l = literal /\ c = e
                             /\ p = stack[parent] /\ b = back
  OBVIOUS
<1>7. /\ top \in Contexts /\ top.new_subject # NULL /\ p \in Contexts
      /\ l = CloseLiteral(top) /\ c = AfterProperty(l) /\ b = ReturnTo(p, c)
  BY <1>2, <1>6
<1>8. /\ l \in Contexts /\ l.new_subject # NULL
      /\ SameRelations(top, c) /\ SameRelations(p, b)
      /\ SameContent(l, c) /\ c \in Contexts /\ c.new_subject # NULL
  <2>1. l \in Contexts /\ l.new_subject # NULL
    BY <1>7, CloseLiteralType DEF SameSubject
  <2>2. SameRelations(top, c) /\ SameRelations(p, b)
    BY <1>7, EndKeepsRelations
  <2>3. SameContent(l, c)
    BY <1>7, <2>1, AfterPropertyContent
  <2> QED BY <1>7, <2>1, <2>2, <2>3 DEF SameRelations, SameSubject
<1>9. /\ stack' = [i \in 1 .. parent |-> IF i = parent THEN b ELSE stack[i]]
      /\ graph' = graph \cup Sent(n, sent)
      /\ lists = IF SendsLists(c) THEN ListTriples(AfterIncomplete(c)) ELSE {}
      /\ hanging = IF Completes(c) THEN HangingTriples(c) ELSE {}
      /\ sent = PropertyTriples(l) \cup hanging \cup lists
  BY <1>3, <1>5, <1>6
<1> HIDE DEF literal, e, back, hanging, lists, sent
<1>10. /\ parent \in DOMAIN open /\ DOMAIN open = 1 .. parent
       /\ top = stack[parent + 1] /\ parent \in DOMAIN stack
       /\ n = open[parent] /\ p = stack[parent]
  BY <1>2, <1>5, <1>6 DEF Top
<1>11. /\ DOMAIN stack' = 1 .. parent /\ stack'[parent] = b
       /\ Len(stack') = parent
       /\ \A i \in 1 .. parent : i # parent => stack'[i] = stack[i]
  <2>1. parent \in 1 .. parent /\ parent \in Nat
    BY <1>2
  <2> HIDE DEF parent
  <2> QED BY ONLY <1>9, <2>1
<1>12. /\ DOMAIN open' = 1 .. parent - 1 /\ Len(open') = parent - 1
       /\ \A i \in 1 .. parent - 1 : open'[i] = open[i] /\ i \in DOMAIN open
       /\ Top' = b
  <2>1. Len(open') = Len(open) - 1 /\ parent = Len(open)
    BY <1>2, <1>3, AllButLast
  <2>2. DOMAIN open = 1 .. Len(open) /\ Len(open) \in Nat
    BY <1>2
  <2>3. Top' = b
    BY <1>11 DEF Top
  <2> HIDE DEF parent
  <2> QED BY ONLY <1>4, <2>1, <2>2, <2>3
<1> HIDE DEF parent, id
<1>13. /\ \A m : TextWithin(m)' = TextWithin(m)
       /\ \A m : LanguageOf(m)' = LanguageOf(m)
       /\ \A m : Below(m)' = Below(m)
       /\ \A m : HasAbout(m)' <=> HasAbout(m)
       /\ \A m : HangsInList(m)' <=> HangsInList(m)
  BY <1>3 DEF TextWithin, LanguageOf, Below, Elements, HasAbout, HangsInList,
              Hangs, Unset
<1>14. /\ Listed' = (Listed \cup ByProperty(n)') \cup BySubject(n)'
       /\ \A m : Wordless(m)' <=>
            Wordless(m) /\ (Unspoken(n) => m \notin ToSet(tree[n].path))
  BY <1>2, <1>3, <1>5, ListedByEnd DEF id
<1>15. PICK pos : pos = 2 * EndPosition(n)'
  OBVIOUS
<1>16. /\ Passed \in Int /\ pos = Passed + 1 /\ Passed' = Passed + 2
  <2>1. Len(tree) \in Below(n)
    BY <1>1, <1>10 DEF Places
  <2> QED BY <1>2, <1>3, <1>5, <1>15, <2>1, EndComesLast DEF id
<1>17. \A i \in DOMAIN open : open[i] \in ToSet(tree[n].path)
  <2> TAKE i \in DOMAIN open
  <2>1. Len(tree[n].path) = parent /\ tree[n].path[i] = open[i]
    BY <1>2, <1>10 DEF OpenOK
  <2>2. n \in Elements
    BY <1>2, <1>10 DEF OpenOK
  <2>3. tree[n] \in Nodes
    BY <1>2, <2>2 DEF Elements
  <2>4. i \in DOMAIN tree[n].path
    BY <1>2, <1>10, <2>1, <2>3 DEF Nodes
  <2> QED BY <2>1, <2>4 DEF ToSet
<1>18. /\ (top.plain_literal # NULL) <=> ~Wordless(n)
       /\ (l.plain_literal # NULL) <=> (top.plain_literal # NULL \/ Unspoken(n))
       /\ top.inner = "empty" => top.plain_literal = NULL
       /\ c.plain_literal = l.plain_literal
  BY <1>1, <1>2, <1>5, <1>6, <1>7, <1>8, EndHasText DEF id, SameContent
<1>19. ContextFollows(top, n) /\ ModeOK(top) /\ ContextFollows(c, n)
  <2>1. ContextFollows(top, n) /\ ModeOK(top)
    BY <1>1, <1>2, <1>5, <1>6, TopRelations DEF id
  <2> QED BY <1>8, <2>1, StillFollows
<1>20. /\ ByProperty(n)' = ListedByProperty(top, pos)
       /\ SendsLists(c) /\ (ListsProperty(top) => tree[n].tag.inlist)
  <2>1. AttributesOf(top, n) /\ ListTold(top, n)
    BY <1>1, <1>2, <1>10 DEF ContextsTell, ContextTells, ListsTell
  <2>2. top.new_subject = tree[n].subject
    BY <1>19 DEF ContextFollows
  <2>3. XmlText(top) = TextWithin(n)'
    <3>1. TextWithin(n) = XmlText(top) \o << >>
      BY <1>2, <1>10 DEF TextFollows
    <3>2. top.plain_literal \in Maybe(Seq(Texts))
      BY <1>7 DEF Contexts
    <3>3. XmlText(top) \in Seq(Texts)
      BY <3>2 DEF XmlText, Maybe
    <3>4. XmlText(top) \o << >> = XmlText(top)
      BY <3>3
    <3> QED BY <1>13, <3>1, <3>4
  <2>4. top.language = LanguageOf(n)'
    BY <1>2, <1>10, <1>13 DEF LanguageFollows
  <2>5. l.plain_literal = NULL <=> Wordless(n)'
    <3>1. n \in ToSet(tree[n].path)
      BY <1>10, <1>17
    <3> QED BY <1>14, <1>18, <3>1
  <2>6. ByProperty(n)' = ListedByProperty(top, 2 * EndPosition(n)')
    BY <1>3, <1>7, <1>18, <2>1, <2>2, <2>3, <2>4, <2>5, EndMatchesProperty
  <2>7. SendsLists(c)
    BY <1>8, <2>1 DEF SendsLists, ListTold, SameRelations, SameSubject
  <2>8. ListsProperty(top) => tree[n].tag.inlist
    BY <2>1 DEF ListsProperty, ListTold
  <2> QED BY <1>15, <2>6, <2>7, <2>8

<1>21. PICK L, M, N : L = Listed /\ M = top.local_list_mappings
                      /\ N = b.local_list_mappings
  OBVIOUS
<1>22. /\ Readable(graph) /\ ListsOK(top, L, ListsIn(graph), ValuesIn(graph))
       /\ \A l1 \in M : /\ l1.depth <= Len(open) + 1
                        /\ RootListsNothing => l1.depth >= 2
       /\ HangingListed(M)
  BY <1>1, <1>6, <1>21 DEF MappingFollows
<1>23. \A x \in L : x.pos \in Int /\ x.pos <= Passed /\ x.pos < pos
  <2>1. \A x \in L : x.pos \in Int
    BY <1>22, PositionsAreNumbers
  <2>2. \A x \in L : x.pos <= Passed
    BY <1>1, <1>21 DEF Places
  <2> QED BY <1>16, <2>1, <2>2
<1>24. BySubject(n)' = ListedBySubject(c, pos + 1)
       /\ (Completes(c) => \A i \in ListedIncompletes(c) :
             \E m \in M : m.key = ListedKeys(c)[i])
  <2>1. n \in Elements
    BY <1>2, <1>10 DEF OpenOK
  <2>2. /\ BySubject(n)' = ListedBySubject(c, 2 * EndPosition(n)' + 1)
        /\ Completes(c) => \A i \in ListedIncompletes(c) :
             /\ Enclosing(n) # 0 /\ HangsInList(Enclosing(n))
             /\ i \in DOMAIN tree[Enclosing(n)].tag.rel
             /\ ListedKeys(c)[i] = <<tree[Enclosing(n)].subject,
                                     tree[Enclosing(n)].tag.rel[i]>>
    BY <1>2, <1>3, <1>8, <1>19, <2>1, EndMatchesSubject
  <2>3. ASSUME Completes(c), NEW i \in ListedIncompletes(c)
        PROVE  \E m \in M : m.key = ListedKeys(c)[i]
    <3>1. Enclosing(open[parent]) # 0
      BY <1>10, <2>2, <2>3
    <3>2. PICK k \in 1 .. parent - 1 : Enclosing(n) = open[k]
      BY <1>2, <1>10, <3>1, EnclosingIsAround
    <3>3. k \in DOMAIN open
      BY <1>12
    <3>4. /\ HangsInList(open[k]) /\ i \in DOMAIN tree[open[k]].tag.rel
          /\ ListedKeys(c)[i] = <<tree[open[k]].subject, tree[open[k]].tag.rel[i]>>
      BY <2>2, <2>3, <3>2
    <3> QED BY <1>22, <3>3, <3>4 DEF HangingListed
  <2> QED BY <1>15, <2>2, <2>3
<1>25. ListsSent(AfterIncomplete(c), n, graph, graph', sent)
  <2>1. PICK d, T : d = AfterIncomplete(c) /\ T = ListTriples(d)
    OBVIOUS
  <2>2. \A t : t \in sent <=> t \in PropertyTriples(l) \/ t \in hanging \/ t \in T
    BY <1>9, <1>20, <2>1
  <2>3. /\ \A t \in PropertyTriples(l) : t.by \notin ListSenders
        /\ \A t \in hanging : t.by \notin ListSenders
    BY <1>9, EndSenders DEF ListSenders
  <2>4. \A d1 \in graph : d1.t.by \in ListSenders => d1.at # n
    <3>1. n \in ToSet(open)
      BY <1>10 DEF ToSet
    <3> QED BY <1>1, <3>1 DEF Closed
  <2>5. \A t : t \in sent /\ t.by \in ListSenders <=> t \in T /\ t.by \in ListSenders
    BY <2>2, <2>3
  <2> QED BY <1>9, <2>1, <2>4, <2>5 DEF ListsSent
<1>26. PICK H : H = graph'
  OBVIOUS
<1>27. /\ Readable(H)
       /\ ListsOK(b, (L \cup ListedByProperty(top, pos))
                        \cup ListedBySubject(c, pos + 1),
                  ListsIn(H), ValuesIn(H))
       /\ \A l1 \in M : l1.depth <= top.depth => \E m \in N : SameEntry(l1, m)
       /\ \A m \in N : /\ m.depth <= top.depth
                       /\ \/ \E l1 \in M : SameEntry(l1, m)
                          \/ ListsProperty(top) /\ m.depth = top.depth
  <2>1. pos \in Int
    BY <1>16
  <2>2. ListsSent(AfterIncomplete(c), n, graph, H, sent)
    BY <1>25, <1>26
  <2>3. \A x \in L : x.pos < pos
    BY <1>23
  <2>4. c = AfterProperty(CloseLiteral(top))
    BY <1>7
  <2>5. SendsLists(c)
    BY <1>20
  <2>6. PICK g : g = graph
    OBVIOUS
  <2>7. /\ Readable(g) /\ ListsOK(top, L, ListsIn(g), ValuesIn(g))
        /\ ListsSent(AfterIncomplete(c), n, g, H, sent)
    BY <1>22, <2>2, <2>6
  <2>8. Completes(c) => \A i \in ListedIncompletes(c) :
          \E m \in top.local_list_mappings : m.key = ListedKeys(c)[i]
    BY <1>21, <1>24
  <2>9. /\ Readable(H)
        /\ ListsOK(ReturnTo(p, c), (L \cup ListedByProperty(top, pos))
                                      \cup ListedBySubject(c, pos + 1),
                   ListsIn(H), ValuesIn(H))
        /\ \A l1 \in top.local_list_mappings : l1.depth <= top.depth =>
             \E m \in ReturnTo(p, c).local_list_mappings : SameEntry(l1, m)
        /\ \A m \in ReturnTo(p, c).local_list_mappings :
             /\ m.depth <= top.depth
             /\ \/ \E l1 \in top.local_list_mappings : SameEntry(l1, m)
                \/ ListsProperty(top) /\ m.depth = top.depth
    BY <1>7, <2>1, <2>3, <2>4, <2>5, <2>7, <2>8, EndStages
  <2> QED BY <1>7, <1>21, <2>9
<1>28. ListsOK(b, Listed', ListsIn(graph'), ValuesIn(graph')) /\ Readable(graph')
  BY <1>14, <1>20, <1>21, <1>24, <1>26, <1>27
<1>29. Places'
  <2>1. \A i \in DOMAIN open' : Len(tree') \in Below(open[i])'
    <3> TAKE i \in DOMAIN open'
    <3>1. PICK m : m = open'[i]
      OBVIOUS
    <3>2. Len(tree) \in Below(m)
      BY <1>1, <1>12, <3>1 DEF Places
    <3>3. Len(tree') \in Below(m)'
      BY <1>3, <1>13, <3>2
    <3> QED BY <3>1, <3>3
  <2>2. open' # << >> => tree'[open'[1]].tag \in RootTags
    <3>1. open' # << >> => 1 \in 1 .. parent - 1
      <4>1. open' \in Seq(Nat)
        BY <1>2, <1>3, AllButLast
      <4> QED BY <1>12, <4>1
    <3> QED BY <1>1, <1>2, <1>3, <1>12, <3>1 DEF Places
  <2>3. \A x \in Listed' : x.pos <= Passed'
    <3>1. \A x \in ListedByProperty(top, pos) : x.pos = pos
      BY DEF ListedByProperty, Made
    <3>2. \A x \in ListedBySubject(c, pos + 1) : x.pos = pos + 1
      BY DEF ListedBySubject, Made
    <3>3. \A x \in Listed' :
            \/ x \in L \/ x \in ListedByProperty(top, pos)
            \/ x \in ListedBySubject(c, pos + 1)
      BY <1>14, <1>20, <1>21, <1>24
    <3> QED BY <1>16, <1>23, <3>1, <3>2, <3>3
  <2> QED BY <2>1, <2>2, <2>3 DEF Places
<1>30. ListsTell'
  <2> SUFFICES ASSUME NEW i \in DOMAIN open'
               PROVE  ListTold(stack[i + 1], open[i])'
    BY DEF ListsTell
  <2>1. PICK m, d : m = open'[i] /\ d = stack'[i + 1]
    OBVIOUS
  <2>2. i \in DOMAIN open /\ m = open[i] /\ i + 1 \in 1 .. parent
    <3>1. i \in 1 .. parent - 1
      BY <1>12
    <3>2. i + 1 \in 1 .. parent
      BY <1>2, <3>1
    <3> QED BY <1>12, <2>1, <3>1, <3>2
  <2>3. ListTold(stack[i + 1], m)
    BY <1>1, <2>2 DEF ListsTell
  <2>4. tree'[m] = tree[m]
    BY <1>3
  <2>5. /\ d.attrs = stack[i + 1].attrs
        /\ d.rdfa_version = stack[i + 1].rdfa_version
        /\ d.typed_resource = stack[i + 1].typed_resource
    <3>1. CASE i + 1 = parent
      <4>1. d = b /\ stack[i + 1] = p
        BY <1>10, <1>11, <2>1, <3>1
      <4>2. SameSubject(p, b) /\ b.typed_resource = p.typed_resource
        BY <1>7, <1>8, ReturnToContent
      <4> QED BY <4>1, <4>2 DEF SameSubject
    <3>2. CASE i + 1 # parent
      BY <1>11, <2>1, <2>2, <3>2
    <3> QED BY <3>1, <3>2
  <2>6. ListTold(d, m)'
    BY <2>3, <2>4, <2>5, ListToldStays
  <2> QED BY <2>1, <2>6
<1>31. SpokenFollows'
  <2> SUFFICES ASSUME NEW i \in DOMAIN open'
               PROVE  ((\E j \in i .. Len(open) : stack[j + 1].plain_literal # NULL)
                         <=> ~Wordless(open[i]))'
    BY DEF SpokenFollows
  <2>1. PICK m : m = open'[i]
    OBVIOUS
  <2>2. i \in DOMAIN open /\ m = open[i] /\ i \in 1 .. parent - 1
    BY <1>12, <2>1
  <2>3. (\E j \in i .. parent : stack[j + 1].plain_literal # NULL) <=> ~Wordless(m)
    <3>1. (\E j \in i .. Len(open) : stack[j + 1].plain_literal # NULL)
            <=> ~Wordless(open[i])
      BY <1>1, <2>2 DEF SpokenFollows
    <3> QED BY <1>2, <2>2, <3>1
  <2>4. Wordless(m)' <=> Wordless(m) /\ ~Unspoken(n)
    BY <1>14, <1>17, <2>2
  <2>5. b.plain_literal # NULL <=> p.plain_literal # NULL \/ c.plain_literal # NULL
    <3>1. b.plain_literal = Appended(p.plain_literal, c.plain_literal)
          /\ (p.plain_literal # NULL \/ c.plain_literal # NULL =>
                b.plain_literal # NULL)
      BY <1>7, <1>8, ReturnToContent
    <3> QED BY <3>1 DEF Appended
  <2>6. /\ i .. parent - 1 \subseteq i .. parent /\ parent - 1 \in i .. parent - 1
        /\ parent \in i .. parent
        /\ \A j \in i .. parent : j \in i .. parent - 1 \/ j = parent
        /\ \A j \in i .. parent - 1 : j + 1 \in 1 .. parent
        /\ \A j \in i .. parent - 1 : j + 1 = parent <=> j = parent - 1
        /\ parent - 1 + 1 = parent
    BY <1>2, <2>2
  <2>7. (\E j \in i .. parent - 1 : stack'[j + 1].plain_literal # NULL) <=>
          (\E j \in i .. parent : stack[j + 1].plain_literal # NULL) \/ Unspoken(n)
    <3>1. \A j \in i .. parent - 1 : j # parent - 1 => stack'[j + 1] = stack[j + 1]
      BY <1>11, <2>6
    <3>2. stack'[parent - 1 + 1] = b /\ stack[parent - 1 + 1] = p
      BY <1>10, <1>11, <2>6
    <3>3. stack[parent + 1] = top
      BY <1>10
    <3>4. b.plain_literal # NULL <=>
            \/ p.plain_literal # NULL
            \/ top.plain_literal # NULL \/ Unspoken(n)
      BY <1>18, <2>5
    <3>5. ASSUME \E j \in i .. parent - 1 : stack'[j + 1].plain_literal # NULL
          PROVE  \/ \E j \in i .. parent : stack[j + 1].plain_literal # NULL
                 \/ Unspoken(n)
      <4>1. PICK j \in i .. parent - 1 : stack'[j + 1].plain_literal # NULL
        BY <3>5
      <4>2. CASE j = parent - 1
        BY <2>6, <3>2, <3>3, <3>4, <4>1, <4>2
      <4>3. CASE j # parent - 1
        BY <2>6, <3>1, <4>1, <4>3
      <4> QED BY <4>2, <4>3
    <3>6. ASSUME \/ \E j \in i .. parent : stack[j + 1].plain_literal # NULL
                 \/ Unspoken(n)
          PROVE  \E j \in i .. parent - 1 : stack'[j + 1].plain_literal # NULL
      <4>1. CASE b.plain_literal # NULL
        BY <2>6, <3>2, <4>1
      <4>2. CASE b.plain_literal = NULL
        <5>1. PICK j \in i .. parent : stack[j + 1].plain_literal # NULL
          BY <3>4, <3>6, <4>2
        <5>2. j # parent /\ j # parent - 1
          BY <3>2, <3>3, <3>4, <4>2, <5>1
        <5> QED BY <2>6, <3>1, <5>1, <5>2
      <4> QED BY <4>1, <4>2
    <3> QED BY <3>5, <3>6
  <2>8. (\E j \in i .. parent - 1 : stack'[j + 1].plain_literal # NULL)
          <=> ~Wordless(m)'
    BY <2>3, <2>4, <2>7
  <2> QED BY <1>12, <2>1, <2>8
<1>32. HangingListed(N)'
  <2> SUFFICES ASSUME NEW i \in DOMAIN open', HangsInList(open[i])',
                      NEW j \in DOMAIN tree'[open'[i]].tag.rel
               PROVE  \E l1 \in N :
                 /\ l1.key = <<tree'[open'[i]].subject, tree'[open'[i]].tag.rel[j]>>
                 /\ l1.depth <= i
    BY DEF HangingListed
  <2>1. PICK m : m = open'[i]
    OBVIOUS
  <2>2. i \in DOMAIN open /\ m = open[i] /\ i \in 1 .. parent - 1
    BY <1>12, <2>1
  <2>3. HangsInList(m)'
    BY <2>1
  <2>4. HangsInList(m) /\ tree' = tree
    BY <1>3, <1>13, <2>3
  <2>5. PICK l1 \in M : /\ l1.key = <<tree[m].subject, tree[m].tag.rel[j]>>
                        /\ l1.depth <= i
    BY <1>22, <2>1, <2>2, <2>4 DEF HangingListed
  <2>6. l1.depth <= top.depth
    <3>1. l1.depth \in Nat
      BY <1>7, <1>21, ListFields DEF Lists
    <3> QED BY <1>2, <1>6, <2>2, <2>5, <3>1
  <2>7. PICK m1 \in N : SameEntry(l1, m1)
    BY <1>27, <2>6
  <2> QED BY <2>1, <2>4, <2>5, <2>7 DEF SameEntry
<1>33. \A l1 \in N : /\ l1.depth <= Len(open') + 1
                     /\ RootListsNothing => l1.depth >= 2
  <2> TAKE m \in N
  <2>1. m.depth <= Len(open') + 1
    BY <1>2, <1>6, <1>12, <1>27
  <2>2. CASE \E l1 \in M : SameEntry(l1, m)
    BY <1>22, <2>1, <2>2 DEF SameEntry
  <2>3. CASE ListsProperty(top) /\ m.depth = top.depth
    <3>1. tree[open[parent]].tag.inlist
      BY <1>10, <1>20, <2>3
    <3>2. RootListsNothing => parent # 1
      BY <1>1, <1>2, <3>1 DEF Places, RootListsNothing
    <3> QED BY <1>2, <1>6, <2>1, <2>3, <3>2
  <2> QED BY <1>27, <2>2, <2>3
<1>34. MappingFollows(Top)'
  BY <1>12, <1>21, <1>28, <1>32, <1>33 DEF MappingFollows
<1>35. (\A d \in graph : d.t.by \in ListSenders => d.at \in Closed)'
  <2>1. \A d \in Sent(n, sent) : d.at = n
    BY DEF Sent
  <2> QED BY <1>1, <1>4, <1>5, <1>9, <2>1
<1>36. ListsFollow'
  BY <1>29, <1>30, <1>31, <1>34, <1>35 DEF ListsFollow
<1>37. ListsInDocumentOrder'
  <2>1. OrderIsKept'
    BY OrderFollows, PTL
  <2> QED BY <1>34, <2>1 DEF MappingFollows, OrderIsKept
<1> QED BY <1>1, <1>36, <1>37 DEF ListInv

-----------------------------------------------------------------------------
(* The other steps list nothing.                                           *)

KeepsLists(c, e) ==
  /\ e.attrs = c.attrs /\ e.rdfa_version = c.rdfa_version
  /\ e.typed_resource = c.typed_resource
  /\ e.local_list_mappings = c.local_list_mappings
  /\ e.list_slots = c.list_slots /\ c.bnode_count <= e.bnode_count

\* A step that touches neither lists nor tree keeps what is said of them.
LEMMA ListsStay ==
  ASSUME Places, ListsTell, MappingFollows(Top),
         \A d \in graph : d.t.by \in ListSenders => d.at \in Closed,
         UNCHANGED <<open, tree>>, Listed' = Listed,
         NEW id, NEW T, graph' = graph \cup Sent(id, T),
         \A t \in T : t.by \notin ListSenders,
         open \in Seq(Nat), stack \in Seq(Contexts), stack' \in Seq(Contexts),
         Len(stack) = Len(open) + 1, Len(stack') = Len(open) + 1,
         \A i \in DOMAIN stack : KeepsLists(stack[i], stack'[i])
  PROVE  /\ Places' /\ ListsTell' /\ MappingFollows(Top)'
         /\ (\A d \in graph : d.t.by \in ListSenders => d.at \in Closed)'
<1>1. PICK c, e, L : c = Top /\ e = Top' /\ L = Listed
  OBVIOUS
<1>2. c \in Contexts /\ e \in Contexts /\ KeepsLists(c, e)
  BY <1>1 DEF Top
<1>3. /\ \A m : Below(m)' = Below(m)
      /\ \A m : HasAbout(m)' <=> HasAbout(m)
      /\ \A m : HangsInList(m)' <=> HangsInList(m)
      /\ Closed' = Closed
  BY DEF Below, Elements, HasAbout, HangsInList, Hangs, Unset, Closed
<1>4. Places'
  <2>1. Passed' = Passed
    BY DEF Passed
  <2>2. \A i \in DOMAIN open' : Len(tree') \in Below(open[i])'
    <3> TAKE i \in DOMAIN open'
    <3>1. PICK m : m = open[i]
      OBVIOUS
    <3>2. Len(tree') \in Below(m)'
      BY <1>3, <3>1 DEF Places
    <3> QED BY <3>1, <3>2
  <2> QED BY <2>1, <2>2 DEF Places
<1>5. ListsTell'
  <2> SUFFICES ASSUME NEW i \in DOMAIN open'
               PROVE  ListTold(stack[i + 1], open[i])'
    BY DEF ListsTell
  <2>1. PICK m, d : m = open'[i] /\ d = stack'[i + 1]
    OBVIOUS
  <2>2. ListTold(stack[i + 1], m) /\ tree'[m] = tree[m]
    BY <2>1 DEF ListsTell
  <2>3. KeepsLists(stack[i + 1], d)
    <3>1. i + 1 \in DOMAIN stack
      OBVIOUS
    <3> QED BY <2>1, <3>1
  <2>4. ListTold(d, m)'
    BY <2>2, <2>3, ListToldStays DEF KeepsLists
  <2> QED BY <2>1, <2>4
<1>6. PICK G, V : G = ListsIn(graph) /\ V = ValuesIn(graph)
  OBVIOUS
<1>7. Readable(graph) /\ ListsOK(c, L, G, V)
  BY <1>1, <1>6 DEF MappingFollows
<1>8. ListsIn(graph') = G /\ ValuesIn(graph') = V /\ Readable(graph')
  BY <1>6, <1>7, OtherTriples
<1>9. ListsOK(e, L, G, V)
  BY <1>2, <1>7, SameLists DEF KeepsLists
<1>10. HangingListed(e.local_list_mappings)'
  <2> SUFFICES ASSUME NEW i \in DOMAIN open', HangsInList(open[i])',
                      NEW j \in DOMAIN tree'[open'[i]].tag.rel
               PROVE  \E l \in e.local_list_mappings :
                 /\ l.key = <<tree'[open'[i]].subject, tree'[open'[i]].tag.rel[j]>>
                 /\ l.depth <= i
    BY DEF HangingListed
  <2>1. PICK m : m = open'[i]
    OBVIOUS
  <2>2. HangsInList(m)'
    BY <2>1
  <2>3. HangsInList(open[i])
    BY <1>3, <2>1, <2>2
  <2>4. HangingListed(c.local_list_mappings)
    BY <1>1 DEF MappingFollows
  <2> QED BY <1>2, <2>3, <2>4 DEF HangingListed, KeepsLists
<1>11. MappingFollows(Top)'
  <2>1. \A l \in c.local_list_mappings : /\ l.depth <= Len(open) + 1
                                         /\ RootListsNothing => l.depth >= 2
    BY <1>1 DEF MappingFollows
  <2> QED BY <1>1, <1>2, <1>8, <1>9, <1>10, <2>1 DEF MappingFollows, KeepsLists
<1>12. (\A d \in graph : d.t.by \in ListSenders => d.at \in Closed)'
  BY <1>3 DEF Sent
<1> QED BY <1>4, <1>5, <1>11, <1>12

\* Text goes to the innermost context.
LEMMA CharacterDataLists ==
  ASSUME ListInv, NEW t \in Texts, CharacterData(t)
  PROVE  ListInv'
<1> DEFINE e   == [Top EXCEPT !.plain_literal = Appended(@, <<t>>),
                              !.inner = InnerWithText(@, t)]
           run == [text |-> t, path |-> open]
<1>1. /\ RelationsInv /\ RelationsInv' /\ WordsInv /\ WordsInv' /\ Inv /\ Inv'
      /\ status = "parsing" /\ status' = "parsing"
      /\ Places /\ ListsTell /\ SpokenFollows /\ MappingFollows(Top)
      /\ \A d \in graph : d.t.by \in ListSenders => d.at \in Closed
  BY CharacterDataRelations, CharacterDataWords
  DEF ListInv, ListsFollow, CharacterData, RelationsInv
<1>2. /\ open \in Seq(Nat) /\ stack \in Seq(Contexts) /\ stack' \in Seq(Contexts)
      /\ text \in Seq([text : Texts, path : Seq(Nat)])
      /\ Len(stack) = Len(open) + 1 /\ Len(open) \in Nat /\ Len(open) > 0
      /\ Top \in Contexts
  BY <1>1, InvStack DEF StackOK, Inv, TypeOK, CharacterData
<1>3. /\ stack' = [stack EXCEPT ![Len(stack)] = e]
      /\ text' = Append(text, run)
      /\ UNCHANGED <<graph, status, open, tree>>
  BY DEF CharacterData, WithText, Top
<1>4. /\ e.attrs = Top.attrs /\ e.rdfa_version = Top.rdfa_version
      /\ e.typed_resource = Top.typed_resource
      /\ e.local_list_mappings = Top.local_list_mappings
      /\ e.list_slots = Top.list_slots /\ e.bnode_count = Top.bnode_count
      /\ e.plain_literal = Appended(Top.plain_literal, <<t>>)
  BY <1>2 DEF Contexts
<1>5. e.plain_literal # NULL
  <2>1. Top.plain_literal \in Maybe(Seq(Texts)) /\ <<t>> \in Seq(Texts)
    BY <1>2 DEF Contexts
  <2>2. PICK a : a = Top.plain_literal
    OBVIOUS
  <2>3. e.plain_literal = Appended(a, <<t>>)
    BY <1>4, <2>2
  <2>4. <<t>> # NULL
    BY <2>1, NullTextAssumption
  <2>5. CASE a = NULL
    BY <2>3, <2>4, <2>5 DEF Appended
  <2>6. CASE a # NULL
    <3>1. a \in Seq(Texts)
      BY <2>1, <2>2, <2>6 DEF Maybe
    <3>2. a \o <<t>> \in Seq(Texts)
      BY <2>1, <3>1
    <3>3. a \o <<t>> # NULL
      BY <3>2, NullTextAssumption
    <3> QED BY <2>3, <2>4, <2>6, <3>3 DEF Appended
  <2> QED BY <2>5, <2>6
<1>6. Listed' = Listed /\ \A m : Wordless(m)' <=> Wordless(m) /\ m \notin ToSet(open)
  <2>1. run \in [text : Texts, path : Seq(Nat)] /\ run.path = open
    BY <1>2
  <2> HIDE DEF run
  <2> QED BY <1>2, <1>3, <2>1, ListedByText
<1>7. PICK c : c = e
  OBVIOUS
<1>8. /\ c.plain_literal # NULL
      /\ KeepsLists(Top, c) /\ stack' = [stack EXCEPT ![Len(stack)] = c]
  <2>1. Top.bnode_count \in Nat
    BY <1>2, ListFields
  <2>2. Top.bnode_count <= c.bnode_count
    BY <1>4, <1>7, <2>1
  <2> QED BY <1>3, <1>4, <1>5, <1>7, <2>2 DEF KeepsLists
<1> HIDE DEF e, run
<1>9. /\ Len(stack') = Len(open) + 1 /\ DOMAIN stack = 1 .. Len(open) + 1
      /\ stack'[Len(open) + 1] = c /\ stack[Len(open) + 1] = Top
      /\ \A i \in DOMAIN stack : i # Len(open) + 1 => stack'[i] = stack[i]
  BY <1>2, <1>8 DEF Top
<1>10. \A i \in DOMAIN stack : KeepsLists(stack[i], stack'[i])
  <2> TAKE i \in DOMAIN stack
  <2>1. stack[i].bnode_count \in Nat
    <3>1. stack[i] \in Contexts
      BY <1>2
    <3> QED BY <3>1, ListFields
  <2>2. CASE i = Len(open) + 1
    BY <1>8, <1>9, <2>2
  <2>3. CASE i # Len(open) + 1
    BY <1>9, <2>1, <2>3 DEF KeepsLists
  <2> QED BY <2>2, <2>3
<1>11. /\ Places' /\ ListsTell' /\ MappingFollows(Top)'
       /\ (\A d \in graph : d.t.by \in ListSenders => d.at \in Closed)'
  <2>1. PICK T : T = {}
    OBVIOUS
  <2>2. graph' = graph \cup Sent(0, T) /\ \A x \in T : x.by \notin ListSenders
    BY <1>3, <2>1 DEF Sent
  <2>3. UNCHANGED <<open, tree>> /\ Listed' = Listed
    BY <1>3, <1>6
  <2>4. Len(stack) = Len(open) + 1 /\ Len(stack') = Len(open) + 1
    BY <1>2, <1>9
  <2> QED BY ONLY <1>1, <1>2, <1>10, <2>2, <2>3, <2>4, ListsStay
<1>12. SpokenFollows'
  <2> SUFFICES ASSUME NEW i \in DOMAIN open'
               PROVE  ((\E j \in i .. Len(open) : stack[j + 1].plain_literal # NULL)
                         <=> ~Wordless(open[i]))'
    BY DEF SpokenFollows
  <2>1. PICK m : m = open'[i]
    OBVIOUS
  <2>2. ~Wordless(m)'
    <3>1. m \in ToSet(open)
      BY <1>3, <2>1 DEF ToSet
    <3> QED BY <1>6, <3>1
  <2>3. Len(open) \in i .. Len(open) /\ open' = open
    BY <1>2, <1>3
  <2>4. \E j \in i .. Len(open') : stack'[j + 1].plain_literal # NULL
    BY <1>8, <1>9, <2>3
  <2> QED BY <2>1, <2>2, <2>4
<1>13. ListsFollow'
  BY <1>11, <1>12 DEF ListsFollow
<1>14. ListsInDocumentOrder'
  <2>1. OrderIsKept'
    BY OrderFollows, PTL
  <2> QED BY <1>11, <2>1 DEF MappingFollows, OrderIsKept
<1> QED BY <1>1, <1>13, <1>14 DEF ListInv

\* An action that neither reads nor starts nor ends anything, nor sends lists.
LEMMA OtherLists ==
  ASSUME ListInv, RelationsInv', WordsInv', UNCHANGED <<open, tree, text>>,
         NEW id, NEW T, graph' = graph \cup Sent(id, T),
         \A t \in T : t.by \notin ListSenders,
         status' = "ended" => UNCHANGED graph,
         status' # "ended" =>
           /\ status # "ended"
           /\ \A i \in DOMAIN stack :
                /\ KeepsLists(stack[i], stack'[i])
                /\ stack'[i].plain_literal = stack[i].plain_literal
  PROVE  ListInv'
<1>1. Listed' = Listed /\ \A n : Wordless(n)' <=> Wordless(n)
  BY ListedElsewhere
<1>2. ASSUME status' # "ended"
      PROVE  ListsFollow' /\ ListsInDocumentOrder'
  <2>1. /\ Inv /\ Inv' /\ status # "ended" /\ Places /\ ListsTell /\ SpokenFollows
        /\ MappingFollows(Top)
        /\ \A d \in graph : d.t.by \in ListSenders => d.at \in Closed
    BY <1>2 DEF ListInv, ListsFollow, RelationsInv
  <2>2. /\ open \in Seq(Nat) /\ stack \in Seq(Contexts) /\ stack' \in Seq(Contexts)
        /\ Len(stack) = Len(open) + 1 /\ Len(stack') = Len(open) + 1
        /\ Len(open) \in Nat
    BY <1>2, <2>1 DEF Inv, TypeOK, StackFollowsElements
  <2>3. \A i \in DOMAIN stack : KeepsLists(stack[i], stack'[i])
    BY <1>2
  <2>4. UNCHANGED <<open, tree>>
    OBVIOUS
  <2>5. /\ Places' /\ ListsTell' /\ MappingFollows(Top)'
        /\ (\A d \in graph : d.t.by \in ListSenders => d.at \in Closed)'
    BY ONLY <1>1, <2>1, <2>2, <2>3, <2>4, graph' = graph \cup Sent(id, T),
            \A t \in T : t.by \notin ListSenders, ListsStay
  <2>6. SpokenFollows'
    <3> SUFFICES ASSUME NEW i \in DOMAIN open'
                 PROVE  ((\E j \in i .. Len(open) : stack[j + 1].plain_literal # NULL)
                           <=> ~Wordless(open[i]))'
      BY DEF SpokenFollows
    <3>1. PICK m : m = open'[i]
      OBVIOUS
    <3>2. (\E j \in i .. Len(open) : stack[j + 1].plain_literal # NULL) <=> ~Wordless(m)
      BY <2>1, <3>1 DEF SpokenFollows
    <3>3. \A j \in i .. Len(open) : j + 1 \in DOMAIN stack
      BY <2>2
    <3>4. \A j \in i .. Len(open) :
            stack'[j + 1].plain_literal = stack[j + 1].plain_literal
      BY <1>2, <3>3
    <3>5. (\E j \in i .. Len(open) : stack'[j + 1].plain_literal # NULL)
            <=> ~Wordless(m)'
      BY <1>1, <3>2, <3>4
    <3> QED BY <3>1, <3>5
  <2>7. ListsFollow'
    BY <2>5, <2>6 DEF ListsFollow
  <2>8. ListsInDocumentOrder'
    <3>1. OrderIsKept'
      BY OrderFollows, PTL
    <3> QED BY <2>5, <3>1 DEF MappingFollows, OrderIsKept
  <2> QED BY <2>7, <2>8
<1>3. ASSUME status' = "ended"
      PROVE  ListsInDocumentOrder'
  <2>1. ListsInDocumentOrder /\ graph' = graph
    BY <1>3 DEF ListInv
  <2>2. By("list")' = By("list")
    BY <2>1 DEF By
  <2>3. \A d : ListValues(d)' = ListValues(d)
    BY <2>1, ListValuesRead
  <2>4. ASSUME NEW d \in By("list")'
        PROVE  InOrder(ListValues(d), {x \in Listed : x.key = <<d.t.s, d.t.p>>})'
    <3>1. InOrder(ListValues(d), {x \in Listed : x.key = <<d.t.s, d.t.p>>})
      BY <2>1, <2>2 DEF ListsInDocumentOrder
    <3>2. PICK v, S : v = ListValues(d) /\ S = {x \in Listed : x.key = <<d.t.s, d.t.p>>}
      OBVIOUS
    <3>3. ListValues(d)' = v /\ {x \in Listed' : x.key = <<d.t.s, d.t.p>>} = S
      BY <1>1, <2>3, <3>2
    <3> QED BY <3>1, <3>2, <3>3
  <2> QED BY <2>4 DEF ListsInDocumentOrder
<1> QED BY <1>2, <1>3 DEF ListInv

\* A report goes to the root context and is not of a list.
LEMMA ReportErrorLists ==
  ASSUME ListInv, ReportError
  PROVE  ListInv'
<1>1. /\ RelationsInv' /\ WordsInv' /\ Inv /\ status = "parsing"
      /\ status' = "parsing" /\ UNCHANGED <<open, tree, text>>
  BY ReportErrorRelations, ReportErrorWords DEF ListInv, ReportError, RelationsInv
<1>2. stack \in Seq(Contexts) /\ 1 \in DOMAIN stack
  BY <1>1, InvStack DEF StackOK
<1>3. PICK T : /\ graph' = graph \cup Sent(Len(tree), T)
               /\ \A t \in T : t.by \notin ListSenders
  <2>1. CASE HasProcessorGraph
    <3>1. Report("error", stack[1].bnode_count).by = "error"
      BY DEF Report, Triple
    <3> QED BY <2>1, <3>1 DEF ReportError, ListSenders
  <2>2. CASE ~HasProcessorGraph
    <3>1. graph' = graph \cup Sent(Len(tree), {})
      BY <2>2 DEF ReportError, Sent
    <3> QED BY <3>1
  <2> QED BY <2>1, <2>2
<1>4. ASSUME NEW i \in DOMAIN stack
      PROVE  /\ KeepsLists(stack[i], stack'[i])
             /\ stack'[i].plain_literal = stack[i].plain_literal
  <2>1. stack[i] \in Contexts /\ stack[i].bnode_count \in Nat
    BY <1>2, ListFields
  <2>2. CASE stack'[i] = stack[i]
    BY <2>1, <2>2 DEF KeepsLists
  <2>3. CASE stack'[i] # stack[i]
    <3>1. stack' = [stack EXCEPT ![1].bnode_count = @ + 2]
      BY <2>3 DEF ReportError
    <3>2. i = 1
      BY <1>2, <2>3, <3>1
    <3>3. PICK c : c = stack[i]
      OBVIOUS
    <3>4. stack'[i] = [c EXCEPT !.bnode_count = @ + 2]
      BY <1>2, <3>1, <3>2, <3>3
    <3>5. c \in Contexts /\ c.bnode_count \in Nat
      BY <2>1, <3>3
    <3>6. PICK d : d = stack'[i]
      OBVIOUS
    <3>7. /\ d.attrs = c.attrs /\ d.rdfa_version = c.rdfa_version
          /\ d.typed_resource = c.typed_resource
          /\ d.local_list_mappings = c.local_list_mappings
          /\ d.list_slots = c.list_slots /\ d.bnode_count = c.bnode_count + 2
          /\ d.plain_literal = c.plain_literal
      BY <3>4, <3>5, <3>6 DEF Contexts
    <3> QED BY <3>3, <3>5, <3>6, <3>7 DEF KeepsLists
  <2> QED BY <2>2, <2>3
<1> QED BY <1>1, <1>3, <1>4, OtherLists

\* Every step keeps the invariant.
LEMMA NextLists ==
  ASSUME ListInv, OnlyRdfa11, ResolvesOnce, ListedNamed, [Next]_vars
  PROVE  ListInv'
<1>1. RelationsInv' /\ WordsInv'
  BY NextRelations, NextWords DEF ListInv, SkipsBareElements
<1>2. ASSUME UNCHANGED <<graph, open, tree, text>>,
             status' # "ended" => status # "ended" /\ stack' = stack
      PROVE  ListInv'
  <2>1. PICK T : T = {}
    OBVIOUS
  <2>2. graph' = graph \cup Sent(0, T) /\ \A t \in T : t.by \notin ListSenders
    BY <1>2, <2>1 DEF Sent
  <2>3. UNCHANGED <<open, tree, text>> /\ (status' = "ended" => UNCHANGED graph)
    BY <1>2
  <2>4. status' # "ended" =>
          /\ status # "ended"
          /\ \A i \in DOMAIN stack :
               /\ KeepsLists(stack[i], stack'[i])
               /\ stack'[i].plain_literal = stack[i].plain_literal
    <3> SUFFICES ASSUME status' # "ended", NEW i \in DOMAIN stack
                 PROVE  /\ KeepsLists(stack[i], stack'[i])
                        /\ stack'[i].plain_literal = stack[i].plain_literal
      BY <1>2
    <3>1. stack' = stack /\ stack \in Seq(Contexts)
      BY <1>2 DEF ListInv, RelationsInv, Inv, TypeOK
    <3>2. stack[i] \in Contexts /\ stack[i].bnode_count \in Nat
      BY <3>1, ListFields
    <3> QED BY <3>1, <3>2 DEF KeepsLists
  <2> QED BY ONLY ListInv, <1>1, <2>2, <2>3, <2>4, OtherLists
<1>3. CASE ParseEnd
  BY <1>2, <1>3 DEF ParseEnd
<1>4. CASE ReadNullLiteral
  BY <1>2, <1>4 DEF ReadNullLiteral
<1>5. CASE UNCHANGED vars
  BY <1>2, <1>5 DEF vars
<1> QED
  BY <1>3, <1>4, <1>5, StartElementLists, CharacterDataLists,
     EndElementLists, ReportErrorLists
  DEF Next

\* When the document is closed no list waits: its entries belong to elements
\* that have ended.
LEMMA NothingWaits ==
  ASSUME ListInv, RootListsNothing, DocumentClosed, NEW k \in Keys, NEW v
  PROVE  Cardinality(Added(k, v)) = Cardinality(Delivered(k, v))
<1>1. /\ Inv /\ status # "ended" /\ MappingFollows(Top) /\ Len(stack) = 1
      /\ WholeInv
  BY DEF DocumentClosed, ListInv, ListsFollow, RelationsInv, WordsInv
<1>2. stack \in Seq(Contexts) /\ Len(open) = 0 /\ Top \in Contexts
  <2>1. /\ stack \in Seq(Contexts) /\ open \in Seq(Nat)
        /\ Len(stack) = Len(open) + 1
    BY <1>1 DEF Inv, TypeOK, StackFollowsElements
  <2>2. Len(open) \in Nat /\ Len(open) + 1 = 1
    BY <1>1, <2>1
  <2>3. Top \in Contexts
    BY <1>1, <2>1 DEF Top
  <2>4. Len(open) = 0
    BY ONLY <2>2
  <2> QED BY <2>1, <2>3, <2>4
<1>3. PICK L, M, G, V : L = Listed /\ M = Top.local_list_mappings
                        /\ G = ListsIn(graph) /\ V = ValuesIn(graph)
  OBVIOUS
<1>4. Ledger(L, M, G, V) /\ Readable(graph)
  BY <1>1, <1>3 DEF MappingFollows, ListsOK
<1>5. M = {}
  <2>1. \A l \in M : l.depth \in Nat
    BY <1>2, <1>3, ListFields DEF Lists
  <2>2. \A l \in M : l.depth <= 1 /\ l.depth >= 2
    BY <1>1, <1>2, <1>3 DEF MappingFollows
  <2> QED BY <2>1, <2>2
<1>6. \A e \in G : /\ e \in By("list") /\ V[e] = ListValues(e)
                   /\ V[e] \in Seq(Values)
  BY <1>3, <1>4, ListValuesRead DEF ListsIn, ValuesIn, Readable, By
<1>8. PICK added, places : added = Added(k, v) /\ places = Delivered(k, v)
  OBVIOUS
<1>9. AddedOf(added, L, k, v)
  BY <1>3, <1>8 DEF Added, AddedOf
<1>10. PlacesOf(places, G, V, k, v)
  <2>1. \A e : e \in ListsOf(k) <=> e \in G /\ KeyOf(e) = k
    BY <1>3 DEF ListsOf, ListsIn, By, KeyOf
  <2>2. \A e \in G : \A i : i \in Sends(e, v) <=> i \in DOMAIN V[e] /\ V[e][i] = v
    BY <1>6 DEF Sends
  <2>3. \A p : p \in places <=>
          \E e \in ListsOf(k) : \E i \in Sends(e, v) : p = <<e, i>>
    BY <1>8 DEF Delivered
  <2> QED BY <2>1, <2>2, <2>3 DEF PlacesOf
<1>11. Cardinality(added) = Cardinality(places)
  <2>1. Ledger(L, {}, G, V)
    BY <1>4, <1>5
  <2>2. \A e \in G : V[e] \in Seq(Values)
    BY <1>6
  <2> QED BY <1>9, <1>10, <2>1, <2>2, LedgerEmpty
<1> QED BY <1>8, <1>11

\* What is added and what is sent has a subject and a predicate.
LEMMA ListsHaveKeys ==
  ASSUME ListInv, DocumentClosed
  PROVE  /\ \A x \in Listed : x.key \in Keys
         /\ \A e \in By("list") : <<e.t.s, e.t.p>> \in Keys
<1>1. Inv /\ WholeInv /\ MappingFollows(Top)
  BY DEF DocumentClosed, ListInv, ListsFollow, RelationsInv, WordsInv
<1>2. \A x \in Listed : x.key \in Keys
  BY <1>1 DEF MappingFollows, ListsOK, Ledger, IsLedger, AdditionsOK
<1>3. ASSUME NEW e \in By("list")
      PROVE  <<e.t.s, e.t.p>> \in Keys
  <2>1. e \in graph /\ e.t.by = "list"
    BY DEF By
  <2>2. e.t.s \in Maybe(Resources) /\ e.t.p \in Maybe(Iris)
    BY <1>1, <2>1 DEF Inv, TypeOK, Triples
  <2>3. Complete(e.t)
    BY <1>1, <2>1 DEF WholeInv, TriplesAreComplete
  <2>4. e.t.s \in Resources /\ e.t.p \in Iris
    BY <2>2, <2>3 DEF Complete, Maybe
  <2> QED BY <2>4 DEF Keys
<1> QED BY <1>2, <1>3

\* Therefore each value is delivered as often as it is added.
LEMMA ListsAllDelivered ==
  ASSUME ListInv, RootListsNothing
  PROVE  ListItemsDelivered
<1> SUFFICES ASSUME DocumentClosed,
                    NEW k \in {x.key : x \in Listed}
                              \cup {<<e.t.s, e.t.p>> : e \in By("list")},
                    NEW v
             PROVE  Cardinality(Added(k, v)) = Cardinality(Delivered(k, v))
  BY DEF ListItemsDelivered
<1>1. k \in Keys
  BY ListsHaveKeys
<1> QED BY <1>1, NothingWaits

(***************************************************************************)
(* The values of every list that is sent are in the order in which the     *)
(* document adds them: a @rel's at the start tag, a @property's and then a *)
(* subject's at the end tag, whatever lists are open at the same time and  *)
(* wherever in the document their subjects and predicates come back.       *)
(* For RDFa 1.1; ResolvesOnce holds if rdfa_resolve_relrev_curie, given an *)
(* IRI, answers that IRI, and ListedNamed excludes a "_:" as the value of  *)
(* a listed property, which names a blank node only the contexts know.     *)
(***************************************************************************)
THEOREM ListsAlwaysInDocumentOrder ==
  ASSUME OnlyRdfa11, ResolvesOnce, ListedNamed
  PROVE  Spec => []ListsInDocumentOrder
<1>1. ListInv /\ [Next]_vars => ListInv'
  BY NextLists
<1>2. ListInv => ListsInDocumentOrder
  BY DEF ListInv
<1> QED BY <1>1, <1>2, InitLists, PTL DEF Spec

(***************************************************************************)
(* rdfa_complete_list_triples: when the document is closed every value     *)
(* added to a list has been sent as often as it was added, in lists of its *)
(* subject and predicate, and no list holds anything else.  The root       *)
(* element must list nothing itself: what it lists has the depth of the    *)
(* context that is left, and is never completed (lists.c:125).             *)
(***************************************************************************)
THEOREM ListItemsAlwaysDelivered ==
  ASSUME OnlyRdfa11, ResolvesOnce, ListedNamed, RootListsNothing
  PROVE  Spec => []ListItemsDelivered
<1>1. ListInv /\ [Next]_vars => ListInv'
  BY NextLists
<1>2. ListInv => ListItemsDelivered
  BY ListsAllDelivered
<1> QED BY <1>1, <1>2, InitLists, PTL DEF Spec
=============================================================================
