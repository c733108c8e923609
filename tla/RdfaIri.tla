------------------------------ MODULE RdfaIri ------------------------------
(***************************************************************************)
(* rdfa_resolve_uri (c/curie.c): a reference is joined to the base of the  *)
(* document, and a loop removes the segments "." and ".." from the path.   *)
(*                                                                         *)
(* A path is the sequence of its segments, each with the slash before it:  *)
(* "/a/" is <<"a", "">>.  The query or fragment of a reference is its      *)
(* tail, without slashes; rdfa_iri_get_base has cut that of the base.      *)
(* Bases and absolute references have a scheme followed by "://".          *)
(***************************************************************************)
EXTENDS Naturals, Sequences, FiniteSets

CONSTANTS
  Names,             \* segments that are not empty, "." or ".."
  Hidden,            \* those of them that begin with a dot
  Hosts,             \* scheme and authority
  Tails,             \* queries and fragments; "" is none
  Bases, References  \* the inputs of an instance

Dots     == {".", ".."}
Segments == Names \cup Dots \cup {""}

ASSUME IriAssumption ==
  /\ Hidden \subseteq Names /\ "" \in Tails
  /\ Bases \subseteq [host : Hosts, path : Seq(Segments)]
  /\ References \subseteq
       [kind : {"empty", "absolute", "rooted", "relative"},
        host : Hosts, path : Seq(Segments), tail : Tails]
  /\ \A r \in References : r.kind = "relative" => r.path # << >>

VARIABLES
  base, reference,   \* the arguments
  host,              \* of the result
  rest,              \* src from sptr on
  output,            \* dest up to dptr
  pc

args == <<base, reference>>
vars == <<args, host, rest, output, pc>>

Init ==
  /\ base \in Bases /\ reference \in References
  /\ host = base.host /\ rest = << >> /\ output = << >> /\ pc = "join"

-----------------------------------------------------------------------------
(***************************************************************************)
(* The reference is absolute, has no path, begins with a slash, or         *)
(* replaces what follows the last slash of the base.  In a base without a  *)
(* path that is the slash before the host.                                 *)
(***************************************************************************)

Joined(b, r) ==
  IF r.kind = "absolute" THEN [host |-> r.host, path |-> r.path]
  ELSE IF r.kind = "empty" THEN b
  ELSE IF r.kind = "rooted" THEN [host |-> b.host, path |-> r.path]
  ELSE IF b.path = << >>
       THEN [host |-> Head(r.path), path |-> Tail(r.path)]
  ELSE [host |-> b.host,
        path |-> SubSeq(b.path, 1, Len(b.path) - 1) \o r.path]

\* A slash and a dot occur behind the scheme.
HasDots(iri) ==
  \/ iri.host \in Dots \cup Hidden
  \/ \E i \in DOMAIN iri.path : iri.path[i] \in Dots \cup Hidden

Join ==
  /\ pc = "join"
  /\ LET iri == Joined(base, reference)
     IN  /\ host' = iri.host
         /\ \/ /\ HasDots(iri)
               /\ rest' = iri.path /\ output' = << >> /\ pc' = "remove"
            \/ /\ ~HasDots(iri)
               /\ rest' = << >> /\ output' = iri.path /\ pc' = "done"
  /\ UNCHANGED args

-----------------------------------------------------------------------------
(* The loop, whose source always stands at a slash.                        *)

\* Mutant: a dot that ends the path is not recognised.
IsDotBeforeSlash(dot, path, tail) ==
  path # << >> /\ Head(path) = dot /\ Len(path) > 1

\* A dot at the end is recognised if nothing follows the path.
IsDot(dot, path, tail) ==
  path # << >> /\ Head(path) = dot /\ (Len(path) > 1 \/ tail = "")

\* Mutant: the slash in place of a dot at the end is not advanced to.
AfterDotInPlace(path) == IF Len(path) > 1 THEN Tail(path) ELSE path

\* A dot at the end leaves its slash.
AfterDot(path) == IF Len(path) > 1 THEN Tail(path) ELSE <<"">>

\* Mutant: the slash that precedes the segment stays.
WithoutLastKeepingSlash(path) ==
  IF path = << >> THEN << >>
  ELSE Append(SubSeq(path, 1, Len(path) - 1), "")

\* An empty segment takes the one before it along.
WithoutLast(path) ==
  IF path = << >> THEN << >>
  ELSE IF path[Len(path)] = "" /\ Len(path) > 1
       THEN SubSeq(path, 1, Len(path) - 2)
  ELSE SubSeq(path, 1, Len(path) - 1)

SkipDot ==
  /\ pc = "remove" /\ IsDot(".", rest, reference.tail)
  /\ rest' = AfterDot(rest)
  /\ UNCHANGED <<args, host, output, pc>>

RemoveSegment ==
  /\ pc = "remove" /\ IsDot("..", rest, reference.tail)
  /\ rest' = AfterDot(rest) /\ output' = WithoutLast(output)
  /\ UNCHANGED <<args, host, pc>>

\* Mutant: the segment is copied and stays in the source if it is the last.
CopyAllButLast ==
  /\ pc = "remove" /\ rest # << >>
  /\ \A dot \in Dots : ~IsDot(dot, rest, reference.tail)
  /\ output' = Append(output, Head(rest))
  /\ \/ Len(rest) > 1 /\ rest' = Tail(rest) /\ UNCHANGED pc
     \/ Len(rest) = 1 /\ UNCHANGED rest /\ pc' = "done"
  /\ UNCHANGED <<args, host>>

CopySegment ==
  /\ pc = "remove" /\ rest # << >>
  /\ \A dot \in Dots : ~IsDot(dot, rest, reference.tail)
  /\ output' = Append(output, Head(rest)) /\ rest' = Tail(rest)
  /\ UNCHANGED <<args, host, pc>>

\* The tail, if there is one, is copied behind the path.
CopyTail ==
  /\ pc = "remove" /\ rest = << >> /\ pc' = "done"
  /\ UNCHANGED <<args, host, rest, output>>

Next == Join \/ SkipDot \/ RemoveSegment \/ CopySegment \/ CopyTail

\* One call in one thread, which does not stop in between.
Spec == Init /\ [][Next]_vars /\ WF_vars(Next)

-----------------------------------------------------------------------------
(***************************************************************************)
(* Type correctness.  What is in the destination and what is still to come *)
(* never take more room than the joined path, for which it was allocated.  *)
(***************************************************************************)
TypeOK ==
  /\ base \in Bases /\ reference \in References
  /\ host \in Hosts \cup Segments
  /\ rest \in Seq(Segments) /\ output \in Seq(Segments)
  /\ pc \in {"join", "remove", "done"}
  /\ pc # "join" =>
       Len(output) + Len(rest) <= Len(Joined(base, reference).path)

(***************************************************************************)
(* No "." or ".." is left in the path of a resolved IRI, except at its end *)
(* where a query or fragment follows it.                                   *)
(***************************************************************************)
NoDotsLeft ==
  pc = "done" =>
    \A i \in DOMAIN output :
      output[i] \in Dots => i = Len(output) /\ reference.tail # ""

(***************************************************************************)
(* Each ".." cancels one segment, the last that no ".." before it has      *)
(* cancelled, as RFC 3986, 5.2.4, has it, which the comments A to D at     *)
(* c/curie.c:191-272 quote.  Not so for a reference relative to a base     *)
(* without a path, an empty segment in the middle of the path, or a dot    *)
(* that a query or fragment follows.                                       *)
(***************************************************************************)
Survives(path, i) ==
  /\ path[i] \notin Dots
  /\ \A j \in i + 1 .. Len(path) :
       Cardinality({k \in i + 1 .. j : path[k] = ".."})
         <= Cardinality({k \in i + 1 .. j : path[k] \notin Dots})

WithoutDots(path) ==
  LET kept == {i \in DOMAIN path : Survives(path, i)}
      nth(n) == CHOOSE i \in kept :
                  Cardinality({k \in kept : k <= i}) = n
  IN  [n \in 1 .. Cardinality(kept) |-> path[nth(n)]]
        \o (IF path # << >> /\ path[Len(path)] \in Dots
            THEN <<"">> ELSE << >>)

Plain(path) ==
  /\ \A i \in 1 .. Len(path) - 1 : path[i] # ""
  /\ path # << >> /\ path[Len(path)] \in Dots => reference.tail = ""

DotsCancelSegments ==
  LET iri == Joined(base, reference)
  IN  pc = "done" /\ Plain(iri.path)
        /\ (reference.kind = "relative" => base.path # << >>)
      => host = iri.host /\ output = WithoutDots(iri.path)

(***************************************************************************)
(* Every turn of the loop leaves it less to do, counting a dot that ends   *)
(* the path and becomes a slash, so that it ends for every input.          *)
(***************************************************************************)
Work ==
  2 * Len(rest) +
  (IF rest # << >> /\ reference.tail = "" /\ rest[Len(rest)] \in Dots
   THEN 1 ELSE 0)

LoopShrinks == [][pc = "remove" /\ pc' = "remove" => Work' < Work]_vars

(***************************************************************************)
(* rdfa_resolve_uri returns.                                               *)
(***************************************************************************)
ResolveReturns == <>(pc = "done")
=============================================================================
