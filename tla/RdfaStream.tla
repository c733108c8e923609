----------------------------- MODULE RdfaStream -----------------------------
(***************************************************************************)
(* What parsing promises, whichever calls bring the document and however   *)
(* it is cut: every tag is handled once and in order, and parsing ends. It *)
(* succeeds with the whole document handled and fails only where the XML   *)
(* is wrong; a document without a token may do either.  A base that is a   *)
(* fragment may crash it.                                                  *)
(***************************************************************************)
EXTENDS Naturals, Sequences

CONSTANTS
  Documents,         \* sequences of tokens
  IsBad(_, _),       \* the token at a position is not well formed
  IsOpen(_),         \* the document ends inside an element
  MayCrash(_)        \* its base is a fragment

VARIABLES document, handled, result

vars == <<document, handled, result>>

Init == document \in Documents /\ handled = << >> /\ result = "none"

Handle ==
  /\ result = "none" /\ Len(handled) < Len(document)
  /\ ~IsBad(document, Len(handled) + 1)
  /\ handled' = Append(handled, document[Len(handled) + 1])
  /\ UNCHANGED <<document, result>>

Succeed ==
  /\ result = "none" /\ handled = document /\ ~IsOpen(document)
  /\ result' = "success" /\ UNCHANGED <<document, handled>>

Fail ==
  /\ result = "none"
  /\ \/ Len(handled) < Len(document) /\ IsBad(document, Len(handled) + 1)
     \/ handled = document /\ (IsOpen(document) \/ document = << >>)
  /\ result' = "failed" /\ UNCHANGED <<document, handled>>

Crash ==
  /\ result = "none" /\ MayCrash(document)
  /\ result' = "crashed" /\ UNCHANGED <<document, handled>>

Next == Handle \/ Succeed \/ Fail \/ Crash

Spec == Init /\ [][Next]_vars /\ WF_vars(Next)
=============================================================================
