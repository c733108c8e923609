----------------------------- MODULE MCLifeCycle -----------------------------
(***************************************************************************)
(* Documents for RdfaLifeCycle: every document type with every kind of     *)
(* base, a document without a head, one that is not well formed, one that  *)
(* is cut off, one with an end tag too many, and an empty one.             *)
(***************************************************************************)
EXTENDS RdfaLifeCycle

Heads ==
  {doctype \o <<"html">> \o thebase \o <<"headend">> :
     doctype \in {<< >>, <<"dtd10">>, <<"dtd11">>},
     thebase \in {<< >>, <<"base">>, <<"emptybase">>, <<"fragmentbase">>}}

MCDocuments ==
  {head \o <<"open", "close", "close">> : head \in Heads}
  \cup {<< >>, <<"open", "open", "close", "close">>,
        <<"html", "base", "headend", "open", "bad", "close", "close">>,
        <<"dtd11", "html", "headend", "open">>,
        <<"open", "close", "close">>}

ASSUME MCHeadsFirst == HeadsFirst
=============================================================================
