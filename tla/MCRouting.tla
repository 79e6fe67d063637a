------------------------------ MODULE MCRouting -------------------------------
(* A small instance of Routing for TLC. *)
EXTENDS Routing

Paraphrase(t) == [mode |-> "paraphrased", source |-> t]
Source(t) == [mode |-> "llm", source |-> t]

\* An information flow, a meeting with an invitation and a map, a switch of
\* services whose only copy is an event child's, and the safety flow.
ShippedSlots ==
  [f \in Flow |->
    CASE f = "zone" -> <<Source("facts")>>
      [] f = "join" -> <<Paraphrase("hello"), Paraphrase("map")>>
      [] f = "switch" -> <<Paraphrase("hello")>>
      [] OTHER -> <<>>]

\* "hi" rewords "hello"; of "map", "hello" has lost a token, "facts" has the tokens
\* in another order, "twice" has one URL too many and "dash" is not clean.
TextTokens ==
  [t \in Text |->
    CASE t \in {"hello", "hi"} -> <<"user.name">>
      [] t = "facts" -> <<"group.name", "user.name">>
      [] OTHER -> <<"user.name", "group.name">>]

TextUrls ==
  [t \in Text |->
    CASE t \in {"hello", "hi"} -> <<>>
      [] t = "twice" -> <<"map", "map">>
      [] OTHER -> <<"map">>]
=============================================================================
