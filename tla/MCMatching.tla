----------------------------- MODULE MCMatching -----------------------------
(* Small instances of Matching for TLC. *)
EXTENDS Matching, TLC

\* Every profile takes one match, the default of the provisioning seed.
OneEach == [p \in Server \cup Helper |-> 1]

\* Requesters, servers and the two preferences are interchangeable in every
\* property.
MatchSymmetry ==
  Permutations(Requester) \cup Permutations(Server) \cup Permutations(Preference)
=============================================================================
