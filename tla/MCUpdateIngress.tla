-------------------------- MODULE MCUpdateIngress --------------------------
(* Small instances of UpdateIngress for TLC: every value is a model value  *)
(* or a number, given in the configurations.                               *)
EXTENDS UpdateIngress
=============================================================================
