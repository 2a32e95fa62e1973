----------------------------- MODULE MCAdmission -----------------------------
(* Two servers: one that verifies keys and permissions, and one that trusts *)
(* the tenant of a header after its own authentication hook.               *)
EXTENDS Admission, TLC

MCServers ==
  {[hook |-> FALSE, keys |-> TRUE, resolver |-> TRUE, authorizer |-> TRUE],
   [hook |-> TRUE, keys |-> FALSE, resolver |-> TRUE, authorizer |-> FALSE]}

RequestSymmetry == Permutations(Requests)
=============================================================================
