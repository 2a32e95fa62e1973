----------------------------- MODULE MCFactStore -----------------------------
(* A permissive policy without expiry, and a strict one with it.           *)
EXTENDS FactStore, TLC

MCPolicies == [allowSensitive : {TRUE}, ttl : {0, 1}] \union [allowSensitive : {FALSE}, ttl : {0}]

Symmetry == Permutations(Clients) \union Permutations(Users)
=============================================================================
