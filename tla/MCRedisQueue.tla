---- MODULE MCRedisQueue ----
(* RedisQueue with two clients, three keys and two priorities. *)
EXTENDS RedisQueue, TLC

CONSTANTS c1, c2, k1, k2, k3
MCClients == {c1, c2}
MCKeys == {k1, k2, k3}
MCRanks == {0, 10}
Symmetry == Permutations(MCClients) \union Permutations(MCKeys)
====
