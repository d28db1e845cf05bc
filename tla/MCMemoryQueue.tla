---- MODULE MCMemoryQueue ----
(* MemoryQueue with two workers, three keys and two priorities. *)
EXTENDS MemoryQueue, TLC

CONSTANTS c1, c2, k1, k2, k3
MCClients == {c1, c2}
MCKeys == {k1, k2, k3}
MCRanks == {0, 10}
Symmetry == Permutations(MCClients) \union Permutations(MCKeys)
====
