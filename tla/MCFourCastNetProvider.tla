---- MODULE MCFourCastNetProvider ----
(* FourCastNetProvider with two calls at a time, two payloads and two contents. *)
EXTENDS FourCastNetProvider, TLC

CONSTANTS c1, c2, i1, i2, good, bad, point, other
MCCalls == {c1, c2}
MCIds == {i1, i2}
MCBodies == {good, bad}
MCDecodable == {good}
MCKeys == {point, other}
MCRequests == {[kind |-> "forecast", key |-> point], [kind |-> "inference", key |-> point],
               [kind |-> "inference", key |-> other]}
Symmetry == Permutations(MCCalls) \union Permutations(MCIds)
====
