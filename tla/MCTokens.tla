---- MODULE MCTokens ----
(* Tokens with three keys, one of them short, two rooms and two sessions.   *)
EXTENDS Tokens, TLC

CONSTANTS k1, k2, k3, h1, h2, public, notes

MCKeys == {k1, k2, k3}
MCShortKeys == {k3}
MCHandshakes == {h1, h2}
MCContainers == {public, notes}
Names == Permutations(MCHandshakes) \cup Permutations({k1, k2})
====
