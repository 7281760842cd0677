----------------------------- MODULE MCPubSub -----------------------------
(* A worker with two clients, two topics and two patterns, one of which    *)
(* matches both topics.                                                    *)
EXTENDS PubSub, TLC

CONSTANTS c1, c2, t1, t2, p1, p2

MCMatches == (p1 :> {t1, t2}) @@ (p2 :> {t2})

MCSymmetry == Permutations(Clients)
============================================================================
