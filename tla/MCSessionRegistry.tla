------------------------- MODULE MCSessionRegistry -------------------------
(* A chat and the session of a routine run compete for the only place.    *)
EXTENDS SessionRegistry, TLC

CONSTANTS s1, r1, c1, c2, o1, o2, o3

MCSessions == {s1, r1}
MCRoutines == {r1}
MCClients == {c1, c2}
MCOwners == {o1, o2, o3}
MCSymmetry == Permutations(MCClients) \cup Permutations(MCOwners)
=============================================================================
