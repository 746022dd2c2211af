------------------------- MODULE MCCheckpointStore -------------------------
(* Two sessions, two connections and two item objects: enough for a        *)
(* session to be deleted and recreated behind the back of a connection     *)
(* that remembers it.                                                      *)
EXTENDS CheckpointStore, TLC

CONSTANTS s1, s2, k1, k2, a, b, i1, i2

MCSessions == {s1, s2}
MCConns == {k1, k2}
MCItems == {i1, i2}
MCValue == [i \in MCItems |-> IF i = i1 THEN a ELSE b]
MCCheckpoints ==
    [sequence : 0..1, epoch : {0}, context : {<<>>, <<i1>>, <<i2>>, <<i1, i2>>}]
        \cup [sequence : {1}, epoch : {1}, context : {<<>>, <<i2>>}]
ConnSymmetry == Permutations(MCConns)
=============================================================================
