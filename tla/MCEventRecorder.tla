-------------------------- MODULE MCEventRecorder --------------------------
(* Instance of EventRecorder for TLC.                                      *)
EXTENDS EventRecorder, TLC

CONSTANTS c1, c2, s1

MCClients == {c1, c2}
MCStreams == {s1}
ClientSymmetry == Permutations(MCClients)

=============================================================================
