--------------------------- MODULE MCAgentRuntime ---------------------------
(* Instance of AgentRuntime for TLC.                                       *)
EXTENDS AgentRuntime, TLC

CONSTANTS m1, m2, k1, k2

MCMessages == {m1, m2}
MessageSymmetry == Permutations(MCMessages)
=============================================================================
