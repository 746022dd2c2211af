---------------------------- MODULE MCHookOutbox ----------------------------
(* Instance of HookOutbox for TLC: a timer starts the routine, the end of  *)
(* a run sends a message to the chat, a finished turn of the chat starts   *)
(* the routine again, and the deletion of the chat is reported.            *)
EXTENDS HookOutbox

CONSTANTS c1, r1, b1, b2, b3, b4

MCWatches == [b \in Bindings |-> CASE b = b1 -> <<b1, "due">>
                                   [] b = b2 -> <<r1, "finished">>
                                   [] b = b3 -> <<c1, "turn">>
                                   [] b = b4 -> <<c1, "deleted">>]
MCActs == [b \in Bindings |-> CASE b = b1 -> r1 [] b = b2 -> c1 [] b = b3 -> r1 [] b = b4 -> Report]
=============================================================================
