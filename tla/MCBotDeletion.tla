--------------------------- MODULE MCBotDeletion ---------------------------
(* A chat a of the Bot below a chat p of another one, its subagent b and a *)
(* chat c that may be created; r and q are instruction files.              *)
EXTENDS BotDeletion, TLC

CONSTANTS p, a, b, c, r, q

MCSessions == {p, a, b, c}
MCParent == (p :> None) @@ (a :> p) @@ (b :> a) @@ (c :> None)
=============================================================================
