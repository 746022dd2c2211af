------------------------ MODULE MCBackgroundCommands ------------------------
(* Three commands and two sessions on a table of two entries: enough for a *)
(* full table, an eviction and a foreign owner.                            *)
EXTENDS BackgroundCommands

CONSTANTS s1, s2, c1, c2, c3

MCSessions == {s1, s2}
MCCommands == {c1, c2, c3}
MCOwner == [c \in MCCommands |-> IF c = c3 THEN s2 ELSE s1]
=============================================================================
