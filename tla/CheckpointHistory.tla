-------------------------- MODULE CheckpointHistory --------------------------
(***************************************************************************)
(* What the checkpoint store promises its callers                          *)
(* (src/src/backend/checkpoint/mod.rs, trait CheckpointStore): every       *)
(* session has at most one current checkpoint; it is only ever replaced by *)
(* a later one that, within a context epoch, extends the context; sessions *)
(* form trees and leave the store only as whole trees.                     *)
(***************************************************************************)
EXTENDS Naturals, Sequences, SequencesExt

CONSTANTS
    Sessions,
    None        \* no checkpoint, no parent

VARIABLES
    saved,      \* the current checkpoint of each session
    parent      \* the session it was forked from

(* A checkpoint may follow another one of the same session.                *)
Follows(old, new) ==
    /\ new.sequence > old.sequence
    /\ new.epoch >= old.epoch
    /\ new.epoch = old.epoch => IsPrefix(old.context, new.context)

Save(s) ==
    /\ saved'[s] # None
    /\ saved[s] = None \/ Follows(saved[s], saved'[s])
    /\ \A t \in Sessions \ {s} : saved'[t] = saved[t]
    /\ UNCHANGED parent

Fork(s, p) ==
    /\ saved[s] = None
    /\ saved[p] # None
    /\ saved'[s] # None
    /\ saved'[s].sequence = 0
    /\ \A t \in Sessions \ {s} : saved'[t] = saved[t]
    /\ parent' = [parent EXCEPT ![s] = p]

Delete(gone) ==
    /\ \A s \in gone : saved[s] # None
    /\ \A s \in Sessions : parent[s] \in gone => s \in gone
    /\ saved' = [s \in Sessions |-> IF s \in gone THEN None ELSE saved[s]]
    /\ parent' = [s \in Sessions |-> IF s \in gone THEN None ELSE parent[s]]

Init == saved = [s \in Sessions |-> None] /\ parent = [s \in Sessions |-> None]

Next ==
    \/ \E s \in Sessions : Save(s) \/ \E p \in Sessions \ {s} : Fork(s, p)
    \/ \E gone \in SUBSET Sessions : Delete(gone)

Spec == Init /\ [][Next]_<<saved, parent>>
=============================================================================
