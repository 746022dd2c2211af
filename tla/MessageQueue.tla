---------------------------- MODULE MessageQueue ----------------------------
(***************************************************************************)
(* The durable queue of accepted messages (src/src/middleware/context.rs,  *)
(* src/src/middleware/messages.rs): a sequence of items, each waiting for  *)
(* exactly one boundary.  A "turn" or "queue" item starts a turn of its    *)
(* own; a "steer" item joins the turn it names.                            *)
(***************************************************************************)
EXTENDS Naturals, Sequences, FiniteSets, SequencesExt, Subsequences

NoTurn == 0

QueueItems(M) == [id : M, boundary : {"turn", "steer", "queue"}, turn : Nat]

Item(id, boundary, turn) == [id |-> id, boundary |-> boundary, turn |-> turn]

IdsOf(q) == {q[i].id : i \in DOMAIN q}

(* Mutant of StartsTurn: queued messages never start a turn.               *)
OnlyIdleStartsTurn(item) == item.boundary = "turn"

StartsTurn(item) == item.boundary \in {"turn", "queue"}

Steers(item, turn) == item.boundary = "steer" /\ item.turn = turn

(* Messages::prepare: the boundary an arriving message waits for; a stale  *)
(* target is refused.  NoTurn as `active' means that no turn is running,   *)
(* NoTurn as `target' that the sender named none.                          *)
StaleTarget(target, active) == target # NoTurn /\ target # active

BoundaryFor(id, delivery, active) ==
    CASE active = NoTurn -> Item(id, "turn", NoTurn)
      [] active # NoTurn /\ delivery = "steer" -> Item(id, "steer", active)
      [] OTHER -> Item(id, "queue", NoTurn)

(* MessageQueue::push refuses a full queue and a duplicate.                *)
Accepts(q, id, max) == Len(q) < max /\ id \notin IdsOf(q)

(* MessageQueue::replace: the item keeps its place and its boundary.       *)
CanReplace(q, id, newId) == id \in IdsOf(q) /\ newId \notin IdsOf(q) \ {id}

Replaced(q, id, newId) ==
    [i \in DOMAIN q |-> IF q[i].id = id THEN [q[i] EXCEPT !.id = newId] ELSE q[i]]

MessagesReady(q, turn) == \E i \in DOMAIN q : Steers(q[i], turn)

StagedMessages(q, turn) == Entries(q, {i \in DOMAIN q : Steers(q[i], turn)})

Unstaged(q, turn) == Entries(q, {i \in DOMAIN q : ~Steers(q[i], turn)})

(* next_turn finds the first item that starts a turn; consume_next_turn    *)
(* removes it.                                                             *)
HasNextTurn(q) == \E i \in DOMAIN q : StartsTurn(q[i])

NextTurnIndex(q) == CHOOSE i \in DOMAIN q : StartsTurn(q[i]) /\ \A j \in 1..(i - 1) : ~StartsTurn(q[j])

NextTurn(q) == q[NextTurnIndex(q)]

ConsumeNextTurn(q) == Entries(q, DOMAIN q \ {NextTurnIndex(q)})

(* Mutant of PromoteFailedTurn: a failed turn keeps its steers.            *)
PromoteNothing(q, turn) == q

(* promote_failed_turn: steers of a turn that did not complete start turns *)
(* of their own.                                                           *)
PromoteFailedTurn(q, turn) ==
    [i \in DOMAIN q |-> IF Steers(q[i], turn) THEN Item(q[i].id, "queue", NoTurn) ELSE q[i]]

=============================================================================
