-------------------------- MODULE MessageDelivery --------------------------
(***************************************************************************)
(* What a session promises to the senders of messages, without turns,      *)
(* queues, saves or crashes: a message is accepted at most once, a sender  *)
(* is told so only then, and an accepted message waits until it is         *)
(* delivered to the model, dropped by a hook or replaced by an edit; none  *)
(* of these is ever undone.                                                *)
(***************************************************************************)
CONSTANT Messages

VARIABLES
    status,     \* per message: new, queued, delivered, dropped or replaced
    told        \* messages whose sender was told `accepted'

vars == <<status, told>>

Tells(m) == told' = told \/ told' = told \cup {m}

Accept(m) ==
    /\ status[m] = "new"
    /\ status' = [status EXCEPT ![m] = "queued"]
    /\ Tells(m)

(* A message that is sent again is acknowledged again and does nothing.    *)
AcceptAgain(m) ==
    /\ status[m] # "new"
    /\ Tells(m)
    /\ UNCHANGED status

Settle(delivered, rejected) ==
    /\ \A m \in delivered \cup rejected : status[m] = "queued"
    /\ status' = [m \in Messages |->
                    CASE m \in rejected -> "dropped"
                      [] m \in delivered -> "delivered"
                      [] OTHER -> status[m]]
    /\ UNCHANGED told

Edit(old, new) ==
    /\ status[old] = "queued"
    /\ status[new] = "new"
    /\ status' = [status EXCEPT ![old] = "replaced", ![new] = "queued"]
    /\ UNCHANGED told

Init ==
    /\ status = [m \in Messages |-> "new"]
    /\ told = {}

Next ==
    \/ \E m \in Messages : Accept(m) \/ AcceptAgain(m)
    \/ \E delivered \in SUBSET Messages : \E rejected \in SUBSET (Messages \ delivered) :
         Settle(delivered, rejected)
    \/ \E old, new \in Messages : Edit(old, new)

Spec == Init /\ [][Next]_vars

=============================================================================
