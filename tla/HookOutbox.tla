----------------------------- MODULE HookOutbox -----------------------------
(***************************************************************************)
(* Bots, routines and hook events of the gateway (bots.rs, bots/events.rs, *)
(* bots/storage.rs, host/bot_events.rs, host/routines.rs, host/deletion.rs *)
(* and the actor of a routine's chat).                                     *)
(*                                                                         *)
(* A lifecycle fact (a timer that fell due, a run that ended, a finished   *)
(* turn, a deleted chat) is recorded as a hook event; the transaction that *)
(* records it also puts one row per matching binding in the outbox.  One   *)
(* worker carries the rows out: it sends a report, sends a message to a    *)
(* chat or starts a routine, whose effects are facts in turn.  Facts of a  *)
(* chat live in the checkpoint database, everything else in the Bot        *)
(* database: no transaction covers both, and the gateway may die between   *)
(* any two of them.                                                        *)
(*                                                                         *)
(* One Bot is modelled.  Times are abstracted: a timer may fall due, and a *)
(* retry delay may pass, at any moment.  A cancelled run is a failed one.  *)
(***************************************************************************)
EXTENDS Naturals, FiniteSets, Sequences, SequencesExt, Functions

CONSTANTS
    Chats,          \* chats of the Bot that can be watched, messaged, deleted
    Routines,       \* the Bot's routines
    Bindings,       \* hook bindings, all of them enabled at first
    Watches,        \* the <<source, kind>> that a binding selects
    Acts,           \* its action: Report, a chat (a message) or a routine (start)
    Report,         \* the action that reports to the Bot's main conversation
    None,
    MaxAncestry,    \* MAX_HOOK_ANCESTRY
    MaxInputs,      \* due timers, runs started by clients and turns of users
    MaxTroubles     \* deletions, crashes, failing steps, aborted turns, stopping actors

Sources == Chats \cup Routines \cup Bindings
Kinds == {"due", "started", "skipped", "finished", "turn", "deleted"}
RunStatuses == {"running", "skipped", "succeeded", "failed"}

(* The id of an event names its fact; a row is a pair of event and binding. *)
EventIds ==
    ({"due"} \X Bindings \X Nat) \cup ({"turn"} \X Chats \X Nat) \cup
    ({"run"} \X Nat \X RunStatuses) \cup ({"deleted"} \X Chats \X Nat)
Rows == EventIds \X Bindings
CauseIds == EventIds \cup Rows
Commands == Rows \cup (({"manual"} \X Nat) \X {None})

Causes == [cause : CauseIds \cup {None}, ancestry : SUBSET CauseIds]
HookEvents == [id : EventIds, source : Sources, kind : Kinds,
               cause : CauseIds \cup {None}, ancestry : SUBSET CauseIds]
RunRecords == [routine : Routines, status : RunStatuses,
               command : Commands, cause : EventIds \cup {None}]

ASSUME BindingsAreDefined ==
    /\ Watches \in [Bindings -> Sources \X Kinds]
    /\ Acts \in [Bindings -> Chats \cup Routines \cup {Report}]

(* A source says whether it is a chat, a routine or a timer.               *)
ASSUME SourcesAreDistinct == Chats \cap (Routines \cup Bindings) = {}

ASSUME NoneIsNoValue == None \notin Nat \cup HookEvents \cup Bindings \cup CauseIds

ASSUME BoundsAreDefined == MaxInputs \in Nat /\ MaxTroubles \in Nat

VARIABLES
    chats,      \* checkpoint database: the chats that exist
    journal,    \*   per chat, the causes of its finished turns
    mail,       \*   per chat, the accepted messages that have no turn yet
    receipts,   \*   ids of the accepted messages, in order, main conversation included
    outcome,    \*   per run, its execution: none, approval, completed, aborted
    closures,   \*   the closing fact of a deletion under way, or None
    events,     \* Bot database: the hook events
    outbox,     \*   per row, a pair <<event, binding>>, its state
    bound,      \*   the bindings
    cursor,     \*   per chat, the last projected journal record
    runs,       \*   the runs, oldest first
    phase,      \* memory: down, closures, closed, runs (these at startup) or up
    batch,      \*   rows that the worker has read and not yet carried out
    acting,     \*   the row it is at and how that went, or None
    deleting,   \*   the chat being deleted and how far that is, or None
    held,       \*   per routine, the run that holds its lock, or None
    actor,      \*   per run, what its actor is at; gone without an actor
    budget      \* what is left of the bounds

checkpoint == <<chats, journal, mail, receipts, outcome, closures>>
botState == <<events, outbox, bound, cursor, runs>>
memory == <<phase, batch, acting, deleting, held, actor>>
vars == <<checkpoint, botState, memory, budget>>

Spend(what) ==
    /\ budget[what] > 0
    /\ budget' = [budget EXCEPT ![what] = @ - 1]

-----------------------------------------------------------------------------
(* Facts                                                                   *)

EventOf(id) == events[id]

(* The lineage of what an event causes: the event and its own lineage,     *)
(* which no longer grows at the limit.                                     *)
Lineage(e) == e.ancestry \cup (IF Cardinality(e.ancestry) < MaxAncestry THEN {e.id} ELSE {})

(* A chat's message keeps the lineage of the action that sent it, and adds *)
(* the id of the message itself while that fits.                           *)
MessageLineage(a) ==
    LET lineage == EventOf(a[1]).ancestry \cup {a[1]}
    IN lineage \cup (IF Cardinality(lineage) = MaxAncestry THEN {} ELSE {a})

UserTurn == [cause |-> None, ancestry |-> {}]

HookEvent(id, source, kind, cause) ==
    [id |-> id, source |-> source, kind |-> kind, cause |-> cause.cause, ancestry |-> cause.ancestry]

CausedBy(id) ==
    IF id = None THEN UserTurn ELSE [cause |-> id, ancestry |-> Lineage(EventOf(id))]

Row(e, b) == <<e.id, b>>
Pending(box) == {a \in DOMAIN box : box[a] \in {"pending", "retry"}}

(* Mutant of Matched: a binding fires again on its own consequences.       *)
MatchedAgain(e) ==
    {b \in bound : Cardinality(e.ancestry) < MaxAncestry /\ Watches[b] = <<e.source, e.kind>>}

(* A binding whose action is among the causes of the event is not fired    *)
(* again: every loop of bindings ends.                                     *)
Revisited(e, b) == \E ancestor \in e.ancestry : <<ancestor, b>> \in DOMAIN outbox

Matched(e) ==
    {b \in bound : /\ Cardinality(e.ancestry) < MaxAncestry
                   /\ Watches[b] = <<e.source, e.kind>>
                   /\ ~Revisited(e, b)}

Known(e) == e.id \in DOMAIN events

(* The rows an event adds to an outbox; an event that is on record adds    *)
(* none.                                                                   *)
NewRows(e) ==
    [a \in IF Known(e) THEN {} ELSE {Row(e, b) : b \in Matched(e)} |-> "pending"]

(* Both functions, the left one where they overlap.                        *)
Over(f, g) == [x \in DOMAIN f \cup DOMAIN g |-> IF x \in DOMAIN f THEN f[x] ELSE g[x]]
Without(f, S) == Restrict(f, DOMAIN f \ S)

RecordEvent(e, box) ==
    /\ events' = Over(events, [id \in {e.id} |-> e])
    /\ outbox' = Over(box, NewRows(e))

(* The clock records that a timer fell due and moves it on, in one         *)
(* transaction.                                                            *)
PollDue(b) ==
    /\ phase = "up"
    /\ b \in bound
    /\ Watches[b] = <<b, "due">>
    /\ Spend("inputs")
    /\ RecordEvent(HookEvent(<<"due", b, budget.inputs>>, b, "due", UserTurn), outbox)
    /\ UNCHANGED <<checkpoint, bound, cursor, runs, memory>>

-----------------------------------------------------------------------------
(* Chats                                                                   *)

(* A chat finishes a turn, of a user or of a message that a hook sent; the *)
(* journal record and the execution record are one save.                   *)
FinishTurn(c) ==
    /\ phase = "up"
    /\ c \in chats
    /\ deleting = None
    /\ \/ /\ Spend("inputs")
          /\ journal' = [journal EXCEPT ![c] = Append(@, UserTurn)]
          /\ UNCHANGED mail
       \/ /\ mail[c] # <<>>
          /\ journal' = [journal EXCEPT ![c] = Append(@, Head(mail[c]))]
          /\ mail' = [mail EXCEPT ![c] = Tail(@)]
          /\ UNCHANGED budget
    /\ UNCHANGED <<chats, receipts, outcome, closures, botState, memory>>

(* The worker copies the next journal record of a chat that exists into    *)
(* the Bot database and moves the cursor, in one transaction.              *)
Project(c) ==
    /\ phase = "up"
    /\ batch = {} /\ acting = None
    /\ deleting = None
    /\ c \in chats
    /\ cursor[c] < Len(journal[c])
    /\ cursor' = [cursor EXCEPT ![c] = @ + 1]
    /\ RecordEvent(HookEvent(<<"turn", c, cursor[c] + 1>>, c, "turn", journal[c][cursor[c] + 1]),
                   outbox)
    /\ UNCHANGED <<checkpoint, bound, runs, memory, budget>>

-----------------------------------------------------------------------------
(* Runs                                                                    *)

Run(r, status, command, cause) ==
    [routine |-> r, status |-> status, command |-> command, cause |-> cause]

RunEvent(i, run) ==
    HookEvent(<<"run", i, run.status>>, run.routine,
              CASE run.status = "running" -> "started"
                [] run.status = "skipped" -> "skipped"
                [] OTHER -> "finished",
              CausedBy(run.cause))

Running(r) == {i \in DOMAIN runs : runs[i].routine = r /\ runs[i].status = "running"}
Recorded(command) == \E i \in DOMAIN runs : runs[i].command = command

(* A start is recorded with its command, the acceptance of the row that    *)
(* asked for it, if any, and its event, in one transaction.                *)
InsertRun(run, box) ==
    /\ runs' = Append(runs, run)
    /\ outcome' = Append(outcome, "none")
    /\ actor' = Append(actor, IF run.status = "running" THEN "admit" ELSE "gone")
    /\ RecordEvent(RunEvent(Len(runs) + 1, run), box)

(* The lock is tried first, without waiting.  A start that finds it taken  *)
(* is skipped, on record, when the previous run still runs, and refused    *)
(* when someone else holds the lock; `rejected' says that it failed.       *)
BeginRun(r, command, cause, box, rejected) ==
    \/ /\ Recorded(command)
       /\ rejected = FALSE
       /\ outbox' = outbox
       /\ UNCHANGED <<runs, outcome, actor, events, held>>
    \/ /\ ~Recorded(command)
       /\ held[r] # None /\ Running(r) # {}
       /\ rejected = TRUE
       /\ InsertRun(Run(r, "skipped", command, cause), box)
       /\ UNCHANGED held
    \/ /\ ~Recorded(command)
       /\ held[r] # None /\ Running(r) = {}
       /\ rejected = TRUE
       /\ outbox' = outbox
       /\ UNCHANGED <<runs, outcome, actor, events, held>>
    \/ /\ ~Recorded(command)
       /\ held[r] = None
       /\ rejected = FALSE
       /\ InsertRun(Run(r, "running", command, cause), box)
       /\ held' = [held EXCEPT ![r] = Len(runs) + 1]

(* A client starts a routine.                                              *)
StartManually(r) ==
    /\ phase = "up"
    /\ deleting = None
    /\ Spend("inputs")
    /\ \E rejected \in BOOLEAN :
           BeginRun(r, <<<<"manual", budget.inputs>>, None>>, None, outbox, rejected)
    /\ UNCHANGED <<chats, journal, mail, receipts, closures, bound, cursor,
                   phase, batch, acting, deleting>>

(* A terminal result goes on record with its event; the lock is dropped    *)
(* after that.                                                             *)
FinishRun(i, status) ==
    /\ runs' = [runs EXCEPT ![i].status = status]
    /\ RecordEvent(RunEvent(i, [runs[i] EXCEPT !.status = status]), outbox)

(* The run's chat is created and its actor takes the prompt, or the run    *)
(* fails before its turn; without room for a chat it counts as skipped.    *)
Admit(i) ==
    /\ actor[i] = "admit"
    /\ actor' = [actor EXCEPT ![i] = "turn"]
    /\ UNCHANGED <<checkpoint, botState, phase, batch, acting, deleting, held, budget>>

AdmissionFails(i) ==
    /\ actor[i] = "admit"
    /\ Spend("troubles")
    /\ \E status \in {"failed", "skipped"} : FinishRun(i, status)
    /\ actor' = [actor EXCEPT ![i] = "finished"]
    /\ UNCHANGED <<checkpoint, bound, cursor, phase, batch, acting, deleting, held>>

(* The turn stops at a tool call that needs an approval: the agent saves   *)
(* the question before the actor hears of it, and a decision reaches the   *)
(* actor before the agent saves it.                                        *)
AskApproval(i) ==
    /\ actor[i] = "turn"
    /\ outcome[i] = "none"
    /\ outcome' = [outcome EXCEPT ![i] = "approval"]
    /\ UNCHANGED <<chats, journal, mail, receipts, closures, botState, memory, budget>>

HearApproval(i) ==
    /\ actor[i] = "turn"
    /\ outcome[i] = "approval"
    /\ actor' = [actor EXCEPT ![i] = "approval"]
    /\ UNCHANGED <<checkpoint, botState, phase, batch, acting, deleting, held, budget>>

Decide(i) ==
    /\ actor[i] = "approval"
    /\ actor' = [actor EXCEPT ![i] = "deciding"]
    /\ UNCHANGED <<checkpoint, botState, phase, batch, acting, deleting, held, budget>>

ApplyDecision(i) ==
    /\ actor[i] = "deciding"
    /\ actor' = [actor EXCEPT ![i] = "turn"]
    /\ outcome' = [outcome EXCEPT ![i] = "none"]
    /\ UNCHANGED <<chats, journal, mail, receipts, closures, botState,
                   phase, batch, acting, deleting, held, budget>>

(* The agent saves how the turn ended, before the actor hears of it.       *)
EndTurn(i) ==
    /\ actor[i] = "turn"
    /\ outcome[i] = "none"
    /\ \/ outcome' = [outcome EXCEPT ![i] = "completed"] /\ UNCHANGED budget
       \/ outcome' = [outcome EXCEPT ![i] = "aborted"] /\ Spend("troubles")
    /\ actor' = [actor EXCEPT ![i] = "ended"]
    /\ UNCHANGED <<chats, journal, mail, receipts, closures, botState,
                   phase, batch, acting, deleting, held>>

ResultOf(i) == IF outcome[i] = "completed" THEN "succeeded" ELSE "failed"

ObserveEnd(i) ==
    /\ actor[i] = "ended"
    /\ FinishRun(i, ResultOf(i))
    /\ actor' = [actor EXCEPT ![i] = "finished"]
    /\ UNCHANGED <<checkpoint, bound, cursor, phase, batch, acting, deleting, held, budget>>

ReleaseLock(i) ==
    /\ actor[i] = "finished"
    /\ actor' = [actor EXCEPT ![i] = "gone"]
    /\ held' = [held EXCEPT ![runs[i].routine] = None]
    /\ UNCHANGED <<checkpoint, botState, phase, batch, acting, deleting, budget>>

(* Mutant of StopActor: every stopping actor drops its run unfinished.     *)
StopActorDropsRun(i) ==
    /\ actor[i] \in {"turn", "approval", "deciding", "ended"}
    /\ Spend("troubles")
    /\ actor' = [actor EXCEPT ![i] = "gone"]
    /\ held' = [held EXCEPT ![runs[i].routine] = None]
    /\ UNCHANGED <<checkpoint, botState, phase, batch, acting, deleting>>

(* An actor that stops (its agent died, a desktop takeover shut it down)   *)
(* fails its run.  At an approval it only lets go of the lock: the run can *)
(* be resumed.                                                             *)
StopActor(i) ==
    /\ actor[i] \in {"turn", "approval", "deciding", "ended"}
    /\ Spend("troubles")
    /\ IF actor[i] = "approval"
       THEN /\ actor' = [actor EXCEPT ![i] = "gone"]
            /\ held' = [held EXCEPT ![runs[i].routine] = None]
            /\ UNCHANGED <<runs, events, outbox>>
       ELSE /\ actor' = [actor EXCEPT ![i] = "finished"]
            /\ FinishRun(i, "failed")
            /\ UNCHANGED held
    /\ UNCHANGED <<checkpoint, bound, cursor, phase, batch, acting, deleting>>

(* Someone opens the chat of a run that waits at an approval: the run is   *)
(* resumed if the lock is free, and the chat does not open otherwise.      *)
Resume(i) ==
    /\ runs[i].status = "running"
    /\ actor[i] = "gone"
    /\ outcome[i] = "approval"
    /\ held[runs[i].routine] = None
    /\ held' = [held EXCEPT ![runs[i].routine] = i]
    /\ actor' = [actor EXCEPT ![i] = "approval"]

OpenRun(i) ==
    /\ phase = "up"
    /\ deleting = None
    /\ Resume(i)
    /\ UNCHANGED <<checkpoint, botState, phase, batch, acting, deleting, budget>>

-----------------------------------------------------------------------------
(* The worker                                                              *)

(* It reads the rows that are due, those that wait for a retry once their  *)
(* delay has passed; it is the only worker.                                *)
ReadPending ==
    /\ phase = "up"
    /\ batch = {} /\ acting = None
    /\ \E waiting \in SUBSET {a \in DOMAIN outbox : outbox[a] = "retry"} :
           batch' = Pending(outbox) \ waiting
    /\ batch' # {}
    /\ UNCHANGED <<checkpoint, botState, phase, acting, deleting, held, actor, budget>>

At(a) == phase = "up" /\ acting = None /\ a \in batch /\ deleting = None

(* Carrying a row out ends in an answer: done, or a failure that is worth  *)
(* a retry or not.                                                         *)
Answer(a, result) ==
    /\ batch' = batch \ {a}
    /\ acting' = [row |-> a, result |-> result]

(* Mutant of StillWanted: what was read is carried out.                    *)
WantedWhenRead(a) == TRUE

StillWanted(a) == a \in Pending(outbox)

(* The row was cancelled or accepted after it was read.                    *)
SkipStale(a) ==
    /\ At(a)
    /\ ~StillWanted(a)
    /\ Answer(a, "done")
    /\ UNCHANGED <<checkpoint, botState, phase, deleting, held, actor, budget>>

Target(a) == Acts[a[2]]

(* Mutant of Accept: a message is taken under a fresh id.                  *)
AcceptAgain(a) ==
    /\ receipts' = Append(receipts, a)
    /\ mail' = IF Target(a) \in Chats
               THEN [mail EXCEPT ![Target(a)] =
                        Append(@, [cause |-> a, ancestry |-> MessageLineage(a)])]
               ELSE mail

(* A message goes to the chat, or to the main conversation, under the id   *)
(* of its row: a chat that accepted the id before accepts it again without *)
(* taking the message twice.                                               *)
Accept(a) ==
    IF a \in ToSet(receipts)
    THEN UNCHANGED <<receipts, mail>>
    ELSE /\ receipts' = Append(receipts, a)
         /\ mail' = IF Target(a) \in Chats
                    THEN [mail EXCEPT ![Target(a)] =
                             Append(@, [cause |-> a, ancestry |-> MessageLineage(a)])]
                    ELSE mail

Deliver(a) ==
    /\ At(a)
    /\ StillWanted(a)
    /\ Target(a) \in chats \cup {Report}
    /\ Accept(a)
    /\ \/ Answer(a, "done") /\ UNCHANGED budget
       \/ Answer(a, "retry") /\ Spend("troubles")     \* the answer was lost
    /\ UNCHANGED <<chats, journal, outcome, closures, botState, phase, deleting, held, actor>>

(* The chat is full, busy, stopped or refuses; or it is gone.              *)
DeliveryFails(a) ==
    /\ At(a)
    /\ StillWanted(a)
    /\ Target(a) \in Chats \cup {Report}
    /\ \/ /\ Target(a) \in chats \cup {Report}
          /\ Spend("troubles")
          /\ \E result \in {"retry", "failed"} : Answer(a, result)
       \/ /\ Target(a) \notin chats \cup {Report}
          /\ Answer(a, "failed")
          /\ UNCHANGED budget
    /\ UNCHANGED <<checkpoint, botState, phase, deleting, held, actor>>

StartRoutine(a) ==
    /\ At(a)
    /\ StillWanted(a)
    /\ Target(a) \in Routines
    /\ \E rejected \in BOOLEAN :
           /\ BeginRun(Target(a), a, a[1], [outbox EXCEPT ![a] = "accepted"], rejected)
           /\ Answer(a, IF rejected THEN "failed" ELSE "done")
    /\ UNCHANGED <<chats, journal, mail, receipts, closures, bound, cursor, phase, deleting, budget>>

(* The row is marked by its id, which matches nothing if the row has been  *)
(* cancelled; a failure leaves an accepted row alone.  A started run has   *)
(* been admitted by then.                                                  *)
Marked(box, a, result) ==
    IF a \notin DOMAIN box THEN box
    ELSE [box EXCEPT ![a] = IF result = "done" \/ @ = "accepted" THEN "accepted" ELSE result]

Settle ==
    /\ phase = "up"
    /\ acting # None
    /\ \A i \in DOMAIN actor : actor[i] # "admit"
    /\ outbox' = Marked(outbox, acting.row, acting.result)
    /\ acting' = None
    /\ UNCHANGED <<checkpoint, events, bound, cursor, runs, phase, batch, deleting, held, actor, budget>>

-----------------------------------------------------------------------------
(* Deleting a chat                                                         *)

(* Under the exclusive lock: whatever an earlier deletion left is put in   *)
(* order first, then the closing fact is saved beside the chat, the chat   *)
(* is deleted, and the fact is moved to the Bot database.                  *)
BeginDelete(c) ==
    /\ phase = "up"
    /\ deleting = None
    /\ c \in chats
    /\ Spend("troubles")
    /\ deleting' = [chat |-> c, step |-> IF closures = None THEN "recovered" ELSE "recover"]
    /\ UNCHANGED <<checkpoint, botState, phase, batch, acting, held, actor>>

DeletionSteps == {"recover", "closed first", "recovered", "saved", "deleted", "closed"}
Deleting(step) == phase = "up" /\ deleting # None /\ deleting.step = step
DeletionAt(step) == deleting' = [deleting EXCEPT !.step = step]

SaveClosure ==
    /\ Deleting("recovered")
    /\ closures' = HookEvent(<<"deleted", deleting.chat, budget.troubles>>, deleting.chat,
                             "deleted", UserTurn)
    /\ DeletionAt("saved")
    /\ UNCHANGED <<chats, journal, mail, receipts, outcome, botState,
                   phase, batch, acting, held, actor, budget>>

DeleteChat ==
    /\ Deleting("saved")
    /\ chats' = chats \ {deleting.chat}
    /\ mail' = [mail EXCEPT ![deleting.chat] = <<>>]
    /\ DeletionAt("deleted")
    /\ UNCHANGED <<journal, receipts, outcome, closures, botState,
                   phase, batch, acting, held, actor, budget>>

(* A step of the deletion fails: it ends with an error and leaves the      *)
(* saved fact behind.                                                      *)
DeletionFails ==
    /\ phase = "up"
    /\ deleting # None
    /\ Spend("troubles")
    /\ deleting' = None
    /\ UNCHANGED <<checkpoint, botState, phase, batch, acting, held, actor>>

(* Mutant of Committed: a saved fact is published unchecked.               *)
CommittedUnchecked(fact) == TRUE

(* The saved fact is true only if its chat is gone.                        *)
Committed(fact) == fact.source \notin chats
(* The Bot database closes a source: what waited for it is cancelled, the  *)
(* closing fact is recorded, which still fires the bindings on it, and the *)
(* bindings and the cursor go, all in one transaction; a fact on record    *)
(* was closed before.                                                      *)
CloseSource(fact) ==
    LET c == fact.source
        cancelled == {a \in DOMAIN outbox : outbox[a] # "accepted" /\ EventOf(a[1]).source = c}
    IN IF Known(fact) \/ ~Committed(fact)
       THEN UNCHANGED <<events, outbox, bound, cursor>>
       ELSE /\ RecordEvent(fact, Without(outbox, cancelled))
            /\ bound' = {b \in bound : Watches[b][1] # c}
            /\ cursor' = [cursor EXCEPT ![c] = 0]

Close ==
    /\ CloseSource(closures)
    /\ UNCHANGED <<checkpoint, runs, batch, acting, held, actor, budget>>

ForgetClosures ==
    /\ closures' = None
    /\ UNCHANGED <<chats, journal, mail, receipts, outcome, botState, batch, acting, held, actor, budget>>

CloseInDeletion ==
    /\ \/ Deleting("recover") /\ DeletionAt("closed first")
       \/ Deleting("deleted") /\ DeletionAt("closed")
    /\ Close
    /\ UNCHANGED phase

ForgetInDeletion ==
    /\ \/ Deleting("closed first") /\ DeletionAt("recovered")
       \/ Deleting("closed") /\ deleting' = None
    /\ ForgetClosures
    /\ UNCHANGED phase

-----------------------------------------------------------------------------
(* Crash and startup                                                       *)

MemoryLost ==
    /\ phase' = "down"
    /\ batch' = {} /\ acting' = None /\ deleting' = None
    /\ held' = [r \in Routines |-> None]
    /\ actor' = [i \in DOMAIN actor |-> "gone"]

Crash ==
    /\ phase # "down"
    /\ Spend("troubles")
    /\ MemoryLost
    /\ UNCHANGED <<checkpoint, botState>>

Restart ==
    /\ phase = "down"
    /\ phase' = IF closures = None THEN "runs" ELSE "closures"
    /\ UNCHANGED <<checkpoint, botState, batch, acting, deleting, held, actor, budget>>

CloseAtStartup ==
    /\ phase = "closures"
    /\ phase' = "closed"
    /\ Close
    /\ UNCHANGED deleting

ForgetAtStartup ==
    /\ phase = "closed"
    /\ phase' = "runs"
    /\ ForgetClosures
    /\ UNCHANGED deleting

Interrupted == {i \in DOMAIN runs : runs[i].status = "running" /\ actor[i] = "gone"}

(* Newest first, a run that was running is resumed if it waits at an       *)
(* approval, which ends the startup with an error when the lock is taken,  *)
(* and gets the result that its execution record tells otherwise.          *)
RecoverRun ==
    /\ phase = "runs"
    /\ Interrupted # {}
    /\ LET i == CHOOSE i \in Interrupted : \A j \in Interrupted : j <= i
       IN IF outcome[i] = "approval"
          THEN /\ IF held[runs[i].routine] = None THEN Resume(i) /\ UNCHANGED <<phase, batch, acting, deleting>>
                  ELSE MemoryLost
               /\ UNCHANGED <<events, outbox, runs>>
          ELSE FinishRun(i, ResultOf(i)) /\ UNCHANGED memory
    /\ UNCHANGED <<checkpoint, bound, cursor, budget>>

Serve ==
    /\ phase = "runs"
    /\ Interrupted = {}
    /\ phase' = "up"
    /\ UNCHANGED <<checkpoint, botState, batch, acting, deleting, held, actor, budget>>

-----------------------------------------------------------------------------
Init ==
    /\ chats = Chats
    /\ journal = [c \in Chats |-> <<>>]
    /\ mail = [c \in Chats |-> <<>>]
    /\ receipts = <<>> /\ outcome = <<>>
    /\ closures = None
    /\ events = [id \in {} |-> UserTurn] /\ outbox = [a \in {} |-> "pending"]
    /\ bound = Bindings
    /\ cursor = [c \in Chats |-> 0]
    /\ runs = <<>>
    /\ phase = "up"
    /\ batch = {} /\ acting = None /\ deleting = None
    /\ held = [r \in Routines |-> None]
    /\ actor = <<>>
    /\ budget = [inputs |-> MaxInputs, troubles |-> MaxTroubles]

RunStep(i) ==
    \/ Admit(i) \/ AdmissionFails(i)
    \/ AskApproval(i) \/ HearApproval(i) \/ Decide(i) \/ ApplyDecision(i)
    \/ EndTurn(i) \/ ObserveEnd(i) \/ ReleaseLock(i) \/ StopActor(i) \/ OpenRun(i)

WorkerStep ==
    \/ ReadPending \/ Settle
    \/ \E a \in batch : SkipStale(a) \/ Deliver(a) \/ DeliveryFails(a) \/ StartRoutine(a)

DeletionStep ==
    \/ \E c \in Chats : BeginDelete(c)
    \/ SaveClosure \/ DeleteChat \/ CloseInDeletion \/ ForgetInDeletion \/ DeletionFails

Startup == Restart \/ CloseAtStartup \/ ForgetAtStartup \/ RecoverRun \/ Serve

Next ==
    \/ \E b \in Bindings : PollDue(b)
    \/ \E c \in Chats : FinishTurn(c) \/ Project(c)
    \/ \E r \in Routines : StartManually(r)
    \/ \E i \in DOMAIN runs : RunStep(i)
    \/ WorkerStep \/ DeletionStep \/ Crash \/ Startup

Spec == Init /\ [][Next]_vars

-----------------------------------------------------------------------------
TypeOK ==
    /\ chats \subseteq Chats
    /\ journal \in [Chats -> Seq(Causes)]
    /\ mail \in [Chats -> Seq(Causes)]
    /\ receipts \in Seq(Rows)
    /\ outcome \in Seq({"none", "approval", "completed", "aborted"})
    /\ closures \in HookEvents \cup {None}
    /\ DOMAIN events \subseteq EventIds /\ events \in [DOMAIN events -> HookEvents]
    /\ DOMAIN outbox \subseteq Rows
    /\ outbox \in [DOMAIN outbox -> {"pending", "retry", "failed", "accepted"}]
    /\ bound \subseteq Bindings
    /\ cursor \in [Chats -> Nat]
    /\ runs \in Seq(RunRecords)
    /\ phase \in {"down", "closures", "closed", "runs", "up"}
    /\ batch \subseteq Rows
    /\ acting \in [row : Rows, result : {"done", "retry", "failed"}] \cup {None}
    /\ deleting \in [chat : Chats, step : DeletionSteps] \cup {None}
    /\ held \in [Routines -> Nat \cup {None}]
    /\ actor \in Seq({"admit", "turn", "approval", "deciding", "ended", "finished", "gone"})
    /\ budget \in [inputs : Nat, troubles : Nat]

(* An outbox row has at most one effect, however often it is retried after *)
(* lost answers and crashes: its message is taken once, and one run, or    *)
(* one skipped run, answers its command.                                   *)
OncePerRow ==
    /\ IsInjective(receipts)
    /\ \A i, j \in DOMAIN runs : runs[i].command = runs[j].command => i = j

(* While the gateway serves, a run on record as running is the one that    *)
(* holds its routine's lock, or waits for an approval without an actor:    *)
(* no crash and no stopped actor leaves a run that would block its routine *)
(* for ever, and no two runs of a routine are at work at once.             *)
RunningIsHeld ==
    phase = "up" => \A i \in DOMAIN runs : runs[i].status = "running" =>
        \/ held[runs[i].routine] = i
        \/ actor[i] = "gone" /\ outcome[i] = "approval"

(* The closing facts on record of a chat.                                  *)
Facts(c) == {e \in Range(events) : e.source = c /\ e.kind = "deleted"}

(* A chat that exists has no closing fact; one that is gone has exactly    *)
(* one as soon as no deletion is unfinished, and then nothing of it waits  *)
(* in the outbox but what that fact itself caused, and no binding watches  *)
(* it.                                                                     *)
ClosingFacts ==
    \A c \in Chats :
        /\ c \in chats => Facts(c) = {}
        /\ c \notin chats /\ phase = "up" /\ deleting = None /\ closures = None =>
            /\ Cardinality(Facts(c)) = 1
            /\ \A a \in Pending(outbox) : EventOf(a[1]).source = c => EventOf(a[1]) \in Facts(c)
            /\ \A b \in bound : Watches[b][1] # c

(* The event that a cause names, alone or as the event of a row.           *)
CauseOf(m) == {f \in DOMAIN events : m.cause = f \/ m.cause \in {f} \X Bindings}

(* A set that has the causes of an event, their causes, and so on.         *)
HasAllCauses(S, id) == \A f \in S \cup {id} : CauseOf(events[f]) \subseteq S

(* No binding acts on a consequence of its own action, followed through    *)
(* the recorded cause of every event: loops of bindings end.               *)
ChainsEnd ==
    \A a, b \in DOMAIN outbox : a # b /\ a[2] = b[2] =>
        \E S \in SUBSET (DOMAIN events \ {a[1]}) : HasAllCauses(S, b[1])

(* What a chat's finished turns asked for is not carried out once the      *)
(* chat's closing fact is on record: a row that the worker read before is  *)
(* looked up again.                                                        *)
ClosedSourcesAreSilent ==
    [][\A a \in DOMAIN outbox \cup batch :
          LET done == \/ a \notin ToSet(receipts) /\ a \in ToSet(receipts')
                      \/ ~Recorded(a) /\ Recorded(a)'
              e == EventOf(a[1])
          IN done /\ e.kind = "turn" =>
                 ~\E f \in Range(events) : f.source = e.source /\ f.kind = "deleted"]_vars
=============================================================================
