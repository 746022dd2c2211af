---------------------------- MODULE AgentRuntime ----------------------------
(***************************************************************************)
(* The runner of one session (src/src/agent): it admits submissions from   *)
(* the inbox, starts turns for queued messages, drives model steps, tool   *)
(* calls and approvals, and saves the checkpoint at every point from which *)
(* it must be able to go on after a crash.                                 *)
(*                                                                         *)
(* `live' is the checkpoint in the runner's memory, `disk' the saved one.  *)
(* A save is atomic (one transaction); it succeeds, or it is refused while *)
(* the runner lives on (`faults' bounds how often), or the process dies,   *)
(* which Crash covers.  `pc' names the await point the runner has reached. *)
(* Before a decision that ends or extends a turn the runner drains the     *)
(* inbox up to a cutoff it read first: "drain" with `left' submissions to  *)
(* route before it goes on at `goto'.                                      *)
(*                                                                         *)
(* Turn ids are fresh numbers.  The model provider, the hooks, the tools   *)
(* and the user choose freely.                                             *)
(***************************************************************************)
EXTENDS Checkpoint, FiniteSets

CONSTANTS
    Messages,       \* submission ids of messages and edits
    Calls,          \* tool calls the model may make
    Guarded,        \* the calls that need approval
    Interruptible,  \* the calls that newer input cancels
    IdleEnabled,    \* some middleware arms the idle timer
    InboxCapacity,  \* SUBMISSION_QUEUE_CAPACITY
    MaxPending,     \* the message queue's limit
    MaxModelSteps,  \* configured limit of model steps per turn
    RetryLimit,     \* configured stream retries of one model step
    MaxTurns,       \* bound: turns in one behaviour
    MaxSends,       \* bound: submissions in one behaviour, decisions aside
    MaxCrashes,     \* bound: crashes and disconnects
    MaxFaults       \* bound: refused saves, failed hooks and store reads

ASSUME RuntimeAssumptions ==
    /\ IsFiniteSet(Calls) /\ Guarded \subseteq Calls /\ Interruptible \subseteq Calls
    /\ IdleEnabled \in BOOLEAN
    /\ {InboxCapacity, MaxPending, MaxModelSteps} \subseteq Nat \ {0}
    /\ {RetryLimit, MaxTurns, MaxSends, MaxCrashes, MaxFaults} \subseteq Nat

VARIABLES
    pc, goto, left,     \* control
    live, disk,         \* the checkpoint in memory and the saved one
    receipts,           \* saved: ids of all messages ever accepted
    inbox,              \* submissions not yet routed
    closed,             \* every sender is gone
    work,               \* the model step or tool batch in progress
    fallback,           \* the provider has another transport to fall back to
    idleSpent,          \* the idle timer fired in this idle period
    nextTurn,           \* the next fresh turn id
    journal,            \* saved turn events
    sends, crashes, faults,
    acked,      \* history: messages whose sender was told `accepted'
    dropped,    \* history: accepted messages a hook rejected at delivery
    replaced,   \* history: accepted messages an edit replaced
    approved,   \* history: calls approved by the user or a hook
    effects     \* history: how often each call took effect

control == <<pc, goto, left>>
saved   == <<disk, receipts, journal>>
client  == <<inbox, closed, sends, crashes>>
history == <<acked, dropped, replaced, approved, effects>>
vars == <<control, live, saved, client, work, fallback, idleSpent, nextTurn, faults, history>>

(* calls: the provider's calls so far, in order; running: tool futures not *)
(* yet finished; ran: finished ones; denied: calls a hook denied; batch:   *)
(* the calls to authorise and execute together, refused: those the user    *)
(* denied; deferred: streamed calls no longer start early, and whether a   *)
(* hook already ran for one of them.                                       *)
NoWork == [calls |-> <<>>, running |-> {}, ran |-> {}, denied |-> {}, batch |-> <<>>,
           refused |-> <<>>, deferred |-> "no", endTurn |-> FALSE, retries |-> 0]

Up == pc # "down"

(* Await points at which the runner takes submissions as they come.        *)
Waiting == pc \in {"hooks", "respond", "backoff", "finish", "executing", "approval"}

Ready == MessagesReady(live.pending, live.exec.turn)

-----------------------------------------------------------------------------
(* Control and saves.                                                      *)

(* Decisions that follow a drain.                                          *)
DrainedFirst ==
    {"prepare", "hooked", "normalize", "collect", "execute", "record", "retry", "again",
     "completion", "afterStop"}

Goto(place) ==
    IF place \in DrainedFirst /\ inbox # <<>>
      THEN pc' = "drain" /\ goto' = place /\ left' = Len(inbox)
      ELSE pc' = place /\ goto' = "none" /\ left' = 0

Jump(place) == pc' = place /\ goto' = "none" /\ left' = 0

(* The top of continue_turn's loop.                                        *)
TurnLoop(ck) == IF ck.exec.phase = "completion" THEN "completion" ELSE "prepare"

Commit(new, events) ==
    /\ live' = new
    /\ disk' = new
    /\ receipts' = receipts \cup IdsOf(new.pending)
    /\ journal' = journal \o events

Fault == faults < MaxFaults /\ faults' = faults + 1

(* An error with an active execution: fail_turn follows.  The work of the  *)
(* step, with its running tool futures, is dropped.                        *)
Fails(kept) ==
    /\ Fault
    /\ live' = kept
    /\ Jump("failing")
    /\ work' = NoWork

(* Mutant of Save: a refused save leaves the new state in memory.          *)
SaveWithoutRollback(new, kept, events, place, nextWork) ==
    \/ /\ Commit(new, events)
       /\ Goto(place)
       /\ work' = nextWork
       /\ UNCHANGED faults
    \/ /\ Fails(new)
       /\ UNCHANGED saved

(* Saving `new' moves on to `place'; a refused save leaves `kept'.         *)
Save(new, kept, events, place, nextWork) ==
    \/ /\ Commit(new, events)
       /\ Goto(place)
       /\ work' = nextWork
       /\ UNCHANGED faults
    \/ /\ Fails(kept)
       /\ UNCHANGED saved

(* The runner returns, or the process dies: memory is gone.                *)
Die ==
    /\ Jump("down")
    /\ live' = disk
    /\ inbox' = <<>>
    /\ work' = NoWork
    /\ UNCHANGED saved

-----------------------------------------------------------------------------
(* The clients (AgentSender::enqueue) and the environment.                 *)

Submissions ==
    [op : {"message"}, id : Messages, delivery : {"steer", "queue"}, turn : 0..(nextTurn - 1)]
      \cup [op : {"edit"}, id : Messages, old : Messages]
      \cup [op : {"interrupt"}, turn : 1..(nextTurn - 1)]
      \cup [op : {"approval"}, call : Guarded, decision : {"approved", "denied", "abort"}]

(* Submission ids are unique; only a message is sent again under its id.   *)
Fresh(id) ==
    id \notin receipts /\ \A i \in DOMAIN inbox : inbox[i].op \in {"message", "edit"} => inbox[i].id # id

(* A full inbox answers `busy', a stopped runner `stopped'; neither leaves *)
(* a trace.  MaxSends bounds all but decisions, which the inbox bounds.    *)
Submit(s) ==
    /\ Up /\ ~closed
    /\ Len(inbox) < InboxCapacity
    /\ s.op # "approval" => sends < MaxSends
    /\ s.op = "edit" => Fresh(s.id)
    /\ inbox' = Append(inbox, s)
    /\ sends' = IF s.op = "approval" THEN sends ELSE sends + 1
    /\ UNCHANGED <<control, live, saved, closed, crashes, work, fallback, idleSpent, nextTurn,
                   faults, history>>

Disconnect ==
    /\ Up /\ ~closed
    /\ crashes < MaxCrashes
    /\ crashes' = crashes + 1
    /\ closed' = TRUE
    /\ UNCHANGED <<control, live, saved, inbox, sends, work, fallback, idleSpent, nextTurn,
                   faults, history>>

Crash ==
    /\ Up
    /\ crashes < MaxCrashes
    /\ crashes' = crashes + 1
    /\ Die
    /\ UNCHANGED <<closed, sends, fallback, idleSpent, nextTurn, faults, history>>

(* create_agent loads the checkpoint, closes what the crash interrupted in *)
(* one save, and starts the runner; a session-start hook may stop the      *)
(* resumed turn.                                                           *)
Restart ==
    /\ ~Up
    /\ LET ck == Recovered(disk)
           ended == IF Active(disk) /\ ~Active(ck) THEN <<<<"aborted", disk.exec.turn>>>> ELSE <<>>
       IN  /\ Commit(ck, ended)
           /\ \/ Active(ck) /\ Jump("stopResumed")
              \/ ck.approval # NoApproval /\ Jump("approval")
              \/ Active(ck) /\ ck.approval = NoApproval /\ Jump(TurnLoop(ck))
              \/ ~Active(ck) /\ Jump("loop")
    /\ closed' = FALSE
    /\ fallback' = TRUE
    /\ idleSpent' = FALSE
    /\ UNCHANGED <<inbox, sends, crashes, work, nextTurn, faults, history>>

(* A tool takes effect, at most once per started future.                   *)
ToolRuns(c) ==
    /\ c \in work.running
    /\ work' = [work EXCEPT !.running = @ \ {c}, !.ran = @ \cup {c}]
    /\ effects' = [effects EXCEPT ![c] = @ + 1]
    /\ UNCHANGED <<control, live, saved, client, fallback, idleSpent, nextTurn, faults,
                   acked, dropped, replaced, approved>>

-----------------------------------------------------------------------------
(* Between turns: Runner::run.                                             *)

(* start_message_turn.  The submit hook may reject the message, which then *)
(* leaves the queue with a turn that starts and aborts in one save; if     *)
(* that save is refused the begun turn stays in memory and is failed next. *)
StartTurn ==
    /\ pc = "loop"
    /\ HasNextTurn(live.pending)
    /\ nextTurn <= MaxTurns
    /\ nextTurn' = nextTurn + 1
    /\ idleSpent' = FALSE
    /\ LET t == nextTurn
           m == NextTurn(live.pending).id
       IN  \/ /\ Commit(TurnStartedBy(live, t), <<<<"started", t>>>>)
              /\ Goto("prepare")
              /\ UNCHANGED <<work, inbox, faults, dropped>>
           \/ /\ Commit([live EXCEPT !.pending = ConsumeNextTurn(@)],
                        <<<<"started", t>>, <<"aborted", t>>>>)
              /\ Jump("loop")
              /\ dropped' = dropped \cup {m}
              /\ UNCHANGED <<work, inbox, faults>>
           \/ /\ Fails([live EXCEPT !.exec = Execution(t, FALSE)])
              /\ UNCHANGED <<saved, inbox, dropped>>
           \/ /\ Fault
              /\ Die
              /\ UNCHANGED dropped
    /\ UNCHANGED <<closed, sends, crashes, fallback, acked, replaced, approved, effects>>

(* run_idle_turn: a hidden turn for the idle hooks.                        *)
StartIdleTurn ==
    /\ pc = "loop"
    /\ ~HasNextTurn(live.pending)
    /\ inbox = <<>> /\ ~closed
    /\ IdleEnabled /\ ~idleSpent
    /\ nextTurn <= MaxTurns
    /\ nextTurn' = nextTurn + 1
    /\ idleSpent' = TRUE
    /\ \/ /\ Commit([live EXCEPT !.exec = Execution(nextTurn, TRUE)], <<<<"started", nextTurn>>>>)
          /\ Goto("prepare")
          /\ UNCHANGED <<work, inbox, faults>>
       \/ Fault /\ Die
    /\ UNCHANGED <<closed, sends, crashes, fallback, history>>

(* An accepted message is in the saved queue before its sender is told; a  *)
(* sender that went away is not told at all.                               *)
Tell(m) == acked' = acked \/ acked' = acked \cup {m}

Admissible(s, turn) ==
    ~StaleTarget(s.turn, turn) /\ Accepts(live.pending, s.id, MaxPending)

WithMessage(ck, s) == [ck EXCEPT !.pending = Append(@, BoundaryFor(s.id, s.delivery, ck.exec.turn))]

AdmitIdle ==
    /\ pc = "loop"
    /\ ~HasNextTurn(live.pending)
    /\ inbox # <<>>
    /\ LET s == Head(inbox) IN
         \/ /\ s.op = "message" /\ s.id \notin receipts /\ Admissible(s, NoTurn)
            /\ Commit(WithMessage(live, s), <<>>)
            /\ Tell(s.id)
            /\ inbox' = Tail(inbox)
            /\ UNCHANGED <<control, work, faults>>
         \/ /\ s.op = "message" /\ s.id \in receipts
            /\ Tell(s.id)
            /\ inbox' = Tail(inbox)
            /\ UNCHANGED <<control, live, saved, work, faults>>
         \/ /\ s.op = "message" => s.id \notin receipts /\ ~Admissible(s, NoTurn)
            /\ inbox' = Tail(inbox)
            /\ UNCHANGED <<control, live, saved, work, faults, acked>>
         \/ /\ s.op = "message"
            /\ Fault
            /\ Die
            /\ UNCHANGED acked
    /\ UNCHANGED <<closed, sends, crashes, fallback, idleSpent, nextTurn,
                   dropped, replaced, approved, effects>>

(* The last sender is gone: an idle runner returns, a waiting turn fails.  *)
FrontendGone ==
    /\ closed /\ inbox = <<>>
    /\ \/ /\ pc = "loop" /\ ~HasNextTurn(live.pending)
          /\ Die
       \/ /\ Waiting
          /\ Jump("failing")
          /\ work' = NoWork
          /\ UNCHANGED <<live, saved, inbox>>
    /\ UNCHANGED <<closed, sends, crashes, fallback, idleSpent, nextTurn, faults, history>>

-----------------------------------------------------------------------------
(* During a turn: route_active_submission.                                 *)

Routing(op) ==
    /\ Waiting \/ pc = "drain"
    /\ inbox # <<>>
    /\ Head(inbox).op = op

Routed ==
    /\ inbox' = Tail(inbox)
    /\ IF pc = "drain"
         THEN /\ left' = left - 1
              /\ pc' = IF left = 1 THEN goto ELSE "drain"
              /\ goto' = IF left = 1 THEN "none" ELSE goto
         ELSE UNCHANGED control

CancelsOnInput(calls) == calls # <<>> /\ ToSet(calls) \subseteq Interruptible

(* A steer that arrives while only interruptible calls run cancels them at *)
(* once; their results become unknown.                                     *)
RoutedInput(steer) ==
    IF pc = "executing" /\ steer /\ CancelsOnInput(work.batch)
      THEN /\ inbox' = Tail(inbox)
           /\ Jump("record")
           /\ work' = [work EXCEPT !.running = {}]
      ELSE Routed /\ UNCHANGED work

RouteMessage ==
    /\ Routing("message")
    /\ LET s == Head(inbox) IN
         \/ /\ s.id \notin receipts /\ Admissible(s, live.exec.turn)
            /\ Commit(WithMessage(live, s), <<>>)
            /\ RoutedInput(s.delivery = "steer")
            /\ Tell(s.id)
         \/ /\ s.id \in receipts
            /\ Routed
            /\ Tell(s.id)
            /\ UNCHANGED <<live, saved, work>>
         \/ /\ s.id \notin receipts /\ ~Admissible(s, live.exec.turn)
            /\ Routed
            /\ UNCHANGED <<live, saved, work, acked>>
    /\ UNCHANGED <<closed, sends, crashes, fallback, idleSpent, nextTurn, faults,
                   dropped, replaced, approved, effects>>

(* The `edit' command of the Messages middleware.                          *)
RouteEdit ==
    /\ Routing("edit")
    /\ LET s == Head(inbox) IN
         \/ /\ CanReplace(live.pending, s.old, s.id)
            /\ Commit([live EXCEPT !.pending = Replaced(@, s.old, s.id)], <<>>)
            /\ replaced' = replaced \cup {s.old}
            /\ RoutedInput(\E i \in DOMAIN live.pending :
                              live.pending[i].id = s.old /\ live.pending[i].boundary = "steer")
         \/ /\ ~CanReplace(live.pending, s.old, s.id)
            /\ Routed
            /\ UNCHANGED <<live, saved, work, replaced>>
    /\ UNCHANGED <<closed, sends, crashes, fallback, idleSpent, nextTurn, faults,
                   acked, dropped, approved, effects>>

(* An interrupt of this turn wins over whatever the drain was for.         *)
RouteInterrupt ==
    /\ Routing("interrupt")
    /\ IF Head(inbox).turn = live.exec.turn
         THEN /\ inbox' = Tail(inbox)
              /\ Jump("abort")
              /\ work' = NoWork
         ELSE Routed /\ UNCHANGED work
    /\ UNCHANGED <<live, saved, closed, sends, crashes, fallback, idleSpent, nextTurn, faults, history>>

(* A request is named by its first call.  Only a runner that waits for     *)
(* this request takes the decision; it saves that a decision was received  *)
(* before it acts on it.                                                   *)
ExpectsApproval(call) == pc = "approval" /\ Head(live.approval.calls) = call

GuardedOf(calls)   == CallsIn(calls, Guarded)
UnguardedOf(calls) == CallsIn(calls, Calls \ Guarded)

(* Mutant of DecidedWork: a denied call stays in the batch.                *)
DenialIgnored(calls, decision) == [NoWork EXCEPT !.batch = calls]

(* What a decision leaves to execute, and what it denies.                  *)
DecidedWork(calls, decision) ==
    IF decision = "approved"
      THEN [NoWork EXCEPT !.batch = calls]
      ELSE [NoWork EXCEPT !.batch = UnguardedOf(calls), !.refused = GuardedOf(calls)]

AfterDecision(calls, decision) ==
    CASE decision = "abort" -> "abort"
      [] decision = "denied" /\ UnguardedOf(calls) = <<>> -> "recorded"
      [] OTHER -> "begin"

ApprovedBy(calls, decision) == IF decision = "approved" THEN ToSet(calls) ELSE {}

RouteApproval ==
    /\ Routing("approval")
    /\ LET s == Head(inbox)
           decided == [live EXCEPT !.approval.decided = TRUE]
           calls == live.approval.calls
       IN  \/ /\ ExpectsApproval(s.call)
              /\ inbox' = Tail(inbox)
              /\ \/ /\ Commit(decided, <<>>)
                    /\ Jump(AfterDecision(calls, s.decision))
                    /\ work' = DecidedWork(calls, s.decision)
                    /\ approved' = approved \cup ApprovedBy(calls, s.decision)
                    /\ UNCHANGED faults
                 \/ /\ Fails(decided)
                    /\ UNCHANGED <<saved, approved>>
           \/ /\ ~ExpectsApproval(s.call)
              /\ Routed
              /\ UNCHANGED <<live, saved, work, faults, approved>>
    /\ UNCHANGED <<closed, sends, crashes, fallback, idleSpent, nextTurn,
                   acked, dropped, replaced, effects>>

(* Mutant of RouteFails: the sender is told before the save.               *)
RouteFailsButTells ==
    /\ Routing("message")
    /\ acked' = acked \cup {Head(inbox).id}
    /\ inbox' = Tail(inbox)
    /\ Fails(live)
    /\ UNCHANGED <<saved, closed, sends, crashes, fallback, idleSpent, nextTurn,
                   dropped, replaced, approved, effects>>

(* Routing itself fails (the receipt cannot be read, the save is refused): *)
(* the sender gets an error and the turn fails.                            *)
RouteFails ==
    /\ Routing("message") \/ Routing("edit")
    /\ inbox' = Tail(inbox)
    /\ Fails(live)
    /\ UNCHANGED <<saved, closed, sends, crashes, fallback, idleSpent, nextTurn, history>>

-----------------------------------------------------------------------------
(* A turn: continue_turn.                                                  *)

Unchanged == <<client, fallback, idleSpent, nextTurn, history>>

(* prepare_model_phase up to its hooks: the limit on model steps, then     *)
(* stage_message_input, which saves.  A steer ends an idle turn's idleness *)
(* and the idle period.                                                    *)
StepLimit ==
    /\ pc = "prepare"
    /\ live.exec.steps >= MaxModelSteps
    /\ Jump("failing")
    /\ UNCHANGED <<live, saved, work, faults, Unchanged>>

Stage ==
    /\ pc = "prepare"
    /\ live.exec.steps < MaxModelSteps
    /\ \/ /\ ~Ready
          /\ Jump("hooks")
          /\ UNCHANGED <<live, saved, work, faults, idleSpent, dropped>>
       \/ /\ Ready
          /\ \E rejected \in SUBSET IdsOf(StagedMessages(live.pending, live.exec.turn)) :
               LET new == WithStaged(live, rejected)
                   woken == live.exec.idle /\ ~new.exec.idle
               IN  \/ /\ Commit(new, IF woken THEN <<<<"promoted", live.exec.turn>>>> ELSE <<>>)
                      /\ Jump("hooks")
                      /\ idleSpent' = IF woken THEN FALSE ELSE idleSpent
                      /\ dropped' = dropped \cup rejected
                      /\ UNCHANGED <<work, faults>>
                   \/ /\ Fails(live)
                      /\ UNCHANGED <<saved, idleSpent, dropped>>
    /\ UNCHANGED <<client, fallback, nextTurn, acked, replaced, approved, effects>>

(* The hooks return, and what they changed is saved; an error fails the    *)
(* turn.                                                                   *)
HooksDone ==
    /\ pc = "hooks"
    /\ Goto("hooked")
    /\ UNCHANGED <<live, saved, work, faults, Unchanged>>

PersistHooks ==
    /\ pc = "hooked"
    /\ \/ Jump("prepared") /\ UNCHANGED <<live, saved, work, faults>>
       \/ Save(live, live, <<>>, "prepared", work)
    /\ UNCHANGED Unchanged

(* Input that arrived meanwhile repeats the preparation; an idle turn, or  *)
(* one that a hook stops, ends here; any other opens a model step.         *)
EndsIdle == live.exec.idle /\ live.exec.steps = 0

Repeat ==
    /\ pc = "prepared"
    /\ Ready
    /\ Jump("prepare")
    /\ UNCHANGED <<live, saved, work, faults, Unchanged>>

CompleteTurn ==
    Save(Completed(live), live, <<<<"completed", live.exec.turn>>>>, "loop", NoWork)

StopPrepared ==
    /\ pc = "prepared"
    /\ ~Ready
    /\ CompleteTurn
    /\ UNCHANGED Unchanged

OpenStep ==
    LET open == [live EXCEPT !.step = TRUE]
    IN  Save(open, open, <<>>, "respond", [NoWork EXCEPT !.retries = work.retries])

StartStep ==
    /\ pc = "prepared"
    /\ ~Ready /\ ~EndsIdle
    /\ OpenStep
    /\ UNCHANGED Unchanged

-----------------------------------------------------------------------------
(* The model's response: wait_streamed_response, request_model_step.       *)

(* A response that repeats an identifier is refused, which is one of its   *)
(* failures.  That no later response of the provider takes up an old       *)
(* identifier is an assumption.                                            *)
Unused(c) == c \notin ToSet(work.calls) /\ <<"call", c>> \notin ToSet(live.context)

(* A streamed call that is safe to start is saved as pending before it     *)
(* runs; a guarded or interruptible one waits for the whole response, as   *)
(* does every call after it.                                               *)
StartStreamedTool(c) ==
    /\ pc = "respond"
    /\ work.deferred = "no"
    /\ Unused(c)
    /\ c \notin Guarded \cup Interruptible
    /\ Save([live EXCEPT !.tools = Append(@, c)], live, <<>>, "respond",
            [work EXCEPT !.calls = Append(@, c), !.running = @ \cup {c}])
    /\ UNCHANGED Unchanged

DeferStreamedTool ==
    /\ pc = "respond"
    /\ work.deferred = "no"
    /\ \E c \in Calls : Unused(c)
    /\ \E how \in {"unhooked", "hooked"} : work' = [work EXCEPT !.deferred = how]
    /\ UNCHANGED <<control, live, saved, faults, Unchanged>>

(* The response is complete: the streamed calls, then some more, of which  *)
(* hooks deny some.                                                        *)
Respond(more, denied, endTurn) ==
    /\ pc = "respond"
    /\ work.deferred # "no" => more # <<>>
    /\ work' = [work EXCEPT !.calls = @ \o more, !.denied = denied, !.endTurn = endTurn]
    /\ Goto("normalize")
    /\ UNCHANGED <<live, saved, faults, Unchanged>>

(* The response fails, or changes a call that was streamed: the step is    *)
(* retried only if no hook has run for a streamed call yet.                *)
ResponseFails ==
    /\ pc = "respond"
    /\ \/ Jump("failing") /\ work' = NoWork
       \/ Goto("retry") /\ work' = [work EXCEPT !.running = {}]
    /\ UNCHANGED <<live, saved, faults, Unchanged>>

(* Mutant of CanRetry: no limit on retries.                                *)
RetryUnlimited == work.calls = <<>> /\ work.deferred # "hooked"

CanRetry == work.calls = <<>> /\ work.deferred # "hooked" /\ (work.retries < RetryLimit \/ fallback)

(* retry_model_step closes the step in a save of its own; new input sends  *)
(* the turn back to preparation, otherwise the runner backs off.           *)
Retry ==
    /\ pc = "retry"
    /\ \/ /\ ~CanRetry
          /\ Jump("failing") /\ work' = NoWork
          /\ UNCHANGED <<live, saved, faults, fallback>>
       \/ /\ CanRetry
          /\ LET again == work.retries < RetryLimit IN
               /\ fallback' = (again /\ fallback)
               /\ Save([live EXCEPT !.step = FALSE], live, <<>>,
                       IF Ready THEN "prepare" ELSE "backoff",
                       IF Ready THEN NoWork
                                ELSE [NoWork EXCEPT !.retries = IF again THEN work.retries + 1 ELSE 0])
    /\ UNCHANGED <<client, idleSpent, nextTurn, history>>

BackedOff ==
    /\ pc = "backoff"
    /\ Goto("again")
    /\ UNCHANGED <<live, saved, work, faults, Unchanged>>

Reopen ==
    /\ pc = "again"
    /\ \/ Ready /\ Goto("prepare") /\ work' = NoWork /\ UNCHANGED <<live, saved, faults>>
       \/ ~Ready /\ OpenStep
    /\ UNCHANGED Unchanged

(* normalize_and_persist_model_step.  A refused save keeps the new state   *)
(* in memory; the turn fails from there.                                   *)
Normalize ==
    /\ pc = "normalize"
    /\ LET new == WithModelOutput(live, work.calls, work.endTurn) IN
         \/ Save(new, new, <<>>,
                 IF work.calls = <<>> THEN TurnLoop(new) ELSE "finish",
                 IF work.calls = <<>> THEN NoWork ELSE work)
         \/ Fails(live) /\ UNCHANGED saved
    /\ UNCHANGED Unchanged

-----------------------------------------------------------------------------
(* Tool calls: tool_step.rs and approval.rs.                               *)

(* The streamed calls have finished ...                                    *)
StreamedDone ==
    /\ pc = "finish"
    /\ work.running = {}
    /\ Goto("collect")
    /\ UNCHANGED <<live, saved, work, faults, Unchanged>>

(* ... their results and the denials are saved, the rest is authorised.    *)
Collect ==
    /\ pc = "collect"
    /\ LET done == CallsIn(work.calls, work.ran \cup work.denied)
           rest == CallsIn(work.calls, Calls \ (work.ran \cup work.denied))
           next == IF rest = <<>> THEN TurnLoop(live) ELSE "authorize"
       IN  IF done = <<>>
             THEN /\ Jump("authorize")
                  /\ work' = [NoWork EXCEPT !.batch = rest]
                  /\ UNCHANGED <<live, saved, faults>>
             ELSE Save(WithResults(live, done), live, <<>>, next, [NoWork EXCEPT !.batch = rest])
    /\ UNCHANGED Unchanged

(* Sandbox::authorize: without a guarded call the batch runs; otherwise a  *)
(* permission hook decides, or the request is saved and the user asked.    *)
Authorize ==
    /\ pc = "authorize"
    /\ LET calls == work.batch
           asked == [live EXCEPT !.approval = [calls |-> calls, decided |-> FALSE]]
       IN  \/ /\ GuardedOf(calls) = <<>>
              /\ Jump("begin")
              /\ UNCHANGED <<live, saved, work, faults, approved>>
           \/ /\ GuardedOf(calls) # <<>>
              /\ \E decision \in {"approved", "denied"} :
                   /\ Jump(AfterDecision(calls, decision))
                   /\ work' = DecidedWork(calls, decision)
                   /\ approved' = approved \cup ApprovedBy(calls, decision)
              /\ UNCHANGED <<live, saved, faults>>
           \/ /\ GuardedOf(calls) # <<>>
              /\ Save(asked, asked, <<>>, "approval", NoWork)
              /\ UNCHANGED approved
    /\ UNCHANGED <<client, fallback, idleSpent, nextTurn, acked, dropped, replaced, effects>>

(* execute_tools: the tools are bound, which may fail, and announced;      *)
(* interruptible calls do not start over waiting input.                    *)
BeginTools ==
    /\ pc = "begin"
    /\ \/ Goto("execute") /\ UNCHANGED <<live, work, faults>>
       \/ Fails(live)
    /\ UNCHANGED <<saved, Unchanged>>

Execute ==
    /\ pc = "execute"
    /\ IF CancelsOnInput(work.batch) /\ Ready
         THEN Jump("recorded") /\ UNCHANGED work
         ELSE /\ Jump("executing")
              /\ work' = [work EXCEPT !.running = ToSet(work.batch)]
    /\ UNCHANGED <<live, saved, faults, Unchanged>>

Executed ==
    /\ pc = "executing"
    /\ work.running = {}
    /\ Goto("record")
    /\ UNCHANGED <<live, saved, work, faults, Unchanged>>

(* complete_tool_step: results and denials enter the history, the approval *)
(* is closed in the same save.                                             *)
Record ==
    /\ pc \in {"record", "recorded"}
    /\ LET ordered == CallsIn(live.tools, ToSet(work.batch \o work.refused))
       IN  Save([WithResults(live, ordered) EXCEPT !.approval = NoApproval], live, <<>>,
                TurnLoop(live), NoWork)
    /\ UNCHANGED Unchanged

-----------------------------------------------------------------------------
(* The end of a turn.                                                      *)

(* resolve_turn_completion: waiting input takes the turn back to the model *)
(* in memory only; otherwise the stop hook runs.                           *)
Completion ==
    /\ pc = "completion"
    /\ \/ /\ Ready
          /\ live' = [live EXCEPT !.exec.phase = "model"]
          /\ Goto("prepare")
          /\ UNCHANGED <<work, faults>>
       \/ /\ ~Ready
          /\ Goto("afterStop")
          /\ UNCHANGED <<live, work, faults>>
       \/ /\ ~Ready
          /\ Fails(live)
    /\ UNCHANGED <<saved, Unchanged>>

AfterStop ==
    /\ pc = "afterStop"
    /\ LET resumed == [live EXCEPT !.exec.phase = "model"] IN
         \/ /\ Ready
            /\ live' = resumed
            /\ Goto("prepare")
            /\ UNCHANGED <<saved, work, faults>>
         \/ Save(resumed, resumed, <<>>, "prepare", NoWork)
         \/ /\ ~Ready
            /\ CompleteTurn
    /\ UNCHANGED Unchanged

(* abort_with_events after an interrupt or an aborted approval; a refused  *)
(* save restores the state and fails the turn instead.                     *)
Abort ==
    /\ pc = "abort"
    /\ Save(Aborted(live), live, <<<<"aborted", live.exec.turn>>>>, "loop", NoWork)
    /\ UNCHANGED Unchanged

(* Mutant of FailTurn: the runner goes on after a refused save.            *)
FailTurnSwallowsError ==
    /\ pc \in {"failing", "stopResumed"}
    /\ \/ /\ Commit(Aborted(live), <<<<"aborted", live.exec.turn>>>>)
          /\ UNCHANGED faults
       \/ /\ Fault
          /\ live' = Aborted(live)
          /\ UNCHANGED saved
    /\ Jump("loop")
    /\ UNCHANGED <<work, client, fallback, idleSpent, nextTurn, history>>

(* fail_turn, and stop_resumed_turn_at_session_start: if the save is       *)
(* refused here the runner returns the error.                              *)
FailTurn ==
    /\ pc \in {"failing", "stopResumed"}
    /\ \/ /\ Commit(Aborted(live), <<<<"aborted", live.exec.turn>>>>)
          /\ Jump("loop")
          /\ UNCHANGED <<work, faults, inbox>>
       \/ Fault /\ Die
    /\ UNCHANGED <<closed, sends, crashes, fallback, idleSpent, nextTurn, history>>

-----------------------------------------------------------------------------
Init ==
    /\ pc = "loop" /\ goto = "none" /\ left = 0
    /\ live = EmptyCheckpoint /\ disk = EmptyCheckpoint
    /\ receipts = {} /\ journal = <<>>
    /\ inbox = <<>> /\ closed = FALSE
    /\ work = NoWork /\ fallback = TRUE /\ idleSpent = FALSE
    /\ nextTurn = 1
    /\ sends = 0 /\ crashes = 0 /\ faults = 0
    /\ acked = {} /\ dropped = {} /\ replaced = {} /\ approved = {}
    /\ effects = [c \in Calls |-> 0]

BetweenTurns == StartTurn \/ StartIdleTurn \/ AdmitIdle

Route == RouteMessage \/ RouteEdit \/ RouteInterrupt \/ RouteApproval \/ RouteFails

ModelStep ==
    \/ StepLimit \/ Stage \/ HooksDone \/ PersistHooks \/ Repeat \/ StopPrepared \/ StartStep
    \/ \E c \in Calls : StartStreamedTool(c)
    \/ DeferStreamedTool
    \/ \E more \in SetToAllKPermutations({c \in Calls : Unused(c)}), endTurn \in BOOLEAN :
         \E denied \in SUBSET ToSet(more) : Respond(more, denied, endTurn)
    \/ ResponseFails \/ Retry \/ BackedOff \/ Reopen \/ Normalize

ToolStep ==
    StreamedDone \/ Collect \/ Authorize \/ BeginTools \/ Execute \/ Executed \/ Record

EndOfTurn == Completion \/ AfterStop \/ Abort \/ FailTurn

Runner == BetweenTurns \/ FrontendGone \/ Route \/ ModelStep \/ ToolStep \/ EndOfTurn

Environment ==
    \/ \E s \in Submissions : Submit(s)
    \/ Disconnect \/ Crash

Next == Runner \/ (\E c \in Calls : ToolRuns(c)) \/ Restart \/ Environment

Spec == Init /\ [][Next]_vars

(* The runner is a task that is polled whenever it can move, a started     *)
(* tool ends, and the host opens the session again after the runner ended. *)
(* Nothing is assumed of the clients: no approval need ever come.          *)
Fairness ==
    /\ WF_vars(Runner)
    /\ \A c \in Calls : WF_vars(ToolRuns(c))
    /\ WF_vars(Restart)

FairSpec == Spec /\ Fairness

-----------------------------------------------------------------------------
Checkpoints == CheckpointsOf(Messages, Calls)

(* Submissions that were possible at some time.                            *)
Requests ==
    [op : {"message"}, id : Messages, delivery : {"steer", "queue"}, turn : Nat]
      \cup [op : {"edit"}, id : Messages, old : Messages]
      \cup [op : {"interrupt"}, turn : Nat]
      \cup [op : {"approval"}, call : Guarded, decision : {"approved", "denied", "abort"}]

Works ==
    [calls : Seq(Calls), running : SUBSET Calls, ran : SUBSET Calls, denied : SUBSET Calls,
     batch : Seq(Calls), refused : Seq(Calls), deferred : {"no", "unhooked", "hooked"},
     endTurn : BOOLEAN, retries : Nat]

Places ==
    {"down", "loop", "prepare", "hooks", "hooked", "prepared", "respond", "normalize", "retry",
     "backoff", "again", "finish", "collect", "authorize", "approval", "begin", "execute",
     "executing", "record", "recorded", "completion", "afterStop", "abort", "failing",
     "stopResumed"}

(* The variables have their types.                                         *)
TypeOK ==
    /\ live \in Checkpoints /\ disk \in Checkpoints
    /\ receipts \subseteq Messages /\ acked \subseteq Messages
    /\ dropped \subseteq Messages /\ replaced \subseteq Messages
    /\ approved \subseteq Calls /\ effects \in [Calls -> Nat]
    /\ journal \in Seq({"started", "promoted", "completed", "aborted"} \X Nat)
    /\ inbox \in Seq(Requests) /\ Len(inbox) <= InboxCapacity
    /\ IF pc = "drain" THEN goto \in DrainedFirst /\ left \in 1..Len(inbox)
                       ELSE pc \in Places /\ goto = "none" /\ left = 0
    /\ closed \in BOOLEAN /\ fallback \in BOOLEAN /\ idleSpent \in BOOLEAN
    /\ nextTurn \in Nat \ {0} /\ sends \in Nat /\ crashes \in Nat /\ faults \in Nat
    /\ work \in Works

Times(seq, x) == Cardinality({i \in DOMAIN seq : seq[i] = x})

TimesQueued(m) == Cardinality({i \in DOMAIN disk.pending : disk.pending[i].id = m})

(* What became of an accepted message, counted over the saved state.       *)
Fates(m) ==
    TimesQueued(m) + Times(disk.context, <<"message", m>>)
      + (IF m \in dropped THEN 1 ELSE 0) + (IF m \in replaced THEN 1 ELSE 0)

(* A message that was accepted is, at every moment and so after every      *)
(* crash, either still queued or delivered to the model or dropped by a    *)
(* hook or replaced by an edit, exactly one of these and exactly once;     *)
(* one that was not accepted is nowhere.  Resent, steered, promoted and    *)
(* edited messages and refused saves included.                             *)
ExactlyOnce ==
    \A m \in Messages : Fates(m) = IF m \in receipts THEN 1 ELSE 0

(* A sender is told `accepted' only about a message that is on disk.       *)
AckedDurable == acked \subseteq receipts

(* A steer that waits in the queue, in memory or on disk, waits for the    *)
(* turn that is active there: completing a turn, which promotes nothing,   *)
(* never leaves one behind that no later turn would pick up.               *)
SteersHaveTheirTurn ==
    \A ck \in {live, disk} : \A i \in DOMAIN ck.pending :
        ck.pending[i].boundary = "steer" => Active(ck) /\ ck.pending[i].turn = ck.exec.turn

(* What became of a message, as the saved state tells it.                  *)
StatusOf(m) ==
    CASE m \in dropped -> "dropped"
      [] m \in replaced -> "replaced"
      [] <<"message", m>> \in ToSet(disk.context) -> "delivered"
      [] m \in IdsOf(disk.pending) -> "queued"
      [] OTHER -> "new"

Delivery == INSTANCE MessageDelivery
              WITH status <- [m \in Messages |-> StatusOf(m)], told <- acked

(* The runner, with its turns, saves, failures and restarts, implements    *)
(* MessageDelivery: no step undoes or repeats what became of a message.    *)
DeliveryRefined == Delivery!Spec

(* No tool call takes effect twice: not by being streamed and then run     *)
(* with the batch, not by a retry of the model step, not after a restart.  *)
EffectAtMostOnce == \A c \in Calls : effects[c] <= 1

(* A call that took effect is never forgotten: it is pending on disk or    *)
(* has its result in the saved history.                                    *)
EffectOnRecord ==
    \A c \in Calls :
        effects[c] > 0 => Contains(disk.tools, c) \/ Contains(disk.context, <<"output", c>>)

(* A call that needs approval takes effect only after an approval.         *)
GuardedNeedsApproval == \A c \in Guarded : effects[c] > 0 => c \in approved

(* What validate_checkpoint asks of a checkpoint, and what a restart relies *)
(* on: pending calls, an open step and an approval need an active          *)
(* execution that is not completing, an approval covers exactly the        *)
(* pending calls, and no message is queued twice.                          *)
Validated(ck) ==
    /\ ck.tools # <<>> \/ ck.step \/ ck.approval # NoApproval
         => Active(ck) /\ ck.exec.phase = "model"
    /\ ck.approval # NoApproval => ck.approval.calls = ck.tools /\ ~ck.step
    /\ Cardinality(IdsOf(ck.pending)) = Len(ck.pending)

(* Every saved checkpoint can be loaded again and its history sent to the  *)
(* provider: it is valid, a call appears once, its output once and after   *)
(* it, and a call still open is pending.                                   *)
HistoryWellFormed ==
    /\ Validated(disk)
    /\ \A c \in Calls :
          LET calls == {i \in DOMAIN disk.context : disk.context[i] = <<"call", c>>}
              outs  == {i \in DOMAIN disk.context : disk.context[i] = <<"output", c>>}
          IN  /\ Cardinality(calls) <= 1 /\ Cardinality(outs) <= Cardinality(calls)
              /\ \A i \in calls, j \in outs : i < j
              /\ calls # {} /\ outs = {} => Contains(disk.tools, c) /\ Active(disk)

Ends(t) == Cardinality({i \in DOMAIN journal : journal[i] \in {<<"completed", t>>, <<"aborted", t>>}})

Starts(t) == Times(journal, <<"started", t>>)

(* The saved turn events tell one story: a turn starts at most once and    *)
(* ends at most once, and the only turn without an end is the one active   *)
(* on disk.                                                                *)
TurnEvents ==
    \A t \in 1..(nextTurn - 1) :
        /\ Starts(t) <= 1 /\ Ends(t) <= 1
        /\ Starts(t) = 1 /\ Ends(t) = 0 <=> disk.exec.turn = t

(* Nothing is kept in memory only once a turn is over, and what an         *)
(* approval waits for is on disk.                                          *)
QuiescentIsDurable == pc \in {"loop", "approval"} => live = disk

(* A turn that needs no approval ends, through steers, retries, stop hooks *)
(* and restarts: nothing keeps it going or waiting for ever.               *)
EveryTurnEnds == Active(disk) ~> ~Active(disk)

(* An accepted message leaves the queue: each is delivered, dropped by a   *)
(* hook or replaced, also if its turn fails, the runner stops or crashes.  *)
EveryMessageLeaves == \A m \in Messages : m \in IdsOf(disk.pending) ~> m \notin IdsOf(disk.pending)

=============================================================================
