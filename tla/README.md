# TLA+ models of mobius

mobius is a framework for AI agents (`src/src`), a gateway that hosts many agent
sessions for remote clients (`src/crates/mobius-gateway`) and a terminal client
(`src/crates/mobius-cli`). This directory holds TLA+ models of its core, the TLC
configurations that check them on small instances, and TLAPS proofs.

## 1. Inventory

**Event recorder** (`agent/recorder.rs`). One task per session through which every
event and every checkpoint reaches the store and then the frontend. State: a bounded
command queue, a byte semaphore, the stream batch not yet stored, the last stream key,
a terminal error, the sending end of the event channel. Operations: `record`,
`try_record`, `save`, `flush`; the loop of `run_recorder` with its batch deadline.
Hard: callers that are cancelled at any await, acknowledgement before durability,
errors nobody waits for, a slow or absent frontend, shutdown. Correct when the journal
keeps the order of admission, a barrier means durability, no permit leaks and every
call returns.

**Agent runner** (`agent/mod.rs`, `input.rs`, `turn.rs`, `turn/`, `startup.rs`). One
task per session. State: the checkpoint in memory, the inbox of submissions, the
phase of the turn. Operations: admit or route a submission, start a turn, stage
steers, open, retry, normalise and close a model step, complete, abort or fail a turn,
recover at start. Hard: submissions arrive at every await; a save may be refused after
memory has changed; the process may die anywhere. Correct when every accepted message
has exactly one fate, the journal tells one story per turn, memory and disk agree
whenever the runner is at rest, and every turn ends.

**Tools and approvals** (`agent/tool_step.rs`, `agent/approval.rs`,
`turn/streaming.rs`). Calls start while the response still streams, or in a batch
after it; some need approval by the user or a hook; newer input cancels some. Correct
when a call takes effect at most once, never without its approval, is never forgotten,
and the history pairs each call with one output.

**Message queue** (`middleware/messages.rs`, `middleware/context.rs`). The durable
sequence of accepted messages; each waits for the next idle moment, for a turn of its
own, or for the turn that it steers. Correct when nothing is lost between boundaries.

**Checkpoint store** (`backend/checkpoint`). One SQLite transaction per save stores
the checkpoint, the receipts of queued messages, transcript, execution record and
events. State: a header row and one row per context item of each session, a pool of
connections, each with hints about what it wrote last. Hard: stale owners, hints that
another connection made wrong, context epochs, fork, deletion of session trees.
Correct when a load returns what was last acknowledged and a later checkpoint is never
overwritten by an earlier one.

**Background commands** (`backend/sandbox/background.rs`). A bounded table of commands
that outlive the tool call which started them. Hard: two bits decide between a poll's
answer and a completion notice while the task runs on another thread; callers are
dropped at awaits; eviction. Correct when each result reaches its owner, once, and
nothing runs on unknown to the table.

**Other framework parts.** Sandbox isolation, model providers and their transports,
subagents, compaction, delivery-once receipts, further middleware, session files,
protocol types.

**Session registry** (`host.rs`). Which actor owns a chat. State: the map of resident
chats, the set of reserved starts, four locks. Operations: open, create, preview, run a
routine, evict, delete, drain for a desktop takeover. Hard: every one of them awaits
between its checks and its effects. Correct when a session has one owner, the limit
holds, and nothing runs behind a deletion or a takeover.

**Session actor and replay** (`host/session*`, `host/replay.rs`, `host/transcript.rs`,
`server/responses.rs`, `server/dispatch.rs`). Follows the journal, reduces it to a
transcript, keeps a bounded window of frames and serves clients that reconnect with the
last sequence they saw. Hard: start-up reads pages while the agent already writes,
frames are compacted and evicted, broadcasts lag, the agent is replaced. Correct when a
client that has read everything has missed nothing and seen nothing twice.

**Bots, routines, hooks** (`bots*`, `host/routines.rs`, `host/bot_events.rs`,
`host/deletion.rs`). Facts become events, events become outbox rows, a worker carries
the rows out, and their effects are facts again. Hard: two databases without a common
transaction, a crash between any two steps, retries, chains that come back to their
start. Correct when a row acts once, a run on record as running really runs or waits
for a user, closing facts are true, and chains end.

**Deletion of a Bot** (`host/deletion.rs`, `bots.rs`, `backend/session_files.rs`). A
cascade over the Bot catalog, the checkpoint database, the hook journal and the
directories of instruction and session files. State: the durable intent that names the
session trees and the instruction files. Hard: chats start, work and fork while their list
is made; a write fails or the process dies between any two stores. Correct when a
recorded deletion is finished, leaves nothing of the Bot and takes nothing else.

**Other gateway parts.** Pairing and tokens (`auth.rs`), server, transport, configuration,
desktop, telemetry.

**Interaction.** Clients talk to the gateway's session actor, which owns an agent and
puts submissions into its inbox. The runner saves through the recorder, which writes to
the store and publishes what it stored, in order, back to the session actor, which
numbers, keeps and broadcasts it. After a crash the gateway opens the session again and
the agent starts from its checkpoint.

`PROJECT.json` lists every component with its status and every hazard with its line.

## 2. Modules

| module | models | kind |
|---|---|---|
| `EventRecorder` | `agent/recorder.rs` | state machine |
| `EventRecorder_proofs` | | proofs about it |
| `MessageQueue` | queue operations of `middleware/context.rs`, `middleware/messages.rs` | operators |
| `Subsequences` | what a filter of the code keeps of a queue (`Entries`), for `MessageQueue` and `SessionReplay` | operators |
| `Checkpoint` | checkpoint values and their changes as a whole | operators |
| `AgentRuntime` | the runner, tools, approvals, crash and recovery | state machine |
| `AgentRuntime_proofs` | | proofs about the operators of `MessageQueue` and `Checkpoint`, and about the runner |
| `MessageDelivery` | what a session promises to senders | abstract specification |
| `BackgroundCommands` | `backend/sandbox/background.rs` | state machine |
| `BackgroundCommands_proofs` | | proofs about it |
| `CheckpointStore` | `backend/checkpoint/sqlite.rs`, `sqlite_context.rs` | state machine |
| `CheckpointStore_proofs` | | proofs about it |
| `CheckpointHistory` | what the store promises its callers | abstract specification |
| `SessionRegistry` | `host.rs`, `host/desktop.rs`, parts of `host/deletion.rs`, `host/routines.rs`, `host/session*` | state machine |
| `SessionRegistry_proofs` | | proofs about it |
| `HookOutbox` | `bots*`, `host/bot_events.rs`, `host/routines.rs`, parts of `host/deletion.rs` | state machine |
| `HookOutbox_proofs` | | proofs about it |
| `SessionReplay` | `host/replay.rs`, `host/session*`, `host/transcript.rs`, `server/responses.rs`, parts of `server/dispatch.rs`, `server/transport.rs` | state machine |
| `SessionReplay_proofs` | | proofs about it |
| `BotDeletion` | `host/deletion.rs`, parts of `bots.rs`, `backend/session_files.rs` | state machine |
| `BotDeletion_proofs` | | proofs about it |
| `MC*` | | instances for TLC |

The modules meet at contracts rather than in one product. The atomic save of
`AgentRuntime` is a `Save` of `CheckpointStore`, whose refinement of `CheckpointHistory`
is what justifies treating it as one step. What `EventRecorder` publishes, in order and
after it is stored, is what `Emit` hands to `SessionReplay`. That a session has one
owner (`SessionRegistry`) is what lets `AgentRuntime` have one runner. The idempotent
acceptance under a message id that `ExactlyOnce` shows for the runner is what `Accept`
in `HookOutbox` relies on. `BotDeletion` takes the starts of chats from `SessionRegistry`
and the two writes of a closing fact from `HookOutbox`, with less detail.

Operators whose comment begins `Mutant of X` are not part of a specification. Each is a
plausible bug of `X`; put in its place it makes a property fail, which shows that the
property depends on that piece of code (`PROJECT.json`, "mutants").

### EventRecorder

| state | code |
|---|---|
| `call`, `req` | where a caller's future is suspended, and its request |
| `waiters`, `free` | the byte semaphore `event_bytes`: fair queue and permits |
| `senders`, `queue` | senders blocked on the bounded `mpsc` channel, and its content |
| `pc`, `hand` | the await of `run_recorder` and the command taken |
| `pending`, `lastStream`, `terminal` | `pending`, `last_stream`, `terminal_error` |
| `outbox`, `published`, `unread`, `listening` | rows being published, the event channel, its receiver |
| `journal` | the event rows in the store |
| `barrier`, `acks`, `faulted` | history, read by properties only |

An event is its admission number, so order, loss and duplication are visible while its
content is not. A size stands for serialised bytes; `Envelope` is the part of the
serialised form that is not text, because permits count the former and the batch limit
the latter (the growth of text by JSON escaping is left out). `Cancel` is a caller's
dropped future, at each of the three awaits. The store may fail at each write; a write
is atomic.

### AgentRuntime

`live` and `disk` are the checkpoint in memory and in the store, `pc` the await point.
`Goto` models the drains: before a decision the code reads a cutoff of the inbox and
routes everything up to it, so the model enters "drain" with `left` submissions to route
before it continues. `Waiting` are the points where submissions are routed as they
come. `work` is what lives in local variables of the turn and dies with it.
`Save(new, kept, ...)` is one call of `persist_with_events`: it commits, or is refused and
leaves `kept` in memory, which differs from place to place in the code (some callers roll
back, some do not) and is modelled as it is there.

A refused save stands for every error that `save` returns while the process lives: a
request over the budget, a serialisation error, the terminal error of the recorder, a
failing hook. After a failed write the recorder stops, so further saves fail as well;
those behaviours are the ones with several refusals (`MaxFaults`), and a single refusal
covers the errors before the write. `Crash` ends the process between any two steps;
`Die` also covers the runner's own return.

Provider, hooks, tools and users choose freely: any sequence of distinct calls, any
rejection, denial, stop or decision. Turn ids are fresh numbers. `context` holds
delivered messages, calls and outputs. The code's filters over queues and histories are
`Entries(s, I)`, the entries of `s` at the positions in `I` in their order. Submission ids are unique except that a message
may be resent under its id.

### BackgroundCommands

`entries` is the table: it maps the id of a command to the time it was entered (`clock`), and a
full table gives up its oldest entry that may go (`Victims`). `task` what a command's thread does, `held` and
`finished` the two bits of its atomic state, `announces` the value the task read when it
set its own bit. `caller` is the tool call that waits for the command, `ending` the
commands whose end the shutdown of a session awaits. `first`, `settled` and `notices`
record what was told to whom. An id is used once. `Die` is a task that panics or was
aborted; `CancelStart` and `CancelRead` are dropped futures.

### CheckpointStore

`row` and `items` are the tables `sessions` and `context_items`; `cache` is the
`ContextCache` of each connection, with the objects, not only the values, it wrote
last, since the code compares addresses before it compares values. `changed` holds the
hints whose `data_version` is no longer current; SQLite changes a connection's version
exactly when another connection commits. `accepted` is the checkpoint last acknowledged
and is the refinement mapping to `CheckpointHistory`. `OtherWrite` stands for every
write that touches neither table: it still changes the version.

### SessionRegistry

`pc` is the await a request is at; each action is the code between two awaits. `phase`
of an owner tells an actor that agreed to stop (`quitting`: `is_alive` is already false
while the agent still runs) from one that left its loop for another reason
(`closing`: `is_alive` is still true). Handles are counted for `is_unreferenced` by who
holds one. A deletion keeps the state lock across its awaits, which is why
`stateLock` is modelled and other uses of that lock are single steps. It stops the resident
chats of the tree one after the other (`victim`), so a chat it comes to late may still go to
work while an earlier one already stops.

A start is three steps. `Spawn` is `harness::start`: the agent saves its first checkpoint and
its task is spawned; `StartFails` is a failure before that. `Start` is the rest of
`HostHandle::start` (`host/session.rs:350` to 432), and `StartDropped` a failure in there: the
code drops the session and returns, reservation and gate are free again, and the agent, which
nobody waits for, ends by itself when it finds its channel closed. Such an agent is in the
phase `left`. `Live` are the agents that a start or an actor looks after, `Executes` adds the
left ones. `OneOwner` and `DeletedIsUnowned` are about `Live` agents; `NoActorBehindDrain` is about
all that execute, and names the left ones as its exception. `Check` is `check_execution` after
the start; the registry's lock is awaited behind it, so a takeover may begin in between.
`Save` is what a left agent can still do to a deleted session: it writes it anew.

### HookOutbox

`checkpoint`, `botState` and `memory` group the variables by what survives what: a crash
keeps the first two and loses the third. An outbox row is a pair of an event and a
binding, which is how its id is built. `Matched` is the matching of `record_event` with
its two guards against loops (the length of the ancestry, a binding that already acted on
an ancestor). `Accept` takes a message under the row's id, as the runner does. `actor`
follows a run from its reservation to the release of the lock. At most one deletion is
under way, since it holds the exclusive lock.

### SessionReplay

An event is its sequence number and its kind. `log` is everything ever numbered,
`stored` what the journal still has (deltas leave it when the message that contains
them is stored). `window` are the frames kept for replay, `transcript` the events whose
items the reducer shows, `cut` where it was cut. `view` is what a client shows: the
last sequence of the transcript it was given, and the frames since. `Replace` is a new
agent in a running actor; its start-up events are collected in `pending` and broadcast
together. `Owed(n)` says which events a client that has come past n must have been shown:
all but widgets, which every opening sends anew, and the deltas of a message that is
complete, which its frame contains.

### BotDeletion

`bot`, `routines` and `intent` are the catalog, `rows` and `saved` the checkpoint database,
`closed` the hook journal, `instructions` and `files` the two kinds of files. `owner`,
`running`, `job` and `cleaning` die with the process. `job` is the request, the
reconciliation before a client message or the one at start-up; each is a chain of steps,
one for each write, and may stop after any of them by a failed write (`WriteFails`) or a
crash. While a job runs it holds `session_mutations`, so whatever needs `Admitted` waits,
but a chat that is already open may go to work and fork subagents until it is stopped,
which is why the code lists the sessions a second time (`Listed`). `Tree` is the result of the
recursive queries: the least set of stored sessions that has the roots and every child of a
member.

`change` is the change of a routine that is under way. `create_routine` and `update_routine`
publish a new instruction file (`PublishInstructions`, `bots.rs:899`, 1043), then commit the
catalog that refers to it (`CommitRoutine`, 941, 1087) and last remove the file that was replaced
(`DropFile`, 1100); `delete_routine` commits first (`DeleteRoutine`). A crash or a failed removal
between two of these leaves a file that nothing refers to and nothing removes later: it goes
to `stray`. The agents of this module are those of the registry. A routine's chat after its
clean-up, a preview and an agent left by a late failure of its start are not stopped by a
deletion; what they may do is in `SessionRegistry`.

## 3. Runs

| run | bounds | question |
|---|---|---|
| `EventRecorder` | 2 clients, 1 stream, 3 events of sizes 2 and 6, budget 4, queue 1, channel 1, FairSpec | order, barriers, acknowledgements, permits, clean stop; every call returns, every batch is written |
| `AgentFaults` | 2 messages, 2 sends, 1 crash, 2 faults, 1 retry, idle turns | one fate per message, memory against disk, turn events, `MessageDelivery` implemented |
| `AgentTools` | 1 turn of 2 calls (1 guarded and interruptible), 2 sends besides decisions, 1 crash, 1 fault | effects, approvals, history, valid checkpoints |
| `AgentLive` | 2 messages, 1 interruptible call, 1 crash, 1 fault, FairSpec | turns end, messages leave the queue |
| `BackgroundCommands` | 3 commands of 2 sessions, table of 2 | notice or result, eviction, no orphan, calls return |
| `CheckpointStore` | 2 sessions, 2 connections, 2 items, 2 epochs, 4 commits | loads, hints, `CheckpointHistory` implemented |
| `SessionRegistry` | 1 chat, 1 routine session, 2 requests, 3 owners, capacity 1 | owners, limit, reservations, deletion, takeover |
| `RoutineOwners` | the same | expects a violation: owners of routine sessions |
| `HookOutbox` | 1 chat, 1 routine, 4 bindings that form a loop, 2 inputs, 2 troubles | rows, runs and locks, closing facts, chains |
| `SessionReplay` | 1 client, 6 events, window 2, page 1, queues of 2, 2 losses | a client misses and repeats nothing |
| `BotDeletion` | 4 sessions (1 of another Bot), 2 instruction files, 2 faults, 2 crashes, FairSpec | nothing of the Bot is left, nothing else is taken, a recorded deletion is finished |
| `TurnHistory` | 1 client, 6 events, window 3, page 2 | expects a violation: transcript and history meet |

Why the bounds suffice to be interesting. Recorder: three events let a batch hold two
deltas, or one that the third event must not overtake; a budget of two events (which
a batch can hold until its deadline), a queue of one and a channel of one make callers and
recorder block at each of the three places; one size exceeds the whole budget and two
requests of the other fill it. Runner: two messages give an edit of one while the other waits, two steers of one
turn, and a steer beside a queued message; the second send may be a resend, an edit or an
interrupt; the limits of queue and inbox (2) are reached. Two faults give a refused save followed by a
refused save of `fail_turn`. In `AgentTools` decisions are bounded by the inbox (1) alone, so
that a call can be decided, cut off by a crash and decided again, and the second message can
cancel an interruptible call; one turn is enough, for calls never outlive theirs. `MaxTurns` is larger than the number of turns the sends can
start, so it never keeps a message waiting in the liveness run. Background commands: a
table of two and three commands give a full table, an eviction and a foreign owner.
Checkpoint store: four commits are enough to delete and recreate a session behind a
connection that remembers it, and to rewrite it in a new epoch. Registry: capacity one
makes every start evict, three owners allow a restart after an eviction and another after
a deletion or a failed start. Outbox: the timer starts a run, whose end sends a message, whose turn starts
the run again, so that the loop guard decides; a trouble is a crash, a lost answer, a
stopping actor, an aborted turn or a deletion, and two of them give a crash inside the
deletion. Replay: six events are three windows long, so that compaction, eviction and a
page boundary meet; one client suffices because clients share only what the actor
broadcasts. Deletion: the Bot has a chat below one of another Bot, a subagent of that
chat which may be forked during the deletion, and a chat that may be created; two
instruction files let one replace the other; two faults
and two crashes can hit a change of a routine and then the deletion, or the deletion and then its
reconciliation. Symmetry (of messages, connections, owners) is used in safety runs
only; `AgentFaults` and `CheckpointStore` check a refinement with it, whose formulas are
`Init` and a box and symmetric in the permuted values. `CHECK_DEADLOCK FALSE` everywhere: a session with
nothing to do, a stopped recorder, or an exhausted bound is a state without successor.

Together the passing runs fire every action of every next-state relation.

**Fairness.** `EventRecorder`: weak fairness of the recorder task, which tokio polls
whenever it can move, of the semaphore and the channel, which are first come first
served, and of the frontend's reading, which ends only when it drops its receiver
(`CloseFrontend` is not fair, and need not happen). `AgentRuntime`: weak fairness of the
runner task as a whole, of each started tool (a tool ends, by itself or its time limit)
and of reopening the session. No fairness for clients, in particular none for
approvals: the liveness run has no guarded calls, because a turn may wait for a user for
ever.

`BackgroundCommands`: weak fairness of the timer of the first wait, of a task that has
passed its last wait, of the end of an aborted task and of the awaits on a finished one;
none for the command itself, which may run for ever. `BotDeletion`: weak fairness of the
task that deletes, of the restart of the process and of client messages, before each of
which the gateway reconciles. Once the intent is recorded every chat of it is stopped and
none can start, so nothing waits for a model or a user. The other modules state safety
properties only and assume no fairness.

### Findings

`RoutineOwners`. `host.rs:113` says of the registry that "A session has at most one
resident agent owner". The clean-up of a routine run (`host/routines.rs:457`) takes the
run's session off the registry as soon as its actor is idle, without stopping the actor:
a client that opened the chat keeps it running, a background notice wakes it, and the
next client that opens the session starts a second agent on the same checkpoint. The
preview of a run starts an actor that is never registered, with the same result. The
checkpoint store then refuses the older owner's saves (`StoreRefined`), so nothing is
overwritten. `OneOwner` is checked for all other sessions.

`TurnHistory`. A turn that has more events than the replay window is kept whole in the
transcript while it runs. When it ends, `trim_before` (`host/transcript.rs:272`) drops it
whole, because it started before the window, and `history_before` answers with the cut,
which lies inside the turn. The older page that a client asks for with this cursor ends
at the cut. The part of the turn behind the cut, its answer included, is in neither.

### Observations

Behaviours that contradict no text but are worth knowing.

- If the save that rejects a message is refused, the begun execution stays in memory and
  `fail_turn` then journals its abort although its start was never saved. If every sender
  goes away during a turn, the turn fails and each queued message is started and failed in
  its turn before the runner returns.
- When the replacement of an agent fails and the old configuration is restarted
  (`host/session/runtime.rs:737`), the start-up frames of the restarted agent are recorded
  but not broadcast; a connected client sees them only after it opens the chat again.
  `ClientCaughtUp` excepts them (`rolledBack`).
- A start reads the journal while its agent already commits. If a message is completed
  between two pages, the journal loses the deltas of the older page, and the window keeps the
  later deltas of that message alone until the frame of the whole message, which follows
  them, has been projected. A client that opens the chat in between is never short of
  anything once that frame arrives, so `Owed` leaves the deltas of a complete message out.
  The bounds of the run are too small for this case; the proof of `ClientCaughtUp` showed it.
- A run whose actor stops at an approval stays on record as running without holding its
  lock, so the routine can start again beside it. If both then wait at an approval,
  recovery cannot take the lock twice and the gateway does not start
  (`host/bot_events.rs:155`, `bots.rs:1595`); `RecoverRun` models this as a start-up that
  ends.
- A desktop takeover in the middle of a batch makes `begin_mutation` refuse with a code
  that the outbox worker does not retry, so the action is given up.
- `HostHandle::start` may fail after it spawned the agent (`host/session.rs:355`, 365, 403 to 418:
  the journal or the run cannot be read, the start-up events cannot be reconciled). The agent then
  ends by itself, but for a moment it is neither registered nor reserved: the same chat can be
  opened again beside it, a deletion does not see it and a takeover does not wait for it. The
  sequence check of the store (`StoreRefined`) refuses a save that would overwrite a newer one;
  only a session whose row was deleted in that moment is written again (`Save`).
- An instruction file published by `create_routine` or `update_routine` before a crash, or one whose
  removal failed, is named by no routine and no intent. Nothing removes it, the deletion of its
  Bot included (`private_routines_dir`, `bots.rs:2232`, only makes the directory);
  `DeletedIsWhole` excepts such files (`stray`) and no others.
- A deletion does not wait for the capacity gate, so it does not see chats that a takeover
  has taken off the registry and is shutting down; `DeletedIsUnowned` excepts them.
- The list of session directories to remove is made before the chats of a deleted Bot are
  stopped (`host/deletion.rs:334`). The files of a subagent that is forked in between stay
  in the live directory although its session is deleted; `DeletedIsWhole` excepts
  subagents. A plain deletion of a chat that crashes after its rows are gone and before its
  files are staged leaves them in the same way.
- A hook event that is recorded for the Bot after its rows were removed stays in the
  journal (the closing facts among them).

## 4. Proofs

Each `*_proofs` module proves theorems about one module for every value of its constants
that satisfies the module's `ASSUME`s: any sets of clients, messages, sessions or commands,
any limits and any bounds on faults. The layout is the same everywhere: an inductive
invariant `IInv` as a conjunction of named parts, a lemma per action or per kind of action,
`Inductive` (`Spec => []IInv`), `TypeCorrect`, and one theorem per property. Types are
proved and not listed in the runs.

| module | theorems | property |
|---|---|---|
| `EventRecorder_proofs` | `JournalOrder`, `BarrierSafety`, `AckSafety`, `TerminalSafety`, `StopSafety`, `PublishSafety`, `PermitSafety` | `JournalInOrder`, `BarrierDurable`, `AckedNotLost`, `TerminalHasNoBatch`, `CleanStop`, `PublishedAfterStored`, `PermitsConserved` |
| `AgentRuntime_proofs` | `OnceSafety`, `AckSafety`, `SteerSafety`, `TurnSafety`, `QuiescenceSafety`, `EffectOnceSafety`, `EffectRecordSafety`, `ApprovalSafety`, `HistorySafety`, `Refinement` | `ExactlyOnce`, `AckedDurable`, `SteersHaveTheirTurn`, `TurnEvents`, `QuiescentIsDurable`, `EffectAtMostOnce`, `EffectOnRecord`, `GuardedNeedsApproval`, `HistoryWellFormed`, `DeliveryRefined` |
| `CheckpointStore_proofs` | `LoadSafety`, `HintSafety`, `Refinement` | `LoadedIsSaved`, `HintsAreTrue`, `StoreRefined` |
| `BackgroundCommands_proofs` | `NoticeSafety`, `ResultSafety`, `OrphanSafety` | `NoticeOrResult`, `ResultReachable`, `NoOrphan` |
| `SessionRegistry_proofs` | `OwnerSafety`, `CapacitySafety`, `ReservationSafety`, `DeletionSafety`, `DrainSafety` | `OneOwner`, `CapacityBound`, `NoLeakedStart`, `DeletedIsUnowned`, `NoActorBehindDrain` |
| `HookOutbox_proofs` | `OnceSafety`, `LockSafety`, `ClosingSafety`, `SilenceSafety`, `ChainSafety` | `OncePerRow`, `RunningIsHeld`, `ClosingFacts`, `ClosedSourcesAreSilent`, `ChainsEnd` |
| `SessionReplay_proofs` | `CatchUpSafety` | `ClientCaughtUp` |
| `BotDeletion_proofs` | `DeletionSafety` | `DeletedIsWhole` |

### EventRecorder

Assumed (`RecorderAssumptions`): limits are positive, sizes are positive naturals, the null
values are not members.

The properties are not inductive by themselves: that the journal is in order after a
write follows only if what is written next carries the next numbers. `IInv` says so for
the whole pipeline: `QueueInv` (the commands in the queue are numbered without a gap up to
`tail`), `PipelineInv` (while the recorder works without error, queue, hand, batch and
journal continue each other), `ControlInv` (which command may be in hand, and whether
there may be a batch or an error, at each await), `OutboxInv` (published rows and rows
being published together are the journal) and `ClientInv` (each waiting call is in one
place only; needed to show that answering or cancelling a call touches one command). The
lemmas follow the steps: `ClientPipe` for callers, `TakePipe` for taking and
merging, `FlushPipe`, `WritePipe`, `PublishPipe` for the writes, `FailPipe` for all steps
that leave the working mode. An error empties the pipeline, and `TerminalHasNoBatch` is
what keeps the deadline, the one place that clears an error, from being reached; it is
proved, and not listed in a run besides.

`PermitSafety` is a second stage: `PermitInv` adds to the balance that a call which waits for a
slot is among the senders (a cancelled one would otherwise return bytes it does not hold) and that
a flush holds no bytes. The balance is a sum over the queue and the senders, written as a
recursive function (`Total`). What it computes is proved without the library's induction
theorems: a set of numbers has a least member (`LeastOne`), so a least prefix for which the claim
fails would contradict the one before it. From that follow the three facts the steps use: a
sum is a number, appending adds, and removing from any place subtracts.

### AgentRuntime

Assumed (`RuntimeAssumptions`): capacities are positive, bounds are naturals, guarded and
interruptible calls are calls, and there are finitely many calls (a response is finite).

The module begins with what the proof needs of the data. First the
operators: `Entries` keeps order and distinctness and takes exactly the chosen positions;
extending a history, promoting, replacing and settling queued messages add and remove what
their names say. Then it defines `Good(ck, n)`: queued messages are distinct and not
delivered (`QueueInv`), the turn was numbered and each steer waits for the turn that is open
(`ExecInv`), each output follows its call and each call without one is on the list of open tools
(`CallsInv`, `PendingInv`). There is one lemma for each change the runner makes to a
checkpoint. `validate_checkpoint` asks for less, and what it asks for is not enough to show that
the runner never fails its own validation: that is why `HistoryWellFormed` needs `Good`.

The rest relates the two checkpoints. `Agree(place, live, disk)` says how far memory
may be ahead of the disk at each place of the runner: never in the queue or the messages,
and at rest not at all. `At(place, live, work)` says what a turn has open at each place, and
`EffectsAt` which calls have taken effect, are in flight or are approved, as seen from the disk.
`MessagesInv`, `InboxInv` and `JournalInv` tie receipts, acknowledgements and the journal to the
checkpoint on disk. Some forty actions against ten properties are too many cases, so
each action is shown only to be a `Step`: it keeps the parts about places, its effect on
messages is one of five (`MessageStep`: nothing, an arrival, an acceptance, a delivery or
rejection, an edit) and its effect on turns is one of three (`TurnStep`: same turn, new turn, end
of a turn). The journal, the messages, the properties and the refinement follow from
`Step` alone. `Refinement` maps each `MessageStep` to a step of `MessageDelivery` or a stutter; a
refused save and a crash are stutters because what a sender was promised is a function of
the disk.

### CheckpointStore

Assumed: checkpoints are records with natural sequence and epoch, and `None` is no row, hint
or checkpoint. `RowsInv` (the tables say what the checkpoint last acknowledged says, although a save
writes only what is new) and `HintsInv` (a hint under the current `data_version` describes the
stored rows) need each other: a save may skip the comparison only because hints are true,
and hints stay true only because each commit outdates those of all other connections.
`Refinement` then takes each commit to one step of `CheckpointHistory`.

### BackgroundCommands

Assumed: a positive limit, one owner per command. `BitsInv` (what the two bits say of the
task, and that HELD no longer changes once FINISHED is set), `AnswerInv` (HELD is set exactly for
commands whose start answered "running") and `TableInv` (which commands the table may not
lack). The properties are about who was told what; they are inductive only together with
what the bits mean in the interval between the task's last step and its notice.

### SessionRegistry

Assumed (`RegistryAssumption`): a positive capacity, distinct names. The argument turns on the
capacity gate: whoever holds it is the only one that adds a chat, so the registry, the chat in its
hands and the chats a takeover drains are all the places an agent can be that a start or an
actor looks after (`OwnersInv`); an agent that a late failure left is in none of them, and no
handle refers to it (`HandleInv`, `RegistryInv`), so that it can never come back.
`GateInv`, `TargetInv`, `HandleInv`, `StartInv`, `QuitInv`, `DeletionInv` and `DrainInv` say of each
await what the request there still may rely on; `CapacityInv`, proved from them, adds that the
place of a chat taken out to be stopped stays free. `ReservationSafety` needs that only the
holder of the gate starts a chat (`GateInv`), and that each way out of a start drops its
reservation (`ReservedKept`). The first
attempt failed at the stops of a deletion, which the model had made one step: with the
loop of the code (`host/deletion.rs:411`), a chat not yet asked may change while another one
stops. The model now has that loop.

### HookOutbox

Assumed: bindings watch sources and act on chats or routines, names of chats are no names of
routines or bindings, `None` is no value. `RefsInv` (rows and runs refer to events on record),
`LocksInv` (a lock is held by the one run of its routine that has an actor, and the actor's place
agrees with the record), `EventsInv`, `FactsInv` (closing facts are true, and a chat that has one is
silent) and `DeletionInv` (what is saved and published at each step of a deletion, crashes
between them included). `SilenceSafety` is an action property: it uses `IInv` on both sides of a step.

`ChainSafety` has an invariant of its own on top of `IInv`. An ancestry is cut at
`MAX_HOOK_ANCESTRY`, so it need not contain all causes of an event; `ChainInv` says that below
the limit it does, in events, journals and mail alike, that only events below the limit have
rows, and that no binding has rows for two events of which one is in the other's ancestry.
`ChainsEnd` speaks of the recorded causes, not of the ancestry: it asks for a set of events that
contains all causes of the one and lacks the other.

### SessionReplay

Assumed: capacities are positive (`CapacitiesArePositive`), the bounds are naturals
(`BoundsAreNatural`), `None` is no sequence (`NoneIsNoSequence`); nothing about the
clients. `ClientCaughtUp` is about what clients have got, the invariant about what they are
still to get. `StoredInv`: the journal holds every event that is owed, although a complete
message removes its deltas. `LoadInv`: the pages read so far are all there is above the
oldest event read, although the agent commits between two pages. `WindowInv`: from its head
to the actor's sequence the window misses nothing owed, whether it was loaded, compacted,
truncated or emptied by an event larger than itself. From these, `AnswerInv`: what an opening
connection still has to write leads from the client's position to the sequence the answer
was given at, or is the whole transcript. `QueueInv`: behind that sequence the receiver's
queue has every frame, each behind those before it, but the ones `Withheld` names (start-up
frames of a replacement that is not over or was rolled back); a receiver that lost some is
marked as lagged and is not read. `ViewInv` is the property with the client's position.
`ActorInv` ties the sequence to the channel: only because an actor that serves is at the
event it took last does a broadcast frame continue the queue.

Replaying and compacting select entries of a sequence (`Entries`). What a selection
contains, its order and its length follow from its definition by ranks
(`EntriesInOrder`, `EntriesLength`), with least members of sets of numbers (`LeastMember`)
in place of an induction. `TypeCorrect` adds `Bounds`: the window, also one loaded from
pages, keeps to `ReplayCapacity` and a queue to `BroadcastCapacity`. The first half needs the
cardinality in `LoadInv` and that each page asks for no more than there is room for
(`PageIsTop`).

### BotDeletion

Assumed (`DeletionAssumption`): no session descends from itself, and a stored session's parent
is stored, which the table's foreign key demands (`sqlite.rs:85`). `CatalogInv` (what catalog,
database agree on while the Bot exists), `ChangeInv` (each instruction file belongs to a routine,
to the change under way or to an interrupted one, and no change meets a deletion), `OwnerInv` (none of its chats is open once the
intent is recorded), `JobInv` (the job and the intent name the same sessions; while the list is
made, a session it lacks is a fork), `IntentInv` (the intent names all that is left of the Bot, or its
rows are gone already), `ProgressInv` (what has been done at each step, counting what an
interrupted earlier attempt did) and `DoneInv`. The lemmas about `Tree` replace an induction:
whatever is closed under children contains the tree. `OwnedInTrees` is why taking only the
topmost chats of the Bot (`bot_session_trees`) takes all of them.

### Only model-checked

- Liveness: `EveryCallReturns` and `BatchIsWritten` of `EventRecorder`, `EveryTurnEnds` and
  `EveryMessageLeaves` of `AgentRuntime`, `CallsReturn` of `BackgroundCommands`, `DeletionFinishes`
  of `BotDeletion`. The prover has no rules for
  fairness.
- The two runs that expect a violation.

## 5. Plan

Order of further work, most important first:

1. In `AgentRuntime`: `set_model`, capability commands, delivery-once receipts, model-step
   events.
2. Owner changes of a chat and cancel requests of runs in `HookOutbox`.
3. Pairing: one-use codes and an update whose write failed.
4. Subagents: limits of a tree of agents, messages between them, and a child that ends while
   its parent waits for it or is deleted.

## 6. Not modelled

Most of the repository's lines are not about control: the terminal client, rendering,
wire records and configuration, formats of model providers, prompts and tool
definitions, file and process access, git, telemetry, and tests beside the code. A module about them would restate data, so the
models cover the small share of the lines that decides what the system may do, and do
not aim at more by listing lines they do not translate.

- Text, prompts, rendering, usage and cost; wire formats of providers; the operating
  system's isolation of tools; desktop, git and telemetry integrations; the terminal
  client: data or I/O without control that the properties could be about.
- `set_model`, capability commands other than an edit, the memory of "approved for
  session" decisions, delivery-once receipts, compaction's choice of what to summarise and
  subagents: they change the checkpoint but are not in `AgentRuntime`. A new context epoch
  and a fork, which the last two end in, are in `CheckpointStore`.
- Upload, grant and read of session files; changes of a chat's owner;
  editing of bindings, and of routines beyond their instruction files; cron arithmetic.
- A Bot database that refuses the result of a run (`finish_run`, `bots.rs:1468`): the lock is
  dropped and the run stays on record as running until the next start of the gateway.
- The byte limit at which `load_replay` stops (`replay.rs:69`) and windows that several
  frames exceed together: the replay window counts frames, and one size exceeds it whole.
- Call identifiers that a provider uses again in a later response: they are taken to be fresh.
- Pairing and authentication: file writes behind one lock.
- Usage, execution and search tables of the store, and its schema migration.
