--------------------------- MODULE SessionRegistry ---------------------------
(***************************************************************************)
(* The gateway's chat registry (crates/mobius-gateway/src/host.rs): which  *)
(* session actor (`HostHandle`) owns a chat, how a request opens, creates  *)
(* or previews a chat, how room is made by stopping idle chats, and the    *)
(* three operations that take chats away: deletion (host/deletion.rs), the *)
(* clean-up after a routine run (host/routines.rs) and the drain of a      *)
(* desktop takeover (host/desktop.rs).                                     *)
(*                                                                         *)
(* A request is a task whose code awaits several locks; every step below   *)
(* is the code between two awaits.  The locks are those of the code: the   *)
(* GatewayState mutex (held across awaits only by a deletion), the         *)
(* capacity gate (held from the eviction of idle chats until the new chat  *)
(* is registered) and the read-write lock session_mutations.               *)
(***************************************************************************)
EXTENDS Naturals, FiniteSets

CONSTANTS
    Sessions,     \* chat identifiers
    Routines,     \* the ones that are the sessions of routine runs
    Clients,      \* tasks serving requests
    Owners,       \* session actors; the number of them bounds the starts
    Capacity,     \* connections.active_sessions
    None

ASSUME RegistryAssumption ==
    /\ Routines \subseteq Sessions
    /\ Capacity \in Nat \ {0}
    /\ None \notin Sessions \cup Clients \cup Owners \cup {"deletion", "takeover"}
    /\ "takeover" \notin Clients

VARIABLES
    registry,     \* GatewayState.sessions: the resident owner of a session
    starting,     \* GatewayState.starting_sessions: reserved starts
    stateLock,    \* the deletion holding the GatewayState mutex across awaits
    gate,         \* who holds capacity_gate
    readers,      \* requests holding a read guard of session_mutations
    writer,       \* whether a deletion holds its write guard
    held,         \* RemoteDesktop.held: execution is held for the user
    stored,       \* sessions with a checkpoint
    session,      \* session of an owner
    phase,        \* life of an owner
    busy,         \* whether an owner's chat is working on a turn
    op,           \* what a request does: open, create, routine or preview
    pc,           \* where it is
    target,       \* the session it asks for
    handle,       \* the HostHandle it holds
    todo,         \* candidates of ensure_capacity still to be visited
    retried,      \* second attempt of ensure_capacity
    dpc,          \* where the deletion is
    doomed,       \* the sessions it deletes
    victim,       \* the chat it has asked to stop and waits for
    drain,        \* where the desktop takeover is
    draining      \* the owners it shuts down

requests == <<op, pc, target, handle, todo, retried>>
owners == <<session, phase, busy>>
locks == <<stateLock, gate, readers, writer, held>>
deletion == <<dpc, doomed, victim>>
takeover == <<drain, draining>>
vars == <<registry, starting, stored, locks, owners, requests, deletion, takeover>>

-----------------------------------------------------------------------------
(* Where a request is.  It holds the capacity gate at GateLabels: while it *)
(* makes room, with a chat out of the registry at OutLabels, and while it  *)
(* starts the new chat.                                                    *)

OutLabels == {"asking", "waiting", "putback"}
StartLabels == {"starting", "loading", "started", "checked", "abandoning"}
GateLabels == {"room", "evict", "reserve"} \cup OutLabels \cup StartLabels
Labels == {"idle", "load", "create", "gate"} \cup GateLabels \cup
          {"holding", "previewing", "lingering", "accept", "cleanup", "discarding", "unlist"}

-----------------------------------------------------------------------------
(* Owners: one agent per start of a chat, and once the start is over the   *)
(* actor task that looks after it.  A start that fails when the agent was  *)
(* already spawned leaves it behind ("left"): HostHandle::start drops the  *)
(* HarnessSession and returns, and nothing waits until the agent ended.    *)

Phases == {"new", "spawned", "running", "quitting", "closing", "left", "dead"}

\* An agent that a start or an actor looks after.
Live(o) == phase[o] \in {"spawned", "running", "quitting", "closing"}

\* An agent whose task has not ended, a left one included.
Executes(o) == Live(o) \/ phase[o] = "left"

\* HostHandle::is_alive: cleared at once by StopIfIdle, otherwise when the
\* actor has ended.
IsAlive(o) == phase[o] \in {"running", "closing"}

\* Arc::strong_count of the registry's handle is one.
IsUnreferenced(s) ==
    registry[s] # None /\ \A c \in Clients : handle[c] # registry[s]

Resident(s) == registry[s] # None /\ IsAlive(registry[s])

\* GatewayState::resident_sessions
ResidentSessions ==
    Cardinality({s \in Sessions : registry[s] # None}) + Cardinality(starting)

\* The actor's answer to StopIfIdle: a busy chat refuses, an idle one ends,
\* a chat that already stopped counts as stopped.
Refuses(o) == phase[o] = "running" /\ busy[o]

StopIfIdle(o) ==
    phase' = IF phase[o] = "running" /\ ~busy[o]
             THEN [phase EXCEPT ![o] = "quitting"] ELSE phase

\* The agent finishes its turn.
EndTurn(o) ==
    /\ phase[o] = "running" /\ busy[o]
    /\ busy' = [busy EXCEPT ![o] = FALSE]
    /\ UNCHANGED <<registry, starting, stored, locks, session, phase, requests,
                   deletion, takeover>>

\* The agent starts a turn by itself (a notice of background work).
Wake(o) ==
    /\ phase[o] = "running" /\ ~busy[o]
    /\ busy' = [busy EXCEPT ![o] = TRUE]
    /\ UNCHANGED <<registry, starting, stored, locks, session, phase, requests,
                   deletion, takeover>>

\* HostState::run leaves its loop: the agent stopped or failed, or every
\* handle is gone and the command channel is closed.
Stop(o) ==
    /\ phase[o] = "running"
    /\ phase' = [phase EXCEPT ![o] = "closing"]
    /\ UNCHANGED <<registry, starting, stored, locks, session, busy, requests,
                   deletion, takeover>>

\* The end of HostState::run: the agent is shut down, then the actor is
\* marked terminated.  A left agent ends by itself when it finds its
\* submission channel closed.
Terminate(o) ==
    /\ phase[o] \in {"quitting", "closing", "left"}
    /\ phase' = [phase EXCEPT ![o] = "dead"]
    /\ busy' = [busy EXCEPT ![o] = FALSE]
    /\ UNCHANGED <<registry, starting, stored, locks, session, requests,
                   deletion, takeover>>

\* An agent saves its checkpoint.  The store refuses a sequence that does
\* not advance, but a session that was deleted is written anew.
Save(o) ==
    /\ Executes(o) /\ session[o] \notin stored
    /\ stored' = stored \cup {session[o]}
    /\ UNCHANGED <<registry, starting, locks, owners, requests, deletion, takeover>>

-----------------------------------------------------------------------------
(* Opening a chat.                                                         *)

Goto(c, l) == pc' = [pc EXCEPT ![c] = l]

\* The request is answered and drops every guard it holds.
Leave(c, l) ==
    /\ Goto(c, l)
    /\ readers' = readers \ {c}
    /\ gate' = IF gate = c THEN None ELSE gate
    /\ todo' = [todo EXCEPT ![c] = {}]
    /\ retried' = [retried EXCEPT ![c] = FALSE]

\* GatewayHost::begin_mutation succeeds.
Admitted == writer = FALSE /\ ~held

\* A chat that was never started: a new identifier, the session of a new
\* routine run or a Bot's conversation before its first message.
Unstarted(s) == s \notin stored /\ \A o \in Owners : session[o] # s

\* authorize_chat up to its first unlocked await: a live resident chat is
\* returned at once, a dead one leaves the registry.
Authorize(c, s, kind) ==
    /\ pc[c] = "idle" /\ Admitted /\ stateLock = None
    /\ kind = "preview" => s \in Routines
    /\ target' = [target EXCEPT ![c] = s]
    /\ op' = [op EXCEPT ![c] = kind]
    /\ \/ /\ Resident(s)
          /\ handle' = [handle EXCEPT ![c] = registry[s]]
          /\ Goto(c, "holding")
          /\ UNCHANGED <<registry, readers>>
       \/ /\ ~Resident(s)
          /\ registry' = [registry EXCEPT ![s] = None]
          /\ readers' = readers \cup {c}
          /\ Goto(c, "load")
          /\ UNCHANGED handle
    /\ UNCHANGED <<starting, stored, stateLock, gate, writer, held, owners, todo,
                   retried, deletion, takeover>>

\* The rest of authorize_chat: the checkpoint is read without the registry's
\* lock.  A conversation without one is created, anything else is unknown.
Load(c) ==
    /\ pc[c] = "load"
    /\ \/ /\ target[c] \in stored
          /\ Goto(c, "gate")
          /\ UNCHANGED <<op, readers>>
       \/ /\ Unstarted(target[c]) /\ target[c] \notin Routines
          /\ Goto(c, "create")
          /\ op' = [op EXCEPT ![c] = "create"]
          /\ readers' = readers \ {c}
       \/ /\ target[c] \notin stored
          /\ Unstarted(target[c]) => target[c] \in Routines
          /\ Goto(c, "idle")
          /\ readers' = readers \ {c}
          /\ UNCHANGED op
    /\ UNCHANGED <<registry, starting, stored, stateLock, gate, writer, held, owners,
                   target, handle, todo, retried, deletion, takeover>>

\* create_session_with_id, entered by a client that creates a chat, by one
\* that opens an unstarted conversation and by a routine run.
Create(c, s, kind) ==
    /\ pc[c] = "idle" /\ Unstarted(s) /\ Admitted
    /\ kind = IF s \in Routines THEN "routine" ELSE "create"
    /\ kind = "routine" => \A d \in Clients : op[d] = "routine" => target[d] # s
    /\ target' = [target EXCEPT ![c] = s]
    /\ op' = [op EXCEPT ![c] = kind]
    /\ readers' = readers \cup {c}
    /\ Goto(c, "gate")
    /\ UNCHANGED <<registry, starting, stored, stateLock, gate, writer, held, owners,
                   handle, todo, retried, deletion, takeover>>

CreateUnstarted(c) ==
    /\ pc[c] = "create" /\ Admitted
    /\ readers' = readers \cup {c}
    /\ Goto(c, "gate")
    /\ UNCHANGED <<registry, starting, stored, stateLock, gate, writer, held, owners,
                   op, target, handle, todo, retried, deletion, takeover>>

\* begin_mutation rejects while the user controls the desktop.
CreateRejected(c) ==
    /\ pc[c] = "create" /\ held
    /\ Goto(c, "idle")
    /\ UNCHANGED <<registry, starting, stored, locks, owners, op, target, handle, todo,
                   retried, deletion, takeover>>

-----------------------------------------------------------------------------
(* ensure_capacity: idle chats nobody refers to make room.                 *)

\* A mutant: a request admitted before the takeover goes on.
AdmittedMayExecute == TRUE

\* check_execution, asked again by whoever gets the gate.
MayExecute == ~held

\* A mutant: the gate does not exclude a second request.
TakeGateShared(c) ==
    /\ pc[c] = "gate"
    /\ MayExecute
    /\ Goto(c, "room")
    /\ UNCHANGED <<registry, starting, stored, locks, owners, op, target, handle, todo,
                   retried, deletion, takeover>>

TakeGate(c) ==
    /\ pc[c] = "gate" /\ gate = None
    /\ \/ /\ MayExecute
          /\ gate' = c
          /\ Goto(c, "room")
          /\ UNCHANGED readers
       \/ /\ ~MayExecute
          /\ readers' = readers \ {c}
          /\ Goto(c, "idle")
          /\ UNCHANGED gate
    /\ UNCHANGED <<registry, starting, stored, stateLock, writer, held, owners, op,
                   target, handle, todo, retried, deletion, takeover>>

Room(c) ==
    /\ pc[c] = "room" /\ stateLock = None
    /\ \/ /\ ResidentSessions < Capacity
          /\ Goto(c, "reserve")
          /\ UNCHANGED todo
       \/ /\ ResidentSessions >= Capacity
          /\ todo' = [todo EXCEPT ![c] = {s \in Sessions : IsUnreferenced(s)}]
          /\ Goto(c, "evict")
    /\ UNCHANGED <<registry, starting, stored, locks, owners, op, target, handle,
                   retried, deletion, takeover>>

\* A candidate that is still unreferenced leaves the registry and is asked
\* to stop; the lock is not held while it answers.
Evict(c, s) ==
    /\ pc[c] = "evict" /\ s \in todo[c] /\ stateLock = None
    /\ todo' = [todo EXCEPT ![c] = @ \ {s}]
    /\ \/ /\ IsUnreferenced(s)
          /\ registry' = [registry EXCEPT ![s] = None]
          /\ handle' = [handle EXCEPT ![c] = registry[s]]
          /\ Goto(c, "asking")
       \/ /\ ~IsUnreferenced(s)
          /\ UNCHANGED <<registry, handle, pc>>
    /\ UNCHANGED <<starting, stored, locks, owners, op, target, retried, deletion,
                   takeover>>

\* The chat answers StopIfIdle.
Asked(c) ==
    /\ pc[c] \in {"asking", "discarding"}
    /\ StopIfIdle(handle[c])
    /\ Goto(c, IF pc[c] = "discarding" THEN IF Refuses(handle[c]) THEN "unlist" ELSE "lingering"
               ELSE IF Refuses(handle[c]) THEN "putback" ELSE "waiting")
    /\ UNCHANGED <<registry, starting, stored, locks, session, busy, op, target, handle,
                   todo, retried, deletion, takeover>>

\* A mutant: a chat that agreed to stop counts as gone.
GoneOrQuitting(o) == ~IsAlive(o)

\* stop_if_idle waits until the chat has terminated.
Gone(o) == phase[o] = "dead"

Evicted(c) ==
    /\ pc[c] = "waiting" /\ Gone(handle[c]) /\ stateLock = None
    /\ handle' = [handle EXCEPT ![c] = None]
    /\ Goto(c, IF ResidentSessions < Capacity THEN "reserve" ELSE "evict")
    /\ UNCHANGED <<registry, starting, stored, locks, owners, op, target, todo, retried,
                   deletion, takeover>>

\* A busy chat goes back, unless the session has an owner again.
PutBack(c) ==
    /\ pc[c] = "putback" /\ stateLock = None
    /\ LET s == session[handle[c]]
       IN registry' = [registry EXCEPT ![s] = IF @ = None THEN handle[c] ELSE @]
    /\ handle' = [handle EXCEPT ![c] = None]
    /\ Goto(c, "evict")
    /\ UNCHANGED <<starting, stored, locks, owners, op, target, todo, retried, deletion,
                   takeover>>

\* No candidate is left: one more attempt, then session_limit.
Exhausted(c) ==
    /\ pc[c] = "evict" /\ todo[c] = {}
    /\ \/ /\ ~retried[c]
          /\ retried' = [retried EXCEPT ![c] = TRUE]
          /\ Goto(c, "room")
          /\ UNCHANGED <<readers, gate, todo>>
       \/ /\ retried[c]
          /\ Leave(c, "idle")
    /\ UNCHANGED <<registry, starting, stored, stateLock, writer, held, owners, op,
                   target, handle, deletion, takeover>>

-----------------------------------------------------------------------------
(* Reserving, starting and publishing the chat.                            *)

\* The registry is looked at again before the start is reserved.
Reserve(c) ==
    /\ pc[c] = "reserve" /\ stateLock = None
    /\ LET s == target[c]
           vacated == IF op[c] \in {"open", "preview"} THEN [registry EXCEPT ![s] = None] ELSE registry
           room    == Cardinality({t \in Sessions : vacated[t] # None}) + Cardinality(starting)
                          < Capacity
       IN \/ /\ Resident(s)
             /\ handle' = [handle EXCEPT ![c] = registry[s]]
             /\ Leave(c, IF op[c] = "routine" THEN "accept" ELSE "holding")
             /\ UNCHANGED <<registry, starting>>
          \/ /\ ~Resident(s)
             /\ registry' = vacated
             /\ \/ /\ room /\ s \notin starting
                   /\ starting' = starting \cup {s}
                   /\ Goto(c, "starting")
                   /\ readers' = readers \ {c}
                   /\ UNCHANGED <<gate, todo, retried>>
                \/ /\ ~room \/ s \in starting
                   /\ Leave(c, "idle")
                   /\ UNCHANGED starting
             /\ UNCHANGED handle
    /\ UNCHANGED <<stored, stateLock, writer, held, owners, op, target, deletion,
                   takeover>>

\* harness::start: the agent saves its first checkpoint and is spawned.
Spawn(c, o) ==
    /\ pc[c] = "starting" /\ phase[o] = "new"
    /\ session' = [session EXCEPT ![o] = target[c]]
    /\ phase' = [phase EXCEPT ![o] = "spawned"]
    /\ stored' = stored \cup {target[c]}
    /\ handle' = [handle EXCEPT ![c] = o]
    /\ Goto(c, "loading")
    /\ UNCHANGED <<registry, starting, locks, busy, op, target, todo, retried, deletion,
                   takeover>>

\* harness::start fails before it spawns the agent, its checkpoint saved or
\* not; the SessionStartGuard drops the reservation.
StartFails(c) ==
    /\ pc[c] = "starting"
    /\ stored' \in {stored, stored \cup {target[c]}}
    /\ starting' = starting \ {target[c]}
    /\ Leave(c, "idle")
    /\ UNCHANGED <<registry, stateLock, writer, held, owners, op, target, handle,
                   deletion, takeover>>

\* The rest of HostHandle::start: the journal is loaded, the routine run
\* resumed, the start-up events reconciled and the actor spawned.
Start(c) ==
    /\ pc[c] = "loading"
    /\ phase' = [phase EXCEPT ![handle[c]] = "running"]
    /\ Goto(c, "started")
    /\ UNCHANGED <<registry, starting, stored, locks, session, busy, op, target, handle,
                   todo, retried, deletion, takeover>>

\* A mutant: the late failure keeps the reservation.
StartDroppedReserved(c) ==
    /\ pc[c] = "loading"
    /\ phase' = [phase EXCEPT ![handle[c]] = "left"]
    /\ handle' = [handle EXCEPT ![c] = None]
    /\ Leave(c, "idle")
    /\ UNCHANGED <<registry, starting, stored, stateLock, writer, held, session, busy, op,
                   target, deletion, takeover>>

\* One of these fails: the agent is left, the reservation and the gate are
\* free again.
StartDropped(c) ==
    /\ pc[c] = "loading"
    /\ phase' = [phase EXCEPT ![handle[c]] = "left"]
    /\ handle' = [handle EXCEPT ![c] = None]
    /\ starting' = starting \ {target[c]}
    /\ Leave(c, "idle")
    /\ UNCHANGED <<registry, stored, stateLock, writer, held, session, busy, op, target,
                   deletion, takeover>>

\* check_execution after the start; the takeover may begin right after it.
Check(c) ==
    /\ pc[c] = "started" /\ ~held
    /\ Goto(c, "checked")
    /\ UNCHANGED <<registry, starting, stored, locks, owners, op, target, handle, todo,
                   retried, deletion, takeover>>

\* The chat is registered and the reservation dropped in one critical
\* section.  A preview's chat is not registered.
Publish(c) ==
    /\ pc[c] = "checked" /\ stateLock = None
    /\ registry' = IF op[c] = "preview" THEN registry
                   ELSE [registry EXCEPT ![target[c]] = handle[c]]
    /\ starting' = starting \ {target[c]}
    /\ Leave(c, CASE op[c] = "preview" -> "previewing"
                  [] op[c] = "routine" -> "accept"
                  [] OTHER -> "holding")
    /\ UNCHANGED <<stored, stateLock, writer, held, owners, op, target, handle, deletion,
                   takeover>>

\* The takeover began while the chat started: it is shut down again.
Abandon(c) ==
    /\ pc[c] = "started" /\ held
    /\ phase' = IF phase[handle[c]] = "running"
                THEN [phase EXCEPT ![handle[c]] = "closing"] ELSE phase
    /\ Goto(c, "abandoning")
    /\ UNCHANGED <<registry, starting, stored, locks, session, busy, op, target, handle,
                   todo, retried, deletion, takeover>>

Abandoned(c) ==
    /\ pc[c] = "abandoning" /\ phase[handle[c]] = "dead"
    /\ handle' = [handle EXCEPT ![c] = None]
    /\ starting' = starting \ {target[c]}
    /\ Leave(c, "idle")
    /\ UNCHANGED <<registry, stored, stateLock, writer, held, owners, op, target,
                   deletion, takeover>>

-----------------------------------------------------------------------------
(* Using a chat.                                                           *)

\* A submission is admitted by try_begin_session_mutation.
Submit(c) ==
    /\ pc[c] = "holding" /\ op[c] # "preview" /\ ~writer
    /\ phase[handle[c]] = "running" /\ ~busy[handle[c]]
    /\ busy' = [busy EXCEPT ![handle[c]] = TRUE]
    /\ UNCHANGED <<registry, starting, stored, locks, session, phase, requests,
                   deletion, takeover>>

\* The connection closes or selects another chat.
Close(c) ==
    /\ pc[c] = "holding"
    /\ handle' = [handle EXCEPT ![c] = None]
    /\ Goto(c, "idle")
    /\ UNCHANGED <<registry, starting, stored, locks, owners, op, target, todo, retried,
                   deletion, takeover>>

\* The page is read and the temporary chat asked to stop.
PreviewRead(c) ==
    /\ pc[c] = "previewing"
    /\ StopIfIdle(handle[c])
    /\ IF Refuses(handle[c])
       THEN Goto(c, "idle") /\ handle' = [handle EXCEPT ![c] = None]
       ELSE Goto(c, "lingering") /\ UNCHANGED handle
    /\ UNCHANGED <<registry, starting, stored, locks, session, busy, op, target, todo,
                   retried, deletion, takeover>>

\* run_routine is accepted, or refused and the chat discarded.
Accept(c) ==
    /\ pc[c] = "accept" /\ stateLock = None
    /\ LET o == handle[c]
           accepted == phase[o] = "running" /\ ~busy[o] /\ ~writer
       IN \/ /\ accepted
             /\ busy' = [busy EXCEPT ![o] = TRUE]
             /\ Goto(c, "cleanup")
          \/ /\ ~accepted
             /\ Goto(c, "discarding")
             /\ UNCHANGED busy
    /\ UNCHANGED <<registry, starting, stored, locks, session, phase, op, target, handle,
                   todo, retried, deletion, takeover>>

\* wait_idle of the clean-up task answers.
RunEnded(c) ==
    /\ pc[c] = "cleanup"
    /\ phase[handle[c]] = "running" => ~busy[handle[c]]
    /\ Goto(c, "unlist")
    /\ UNCHANGED <<registry, starting, stored, locks, owners, op, target, handle, todo,
                   retried, deletion, takeover>>

\* A chat that was asked to stop has terminated.
Lingered(c) ==
    /\ pc[c] = "lingering" /\ phase[handle[c]] = "dead"
    /\ IF op[c] = "routine"
       THEN Goto(c, "unlist") /\ UNCHANGED handle
       ELSE Goto(c, "idle") /\ handle' = [handle EXCEPT ![c] = None]
    /\ UNCHANGED <<registry, starting, stored, locks, owners, op, target, todo, retried,
                   deletion, takeover>>

\* The routine's session leaves the registry, whoever else holds its chat.
Unlist(c) ==
    /\ pc[c] = "unlist" /\ stateLock = None
    /\ registry' = [registry EXCEPT ![target[c]] = None]
    /\ handle' = [handle EXCEPT ![c] = None]
    /\ Goto(c, "idle")
    /\ UNCHANGED <<starting, stored, locks, owners, op, target, todo, retried, deletion,
                   takeover>>

-----------------------------------------------------------------------------
(* Deletion of chats.                                                      *)

\* A mutant: the deletion does not look at reserved starts.
BeginDeleteStarting(D) ==
    /\ dpc = "idle" /\ ~writer /\ readers = {} /\ stateLock = None
    /\ D # {} /\ D \subseteq stored
    /\ \A s \in D : registry[s] # None => ~Refuses(registry[s])
    /\ writer' = TRUE /\ stateLock' = "deletion"
    /\ doomed' = D /\ victim' = None
    /\ dpc' = "stop"
    /\ UNCHANGED <<registry, starting, stored, gate, readers, held, owners, requests,
                   takeover>>

\* begin_exclusive_mutation, the registry's lock and the checks of
\* prepare_session_tree_deletion: nothing to delete is starting or busy.
BeginDelete(D) ==
    /\ dpc = "idle" /\ ~writer /\ readers = {} /\ stateLock = None
    /\ D # {} /\ D \subseteq stored /\ D \cap starting = {}
    /\ \A s \in D : registry[s] # None => ~Refuses(registry[s])
    /\ writer' = TRUE /\ stateLock' = "deletion"
    /\ doomed' = D /\ victim' = None
    /\ dpc' = "stop"
    /\ UNCHANGED <<registry, starting, stored, gate, readers, held, owners, requests,
                   takeover>>

Residents == {s \in doomed : registry[s] # None}

\* The deletion ends and drops its guards.
EndDelete == dpc' = "idle" /\ writer' = FALSE /\ stateLock' = None /\ doomed' = {} /\ victim' = None

\* stop_if_idle of one resident chat, once the one before has terminated; a
\* busy chat refuses the deletion.
StopResident(s) ==
    /\ dpc = "stop" /\ s \in Residents /\ ~Gone(registry[s])
    /\ victim # None => Gone(victim)
    /\ StopIfIdle(registry[s])
    /\ IF Refuses(registry[s])
       THEN EndDelete
       ELSE victim' = registry[s] /\ UNCHANGED <<dpc, writer, stateLock, doomed>>
    /\ UNCHANGED <<registry, starting, stored, gate, readers, held, session, busy,
                   requests, takeover>>

\* Every chat has terminated: the checkpoints are deleted and the registry
\* forgets the sessions.
Delete ==
    /\ dpc = "stop" /\ \A s \in Residents : Gone(registry[s])
    /\ stored' = stored \ doomed
    /\ registry' = [s \in Sessions |-> IF s \in doomed THEN None ELSE registry[s]]
    /\ EndDelete
    /\ UNCHANGED <<starting, gate, readers, held, owners, requests, takeover>>

-----------------------------------------------------------------------------
(* A desktop takeover shuts every resident chat down.                      *)

BeginTakeover ==
    /\ drain = "none" /\ ~held
    /\ held' = TRUE
    /\ drain' = "gate"
    /\ UNCHANGED <<registry, starting, stored, stateLock, gate, readers, writer, owners,
                   requests, deletion, draining>>

TakeResidents ==
    /\ drain = "gate" /\ gate = None /\ stateLock = None
    /\ gate' = "takeover"
    /\ draining' = {registry[s] : s \in Sessions} \ {None}
    /\ registry' = [s \in Sessions |-> None]
    /\ drain' = "draining"
    /\ UNCHANGED <<starting, stored, stateLock, readers, writer, held, owners, requests,
                   deletion>>

\* HostCommand::Shutdown ends a chat whatever it is doing.
ShutDown(o) ==
    /\ drain = "draining" /\ o \in draining /\ phase[o] = "running"
    /\ phase' = [phase EXCEPT ![o] = "closing"]
    /\ UNCHANGED <<registry, starting, stored, locks, session, busy, requests, deletion,
                   takeover>>

Drained ==
    /\ drain = "draining" /\ \A o \in draining : phase[o] = "dead"
    /\ gate' = None
    /\ draining' = {}
    /\ drain' = "drained"
    /\ UNCHANGED <<registry, starting, stored, stateLock, readers, writer, held, owners,
                   requests, deletion>>

Grant ==
    /\ drain = "drained"
    /\ drain' = "granted"
    /\ UNCHANGED <<registry, starting, stored, locks, owners, requests, deletion,
                   draining>>

\* The takeover is cancelled, or the user gives the desktop back.
Release ==
    /\ drain \in {"drained", "granted"}
    /\ held' = FALSE
    /\ drain' = "none"
    /\ UNCHANGED <<registry, starting, stored, stateLock, gate, readers, writer, owners,
                   requests, deletion, draining>>

-----------------------------------------------------------------------------

Init ==
    /\ registry = [s \in Sessions |-> None]
    /\ starting = {} /\ stored \in SUBSET (Sessions \ Routines)
    /\ stateLock = None /\ gate = None /\ readers = {} /\ writer = FALSE /\ held = FALSE
    /\ session = [o \in Owners |-> None]
    /\ phase = [o \in Owners |-> "new"]
    /\ busy = [o \in Owners |-> FALSE]
    /\ op = [c \in Clients |-> "open"]
    /\ pc = [c \in Clients |-> "idle"]
    /\ target = [c \in Clients |-> None]
    /\ handle = [c \in Clients |-> None]
    /\ todo = [c \in Clients |-> {}]
    /\ retried = [c \in Clients |-> FALSE]
    /\ dpc = "idle" /\ doomed = {} /\ victim = None
    /\ drain = "none" /\ draining = {}

\* The steps a request takes by itself once it was made.
Step(c) ==
    \/ Load(c) \/ CreateUnstarted(c) \/ CreateRejected(c)
    \/ TakeGate(c) \/ Room(c) \/ Asked(c) \/ Evicted(c) \/ PutBack(c) \/ Exhausted(c)
    \/ \E s \in Sessions : Evict(c, s)
    \/ Reserve(c) \/ StartFails(c) \/ Start(c) \/ StartDropped(c)
    \/ \E o \in Owners : Spawn(c, o)
    \/ Check(c) \/ Publish(c) \/ Abandon(c) \/ Abandoned(c)
    \/ PreviewRead(c) \/ Accept(c) \/ RunEnded(c) \/ Lingered(c) \/ Unlist(c)

Request(c) ==
    \/ \E s \in Sessions, kind \in {"open", "preview"} : Authorize(c, s, kind)
    \/ \E s \in Sessions, kind \in {"create", "routine"} : Create(c, s, kind)
    \/ Submit(c) \/ Close(c)

Actor(o) == EndTurn(o) \/ Wake(o) \/ Stop(o) \/ Terminate(o) \/ ShutDown(o) \/ Save(o)

Next ==
    \/ \E c \in Clients : Step(c) \/ Request(c)
    \/ \E o \in Owners : Actor(o)
    \/ \E D \in SUBSET Sessions : BeginDelete(D)
    \/ \E s \in Sessions : StopResident(s)
    \/ Delete
    \/ BeginTakeover \/ TakeResidents \/ Drained \/ Grant \/ Release

Spec == Init /\ [][Next]_vars

-----------------------------------------------------------------------------
(* Properties.                                                             *)

TypeOK ==
    /\ registry \in [Sessions -> Owners \cup {None}]
    /\ starting \subseteq Sessions /\ stored \subseteq Sessions
    /\ stateLock \in {None, "deletion"}
    /\ gate \in Clients \cup {None, "takeover"}
    /\ readers \subseteq Clients /\ writer \in BOOLEAN /\ held \in BOOLEAN
    /\ session \in [Owners -> Sessions \cup {None}]
    /\ phase \in [Owners -> Phases]
    /\ busy \in [Owners -> BOOLEAN]
    /\ op \in [Clients -> {"open", "create", "routine", "preview"}]
    /\ pc \in [Clients -> Labels]
    /\ target \in [Clients -> Sessions \cup {None}]
    /\ handle \in [Clients -> Owners \cup {None}]
    /\ todo \in [Clients -> SUBSET Sessions] /\ retried \in [Clients -> BOOLEAN]
    /\ dpc \in {"idle", "stop"} /\ doomed \subseteq Sessions /\ victim \in Owners \cup {None}
    /\ drain \in {"none", "gate", "draining", "drained", "granted"} /\ draining \subseteq Owners

\* "A session has at most one resident agent owner" (host.rs), read of the
\* agents that run: no interleaving of opening, eviction, deletion and
\* takeover starts a second agent for a chat while the first one still runs.
\* Two exceptions the code does not rule out: the sessions of routine runs
\* (see EverySessionOneOwner), and an agent left by a start that failed after
\* it was spawned, which may still be ending when the chat is opened again.
OneOwner ==
    \A o1, o2 \in Owners :
        Live(o1) /\ Live(o2) /\ session[o1] = session[o2] /\ session[o1] \notin Routines
            => o1 = o2

\* The same for every session, the ones of routine runs included.
EverySessionOneOwner ==
    \A o1, o2 \in Owners :
        Live(o1) /\ Live(o2) /\ session[o1] = session[o2] => o1 = o2

\* The registry never holds more chats, with the reserved ones, than the
\* gateway is configured for, although the chats that make room leave it and
\* may come back.
CapacityBound == ResidentSessions <= Capacity

\* A reservation (starting_sessions, released by the drop of a
\* SessionStartGuard) belongs to exactly one request that is still starting
\* the chat, whatever way its start ends: one that stayed behind would take a
\* place for ever and answer session_starting to everybody who opens the chat.
NoLeakedStart ==
    \A s \in starting : \E c \in Clients :
        /\ pc[c] \in StartLabels /\ target[c] = s
        /\ \A d \in Clients : d # c => pc[d] \notin StartLabels \/ target[d] # s

\* No agent of a chat runs when its checkpoint is deleted (it would write the
\* session again, as Save does): the session of an agent that a start or an
\* actor looks after is stored.  Excepted are the agents a deletion does not
\* see: those a takeover is shutting down, which left the registry (a deletion
\* does not wait for the capacity gate), and those left by a failed start.
DeletedIsUnowned ==
    \A o \in Owners :
        Live(o) /\ session[o] \notin Routines /\ o \notin draining => session[o] \in stored

\* "No actor may appear behind the drain" (host/desktop.rs): once the chats
\* are drained, an agent that still executes until the user gives the desktop
\* back has no actor and no start: it is one that a failed start left to end
\* by itself, or the agent of a routine run.
NoActorBehindDrain ==
    drain \in {"drained", "granted"} =>
        \A o \in Owners : Executes(o) => phase[o] = "left" \/ session[o] \in Routines
=============================================================================
