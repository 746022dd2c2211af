----------------------------- MODULE BotDeletion -----------------------------
(***************************************************************************)
(* Deletion of a Bot (crates/mobius-gateway/src/host/deletion.rs and       *)
(* bots.rs): a cascade over the Bot catalog, the checkpoint database, the  *)
(* hook journal and two directories of files, which no transaction spans.  *)
(* A durable intent is recorded first.  Whatever a failed write or a crash *)
(* leaves undone is finished by reconcile_pending_bot_deletion, which runs *)
(* at start-up and before each client message.                             *)
(*                                                                         *)
(* There is one Bot that can be deleted; chats may belong to others.  Its  *)
(* agents are those of the registry: the ones the registry does not know   *)
(* (a routine's chat after its clean-up, a preview, an agent left by a     *)
(* start that failed late) are in SessionRegistry, whose Save shows what   *)
(* they may write after a deletion.                                        *)
(*                                                                         *)
(* A step is the code between two awaits or two writes.  The deletion      *)
(* holds session_mutations for writing from beginning to end; all that     *)
(* needs admission (`Admitted') waits for it and is refused while the      *)
(* intent is there.  The locks and steps of a chat's start are in          *)
(* SessionRegistry, the two writes of a closing fact in HookOutbox.        *)
(***************************************************************************)
EXTENDS Naturals

CONSTANTS
    Sessions,     \* chat identifiers, never used twice
    Parent,       \* the session a session was forked from, or None
    Owned,        \* the sessions whose owner is the Bot
    Stored,       \* the sessions there are at first, the Bot's or not
    Routines,     \* instruction files; one stands for the routine it belongs to
    MaxFaults,    \* bound: failed writes
    MaxCrashes,   \* bound: crashes
    None

\* PendingBotDeletion: what a deletion will take.
Intents == [roots : SUBSET Sessions, ids : SUBSET Sessions, instructions : SUBSET Routines]

ASSUME DeletionAssumption ==
    /\ None \notin Sessions \cup Routines /\ None \notin Intents
    /\ Parent \in [Sessions -> Sessions \cup {None}]
    /\ Owned \subseteq Sessions /\ Stored \subseteq Sessions
    \* A fork gets an identifier never used before, so none descends from itself;
    \* parent_session_id REFERENCES a row of the same table.
    /\ \A S \in SUBSET Sessions : S # {} => \E s \in S : Parent[s] \notin S
    /\ \A S \in {Stored, Stored \ Owned} : \A s \in S : Parent[s] \in S \cup {None}
    /\ {MaxFaults, MaxCrashes} \subseteq Nat

VARIABLES
    bot,          \* whether the catalog has the Bot
    routines,     \* its routines in the catalog
    intent,       \* BotState.pending_bot_deletion
    instructions, \* routines whose instruction file is on disk
    rows,         \* sessions in the checkpoint database
    saved,        \* session_hook_closures: closing facts saved for later
    closed,       \* sessions whose closing fact is in the hook journal
    files,        \* the file directory of a session: none, live or staged
    up,           \* whether the process runs
    owner,        \* the actor of a session in the registry
    running,      \* routines whose lock a run holds
    job,          \* the deletion or reconciliation that is under way
    cleaning,     \* sessions of the spawned file clean-ups
    faults, crashes,
    change,       \* the change of a routine that is under way
    born,         \* history: sessions that were ever stored
    stray         \* history: instruction files that such changes left on disk

catalog == <<bot, routines, intent>>
store == <<rows, saved, born>>
volatile == <<up, owner, running, cleaning>>
bounds == <<faults, crashes>>
changes == <<change, stray>>
vars == <<catalog, instructions, store, closed, files, volatile, job, bounds, changes>>

NoChange == [pc |-> "none", new |-> None, old |-> None]

NoJob == [pc |-> "none", kind |-> "none", roots |-> {}, ids |-> {}, files |-> {}]

-----------------------------------------------------------------------------
(* Trees of sessions.                                                      *)

\* The walk of session_tree_ids and the recursive query of delete_sessions find
\* the least set that has the roots and the children of its members.
Grown(T, roots, stored) ==
    /\ roots \cap stored \subseteq T
    /\ \A s \in stored : Parent[s] \in T => s \in T

Tree(roots, stored) ==
    {s \in stored : \A T \in SUBSET stored : Grown(T, roots, stored) => s \in T}

\* bot_session_trees: the Bot's sessions that hang below none of its own.
BotRoots == {s \in Owned \cap rows : Parent[s] \notin Owned \cap rows}

BotTrees == Tree(BotRoots, rows)

-----------------------------------------------------------------------------
(* Chats and routines outside the deletion.                                *)

Fault == faults < MaxFaults /\ faults' = faults + 1

\* begin_mutation: the read side of session_mutations, and no intent.  What
\* is admitted then needs the GatewayState mutex, held by a routine's change.
Admitted == up /\ job = NoJob /\ intent = None /\ change = NoChange

\* A chat is created or opened: reserve_start.
Reserve(s) ==
    /\ Admitted /\ bot
    /\ s \in Owned
    /\ owner[s] \in {"none", "stopped"}
    /\ s \in rows \/ (s \notin born /\ Parent[s] = None)
    /\ owner' = [owner EXCEPT ![s] = "starting"]
    /\ UNCHANGED <<catalog, instructions, store, closed, files, up, running, job, cleaning,
                   bounds, changes>>

\* The start ends after the guard of session_mutations was dropped.
Started(s) ==
    /\ owner[s] = "starting"
    /\ owner' = [owner EXCEPT ![s] = "idle"]
    /\ rows' = rows \cup {s}
    /\ born' = born \cup {s}
    /\ files' = [files EXCEPT ![s] = "live"]
    /\ UNCHANGED <<catalog, instructions, saved, closed, up, running, job, cleaning, bounds,
                   changes>>

\* The start fails, with the first checkpoint saved or not.
StartFails(s) ==
    /\ owner[s] = "starting"
    /\ owner' = [owner EXCEPT ![s] = "none"]
    /\ \/ /\ rows' = rows \cup {s}
          /\ born' = born \cup {s}
          /\ files' = [files EXCEPT ![s] = "live"]
       \/ UNCHANGED <<rows, born, files>>
    /\ UNCHANGED <<catalog, instructions, saved, closed, up, running, job, cleaning, bounds,
                   changes>>

\* A client's message, or the notice of a background command, which waits
\* for no lock of the gateway.
Work(s) ==
    /\ owner[s] = "idle"
    /\ owner' = [owner EXCEPT ![s] = "busy"]
    /\ UNCHANGED <<catalog, instructions, store, closed, files, up, running, job, cleaning,
                   bounds, changes>>

\* An agent at work forks a session (a subagent).
Fork(s) ==
    /\ s \notin born
    /\ Parent[s] # None /\ owner[Parent[s]] = "busy"
    /\ rows' = rows \cup {s}
    /\ born' = born \cup {s}
    /\ files' = [files EXCEPT ![s] = "live"]
    /\ UNCHANGED <<catalog, instructions, saved, closed, volatile, job, bounds, changes>>

EndTurn(s) ==
    /\ owner[s] = "busy"
    /\ owner' = [owner EXCEPT ![s] = "idle"]
    /\ UNCHANGED <<catalog, instructions, store, closed, files, up, running, job, cleaning,
                   bounds, changes>>

\* create_routine and update_routine: the new instructions are published in
\* a file of their own, before the catalog refers to it.
PublishInstructions(r, old) ==
    /\ Admitted /\ bot
    /\ r \notin instructions
    /\ old \in {None} \cup (routines \ running)
    /\ instructions' = instructions \cup {r}
    /\ change' = [pc |-> "staged", new |-> r, old |-> old]
    /\ UNCHANGED <<catalog, store, closed, files, volatile, job, bounds, stray>>

\* save_catalog_with_hooks.
CommitRoutine ==
    /\ change.pc = "staged"
    /\ routines' = (routines \ {change.old}) \cup {change.new}
    /\ change' = IF change.old = None THEN NoChange ELSE [change EXCEPT !.pc = "committed"]
    /\ UNCHANGED <<bot, intent, instructions, store, closed, files, volatile, job, bounds, stray>>

\* delete_routine: the catalog forgets the routine.  Its sessions go like
\* other chats (SessionRegistry, HookOutbox).
DeleteRoutine(r) ==
    /\ Admitted /\ bot
    /\ r \in routines \ running
    /\ routines' = routines \ {r}
    /\ change' = [pc |-> "committed", new |-> None, old |-> r]
    /\ UNCHANGED <<bot, intent, instructions, store, closed, files, volatile, job, bounds, stray>>

\* The file of this change that no routine in the catalog refers to.
Unnamed == ({change.new, change.old} \ routines) \ {None}

\* The replaced or deleted file is removed, or after a failed commit the new
\* one (discard_staged).  Either may fail and leaves the file there.
DropFile ==
    /\ change.pc # "none"
    /\ \/ change.pc = "committed" /\ UNCHANGED faults
       \/ Fault
    /\ \/ instructions' = instructions \ Unnamed /\ UNCHANGED stray
       \/ faults' # faults /\ stray' = stray \cup Unnamed /\ UNCHANGED instructions
    /\ change' = NoChange
    /\ UNCHANGED <<catalog, store, closed, files, volatile, job, crashes>>

\* begin_run_inner: the run holds the routine's lock until it ends.
BeginRun(r) ==
    /\ Admitted
    /\ r \in routines \ running
    /\ running' = running \cup {r}
    /\ UNCHANGED <<catalog, instructions, store, closed, files, up, owner, job, cleaning,
                   bounds, changes>>

FinishRun(r) ==
    /\ r \in running
    /\ running' = running \ {r}
    /\ UNCHANGED <<catalog, instructions, store, closed, files, up, owner, job, cleaning,
                   bounds, changes>>

-----------------------------------------------------------------------------
(* The deletion.  `delete' is the request, `reconcile' its completion on a *)
(* client message and `startup' the one when the process starts.           *)

At(pc) == job.pc = pc

Goto(pc) == job' = [job EXCEPT !.pc = pc]

\* prepare_session_tree_deletion refuses a busy chat.
Refuses(ids) == \E s \in ids : owner[s] \in {"starting", "busy"}

\* prepare_bot_deletion: no run holds a lock, each instruction file is read.
Deletable == running \cap routines = {} /\ routines \subseteq instructions

\* delete_bot, up to the first list of its sessions.
BeginDelete ==
    /\ Admitted /\ bot
    /\ \A s \in Owned : owner[s] # "starting"
    /\ ~Refuses(BotTrees)
    /\ job' = [NoJob EXCEPT !.pc = "stop", !.kind = "delete", !.ids = BotTrees, !.files = BotTrees]
    /\ UNCHANGED <<catalog, instructions, store, closed, files, volatile, bounds, changes>>

Reconciles(kind) ==
    /\ intent # None
    /\ bot => Deletable
    /\ ~Refuses(intent.ids)
    /\ job' = [pc |-> "stop", kind |-> kind, roots |-> intent.roots, ids |-> intent.ids,
               files |-> intent.ids]

BeginReconcile ==
    /\ up /\ job = NoJob /\ change = NoChange
    /\ Reconciles("reconcile")
    /\ UNCHANGED <<catalog, instructions, store, closed, files, volatile, bounds, changes>>

\* stop_if_idle of one resident; an actor that has stopped agrees.
StopOwner(s) ==
    /\ At("stop")
    /\ s \in job.ids
    /\ owner[s] = "idle"
    /\ owner' = [owner EXCEPT ![s] = "stopped"]
    /\ UNCHANGED <<catalog, instructions, store, closed, files, up, running, job, cleaning,
                   bounds, changes>>

Stopped == \A s \in job.ids : owner[s] \notin {"idle", "busy"}

\* The request ends with a rejection; a start-up that fails ends the process.
Abandon ==
    /\ job' = NoJob
    /\ up' = (job.kind # "startup")
    /\ UNCHANGED <<owner, running, cleaning>>

\* A chat went to work before it was asked to stop, or a routine runs.
Reject ==
    /\ At("stop")
    /\ Refuses(job.ids) \/ (job.kind = "delete" /\ Stopped /\ ~Deletable)
    /\ Abandon
    /\ UNCHANGED <<catalog, instructions, store, closed, files, bounds, changes>>

\* Mutant of Listed: the sessions listed before the chats were stopped.
ListedFirst == [roots |-> BotRoots, ids |-> job.ids, instructions |-> routines]

\* The second list of prepare_bot_session_tree_deletion and the routines of
\* prepare_bot_deletion: what the intent names.
Listed == [roots |-> BotRoots, ids |-> BotTrees, instructions |-> routines]

\* record_bot_deletion.
Record ==
    /\ At("stop") /\ job.kind = "delete"
    /\ Stopped /\ Deletable
    /\ intent' = Listed
    /\ job' = [job EXCEPT !.pc = "records", !.roots = Listed.roots, !.ids = Listed.ids]
    /\ UNCHANGED <<bot, routines, instructions, store, closed, files, volatile, bounds, changes>>

\* A reconciliation goes on with what is left.
Resume ==
    /\ At("stop") /\ job.kind # "delete"
    /\ Stopped
    /\ Goto(IF bot THEN "records" ELSE "trees")
    /\ UNCHANGED <<catalog, instructions, store, closed, files, volatile, bounds, changes>>

\* BotStore::delete_bot: one transaction for the Bot, its routines and rows.
DeleteRecords ==
    /\ At("records")
    /\ intent.instructions = routines
    /\ bot' = FALSE
    /\ routines' = {}
    /\ Goto("instructions")
    /\ UNCHANGED <<intent, instructions, store, closed, files, volatile, bounds, changes>>

\* It then removes the instruction files; what remains is only logged.
RemoveInstructions ==
    /\ At("instructions")
    /\ \/ instructions' = instructions \ intent.instructions /\ UNCHANGED faults
       \/ Fault /\ \E gone \in SUBSET intent.instructions : instructions' = instructions \ gone
    /\ Goto("trees")
    /\ UNCHANGED <<catalog, store, closed, files, volatile, crashes, changes>>

\* recover_session_hook_closures: facts of sessions that are gone are published.
RecoverClosures ==
    /\ closed' = closed \cup (saved \ rows)
    /\ saved' = {}

\* remove_session_trees.
BeginTrees ==
    /\ At("trees")
    /\ IF job.ids = {}
         THEN Goto("finish") /\ UNCHANGED <<closed, saved>>
         ELSE Goto("save") /\ RecoverClosures
    /\ UNCHANGED <<catalog, instructions, rows, born, files, volatile, bounds, changes>>

SaveClosures ==
    /\ At("save")
    /\ saved' = job.ids \cap rows
    /\ Goto("rows")
    /\ UNCHANGED <<catalog, instructions, rows, born, closed, files, volatile, bounds, changes>>

\* Mutant of ExistingRoots: a root that is gone is an error.
AllRoots == job.roots

\* missing_roots_are_deleted.
ExistingRoots == job.roots \cap rows

\* CheckpointStore::delete_sessions: one transaction, refused for an unknown root.
DeleteRows ==
    /\ At("rows")
    /\ ExistingRoots \subseteq rows
    /\ rows' = rows \ Tree(ExistingRoots, rows)
    /\ Goto("close")
    /\ UNCHANGED <<catalog, instructions, saved, born, closed, files, volatile, bounds, changes>>

\* The facts are published and the actors leave the registry.
CloseSessions ==
    /\ At("close")
    /\ RecoverClosures
    /\ owner' = [s \in Sessions |-> IF s \in job.ids THEN "none" ELSE owner[s]]
    /\ Goto("stage")
    /\ UNCHANGED <<catalog, instructions, rows, born, files, up, running, cleaning, bounds,
                   changes>>

Staged(ids) ==
    [s \in Sessions |-> IF s \in ids /\ files[s] = "live" THEN "staged" ELSE files[s]]

\* SessionFileDeletion::stage, whose failure is only reported, then the
\* clean-up task is spawned.
StageFiles ==
    /\ At("stage")
    /\ \/ files' = Staged(job.files) /\ UNCHANGED faults
       \/ Fault /\ \E done \in SUBSET job.files : files' = Staged(done)
    /\ cleaning' = cleaning \cup job.files
    /\ Goto("finish")
    /\ UNCHANGED <<catalog, instructions, store, closed, up, owner, running, crashes, changes>>

\* cleanup_bot_deletion_files.
Finish ==
    /\ At("finish")
    /\ instructions' = instructions \ intent.instructions
    /\ Goto("clear")
    /\ UNCHANGED <<catalog, store, closed, files, volatile, bounds, changes>>

\* clear_bot_deletion.  After a start-up the staged files are cleaned up.
ClearIntent ==
    /\ At("clear")
    /\ intent' = None
    /\ job' = NoJob
    /\ cleaning' = IF job.kind = "startup"
                     THEN cleaning \cup {s \in Sessions : files[s] = "staged"} ELSE cleaning
    /\ UNCHANGED <<bot, routines, instructions, store, closed, files, up, owner, running,
                   bounds, changes>>

\* A write fails: the request or the start-up ends with the error.
WriteFails ==
    /\ job.pc \in {"stop", "records", "trees", "save", "rows", "close", "finish", "clear"}
    /\ Fault
    /\ Abandon
    /\ UNCHANGED <<catalog, instructions, store, closed, files, crashes, changes>>

\* SessionFileDeletion::delete stages what is not staged and removes it; an
\* error ends the task and leaves its other sessions too.
CleanUp(s) ==
    /\ s \in cleaning
    /\ \/ /\ files' = [files EXCEPT ![s] = "none"]
          /\ cleaning' = cleaning \ {s}
          /\ UNCHANGED faults
       \/ /\ Fault
          /\ \E others \in SUBSET (cleaning \ {s}) : cleaning' = others
          /\ UNCHANGED files
    /\ UNCHANGED <<catalog, instructions, store, closed, up, owner, running, job, crashes, changes>>

Crash ==
    /\ up
    /\ crashes < MaxCrashes
    /\ crashes' = crashes + 1
    /\ up' = FALSE
    /\ owner' = [s \in Sessions |-> "none"]
    /\ running' = {}
    /\ cleaning' = {}
    /\ job' = NoJob
    /\ change' = NoChange
    /\ stray' = stray \cup Unnamed
    /\ UNCHANGED <<catalog, instructions, store, closed, files, faults>>

\* GatewayHost::start: facts, then the pending deletion, then the files.
Restart ==
    /\ ~up
    /\ up' = TRUE
    /\ RecoverClosures
    /\ \/ /\ Reconciles("startup")
          /\ UNCHANGED cleaning
       \/ /\ intent = None
          /\ cleaning' = {s \in Sessions : files[s] = "staged"}
          /\ UNCHANGED job
    /\ UNCHANGED <<catalog, instructions, rows, born, files, owner, running, bounds, changes>>

-----------------------------------------------------------------------------

Init ==
    /\ bot = TRUE
    /\ routines = {} /\ instructions = {}
    /\ intent = None
    /\ rows \in {Stored, Stored \ Owned}
    /\ born = rows
    /\ saved = {} /\ closed = {}
    /\ files = [s \in Sessions |-> IF s \in rows THEN "live" ELSE "none"]
    /\ up = TRUE
    /\ owner = [s \in Sessions |-> "none"]
    /\ running = {} /\ cleaning = {}
    /\ job = NoJob
    /\ change = NoChange /\ stray = {}
    /\ faults = 0 /\ crashes = 0

\* What a task does with each turn of the scheduler.
JobStep ==
    \/ \E s \in Sessions : StopOwner(s)
    \/ Reject \/ Record \/ Resume \/ DeleteRecords \/ RemoveInstructions \/ BeginTrees
    \/ SaveClosures \/ DeleteRows \/ CloseSessions \/ StageFiles \/ Finish \/ ClearIntent

Next ==
    \/ \E s \in Sessions : Reserve(s) \/ Started(s) \/ StartFails(s) \/ CleanUp(s)
    \/ \E s \in Sessions : Work(s) \/ Fork(s) \/ EndTurn(s)
    \/ \E r \in Routines, old \in Routines \cup {None} : PublishInstructions(r, old)
    \/ \E r \in Routines : DeleteRoutine(r) \/ BeginRun(r) \/ FinishRun(r)
    \/ CommitRoutine \/ DropFile
    \/ BeginDelete \/ BeginReconcile \/ JobStep
    \/ WriteFails \/ Crash \/ Restart

Spec == Init /\ [][Next]_vars

\* A spawned or requested task goes on, the process is started again, and
\* clients keep sending messages.
FairSpec ==
    /\ Spec
    /\ WF_vars(JobStep) /\ WF_vars(BeginReconcile) /\ WF_vars(Restart)

-----------------------------------------------------------------------------

Jobs ==
    [pc : {"none", "stop", "records", "instructions", "trees", "save", "rows", "close", "stage",
           "finish", "clear"},
     kind : {"none", "delete", "reconcile", "startup"},
     roots : SUBSET Sessions, ids : SUBSET Sessions, files : SUBSET Sessions]

Changes ==
    [pc : {"none", "staged", "committed"}, new : Routines \cup {None}, old : Routines \cup {None}]

TypeOK ==
    /\ bot \in BOOLEAN /\ up \in BOOLEAN
    /\ routines \subseteq Routines /\ instructions \subseteq Routines /\ running \subseteq Routines
    /\ intent \in Intents \cup {None}
    /\ rows \subseteq Sessions /\ saved \subseteq Sessions /\ born \subseteq Sessions
    /\ closed \subseteq Sessions /\ cleaning \subseteq Sessions
    /\ files \in [Sessions -> {"none", "live", "staged"}]
    /\ owner \in [Sessions -> {"none", "starting", "idle", "busy", "stopped"}]
    /\ job \in Jobs
    /\ change \in Changes /\ stray \subseteq Routines
    /\ faults \in Nat /\ crashes \in Nat

\* The deletion of a Bot (host/deletion.rs) takes everything and nothing
\* else, through failed writes and crashes between its steps: no chat of a
\* deleted Bot is in the registry; when the deletion is over, no session,
\* routine or saved fact is left, and no instruction file but those which a
\* change of a routine, interrupted by a crash or a failed write, had left
\* where neither the catalog nor the intent names them; every session that
\* existed has its closing fact; unless a write failed, its files have left
\* the live directory (those of a subagent aside, which may be forked after
\* the list of directories was made); sessions outside the Bot's trees stay.
DeletedIsWhole ==
    /\ ~bot => \A s \in Owned : owner[s] \in {"none", "stopped"}
    /\ ~bot /\ intent = None =>
         /\ Owned \cap rows = {} /\ BotTrees = {}
         /\ routines = {} /\ instructions \subseteq stray /\ saved = {}
         /\ \A s \in born \ rows : s \in closed
         /\ faults = 0 => \A s \in born \ rows : files[s] = "live" => Parent[s] \in Owned
    /\ \A s \in born \ rows : s \in Tree(Owned, born)

\* A deletion that was recorded is finished (reconcile_pending_bot_deletion):
\* nothing that a failure or a crash leaves behind can make it fail for ever.
DeletionFinishes == intent # None ~> intent = None

=============================================================================
