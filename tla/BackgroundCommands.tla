------------------------- MODULE BackgroundCommands -------------------------
(***************************************************************************)
(* The background commands of the sandbox                                  *)
(* (src/src/backend/sandbox/background.rs): a bounded table of running and *)
(* finished commands shared by all sessions, the task that executes each   *)
(* command, the tool calls that start, poll and stop it, and the shutdown  *)
(* of a session.                                                           *)
(*                                                                         *)
(* The command task runs on a thread of its own.  Two bits shared with the *)
(* table decide how its result reaches the model: a poll that finds the    *)
(* command running sets HELD, the task sets FINISHED, and whoever comes    *)
(* second knows it.  Both are single atomic operations, so each is one     *)
(* step here, and so is what a call does under the lock of the table.  A   *)
(* poll that is refused (unknown id, foreign owner) and a start refused by *)
(* a full table change nothing and are not steps.                          *)
(***************************************************************************)
EXTENDS Naturals, FiniteSets

CONSTANTS
    Sessions,   \* chats that share the sandbox
    Commands,   \* command ids; an id is used once, as a fresh UUID is
    Owner,      \* the session whose tool call starts the command
    Limit       \* background_command_limit

ASSUME LimitAssumption == Limit \in Nat \ {0}
ASSUME OwnerAssumption == Owner \in [Commands -> Sessions]

VARIABLES
    listeners,  \* sessions with a registered listener: between start and end
    entries,    \* the table: when the command of an id was started
    clock,      \* the time: starts so far
    task,       \* what the command's task is doing
    held,       \* commands whose HELD bit is set
    finished,   \* commands whose FINISHED bit is set
    announces,  \* the task's local `held': it will call the listener
    aborted,    \* tasks that were asked to stop
    caller,     \* what a tool call is waiting for, per command
    ending,     \* commands whose end a session's shutdown awaits
    \* Observations, read by the properties only:
    first,      \* the answer the starting call got
    settled,    \* the result went to a caller, or no caller wanted it any more
    notices     \* completion notices sent

vars == <<listeners, entries, clock, task, held, finished, announces, aborted,
          caller, ending, first, settled, notices>>

TaskStates == {"none", "running", "finishing", "returned", "cancelled", "panicked"}
CallerStates == {"none", "waiting", "reading", "stopping"}
Answers == {"none", "running", "final", "unknown"}

Tables == UNION {[ids -> Nat] : ids \in SUBSET Commands}

TypeOK ==
    /\ listeners \subseteq Sessions
    /\ entries \in Tables
    /\ clock \in Nat
    /\ task \in [Commands -> TaskStates]
    /\ held \subseteq Commands
    /\ finished \subseteq Commands
    /\ announces \subseteq Commands
    /\ aborted \subseteq Commands
    /\ caller \in [Commands -> CallerStates]
    /\ ending \subseteq Commands
    /\ first \in [Commands -> Answers]
    /\ settled \subseteq Commands
    /\ notices \in [Commands -> Nat]

Init ==
    /\ listeners = {}
    /\ entries = [c \in {} |-> 0]
    /\ clock = 0
    /\ task = [c \in Commands |-> "none"]
    /\ held = {}
    /\ finished = {}
    /\ announces = {}
    /\ aborted = {}
    /\ caller = [c \in Commands |-> "none"]
    /\ ending = {}
    /\ first = [c \in Commands |-> "none"]
    /\ settled = {}
    /\ notices = [c \in Commands |-> 0]

-----------------------------------------------------------------------------
(* The table.                                                              *)

InTable(c) == c \in DOMAIN entries

(* The table without some of its ids.                                      *)
Without(ids) == [c \in DOMAIN entries \ ids |-> entries[c]]

(* JoinHandle::is_finished: the task has returned, panicked or been        *)
(* cancelled; setting FINISHED is not enough.                              *)
IsFinished(c) == task[c] \in {"returned", "cancelled", "panicked"}

(* has_owner: what the gateway asks before it stops an idle chat.          *)
HasOwner(s) == \E c \in DOMAIN entries : Owner[c] = s /\ ~IsFinished(c)

(* Mutant of Evictable: a finished command may go before its starter has   *)
(* heard of it.                                                            *)
EvictAnyFinished(c) == IsFinished(c)

Evictable(c) == c \in held /\ IsFinished(c)

(* What start evicts to make room: nothing below the limit, the oldest     *)
(* evictable entry at the limit.  A full table without one refuses.        *)
Victims ==
    IF Cardinality(DOMAIN entries) < Limit
    THEN {{}}
    ELSE {{c} : c \in {c \in DOMAIN entries :
             /\ Evictable(c)
             /\ \A d \in DOMAIN entries : Evictable(d) => entries[c] <= entries[d]}}

-----------------------------------------------------------------------------
(* Sessions.                                                               *)

(* Sandbox::session_start registers the session's listener.                *)
Listen(s) ==
    /\ s \notin listeners
    /\ \A c \in ending : Owner[c] # s
    /\ listeners' = listeners \cup {s}
    /\ UNCHANGED <<clock, entries, task, held, finished, announces, aborted,
                   caller, ending, first, settled, notices>>

(* shutdown, called once the session runs no tool any more: the listener   *)
(* goes, the session's entries leave the table and their tasks are told to *)
(* stop.                                                                   *)
EndSession(s) ==
    LET own == {c \in DOMAIN entries : Owner[c] = s} IN
    /\ s \in listeners
    /\ \A c \in Commands : Owner[c] = s => caller[c] = "none"
    /\ listeners' = listeners \ {s}
    /\ entries' = Without(own)
    /\ aborted' = aborted \cup own
    /\ ending' = ending \cup own
    /\ settled' = settled \cup own
    /\ UNCHANGED <<clock, task, held, finished, announces, caller, first, notices>>

(* shutdown awaits the tasks it extracted before it returns.               *)
Ended(c) ==
    /\ c \in ending
    /\ IsFinished(c)
    /\ ending' = ending \ {c}
    /\ UNCHANGED <<clock, listeners, entries, task, held, finished, announces,
                   aborted, caller, first, settled, notices>>

-----------------------------------------------------------------------------
(* The command task.                                                       *)

(* execute is over: fetch_or(FINISHED) reads HELD in the same operation.   *)
(* There is no await after it, so an abort no longer has an effect.        *)
Finish(c) ==
    /\ task[c] = "running"
    /\ task' = [task EXCEPT ![c] = "finishing"]
    /\ finished' = finished \cup {c}
    /\ announces' = announces \cup (held \cap {c})
    /\ UNCHANGED <<clock, listeners, entries, held, aborted, caller, ending,
                   first, settled, notices>>

(* The listener captured at the start is called with the completion notice. *)
Notify(c) ==
    /\ task[c] = "finishing"
    /\ c \in announces
    /\ notices[c] = 0
    /\ notices' = [notices EXCEPT ![c] = @ + 1]
    /\ UNCHANGED <<clock, listeners, entries, task, held, finished, announces,
                   aborted, caller, ending, first, settled>>

(* The task wakes the starter and returns the result.                      *)
Return(c) ==
    /\ task[c] = "finishing"
    /\ c \in announces => notices[c] > 0
    /\ task' = [task EXCEPT ![c] = "returned"]
    /\ UNCHANGED <<clock, listeners, entries, held, finished, announces,
                   aborted, caller, ending, first, settled, notices>>

(* The task ends inside execute: cancelled after an abort, or by a panic   *)
(* of the backend.                                                         *)
Die(c) ==
    /\ task[c] = "running"
    /\ \/ c \in aborted /\ task' = [task EXCEPT ![c] = "cancelled"]
       \/ task' = [task EXCEPT ![c] = "panicked"]
    /\ UNCHANGED <<clock, listeners, entries, held, finished, announces,
                   aborted, caller, ending, first, settled, notices>>

-----------------------------------------------------------------------------
(* Tool calls.                                                             *)

(* run_command: start inserts the entry and spawns the task; the call then *)
(* waits for the completion or the initial timeout.  Tools run between     *)
(* session_start and session_end, so start always finds a listener.        *)
Start(c) ==
    /\ Owner[c] \in listeners
    /\ task[c] = "none"
    /\ \E gone \in Victims :
         entries' = [d \in (DOMAIN entries \ gone) \cup {c} |-> IF d = c THEN clock ELSE entries[d]]
    /\ clock' = clock + 1
    /\ task' = [task EXCEPT ![c] = "running"]
    /\ caller' = [caller EXCEPT ![c] = "waiting"]
    /\ UNCHANGED <<listeners, held, finished, announces, aborted, ending,
                   first, settled, notices>>

(* Mutant of StillRunning: a command that has not returned counts as       *)
(* running although its FINISHED bit is set.                               *)
RunningUntilReturned(c) == ~IsFinished(c)

(* Mutant of StillRunning: a poll of a running command awaits its end.     *)
NeverRunning(c) == FALSE

StillRunning(c) == ~IsFinished(c) /\ c \notin finished

(* poll under the lock of the table: a running command is held by the      *)
(* caller from now on, a finished one leaves the table and its result is   *)
(* awaited.  An id without an entry is an error.                           *)
PollEntry(c) ==
    \/ /\ InTable(c)
       /\ StillRunning(c)
       /\ held' = held \cup {c}
       /\ caller' = [caller EXCEPT ![c] = "none"]
       /\ first' = [first EXCEPT ![c] = "running"]
       /\ UNCHANGED entries
    \/ /\ InTable(c)
       /\ ~StillRunning(c)
       /\ entries' = Without({c})
       /\ caller' = [caller EXCEPT ![c] = "reading"]
       /\ UNCHANGED <<held, first>>
    \/ /\ ~InTable(c)
       /\ caller' = [caller EXCEPT ![c] = "none"]
       /\ first' = [first EXCEPT ![c] = "unknown"]
       /\ UNCHANGED <<entries, held>>

(* StartingCommand::wait: the completion or the elapsed timeout, whichever *)
(* comes first, leads to the poll.                                         *)
FirstPoll(c) ==
    /\ caller[c] = "waiting"
    /\ PollEntry(c)
    /\ UNCHANGED <<clock, listeners, task, finished, announces, aborted,
                   ending, settled, notices>>

(* The ids the model can name: its session runs, and a poll gave it.       *)
Known(c) == Owner[c] \in listeners /\ first[c] = "running" /\ caller[c] = "none"

Poll(c) ==
    /\ Known(c)
    /\ InTable(c)
    /\ PollEntry(c)
    /\ UNCHANGED <<clock, listeners, task, finished, announces, aborted,
                   ending, settled, notices>>

Stop(c) ==
    /\ Known(c)
    /\ InTable(c)
    /\ entries' = Without({c})
    /\ aborted' = aborted \cup {c}
    /\ caller' = [caller EXCEPT ![c] = "stopping"]
    /\ UNCHANGED <<clock, listeners, task, held, finished, announces, ending,
                   first, settled, notices>>

(* The awaited task has ended: finish or stopped builds the answer.        *)
Answer(c) ==
    /\ caller[c] \in {"reading", "stopping"}
    /\ IsFinished(c)
    /\ caller' = [caller EXCEPT ![c] = "none"]
    /\ first' = [first EXCEPT ![c] = IF @ = "none" THEN "final" ELSE @]
    /\ settled' = settled \cup {c}
    /\ UNCHANGED <<clock, listeners, entries, task, held, finished, announces,
                   aborted, ending, notices>>

(* Mutant of CancelStart: the dropped call forgets to abort.               *)
CancelStartKeepsTask(c) ==
    /\ caller[c] = "waiting"
    /\ entries' = Without({c})
    /\ caller' = [caller EXCEPT ![c] = "none"]
    /\ settled' = settled \cup {c}
    /\ UNCHANGED <<clock, listeners, task, held, finished, announces, aborted,
                   ending, first, notices>>

(* The turn is interrupted during the initial wait: dropping the           *)
(* StartingCommand removes the entry and aborts the task.                  *)
CancelStart(c) ==
    /\ caller[c] = "waiting"
    /\ entries' = Without({c})
    /\ aborted' = aborted \cup ({c} \cap DOMAIN entries)
    /\ caller' = [caller EXCEPT ![c] = "none"]
    /\ settled' = settled \cup {c}
    /\ UNCHANGED <<clock, listeners, task, held, finished, announces, ending,
                   first, notices>>

(* The turn is interrupted while a call awaits the end of a task whose     *)
(* entry it has removed: the answer is dropped, nothing else happens.      *)
CancelRead(c) ==
    /\ caller[c] \in {"reading", "stopping"}
    /\ caller' = [caller EXCEPT ![c] = "none"]
    /\ settled' = settled \cup {c}
    /\ UNCHANGED <<clock, listeners, entries, task, held, finished, announces,
                   aborted, ending, first, notices>>

-----------------------------------------------------------------------------
TaskStep(c) == Finish(c) \/ Notify(c) \/ Return(c) \/ Die(c)

CallStep(c) == FirstPoll(c) \/ Poll(c) \/ Stop(c) \/ Answer(c) \/ CancelStart(c) \/ CancelRead(c)

Next ==
    \/ \E s \in Sessions : Listen(s) \/ EndSession(s)
    \/ \E c \in Commands : Start(c) \/ TaskStep(c) \/ CallStep(c) \/ Ended(c)

(* The timer of the initial wait fires, an aborted task is dropped at its  *)
(* next await, a task past execute runs to its end without waiting, and    *)
(* awaits of a finished task return.  Nothing makes a command itself end.  *)
Fairness ==
    \A c \in Commands :
        /\ WF_vars(FirstPoll(c))
        /\ WF_vars(Notify(c))
        /\ WF_vars(Return(c))
        /\ WF_vars(c \in aborted /\ Die(c))
        /\ WF_vars(Answer(c))
        /\ WF_vars(Ended(c))

Spec == Init /\ [][Next]_vars /\ Fairness

-----------------------------------------------------------------------------
(* Every way a command can end is told exactly once when it must be: a     *)
(* notice only follows a "running" answer, so a model that got the result  *)
(* from its first call gets no second copy; and a task that returned after *)
(* its id was given out has sent its notice, whoever else polled, stopped  *)
(* or was cancelled meanwhile (background.rs, task and poll).              *)
NoticeOrResult ==
    \A c \in Commands :
        /\ notices[c] > 0 => first[c] = "running" /\ notices[c] = 1
        /\ task[c] = "returned" /\ first[c] = "running" => notices[c] = 1

(* A result that left the table without having been answered was announced *)
(* before: eviction takes no result the model has not heard of, and the    *)
(* starting call always finds its entry (background.rs, start and wait).   *)
ResultReachable ==
    \A c \in Commands :
        /\ first[c] # "unknown"
        /\ task[c] \in {"returned", "panicked"} /\ ~InTable(c) /\ caller[c] = "none" =>
               c \in settled \/ first[c] = "running"

(* A command that runs and was not told to stop is in the table under its  *)
(* owner, so a poll, a stop, the end of its session and the gateway's      *)
(* question whether the chat is idle all reach it; a cancelled or ended    *)
(* call leaves nothing running behind (Drop of StartingCommand, shutdown). *)
NoOrphan ==
    \A c \in Commands :
        task[c] = "running" /\ c \notin aborted =>
            InTable(c) /\ HasOwner(Owner[c]) /\ Owner[c] \in listeners

(* A started command answers its call however long it runs, and the call   *)
(* that awaits a removed entry is answered too; so is the shutdown of a    *)
(* session (wait, completed, shutdown).                                    *)
CallsReturn ==
    \A c \in Commands :
        /\ caller[c] # "none" ~> caller[c] = "none"
        /\ c \in ending ~> c \notin ending
=============================================================================
