---------------------------- MODULE SessionReplay ----------------------------
(***************************************************************************)
(* How a chat's events reach the clients that show it                      *)
(* (mobius-gateway/src/host/replay.rs, host/session, host/transcript.rs,   *)
(* server/responses.rs, server/dispatch.rs).  The agent commits numbered   *)
(* events to the journal and hands them to the session actor.  The actor   *)
(* reduces them to a transcript, keeps a bounded window of frames for      *)
(* clients that come back, and broadcasts each frame.  A client that opens *)
(* the chat gets the frames after its last sequence, or the transcript.    *)
(*                                                                         *)
(* The actor handles one command or event at a time, so each is a step.    *)
(* Its start is not: the journal is read page by page while the agent      *)
(* already commits.  A connection writes its frames one by one and may be  *)
(* lost between two of them.                                               *)
(***************************************************************************)
EXTENDS Integers, Sequences, FiniteSets, SequencesExt, FiniteSetsExt, Subsequences

CONSTANTS
    Clients,
    None,               \* a client that opens with no last sequence; no cut
    ReplayCapacity,     \* REPLAY_CAPACITY
    PageSize,           \* REPLAY_LOAD_PAGE_SIZE
    BroadcastCapacity,  \* BROADCAST_CAPACITY
    ChannelCapacity,    \* events the agent may be ahead of the actor
    MaxEvents,          \* bound on the journal
    MaxLosses           \* bound on gateway crashes and lost connections

ASSUME CapacitiesArePositive ==
    {ReplayCapacity, PageSize, BroadcastCapacity, ChannelCapacity} \subseteq Nat \ {0}
ASSUME NoneIsNoSequence == None \notin Nat
ASSUME BoundsAreNatural == {MaxEvents, MaxLosses} \subseteq Nat

(* What the replay tells apart: agent starts, turns, streamed text and the *)
(* message that completes it, an event larger than the whole window, and   *)
(* the widgets and pickers that are journalled only to be numbered.        *)
Kinds == {"config", "start", "delta", "answer", "huge", "widget", "end"}

VARIABLES
    log,        \* the kind of every event ever numbered
    stored,     \* the sequences the journal still holds
    fed,        \* the last event the actor took from its agent's channel
    actor,      \* "down", "loading", "starting", "up", "replacing"
    load,       \* load_replay between two pages: before, latest, events read
    sequence,   \* HostState::sequence
    window,     \* HostState::replay
    transcript, \* TranscriptReducer: the events its items come from
    cut,        \* TranscriptReducer::cut
    pending,    \* HostState::pending_startup
    conn,       \* per client: connection phase, receiver queue, delivered_sequence
    view,       \* per client: the transcript it was given and the frames after it
    losses,
    rolledBack  \* observation: start-up events of agents restarted by a rollback

vars == <<log, stored, fed, actor, load, sequence, window, transcript, cut, pending,
          conn, view, losses, rolledBack>>
host == <<load, sequence, window, transcript, cut>>
journal == <<log, stored>>

Latest == Len(log)
Frames == [sequence : 1..MaxEvents, appends : BOOLEAN]
NoLoad == [before |-> None, latest |-> 0, events |-> {}]
Closed == [phase |-> "closed", queue |-> <<>>, lagged |-> FALSE, delivered |-> 0, out |-> <<>>]

TypeOK ==
    /\ log \in Seq(Kinds) /\ Latest <= MaxEvents
    /\ stored \subseteq 1..Latest
    /\ fed \in 0..Latest
    /\ actor \in {"down", "loading", "starting", "up", "replacing"}
    /\ sequence \in 0..Latest
    /\ window \in Seq(Frames) /\ Len(window) <= ReplayCapacity
    /\ transcript \subseteq 1..Latest
    /\ cut \in 1..(MaxEvents + 1) \cup {None}
    /\ pending \in Seq(Frames)
    /\ \A c \in Clients :
        /\ conn[c].phase \in {"closed", "subscribed", "opening", "open"}
        /\ Len(conn[c].queue) <= BroadcastCapacity
        /\ view[c].base \in 0..Latest
    /\ losses \in 0..MaxLosses
    /\ rolledBack \subseteq 1..Latest

----------------------------------------------------------------------------
(* The journal.                                                            *)

(* The start of the turn that event n belongs to, 0 outside turns.         *)
TurnOf(n) ==
    LET starts == {t \in 1..n : log[t] = "start"}
    IN  IF starts = {} \/ \E e \in Max(starts)..(n - 1) : log[e] = "end"
        THEN 0 ELSE Max(starts)

(* Deltas of the model step that event n ends or streams on.               *)
StepDeltas(n) ==
    {d \in 1..(n - 1) :
        log[d] = "delta" /\ \A k \in d..(n - 1) : log[k] \in {"delta", "widget"}}

IsTransient(kind) == kind = "widget"

(* What store_event leaves in the journal: a complete message replaces the *)
(* deltas of its step, a transient event only takes its number.            *)
Journalled(kind) ==
    LET n == Latest + 1
    IN  CASE kind = "answer" -> (stored \cup {n}) \ StepDeltas(n)
          [] IsTransient(kind) -> stored
          [] OTHER -> stored \cup {n}

StoreEvent(kind) ==
    /\ Latest < MaxEvents
    /\ log' = Append(log, kind)
    /\ stored' = Journalled(kind)

----------------------------------------------------------------------------
(* Reducing, and the window of frames.                                     *)

Items == {"start", "delta", "answer", "huge", "end"}

(* TranscriptReducer::apply: a complete message replaces the item that its *)
(* deltas made.                                                            *)
Reduced(items, n) ==
    CASE log[n] = "answer" -> (items \cup {n}) \ StepDeltas(n)
      [] log[n] \in Items -> items \cup {n}
      [] OTHER -> items

(* Only a delta of an item the reducer already has is a plain append.      *)
FrameOf(items, n) ==
    [sequence |-> n, appends |-> log[n] = "delta" /\ StepDeltas(n) \cap items # {}]

Replayable(n) == log[n] # "widget"

CompactReplayDeltas(frames, n) ==
    IF log[n] # "answer" THEN frames
    ELSE Entries(frames, {i \in DOMAIN frames :
                             ~(frames[i].appends /\ frames[i].sequence \in StepDeltas(n))})

(* A frame larger than the window drives out all others and is not kept.   *)
PushReplay(frames, f) ==
    IF log[f.sequence] = "huge" THEN <<>>
    ELSE Append(IF Len(frames) >= ReplayCapacity THEN Tail(frames) ELSE frames, f)

Truncates(frames, n) == Replayable(n) /\ (log[n] = "huge" \/ Len(frames) >= ReplayCapacity)

Recorded(frames, f) == IF Replayable(f.sequence) THEN PushReplay(frames, f) ELSE frames

Oldest(frames, else) == IF frames = <<>> THEN else ELSE Head(frames).sequence

(* trim_before: whole finished turns that started before s go, and items   *)
(* outside the reducer's turns that lie before it.                         *)
Turn(items, n) == IF TurnOf(n) \in items THEN TurnOf(n) ELSE 0

Finished(items, t) == \E n \in items : log[n] = "end" /\ TurnOf(n) = t

TrimBefore(items, s) ==
    {n \in items :
        LET t == Turn(items, n)
        IN  IF t = 0 THEN n >= s ELSE t >= s \/ ~Finished(items, t)}

LaterCut(c, s) == IF c = None THEN s ELSE Max({c, s})

(* history_before: where the pages of older history start.                 *)
HistoryBefore == Min({cut} \cup {n \in transcript : log[n] = "start"})

----------------------------------------------------------------------------
(* Delivery to subscribers.                                                *)

(* A receiver more than BroadcastCapacity frames behind loses the oldest.  *)
Enqueued(k, queue) ==
    LET excess == Len(queue) - BroadcastCapacity
    IN  IF excess <= 0 THEN [k EXCEPT !.queue = queue]
        ELSE [k EXCEPT !.queue = SubSeq(queue, excess + 1, Len(queue)), !.lagged = TRUE]

Broadcast(k, frames) == IF k.phase = "closed" THEN k ELSE Enqueued(k, k.queue \o frames)

(* project_and_publish of the next event of the agent's channel.  Before   *)
(* the actor serves, events it has loaded already change nothing but the   *)
(* window's deltas; start-up frames of a replacement wait in `pending'.    *)
Project ==
    LET n == fed + 1
        f == FrameOf(transcript, n)
        compacted == CompactReplayDeltas(window, n)
        trimmed == Truncates(compacted, n)
        frames == Recorded(compacted, f)
        front == Oldest(frames, n + 1)
    IN  /\ fed < Latest
        /\ fed' = n
        /\ IF n <= sequence
           THEN /\ window' = compacted
                /\ UNCHANGED <<sequence, transcript, cut, pending, conn>>
           ELSE /\ sequence' = n
                /\ window' = frames
                /\ transcript' = IF trimmed THEN TrimBefore(Reduced(transcript, n), front)
                                 ELSE Reduced(transcript, n)
                /\ cut' = IF trimmed THEN LaterCut(cut, front) ELSE cut
                /\ pending' = IF actor = "replacing" THEN Append(pending, f) ELSE pending
                /\ conn' = IF actor = "up" THEN [c \in Clients |-> Broadcast(conn[c], <<f>>)]
                           ELSE conn
        /\ UNCHANGED <<log, stored, actor, load, view, losses, rolledBack>>

Apply == actor = "up" /\ Project
Reconcile == actor \in {"starting", "replacing"} /\ Project

----------------------------------------------------------------------------
(* The agent.                                                              *)

TurnOpen == Latest > 0 /\ TurnOf(Latest) # 0 /\ log[Latest] # "end"

(* The agent commits an event: outside a turn it starts one, and a widget  *)
(* may change at any time.  An agent that is being replaced is idle.       *)
Emit(kind) ==
    /\ actor \in {"loading", "starting", "up"}
    /\ Latest - fed < ChannelCapacity
    /\ CASE kind = "start" -> ~TurnOpen
         [] kind = "widget" -> TRUE
         [] OTHER -> TurnOpen
    /\ StoreEvent(kind)
    /\ UNCHANGED <<fed, actor, host, pending, conn, view, losses, rolledBack>>

----------------------------------------------------------------------------
(* Starting the actor: the agent starts first and commits its start, then  *)
(* the newest pages of the journal are read.                               *)

Open ==
    /\ actor = "down"
    /\ StoreEvent("config")
    /\ fed' = Latest
    /\ actor' = "loading"
    /\ load' = NoLoad
    /\ UNCHANGED <<sequence, window, transcript, cut, pending, conn, view, losses, rolledBack>>

EventPage(before) ==
    LET rows == {n \in stored : before = None \/ n < before}
        limit == Min({PageSize, ReplayCapacity - Cardinality(load.events)})
    IN  [rows |-> rows, events |-> {n \in rows : Cardinality({m \in rows : m >= n}) <= limit}]

(* The window starts at a turn when older events were left out.            *)
Kept(events, hasEarlier) ==
    LET starts == {n \in events : log[n] = "start"}
    IN  IF hasEarlier /\ starts # {} THEN {n \in events : n >= Min(starts)} ELSE events

(* No more events are read than the window has room for: an event larger   *)
(* than the window is the one size that the model tells from the others.   *)
(* The byte limit, at which load_replay also stops (with hasEarlier), and  *)
(* several frames that exceed the window together are not modelled.        *)
Fitting(kept) == {n \in kept : \A m \in kept : m >= n => log[m] # "huge"}

Loaded(events, latest, hasEarlier) ==
    LET kept == Kept(events, hasEarlier)
        frame(n) == FrameOf({m \in kept : m < n}, n)
        frames == Entries([n \in 1..latest |-> frame(n)], Fitting(kept))
        lost == Fitting(kept) # kept
        items == {n \in kept : log[n] \in Items}
        front == Oldest(frames, latest + 1)
        first == IF hasEarlier THEN (IF kept = {} THEN latest + 1 ELSE Min(kept)) ELSE None
    IN  [frames |-> frames,
         items |-> IF lost THEN TrimBefore(items, front) ELSE items,
         cut |-> IF lost THEN LaterCut(first, front) ELSE first]

LoadPage ==
    LET page == EventPage(load.before)
        events == load.events \cup page.events
        latest == IF load.before = None THEN Latest ELSE load.latest
        more == page.rows # page.events
        hasEarlier == more /\ Cardinality(events) >= ReplayCapacity
        loaded == Loaded(events, latest, hasEarlier)
    IN  /\ actor = "loading"
        /\ IF more /\ ~hasEarlier
           THEN /\ load' = [before |-> Min(page.events), latest |-> latest, events |-> events]
                /\ UNCHANGED <<actor, sequence, window, transcript, cut>>
           ELSE /\ actor' = "starting"
                /\ load' = [NoLoad EXCEPT !.latest = latest]
                /\ sequence' = latest
                /\ window' = loaded.frames
                /\ transcript' = loaded.items
                /\ cut' = loaded.cut
        /\ pending' = <<>>
        /\ UNCHANGED <<journal, fed, conn, view, losses, rolledBack>>

(* The start-up is reconciled once the agent's events reach what was       *)
(* loaded and its channel is empty.                                        *)
Serve ==
    /\ actor = "starting"
    /\ fed >= load.latest /\ fed = Latest
    /\ actor' = "up"
    /\ load' = NoLoad
    /\ UNCHANGED <<journal, fed, sequence, window, transcript, cut, pending, conn, view,
                   losses, rolledBack>>

----------------------------------------------------------------------------
(* Replacing the agent of an idle chat, whose channel is drained first.    *)

Replace ==
    /\ actor = "up" /\ ~TurnOpen /\ fed = Latest
    /\ StoreEvent("config")
    /\ actor' = "replacing"
    /\ UNCHANGED <<fed, host, pending, conn, view, losses, rolledBack>>

(* broadcast_changed: the new state, then the start-up frames.             *)
Replaced ==
    /\ actor = "replacing" /\ fed = Latest
    /\ actor' = "up"
    /\ conn' = [c \in Clients |-> Broadcast(conn[c], pending)]
    /\ pending' = <<>>
    /\ UNCHANGED <<journal, fed, host, view, losses, rolledBack>>

(* The replacement could not start and the old agent was started again, or *)
(* it started and the reconciliation or the broadcast of its start-up      *)
(* failed: the command fails, and the start-up frames are not broadcast.   *)
RolledBack ==
    /\ actor = "replacing" /\ fed = Latest
    /\ actor' = "up"
    /\ rolledBack' = rolledBack \cup {f.sequence : f \in Range(pending)}
    /\ UNCHANGED <<journal, fed, host, pending, conn, view, losses>>

----------------------------------------------------------------------------
(* Connections.                                                            *)

Position(c) == IF view[c].frames = <<>> THEN view[c].base ELSE Last(view[c].frames)

(* open_selected subscribes before it asks the actor for a snapshot.       *)
Subscribe(c) ==
    /\ actor \in {"up", "replacing"} /\ conn[c].phase = "closed"
    /\ conn' = [conn EXCEPT ![c] = [Closed EXCEPT !.phase = "subscribed"]]
    /\ UNCHANGED <<journal, fed, actor, host, pending, view, losses, rolledBack>>

(* Mutant of Expired: a client one event too far behind is still served.   *)
ExpiredLate(last) == last < sequence /\ (window = <<>> \/ last + 1 < Head(window).sequence - 1)

Expired(last) == last < sequence /\ (window = <<>> \/ last + 1 < Head(window).sequence)

(* replay_after: the frames after `last', while the window holds them all. *)
InWindow(last) == last # None /\ last <= sequence /\ ~Expired(last)
ReplayAfter(last) == Entries(window, {i \in DOMAIN window : window[i].sequence > last})

Whole == [base |-> sequence, frames |-> <<>>]
PhaseWith(out) == IF out = <<>> THEN "open" ELSE "opening"

Snapshot(c, last) ==
    /\ actor = "up" /\ conn[c].phase = "subscribed"
    /\ LET out == IF InWindow(last) THEN ReplayAfter(last) ELSE <<Whole>>
       IN  conn' = [conn EXCEPT ![c] =
                [@ EXCEPT !.phase = PhaseWith(out), !.delivered = sequence, !.out = out]]
    /\ UNCHANGED <<journal, fed, actor, host, pending, view, losses, rolledBack>>

Shown(v, f) == IF "base" \in DOMAIN f THEN f ELSE [v EXCEPT !.frames = Append(@, f.sequence)]

Write(c) ==
    /\ conn[c].phase = "opening"
    /\ view' = [view EXCEPT ![c] = Shown(@, Head(conn[c].out))]
    /\ conn' = [conn EXCEPT ![c].out = Tail(@), ![c].phase = PhaseWith(Tail(conn[c].out))]
    /\ UNCHANGED <<journal, fed, actor, host, pending, losses, rolledBack>>

(* selected_broadcast: frames the snapshot included are passed over.       *)
Forward(c) ==
    /\ conn[c].phase = "open" /\ conn[c].queue # <<>> /\ ~conn[c].lagged
    /\ LET f == Head(conn[c].queue)
           new == f.sequence > conn[c].delivered
       IN  /\ conn' = [conn EXCEPT
                ![c].queue = Tail(@),
                ![c].delivered = IF new THEN f.sequence ELSE @]
           /\ view' = IF new THEN [view EXCEPT ![c] = Shown(@, f)] ELSE view
    /\ UNCHANGED <<journal, fed, actor, host, pending, losses, rolledBack>>

(* A client that fell behind is told to reconnect with its last sequence.  *)
Lagged(c) ==
    /\ conn[c].phase = "open" /\ conn[c].lagged
    /\ conn' = [conn EXCEPT ![c] = Closed]
    /\ UNCHANGED <<journal, fed, actor, host, pending, view, losses, rolledBack>>

Lost ==
    /\ losses < MaxLosses
    /\ losses' = losses + 1

Disconnect(c) ==
    /\ Lost /\ conn[c].phase # "closed"
    /\ conn' = [conn EXCEPT ![c] = Closed]
    /\ UNCHANGED <<journal, fed, actor, host, pending, view, rolledBack>>

(* The gateway dies; the journal and what clients show remain.             *)
Crash ==
    /\ Lost /\ actor # "down"
    /\ actor' = "down"
    /\ fed' = Latest
    /\ load' = NoLoad
    /\ sequence' = 0 /\ window' = <<>> /\ transcript' = {} /\ cut' = None /\ pending' = <<>>
    /\ conn' = [c \in Clients |-> Closed]
    /\ UNCHANGED <<journal, view, rolledBack>>

----------------------------------------------------------------------------
Init ==
    /\ log = <<>> /\ stored = {} /\ fed = 0
    /\ actor = "down"
    /\ load = NoLoad
    /\ sequence = 0 /\ window = <<>> /\ transcript = {} /\ cut = None /\ pending = <<>>
    /\ conn = [c \in Clients |-> Closed]
    /\ view = [c \in Clients |-> [base |-> 0, frames |-> <<>>]]
    /\ losses = 0 /\ rolledBack = {}

Next ==
    \/ \E kind \in Kinds \ {"config"} : Emit(kind)
    \/ Open \/ LoadPage \/ Reconcile \/ Serve \/ Apply
    \/ Replace \/ Replaced \/ RolledBack
    \/ \E c \in Clients :
        \/ Subscribe(c) \/ Write(c) \/ Forward(c) \/ Lagged(c) \/ Disconnect(c)
        \/ \E last \in {None, Position(c)} : Snapshot(c, last)
    \/ Crash

Spec == Init /\ [][Next]_vars

----------------------------------------------------------------------------
(* What a client that has come past event n must have been shown: every    *)
(* event but widgets, which each opening sends anew, and the deltas of a   *)
(* message that is complete.  (A start that reads the journal while the    *)
(* message completes may keep the later ones of its deltas alone; they are *)
(* shown until the frame of the whole message, which follows them.)        *)
Owed(n) ==
    /\ ~IsTransient(log[n])
    /\ \A m \in n..Latest : log[m] = "answer" => n \notin StepDeltas(m)

(* A client that follows a chat over lost connections, a full broadcast    *)
(* queue, a truncated or compacted window, agent replacements and gateway  *)
(* restarts is shown every event after its last transcript once and in     *)
(* order: the frames it gets leave out nothing it needs, and overlap with  *)
(* nothing it has.  The only exception is the start-up of an agent that    *)
(* came back after a failed replacement, which the rollback does not       *)
(* broadcast (replay_after, selected_broadcast, compact_replay_deltas).    *)
ClientCaughtUp ==
    \A c \in Clients :
        LET v == view[c]
            seen == Range(v.frames)
        IN  /\ \A i \in 1..(Len(v.frames) - 1) : v.frames[i] < v.frames[i + 1]
            /\ \A n \in (v.base + 1)..Position(c) : Owed(n) => n \in seen \cup rolledBack

(* What the pages of older history before a cursor show: the journalled    *)
(* events of the turns that started before it, up to the cursor.           *)
HistoryPages(before) ==
    IF before = None THEN {}
    ELSE {n \in stored : n < before /\ TurnOf(n) # 0}

(* A client that opens the chat can show every event of every turn: what   *)
(* the live transcript left out is in the older pages its cursor leads to  *)
(* (transcript.rs: the cursor is where "the next older history page starts *)
(* before, once older events were left out of this reducer").              *)
TranscriptIsWhole ==
    actor = "up" =>
        \A n \in stored : n <= sequence /\ log[n] \in Items /\ TurnOf(n) # 0 =>
            n \in transcript \cup HistoryPages(IF cut = None THEN None ELSE HistoryBefore)
============================================================================
