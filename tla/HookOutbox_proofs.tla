-------------------------- MODULE HookOutbox_proofs --------------------------
(***************************************************************************)
(* Proofs about HookOutbox, for every set of chats, routines and bindings: *)
(* an outbox row acts at most once, a running run holds its lock or waits  *)
(* for an approval, closing facts are published exactly if their chat is   *)
(* gone, a closed chat is silent, and loops of bindings end.               *)
(***************************************************************************)
EXTENDS HookOutbox, FiniteSetTheorems, SequenceTheorems, NaturalsInduction,
        WellFoundedInduction, TLAPS

(* Rows and runs refer to events on record.                                *)
RefsInv ==
    /\ \A a \in DOMAIN outbox \cup batch : a[1] \in DOMAIN events
    /\ \A i \in DOMAIN runs : runs[i].cause \in DOMAIN events \cup {None}

(* A lock is held by the one run of its routine that has an actor; what    *)
(* the actor is at agrees with the records of the run.                     *)
RunInv(i) ==
    /\ actor[i] # "gone" => held[runs[i].routine] = i
    /\ actor[i] \in {"admit", "turn", "approval", "deciding", "ended"} => runs[i].status = "running"
    /\ actor[i] = "finished" => runs[i].status # "running"
    /\ actor[i] \in {"approval", "deciding"} => outcome[i] = "approval"
    /\ phase = "up" /\ runs[i].status = "running" /\ actor[i] = "gone" => outcome[i] = "approval"

LocksInv ==
    /\ Len(actor) = Len(runs) /\ Len(outcome) = Len(runs)
    /\ \A i \in DOMAIN runs : RunInv(i)
    /\ \A r \in Routines : held[r] # None =>
           held[r] \in DOMAIN runs /\ runs[held[r]].routine = r /\ actor[held[r]] # "gone"

(* The id of a closing fact, and no other, names the chat that is gone.    *)
IsClosing(e) ==
    e.kind = "deleted" /\ e.source \in Chats /\ e.id[1] = "deleted" /\ e.id[2] = e.source

IsOpen(e) == e.kind # "deleted" /\ e.id[1] # "deleted" /\ (e.kind = "turn" => e.source \in Chats)

EventsInv ==
    \A id \in DOMAIN events : events[id].id = id /\ (IsClosing(events[id]) \/ IsOpen(events[id]))

(* Nothing waits for a chat any more but the rows of its closing fact.     *)
Silent(c) ==
    \A a \in DOMAIN outbox :
        outbox[a] # "accepted" /\ events[a[1]].source = c => events[a[1]] \in Facts(c)

Unwatched(c) == \A b \in bound : Watches[b][1] # c

FactsInv ==
    /\ \A c \in Chats : Facts(c) # {} =>
           c \notin chats /\ Silent(c) /\ Unwatched(c) /\ \E f : Facts(c) = {f}
    /\ \A c \in Chats \ chats : Facts(c) # {} \/ (closures # None /\ closures.source = c)
    /\ closures # None =>
           IsClosing(closures) /\ (Facts(closures.source) # {} => Known(closures))

(* The saved closing fact is on record, or its chat still exists.          *)
Published == closures.source \notin chats => Facts(closures.source) # {}

DeletionInv ==
    /\ phase # "up" => deleting = None
    /\ phase \in {"closures", "closed"} => closures # None
    /\ phase = "closed" => Published
    /\ deleting # None =>
        /\ deleting.step # "recovered" => closures # None
        /\ deleting.step = "recovered" => closures = None
        /\ deleting.step \in {"recover", "closed first", "recovered", "saved"} => deleting.chat \in chats
        /\ deleting.step = "saved" => closures.source = deleting.chat
        /\ deleting.step \in {"closed first", "closed"} => Published

IInv == TypeOK /\ RefsInv /\ OncePerRow /\ LocksInv /\ EventsInv /\ FactsInv /\ DeletionInv

-----------------------------------------------------------------------------
(* Values                                                                  *)

(* The ids that the code builds are ids of events.                         *)
LEMMA NewIds ==
    ASSUME NEW n \in Nat
    PROVE  /\ \A b \in Bindings : <<"due", b, n>> \in EventIds
           /\ \A c \in Chats : <<"turn", c, n>> \in EventIds
           /\ \A s \in RunStatuses : <<"run", n, s>> \in EventIds
           /\ \A c \in Chats : <<"deleted", c, n>> \in EventIds
  BY DEF EventIds

LEMMA NewEvent ==
    ASSUME NEW id \in EventIds, NEW source \in Sources, NEW kind \in Kinds, NEW cause \in Causes
    PROVE  /\ HookEvent(id, source, kind, cause) \in HookEvents
           /\ HookEvent(id, source, kind, cause).id = id
           /\ HookEvent(id, source, kind, cause).source = source
           /\ HookEvent(id, source, kind, cause).kind = kind
           /\ HookEvent(id, source, kind, cause).cause = cause.cause
           /\ HookEvent(id, source, kind, cause).ancestry = cause.ancestry
  BY DEF HookEvent, HookEvents, Causes

LEMMA UserCause == UserTurn \in Causes
  BY DEF UserTurn, Causes

(* What an event on record causes carries causes on record.                *)
LEMMA CausedByType ==
    ASSUME TypeOK, NEW id \in DOMAIN events \cup {None}
    PROVE  CausedBy(id) \in Causes
<1>1. CASE id = None
  BY <1>1, UserCause DEF CausedBy
<1>2. CASE id # None
  <2>1. id \in EventIds /\ events[id] \in HookEvents
    BY <1>2 DEF TypeOK
  <2>2. events[id].ancestry \subseteq CauseIds /\ events[id].id \in CauseIds
    BY <2>1 DEF HookEvents, CauseIds
  <2>3. Lineage(EventOf(id)) \subseteq CauseIds
    BY <2>2 DEF Lineage, EventOf
  <2>4. id \in CauseIds \cup {None}
    BY <2>1 DEF CauseIds
  <2>5. QED BY <1>2, <2>3, <2>4 DEF CausedBy, Causes
<1>3. QED BY <1>1, <1>2

LEMMA MessageType ==
    ASSUME TypeOK, NEW a \in Rows, a[1] \in DOMAIN events
    PROVE  [cause |-> a, ancestry |-> MessageLineage(a)] \in Causes
<1>1. a[1] \in CauseIds /\ a \in CauseIds
  BY DEF Rows, CauseIds
<1>2. events[a[1]].ancestry \subseteq CauseIds
  BY DEF TypeOK, HookEvents
<1>3. MessageLineage(a) \subseteq CauseIds
  BY <1>1, <1>2 DEF MessageLineage, EventOf
<1>4. QED BY <1>1, <1>3 DEF Causes

(* An event carries the lineage of what an event on record caused, of no   *)
(* event at all, or of a finished turn.                                    *)
Derived(e) ==
    \E m : /\ \/ \E id \in DOMAIN events \cup {None} : m = CausedBy(id)
              \/ \E c \in Chats : \E n \in DOMAIN journal[c] : m = journal[c][n]
           /\ e.cause = m.cause /\ e.ancestry = m.ancestry

LEMMA RunEventType ==
    ASSUME TypeOK, NEW i \in Nat, NEW run \in RunRecords,
           run.cause \in DOMAIN events \cup {None}
    PROVE  /\ RunEvent(i, run) \in HookEvents
           /\ IsOpen(RunEvent(i, run))
           /\ RunEvent(i, run).source \in Routines
           /\ Derived(RunEvent(i, run))
<1> DEFINE id == <<"run", i, run.status>>
           kind == CASE run.status = "running" -> "started"
                     [] run.status = "skipped" -> "skipped"
                     [] OTHER -> "finished"
<1>1. run.status \in RunStatuses /\ run.routine \in Routines
  BY DEF RunRecords
<1>2. id \in EventIds /\ id[1] = "run"
  BY <1>1, NewIds
<1>3. run.routine \in Sources
  BY <1>1 DEF Sources
<1>4. kind \in {"started", "skipped", "finished"} /\ kind \in Kinds
  BY <1>1 DEF RunStatuses, Kinds
<1>5. CausedBy(run.cause) \in Causes
  BY CausedByType
<1> HIDE DEF id, kind
<1>6. RunEvent(i, run) = HookEvent(id, run.routine, kind, CausedBy(run.cause))
  BY DEF RunEvent, id, kind
<1>7. QED BY <1>1, <1>2, <1>3, <1>4, <1>5, <1>6, NewEvent DEF IsOpen, Derived

-----------------------------------------------------------------------------
(* Recording an event                                                      *)

(* The outbox with rows accepted or cancelled.                             *)
Box(box) ==
    /\ DOMAIN box \subseteq DOMAIN outbox
    /\ box = [a \in DOMAIN box |-> box[a]]
    /\ \A a \in DOMAIN box : box[a] \in {outbox[a], "accepted"}

(* An event that is on record stays as it is; a new one brings its rows.   *)
LEMMA Recording ==
    ASSUME TypeOK, NEW e \in HookEvents, NEW box, Box(box), RecordEvent(e, box)
    PROVE  /\ DOMAIN events' = DOMAIN events \cup {e.id}
           /\ events' \in [DOMAIN events' -> HookEvents]
           /\ DOMAIN events' \subseteq EventIds
           /\ \A id \in DOMAIN events : events'[id] = events[id]
           /\ e.id \notin DOMAIN events => events'[e.id] = e
           /\ DOMAIN outbox' \subseteq Rows
           /\ outbox' \in [DOMAIN outbox' -> {"pending", "retry", "failed", "accepted"}]
           /\ \A a \in DOMAIN outbox' :
                \/ a \in DOMAIN outbox /\ outbox'[a] \in {outbox[a], "accepted"}
                \/ a[1] = e.id /\ e.id \notin DOMAIN events
<1>1. e.id \in EventIds
  BY DEF HookEvents
<1>2. /\ DOMAIN events' = DOMAIN events \cup {e.id}
      /\ \A id \in DOMAIN events : events'[id] = events[id]
      /\ e.id \notin DOMAIN events => events'[e.id] = e
      /\ events' = [id \in DOMAIN events \cup {e.id} |->
                       IF id \in DOMAIN events THEN events[id] ELSE e]
  BY DEF RecordEvent, Over
<1>3. events' \in [DOMAIN events' -> HookEvents] /\ DOMAIN events' \subseteq EventIds
  BY <1>1, <1>2 DEF TypeOK
<1> DEFINE new == IF Known(e) THEN {} ELSE {Row(e, b) : b \in Matched(e)}
<1>4. /\ outbox' = [a \in DOMAIN box \cup new |-> IF a \in DOMAIN box THEN box[a] ELSE "pending"]
  BY DEF RecordEvent, Over, NewRows
<1>5. Matched(e) \subseteq Bindings
  BY DEF Matched, TypeOK
<1>6. \A a \in new : a \in Rows /\ a[1] = e.id /\ e.id \notin DOMAIN events
  BY <1>1, <1>5 DEF Row, Rows, Known
<1> HIDE DEF new
<1>7. DOMAIN outbox' \subseteq Rows
  BY <1>4, <1>6 DEF Box, TypeOK
<1>8. \A a \in DOMAIN outbox' :
        \/ a \in DOMAIN outbox /\ outbox'[a] \in {outbox[a], "accepted"}
        \/ a[1] = e.id /\ e.id \notin DOMAIN events /\ outbox'[a] = "pending"
  BY <1>4, <1>6 DEF Box
<1>9. outbox' \in [DOMAIN outbox' -> {"pending", "retry", "failed", "accepted"}]
  BY <1>4, <1>8 DEF TypeOK
<1>10. QED BY <1>2, <1>3, <1>7, <1>8, <1>9

(* A step that records something other than a closing fact, of a source    *)
(* that is not a deleted chat.                                             *)
Opens ==
    \E e \in HookEvents : \E box :
        /\ IsOpen(e) /\ e.source \notin Chats \ chats /\ Derived(e)
        /\ Box(box) /\ RecordEvent(e, box)

LEMMA OpensTypes ==
    ASSUME TypeOK, Opens
    PROVE  /\ DOMAIN events' \subseteq EventIds
           /\ events' \in [DOMAIN events' -> HookEvents]
           /\ DOMAIN outbox' \subseteq Rows
           /\ outbox' \in [DOMAIN outbox' -> {"pending", "retry", "failed", "accepted"}]
           /\ DOMAIN events \subseteq DOMAIN events'
           /\ \A id \in DOMAIN events : events'[id] = events[id]
           /\ \A a \in DOMAIN outbox' : a \in DOMAIN outbox \/ a[1] \in DOMAIN events'
<1>1. PICK e \in HookEvents : \E box : Box(box) /\ RecordEvent(e, box)
  BY DEF Opens
<1>2. PICK box : Box(box) /\ RecordEvent(e, box)
  BY <1>1
<1>3. QED BY <1>2, Recording

LEMMA OpensFacts ==
    ASSUME TypeOK, RefsInv, EventsInv, FactsInv, Opens, UNCHANGED <<chats, closures, bound>>
    PROVE  EventsInv' /\ FactsInv' /\ \A c : Facts(c)' = Facts(c)
<1>0. PICK e \in HookEvents : \E box :
        IsOpen(e) /\ e.source \notin Chats \ chats /\ Box(box) /\ RecordEvent(e, box)
  BY DEF Opens
<1>1. PICK box :
        IsOpen(e) /\ e.source \notin Chats \ chats /\ Box(box) /\ RecordEvent(e, box)
  BY <1>0
<1>2. /\ DOMAIN events' = DOMAIN events \cup {e.id}
      /\ \A id \in DOMAIN events : events'[id] = events[id]
      /\ e.id \notin DOMAIN events => events'[e.id] = e
      /\ \A a \in DOMAIN outbox' :
            \/ a \in DOMAIN outbox /\ outbox'[a] \in {outbox[a], "accepted"}
            \/ a[1] = e.id /\ e.id \notin DOMAIN events
  BY <1>1, Recording
<1>3. EventsInv'
  BY <1>1, <1>2 DEF EventsInv, IsOpen, IsClosing
<1>4. \A c : Facts(c)' = Facts(c)
  BY <1>1, <1>2 DEF Facts, Range, IsOpen
<1>5. ASSUME NEW c \in Chats, Silent(c), c \notin chats
      PROVE  Silent(c)'
  <2> SUFFICES ASSUME NEW a \in DOMAIN outbox', outbox'[a] # "accepted", events'[a[1]].source = c
               PROVE  events'[a[1]] \in Facts(c)
    BY <1>4 DEF Silent
  <2>1. CASE a \in DOMAIN outbox /\ outbox'[a] = outbox[a]
    BY <1>2, <1>5, <2>1 DEF Silent, RefsInv
  <2>2. CASE a[1] = e.id /\ e.id \notin DOMAIN events
    BY <1>1, <1>2, <1>5, <2>2
  <2>3. QED BY <1>2, <2>1, <2>2
<1>6. FactsInv'
  <2>1. ASSUME NEW c \in Chats, Facts(c)' # {}
        PROVE  (c \notin chats /\ Silent(c) /\ Unwatched(c) /\ \E f : Facts(c) = {f})'
    BY <1>4, <1>5, <2>1 DEF FactsInv, Unwatched
  <2>2. ASSUME NEW c \in Chats \ chats
        PROVE  (Facts(c) # {} \/ (closures # None /\ closures.source = c))'
    BY <1>4 DEF FactsInv
  <2>3. ASSUME closures # None
        PROVE  (IsClosing(closures) /\ (Facts(closures.source) # {} => Known(closures)))'
    BY <1>2, <1>4, <2>3 DEF FactsInv, Known, IsClosing
  <2>4. QED BY <2>1, <2>2, <2>3 DEF FactsInv
<1>7. QED BY <1>3, <1>4, <1>6
-----------------------------------------------------------------------------
(* Closing a source                                                        *)

(* Closing records the saved fact if its chat is gone and cancels what     *)
(* waits for the chat; otherwise it changes nothing.                       *)
LEMMA ClosingCases ==
    ASSUME TypeOK, closures # None, CloseSource(closures)
    PROVE  \/ /\ Known(closures) \/ closures.source \in chats
              /\ UNCHANGED <<events, outbox, bound, cursor>>
           \/ /\ ~Known(closures) /\ closures.source \notin chats
              /\ bound' = {b \in bound : Watches[b][1] # closures.source}
              /\ cursor' = [cursor EXCEPT ![closures.source] = 0]
              /\ \E box :
                    /\ Box(box) /\ RecordEvent(closures, box)
                    /\ \A a \in DOMAIN box :
                          outbox[a] = "accepted" \/ events[a[1]].source # closures.source
<1> DEFINE cancelled == {a \in DOMAIN outbox : outbox[a] # "accepted"
                                               /\ EventOf(a[1]).source = closures.source}
           box == Without(outbox, cancelled)
<1>1. CASE Known(closures) \/ ~Committed(closures)
  BY <1>1 DEF CloseSource, Committed
<1>2. CASE ~Known(closures) /\ Committed(closures)
  <2>1. /\ RecordEvent(closures, box)
        /\ bound' = {b \in bound : Watches[b][1] # closures.source}
        /\ cursor' = [cursor EXCEPT ![closures.source] = 0]
    BY <1>2 DEF CloseSource
  <2>2. box = [a \in DOMAIN outbox \ cancelled |-> outbox[a]]
    BY DEF Without, Restrict
  <2>3. Box(box)
    BY <2>2 DEF Box
  <2>4. \A a \in DOMAIN box : outbox[a] = "accepted" \/ events[a[1]].source # closures.source
    BY <2>2 DEF EventOf
  <2> HIDE DEF box
  <2>5. QED BY <1>2, <2>1, <2>3, <2>4 DEF Committed
<1>3. QED BY <1>1, <1>2

LEMMA ClosingTypes ==
    ASSUME TypeOK, closures # None, IsClosing(closures), CloseSource(closures)
    PROVE  /\ DOMAIN events' \subseteq EventIds
           /\ events' \in [DOMAIN events' -> HookEvents]
           /\ DOMAIN outbox' \subseteq Rows
           /\ outbox' \in [DOMAIN outbox' -> {"pending", "retry", "failed", "accepted"}]
           /\ DOMAIN events \subseteq DOMAIN events'
           /\ \A id \in DOMAIN events : events'[id] = events[id]
           /\ \A a \in DOMAIN outbox' : a \in DOMAIN outbox \/ a[1] \in DOMAIN events'
           /\ bound' \subseteq Bindings
           /\ cursor' \in [Chats -> Nat]
<1>1. closures \in HookEvents /\ closures.source \in Chats
  BY DEF TypeOK, IsClosing
<1>2. CASE UNCHANGED <<events, outbox, bound, cursor>>
  BY <1>2 DEF TypeOK
<1>3. CASE /\ bound' = {b \in bound : Watches[b][1] # closures.source}
           /\ cursor' = [cursor EXCEPT ![closures.source] = 0]
           /\ \E box : Box(box) /\ RecordEvent(closures, box)
  <2>1. PICK box : Box(box) /\ RecordEvent(closures, box)
    BY <1>3
  <2>2. bound' \subseteq Bindings /\ cursor' \in [Chats -> Nat]
    BY <1>1, <1>3 DEF TypeOK
  <2>3. QED BY <1>1, <2>1, <2>2, Recording
<1>4. QED BY <1>2, <1>3, ClosingCases

LEMMA ClosingFactsStep ==
    ASSUME TypeOK, RefsInv, EventsInv, FactsInv, closures # None, CloseSource(closures),
           UNCHANGED <<chats, closures>>
    PROVE  /\ EventsInv' /\ FactsInv'
           /\ \A c : Facts(c) # {} => Facts(c)' # {}
           /\ Published'
<1> DEFINE s == closures.source
<1>1. closures \in HookEvents /\ IsClosing(closures) /\ s \in Chats
  BY DEF FactsInv, IsClosing, TypeOK
<1>2. CASE (Known(closures) \/ s \in chats) /\ UNCHANGED <<events, outbox, bound, cursor>>
  <2>1. Known(closures) => Facts(s) # {}
    <3> SUFFICES ASSUME Known(closures) PROVE events[closures.id] \in Facts(s)
      OBVIOUS
    <3>1. events[closures.id].id = closures.id
      BY DEF EventsInv, Known
    <3>2. events[closures.id].kind = "deleted" /\ events[closures.id].source = s
      BY <1>1, <3>1 DEF EventsInv, Known, IsClosing, IsOpen
    <3>3. QED BY <3>2 DEF Facts, Range, Known
  <2>2. \A c : Facts(c)' = Facts(c)
    BY <1>2 DEF Facts
  <2>3. EventsInv'
    BY <1>2 DEF EventsInv, IsOpen, IsClosing
  <2>4. FactsInv'
    BY <1>2, <2>2 DEF FactsInv, Silent, Unwatched, Known, IsClosing
  <2>5. Published'
    BY <1>2, <2>1, <2>2 DEF Published
  <2>6. QED BY <2>2, <2>3, <2>4, <2>5
<1>3. CASE /\ ~Known(closures) /\ s \notin chats
           /\ bound' = {b \in bound : Watches[b][1] # s}
           /\ \E box : /\ Box(box) /\ RecordEvent(closures, box)
                       /\ \A a \in DOMAIN box : outbox[a] = "accepted" \/ events[a[1]].source # s
  <2>1. PICK box : /\ Box(box) /\ RecordEvent(closures, box)
                   /\ \A a \in DOMAIN box : outbox[a] = "accepted" \/ events[a[1]].source # s
    BY <1>3
  <2>2. closures.id \notin DOMAIN events
    BY <1>3 DEF Known
  <2>3. /\ DOMAIN events' = DOMAIN events \cup {closures.id}
        /\ \A id \in DOMAIN events : events'[id] = events[id]
        /\ events'[closures.id] = closures
    BY <1>1, <2>1, <2>2, Recording
  <2>4. \A a \in DOMAIN outbox' :
            \/ a \in DOMAIN outbox /\ outbox'[a] \in {outbox[a], "accepted"}
            \/ a[1] = closures.id
    BY <1>1, <2>1, Recording
  <2>5. \A a \in DOMAIN outbox' : outbox'[a] # "accepted" =>
            \/ a[1] = closures.id
            \/ a \in DOMAIN outbox /\ outbox[a] # "accepted" /\ events[a[1]].source # s
    <3> SUFFICES ASSUME NEW a \in DOMAIN outbox', outbox'[a] # "accepted", a[1] # closures.id
                 PROVE  a \in DOMAIN box /\ outbox[a] # "accepted"
      BY <2>1, <2>4 DEF Box
    <3>1. outbox[a] # "accepted"
      BY <2>4
    <3>2. a \in DOMAIN box
      <4>1. DOMAIN outbox' = DOMAIN box \cup
               (IF Known(closures) THEN {} ELSE {Row(closures, b) : b \in Matched(closures)})
        BY <2>1 DEF RecordEvent, Over, NewRows
      <4>2. QED BY <4>1 DEF Row
    <3>3. QED BY <2>1, <3>1, <3>2
  <2>6. EventsInv'
    BY <1>1, <2>3 DEF EventsInv, IsOpen, IsClosing
  <2>7. Facts(s) = {}
    BY <1>3 DEF FactsInv
  <2>8. Facts(s)' = {closures}
    BY <1>1, <2>3, <2>7 DEF Facts, Range, IsClosing
  <2>9. \A c : c # s => Facts(c)' = Facts(c)
    BY <2>3 DEF Facts, Range
  <2>10. ASSUME NEW c \in Chats, Facts(c)' # {}
         PROVE  (c \notin chats /\ Silent(c) /\ Unwatched(c) /\ \E f : Facts(c) = {f})'
    <3>1. CASE c = s
      <4>1. Silent(s)'
        BY <2>3, <2>5, <2>8 DEF Silent, RefsInv
      <4>2. Unwatched(s)'
        BY <1>3 DEF Unwatched
      <4>3. QED BY <1>3, <3>1, <4>1, <4>2, <2>8
    <3>2. CASE c # s
      <4>1. c \notin chats /\ Silent(c) /\ Unwatched(c) /\ \E f : Facts(c) = {f}
        BY <2>9, <2>10, <3>2 DEF FactsInv
      <4>2. Silent(c)'
        BY <2>3, <2>5, <2>9, <3>2, <4>1 DEF Silent, RefsInv
      <4>3. Unwatched(c)'
        BY <1>3, <4>1 DEF Unwatched
      <4>4. QED BY <2>9, <3>2, <4>1, <4>2, <4>3
    <3>3. QED BY <3>1, <3>2
  <2>11. ASSUME NEW c \in Chats \ chats
         PROVE  (Facts(c) # {} \/ (closures # None /\ closures.source = c))'
    BY <2>9 DEF FactsInv
  <2>12. (IsClosing(closures) /\ (Facts(closures.source) # {} => Known(closures)))'
    BY <1>1, <2>3 DEF Known, IsClosing
  <2>13. FactsInv'
    BY <2>10, <2>11, <2>12 DEF FactsInv
  <2>14. QED BY <2>6, <2>8, <2>9, <2>13 DEF Published
<1>4. QED BY <1>2, <1>3, ClosingCases
-----------------------------------------------------------------------------
(* Runs                                                                    *)

LEMMA FinishRunStep ==
    ASSUME TypeOK, RefsInv, NEW i \in DOMAIN runs, NEW status \in RunStatuses, FinishRun(i, status)
    PROVE  /\ Opens
           /\ runs' \in Seq(RunRecords)
           /\ DOMAIN runs' = DOMAIN runs /\ Len(runs') = Len(runs)
           /\ runs'[i].status = status
           /\ \A j \in DOMAIN runs : j # i => runs'[j].status = runs[j].status
           /\ \A j \in DOMAIN runs : /\ runs'[j].routine = runs[j].routine
                                     /\ runs'[j].command = runs[j].command
                                     /\ runs'[j].cause = runs[j].cause
<1> DEFINE run == [runs[i] EXCEPT !.status = status]
<1>1. runs[i] \in RunRecords /\ i \in Nat
  BY DEF TypeOK
<1>2. run \in RunRecords /\ run.cause = runs[i].cause /\ run.status = status
      /\ run.routine = runs[i].routine /\ run.command = runs[i].command
  BY <1>1 DEF RunRecords
<1>3. RunEvent(i, run) \in HookEvents /\ IsOpen(RunEvent(i, run))
      /\ RunEvent(i, run).source \in Routines /\ Derived(RunEvent(i, run))
  BY <1>1, <1>2, RunEventType DEF RefsInv
<1>4. Box(outbox)
  BY DEF Box, TypeOK
<1>5. runs' = [runs EXCEPT ![i] = run] /\ RecordEvent(RunEvent(i, run), outbox)
  BY DEF FinishRun
<1>6. Opens
  BY <1>3, <1>4, <1>5, SourcesAreDistinct DEF Opens
<1> HIDE DEF run
<1>7. runs' \in Seq(RunRecords) /\ DOMAIN runs' = DOMAIN runs /\ Len(runs') = Len(runs)
      /\ \A j \in DOMAIN runs : runs'[j] = IF j = i THEN run ELSE runs[j]
  BY <1>2, <1>5 DEF TypeOK
<1>8. QED BY <1>2, <1>6, <1>7

LEMMA InsertRunStep ==
    ASSUME TypeOK, RefsInv, NEW run \in RunRecords, run.cause \in DOMAIN events \cup {None},
           NEW box, Box(box), InsertRun(run, box)
    PROVE  Opens
<1>1. Len(runs) + 1 \in Nat
  BY DEF TypeOK
<1>2. /\ RunEvent(Len(runs) + 1, run) \in HookEvents
      /\ IsOpen(RunEvent(Len(runs) + 1, run))
      /\ RunEvent(Len(runs) + 1, run).source \in Routines
      /\ Derived(RunEvent(Len(runs) + 1, run))
  BY <1>1, RunEventType
<1>3. QED BY <1>2, SourcesAreDistinct DEF Opens, InsertRun

(* A start is known, refused, skipped or begun.                            *)
LEMMA BeginRunCases ==
    ASSUME NEW r, NEW command, NEW cause, NEW box, NEW rejected,
           BeginRun(r, command, cause, box, rejected)
    PROVE  \/ UNCHANGED <<runs, outcome, actor, events, outbox, held>>
           \/ /\ ~Recorded(command)
              /\ InsertRun(Run(r, "skipped", command, cause), box)
              /\ UNCHANGED held
           \/ /\ ~Recorded(command)
              /\ held[r] = None
              /\ InsertRun(Run(r, "running", command, cause), box)
              /\ held' = [held EXCEPT ![r] = Len(runs) + 1]
  BY DEF BeginRun

LEMMA NewRun ==
    ASSUME TypeOK, NEW r \in Routines, NEW status \in RunStatuses, NEW command \in Commands,
           NEW cause \in DOMAIN events \cup {None}
    PROVE  /\ Run(r, status, command, cause) \in RunRecords
           /\ Run(r, status, command, cause).routine = r
           /\ Run(r, status, command, cause).status = status
           /\ Run(r, status, command, cause).command = command
           /\ Run(r, status, command, cause).cause = cause
  BY DEF TypeOK, Run, RunRecords

(* The two ways to ask for a start.                                        *)
Begins(r, command, cause) ==
    \E box, rejected : Box(box) /\ BeginRun(r, command, cause, box, rejected)

Starts ==
    \/ \E r \in Routines, n \in Nat : Begins(r, <<<<"manual", n>>, None>>, None)
    \/ \E a \in DOMAIN outbox : Target(a) \in Routines /\ Begins(Target(a), a, a[1])

LEMMA StartManuallyStep ==
    ASSUME TypeOK, NEW r \in Routines, StartManually(r)
    PROVE  Begins(r, <<<<"manual", budget.inputs>>, None>>, None) /\ budget.inputs \in Nat
<1>1. Box(outbox)
  BY DEF TypeOK, Box
<1>2. QED BY <1>1 DEF TypeOK, StartManually, Begins

LEMMA StartRoutineStep ==
    ASSUME TypeOK, NEW a \in batch, StartRoutine(a)
    PROVE  a \in DOMAIN outbox /\ a \in Pending(outbox) /\ Target(a) \in Routines
           /\ Begins(Target(a), a, a[1])
<1>1. a \in DOMAIN outbox /\ a \in Pending(outbox)
  BY DEF StartRoutine, StillWanted, Pending
<1>2. Box([outbox EXCEPT ![a] = "accepted"])
  BY <1>1 DEF TypeOK, Box
<1>3. QED BY <1>1, <1>2 DEF StartRoutine, Begins

(* What a start changes of the runs.                                       *)
Inserted(r, status, command, cause) ==
    /\ ~Recorded(command)
    /\ runs' = Append(runs, Run(r, status, command, cause))
    /\ outcome' = Append(outcome, "none")
    /\ actor' = Append(actor, IF status = "running" THEN "admit" ELSE "gone")

LEMMA BeginsStep ==
    ASSUME TypeOK, RefsInv, NEW r \in Routines, NEW command \in Commands,
           NEW cause \in DOMAIN events \cup {None}, Begins(r, command, cause)
    PROVE  \/ UNCHANGED <<runs, outcome, actor, events, outbox, held>>
           \/ Opens /\ Inserted(r, "skipped", command, cause) /\ UNCHANGED held
           \/ /\ Opens /\ Inserted(r, "running", command, cause)
              /\ held[r] = None /\ held' = [held EXCEPT ![r] = Len(runs) + 1]
<1>1. PICK box, rejected : Box(box) /\ BeginRun(r, command, cause, box, rejected)
  BY DEF Begins
<1>2. ASSUME NEW status \in {"running", "skipped"}, ~Recorded(command),
             InsertRun(Run(r, status, command, cause), box)
      PROVE  Opens /\ Inserted(r, status, command, cause)
  <2>1. status \in RunStatuses
    BY DEF RunStatuses
  <2>2. Opens
    BY <1>1, <1>2, <2>1, NewRun, InsertRunStep
  <2>3. QED BY <1>2, <2>1, <2>2, NewRun DEF InsertRun, Inserted
<1>3. QED BY <1>1, <1>2, BeginRunCases
(* The run that the startup recovers next is one that was interrupted.     *)
LEMMA LastOne ==
    ASSUME NEW n \in Nat, NEW S \in SUBSET (1..n), S # {}
    PROVE  \E i \in S : \A j \in S : j <= i
<1> DEFINE T == {n - j : j \in S}
<1>1. T \subseteq Nat /\ T # {}
  <2>1. PICK j \in S : TRUE
    OBVIOUS
  <2>2. n - j \in T
    OBVIOUS
  <2>3. \A m \in T : m \in Nat
    OBVIOUS
  <2>4. QED BY <2>2, <2>3
<1>2. PICK k \in T : \A m \in T : k <= m
  <2> HIDE DEF T
  <2>1. PICK k \in T : \A m \in T : <<m, k>> \notin OpToRel(<, Nat)
    BY <1>1, NatLessThanWellFounded, WFMin, Zenon
  <2>2. \A m \in T : m \in Nat /\ k \in Nat /\ ~(m < k)
    BY <1>1, <2>1, Zenon DEF OpToRel
  <2>3. QED BY <2>2
<1>3. PICK i \in S : k = n - i
  OBVIOUS
<1>4. \A j \in S : j <= i
  BY <1>2, <1>3
<1>5. QED BY <1>4

Recovered == CHOOSE i \in Interrupted : \A j \in Interrupted : j <= i

LEMMA RecoveredRun ==
    ASSUME TypeOK, RecoverRun
    PROVE  Recovered \in DOMAIN runs /\ runs[Recovered].status = "running" /\ actor[Recovered] = "gone"
<1>1. Interrupted \in SUBSET (1 .. Len(runs)) /\ Len(runs) \in Nat
  BY DEF TypeOK, Interrupted
<1>2. \E i \in Interrupted : \A j \in Interrupted : j <= i
  BY <1>1, LastOne DEF RecoverRun
<1>3. Recovered \in Interrupted
  BY <1>2 DEF Recovered
<1>4. QED BY <1>3 DEF Interrupted

(* What the startup does with that run.                                    *)
LEMMA RecoverRunCases ==
    ASSUME TypeOK, RecoverRun
    PROVE  \/ /\ Resume(Recovered) /\ outcome[Recovered] = "approval"
              /\ UNCHANGED <<events, outbox, runs, phase, batch, acting, deleting>>
           \/ MemoryLost /\ UNCHANGED <<events, outbox, runs>>
           \/ FinishRun(Recovered, ResultOf(Recovered)) /\ UNCHANGED memory
  BY DEF RecoverRun, Recovered

LEMMA ResultStatus ==
    ASSUME NEW i
    PROVE  ResultOf(i) \in RunStatuses /\ ResultOf(i) # "running"
  BY DEF ResultOf, RunStatuses
-----------------------------------------------------------------------------
(* What a step does to events and outbox                                   *)

Quiet == UNCHANGED <<events, outbox, bound, cursor>>

Closes == closures # None /\ CloseSource(closures) /\ UNCHANGED <<chats, closures>>

Records == Opens /\ UNCHANGED <<chats, closures, bound>>

LEMMA RunEvents ==
    ASSUME TypeOK, RefsInv, NEW i \in DOMAIN runs, RunStep(i)
    PROVE  /\ Quiet \/ (Records /\ UNCHANGED cursor)
           /\ UNCHANGED <<chats, closures, receipts, mail, journal, batch, acting, deleting, phase>>
<1>1. CASE AdmissionFails(i) \/ ObserveEnd(i)
  <2>1. PICK status \in RunStatuses : FinishRun(i, status)
    BY <1>1, ResultStatus DEF AdmissionFails, ObserveEnd, RunStatuses
  <2>2. Opens
    BY <2>1, FinishRunStep
  <2>3. QED BY <1>1, <2>2 DEF AdmissionFails, ObserveEnd, Records, checkpoint
<1>2. CASE StopActor(i)
  <2>1. CASE actor[i] = "approval"
    BY <1>2, <2>1 DEF StopActor, Quiet, checkpoint
  <2>2. CASE actor[i] # "approval"
    <3>1. FinishRun(i, "failed") /\ "failed" \in RunStatuses
      BY <1>2, <2>2 DEF StopActor, RunStatuses
    <3>2. Opens
      BY <3>1, FinishRunStep
    <3>3. QED BY <1>2, <3>2 DEF StopActor, Records, checkpoint
  <2>3. QED BY <2>1, <2>2
<1>3. CASE Admit(i) \/ AskApproval(i) \/ HearApproval(i) \/ Decide(i) \/ ApplyDecision(i)
           \/ EndTurn(i) \/ ReleaseLock(i) \/ OpenRun(i)
  BY <1>3 DEF Admit, AskApproval, HearApproval, Decide, ApplyDecision, EndTurn, ReleaseLock,
     OpenRun, Quiet, checkpoint, botState, memory
<1>4. QED BY <1>1, <1>2, <1>3 DEF RunStep

LEMMA StartEvents ==
    ASSUME TypeOK, RefsInv,
           \/ \E r \in Routines : StartManually(r)
           \/ \E a \in batch : StartRoutine(a)
    PROVE  Starts /\ (Quiet \/ (Records /\ UNCHANGED cursor))
<1>1. CASE \E r \in Routines : StartManually(r)
  <2>1. PICK r \in Routines : StartManually(r)
    BY <1>1
  <2>2. Begins(r, <<<<"manual", budget.inputs>>, None>>, None) /\ budget.inputs \in Nat
    BY <2>1, StartManuallyStep
  <2>3. <<<<"manual", budget.inputs>>, None>> \in Commands
    BY <2>2 DEF Commands
  <2>4. UNCHANGED <<events, outbox>> \/ Opens
    BY <2>2, <2>3, BeginsStep
  <2>5. QED BY <2>1, <2>2, <2>4 DEF StartManually, Quiet, Records, Starts
<1>2. CASE \E a \in batch : StartRoutine(a)
  <2>1. PICK a \in batch : StartRoutine(a)
    BY <1>2
  <2>2. a \in DOMAIN outbox /\ Target(a) \in Routines /\ Begins(Target(a), a, a[1])
    BY <2>1, StartRoutineStep
  <2>3. a \in Commands /\ a[1] \in DOMAIN events
    BY <2>2 DEF Commands, TypeOK, RefsInv
  <2>4. UNCHANGED <<events, outbox>> \/ Opens
    BY <2>2, <2>3, BeginsStep
  <2>5. QED BY <2>1, <2>2, <2>4 DEF StartRoutine, Quiet, Records, Starts
<1>3. QED BY <1>1, <1>2

LEMMA DueEvents ==
    ASSUME TypeOK, NEW b \in Bindings, PollDue(b)
    PROVE  Records /\ UNCHANGED cursor
<1> DEFINE id == <<"due", b, budget.inputs>>
           e == HookEvent(id, b, "due", UserTurn)
<1>1. budget.inputs \in Nat /\ id \in EventIds /\ id[1] = "due" /\ b \in Sources /\ "due" \in Kinds
  BY NewIds DEF TypeOK, Sources, Kinds
<1> HIDE DEF id
<1>2. e \in HookEvents /\ e.id = id /\ e.source = b /\ e.kind = "due" /\ Derived(e)
  <2>1. UserTurn = CausedBy(None)
    BY DEF CausedBy
  <2>2. QED BY <1>1, <2>1, NewEvent, UserCause DEF Derived
<1>3. RecordEvent(e, outbox) /\ Box(outbox)
  BY DEF PollDue, TypeOK, Box, id
<1> HIDE DEF e
<1>4. Opens
  BY <1>1, <1>2, <1>3, SourcesAreDistinct DEF Opens, IsOpen
<1>5. QED BY <1>4 DEF Records, PollDue, checkpoint

LEMMA TurnEvents ==
    ASSUME TypeOK, NEW c \in Chats, Project(c)
    PROVE  Records
<1> DEFINE n == cursor[c] + 1
           id == <<"turn", c, n>>
           e == HookEvent(id, c, "turn", journal[c][n])
<1>1. n \in Nat /\ n \in 1 .. Len(journal[c]) /\ journal[c] \in Seq(Causes)
  BY DEF TypeOK, Project
<1>2. id \in EventIds /\ id[1] = "turn" /\ c \in Sources /\ "turn" \in Kinds
  BY <1>1, NewIds DEF Sources, Kinds
<1>3. journal[c][n] \in Causes
  BY <1>1
<1> HIDE DEF id
<1>4. /\ e \in HookEvents /\ e.id = id /\ e.source = c /\ e.kind = "turn"
      /\ e.cause = journal[c][n].cause /\ e.ancestry = journal[c][n].ancestry
  BY <1>2, <1>3, NewEvent
<1>5. RecordEvent(e, outbox) /\ Box(outbox) /\ c \in chats
  BY DEF Project, TypeOK, Box, id
<1>6. Derived(e)
  <2>1. n \in DOMAIN journal[c]
    BY <1>1
  <2> HIDE DEF n, e
  <2>2. QED BY <1>4, <2>1 DEF Derived
<1> HIDE DEF e
<1>7. Opens
  BY <1>2, <1>4, <1>5, <1>6 DEF Opens, IsOpen
<1>8. QED BY <1>7 DEF Records, Project, checkpoint

LEMMA RecoverEvents ==
    ASSUME TypeOK, RefsInv, RecoverRun
    PROVE  Quiet \/ (Records /\ UNCHANGED cursor)
<1>1. CASE UNCHANGED <<events, outbox>>
  BY <1>1 DEF RecoverRun, Quiet
<1>2. CASE FinishRun(Recovered, ResultOf(Recovered))
  <2>1. Opens
    BY <1>2, RecoveredRun, ResultStatus, FinishRunStep
  <2>2. QED BY <2>1 DEF RecoverRun, Records, checkpoint
<1>3. QED BY <1>1, <1>2, RecoverRunCases

LEMMA EventSteps ==
    ASSUME IInv, Next
    PROVE  Quiet \/ Records \/ Closes \/ Settle
<1>1. TypeOK /\ RefsInv /\ FactsInv /\ DeletionInv
  BY DEF IInv
<1>2. CASE \E b \in Bindings : PollDue(b)
  BY <1>1, <1>2, DueEvents
<1>3. CASE \E c \in Chats : Project(c)
  BY <1>1, <1>3, TurnEvents
<1>4. CASE (\E r \in Routines : StartManually(r)) \/ (\E a \in batch : StartRoutine(a))
  BY <1>1, <1>4, StartEvents
<1>5. CASE \E i \in DOMAIN runs : RunStep(i)
  BY <1>1, <1>5, RunEvents
<1>6. CASE RecoverRun
  BY <1>1, <1>6, RecoverEvents
<1>7. CASE CloseInDeletion \/ CloseAtStartup
  <2>1. closures # None
    BY <1>1, <1>7 DEF DeletionInv, CloseInDeletion, CloseAtStartup, Deleting
  <2>2. QED BY <1>7, <2>1 DEF CloseInDeletion, CloseAtStartup, Close, Closes, checkpoint
<1>8. CASE Settle
  BY <1>8
<1>9. CASE \/ \E c \in Chats : FinishTurn(c) \/ BeginDelete(c)
           \/ ReadPending
           \/ \E a \in batch : SkipStale(a) \/ Deliver(a) \/ DeliveryFails(a)
           \/ SaveClosure \/ DeleteChat \/ ForgetInDeletion \/ DeletionFails
           \/ Crash \/ Restart \/ ForgetAtStartup \/ Serve
  BY <1>9 DEF FinishTurn, BeginDelete, ReadPending, SkipStale, Deliver, DeliveryFails,
     SaveClosure, DeleteChat, ForgetInDeletion, ForgetClosures, DeletionFails, Crash, Restart,
     ForgetAtStartup, Serve, Quiet, botState
<1>10. QED
  BY <1>2, <1>3, <1>4, <1>5, <1>6, <1>7, <1>8, <1>9
     DEF Next, WorkerStep, DeletionStep, Startup
(* Events stay on record; every row belongs to one.                        *)
LEMMA EventsGrow ==
    ASSUME IInv, Next
    PROVE  /\ DOMAIN events' \subseteq EventIds
           /\ events' \in [DOMAIN events' -> HookEvents]
           /\ DOMAIN outbox' \subseteq Rows
           /\ outbox' \in [DOMAIN outbox' -> {"pending", "retry", "failed", "accepted"}]
           /\ DOMAIN events \subseteq DOMAIN events'
           /\ \A id \in DOMAIN events : events'[id] = events[id]
           /\ \A a \in DOMAIN outbox' : a[1] \in DOMAIN events'
<1>1. TypeOK /\ RefsInv /\ FactsInv
  BY DEF IInv
<1>2. CASE Quiet
  BY <1>1, <1>2 DEF Quiet, TypeOK, RefsInv
<1>3. CASE Records
  <2>1. Opens
    BY <1>3 DEF Records
  <2>2. QED BY <1>1, <2>1, OpensTypes DEF RefsInv
<1>4. CASE Closes
  <2>1. closures # None /\ IsClosing(closures) /\ CloseSource(closures)
    BY <1>1, <1>4 DEF Closes, FactsInv
  <2>2. QED BY <1>1, <2>1, ClosingTypes DEF RefsInv
<1>5. CASE Settle
  <2>1. acting.result \in {"done", "retry", "failed"}
    BY <1>1, <1>5 DEF Settle, TypeOK
  <2>2. /\ DOMAIN outbox' = DOMAIN outbox
        /\ outbox' \in [DOMAIN outbox' -> {"pending", "retry", "failed", "accepted"}]
    BY <1>1, <1>5, <2>1 DEF Settle, Marked, TypeOK
  <2>3. QED BY <1>1, <1>5, <2>2 DEF Settle, TypeOK, RefsInv
<1>6. QED BY <1>2, <1>3, <1>4, <1>5, EventSteps

(* What a step does to the runs.                                           *)
Finishes == \E i \in DOMAIN runs, status \in RunStatuses \ {"running"} : FinishRun(i, status)

Inserts ==
    \E r \in Routines, status \in {"running", "skipped"}, command \in Commands,
       cause \in DOMAIN events \cup {None} : Inserted(r, status, command, cause)

LEMMA StartRuns ==
    ASSUME TypeOK, RefsInv, Starts
    PROVE  Inserts \/ UNCHANGED runs
<1>1. CASE \E r \in Routines, n \in Nat : Begins(r, <<<<"manual", n>>, None>>, None)
  <2>1. PICK r \in Routines, n \in Nat : Begins(r, <<<<"manual", n>>, None>>, None)
    BY <1>1
  <2>2. <<<<"manual", n>>, None>> \in Commands
    BY DEF Commands
  <2>3. QED BY <2>1, <2>2, BeginsStep DEF Inserts
<1>2. CASE \E a \in DOMAIN outbox : Target(a) \in Routines /\ Begins(Target(a), a, a[1])
  <2>1. PICK a \in DOMAIN outbox : Target(a) \in Routines /\ Begins(Target(a), a, a[1])
    BY <1>2
  <2>2. a \in Commands /\ a[1] \in DOMAIN events
    BY DEF Commands, TypeOK, RefsInv
  <2>3. QED BY <2>1, <2>2, BeginsStep DEF Inserts
<1>3. QED BY <1>1, <1>2 DEF Starts

(* Only a start adds a run.                                                *)
LEMMA RunChangesBy ==
    ASSUME IInv, Next
    PROVE  \/ UNCHANGED runs \/ Finishes
           \/ (\E r \in Routines : StartManually(r)) \/ (\E a \in batch : StartRoutine(a))
<1>1. TypeOK /\ RefsInv
  BY DEF IInv
<1>2. CASE (\E r \in Routines : StartManually(r)) \/ (\E a \in batch : StartRoutine(a))
  BY <1>2
<1>3. CASE \E i \in DOMAIN runs : RunStep(i)
  BY <1>3, ResultStatus DEF RunStep, Admit, AdmissionFails, AskApproval, HearApproval, Decide,
     ApplyDecision, EndTurn, ObserveEnd, ReleaseLock, StopActor, OpenRun, botState, Finishes,
     RunStatuses
<1>4. CASE RecoverRun
  BY <1>1, <1>4, RecoveredRun, RecoverRunCases, ResultStatus DEF Finishes
<1>5. CASE \/ \E b \in Bindings : PollDue(b)
           \/ \E c \in Chats : FinishTurn(c) \/ Project(c) \/ BeginDelete(c)
           \/ ReadPending \/ Settle
           \/ \E a \in batch : SkipStale(a) \/ Deliver(a) \/ DeliveryFails(a)
           \/ SaveClosure \/ DeleteChat \/ CloseInDeletion \/ ForgetInDeletion \/ DeletionFails
           \/ Crash \/ Restart \/ CloseAtStartup \/ ForgetAtStartup \/ Serve
  BY <1>5 DEF PollDue, FinishTurn, Project, BeginDelete, ReadPending, Settle, SkipStale, Deliver,
     DeliveryFails, SaveClosure, DeleteChat, CloseInDeletion, ForgetInDeletion, ForgetClosures,
     Close, DeletionFails, Crash, Restart, CloseAtStartup, ForgetAtStartup, Serve, botState
<1>6. QED BY <1>2, <1>3, <1>4, <1>5 DEF Next, WorkerStep, DeletionStep, Startup

LEMMA RunChanges ==
    ASSUME IInv, Next
    PROVE  UNCHANGED runs \/ Finishes \/ Inserts
<1>1. TypeOK /\ RefsInv
  BY DEF IInv
<1>2. QED BY <1>1, RunChangesBy, StartEvents, StartRuns

LEMMA InsertedRuns ==
    ASSUME TypeOK, NEW r \in Routines, NEW status \in {"running", "skipped"},
           NEW command \in Commands, NEW cause \in DOMAIN events \cup {None},
           Inserted(r, status, command, cause)
    PROVE  /\ runs' \in Seq(RunRecords)
           /\ Len(runs') = Len(runs) + 1
           /\ DOMAIN runs' = DOMAIN runs \cup {Len(runs) + 1} /\ Len(runs) + 1 \notin DOMAIN runs
           /\ \A j \in DOMAIN runs : runs'[j] = runs[j]
           /\ runs'[Len(runs) + 1] = Run(r, status, command, cause)
<1>1. Run(r, status, command, cause) \in RunRecords
  BY NewRun DEF RunStatuses
<1>2. QED BY <1>1 DEF TypeOK, Inserted

-----------------------------------------------------------------------------
(* The parts of the invariant                                              *)

LEMMA RefsStep ==
    ASSUME IInv, Next
    PROVE  RefsInv'
<1>1. TypeOK /\ RefsInv
  BY DEF IInv
<1>2. batch' \subseteq batch \cup DOMAIN outbox
  <2>1. CASE \E i \in DOMAIN runs : RunStep(i)
    BY <1>1, <2>1, RunEvents
  <2>2. CASE RecoverRun
    BY <1>1, <2>2, RecoverRunCases DEF MemoryLost, memory
  <2>3. CASE \/ \E b \in Bindings : PollDue(b)
             \/ \E c \in Chats : FinishTurn(c) \/ Project(c) \/ BeginDelete(c)
             \/ \E r \in Routines : StartManually(r)
             \/ Settle
             \/ SaveClosure \/ DeleteChat \/ CloseInDeletion \/ ForgetInDeletion \/ DeletionFails
             \/ Restart \/ CloseAtStartup \/ ForgetAtStartup \/ Serve
    BY <2>3 DEF PollDue, FinishTurn, Project, BeginDelete, StartManually, Settle, SaveClosure,
       DeleteChat, CloseInDeletion, ForgetInDeletion, ForgetClosures, Close, DeletionFails,
       Restart, CloseAtStartup, ForgetAtStartup, Serve, memory
  <2>4. CASE \/ ReadPending \/ Crash
             \/ \E a \in batch : SkipStale(a) \/ Deliver(a) \/ DeliveryFails(a) \/ StartRoutine(a)
    BY <2>4 DEF ReadPending, Pending, Crash, MemoryLost, SkipStale, Deliver, DeliveryFails,
       StartRoutine, Answer
  <2>5. QED BY <2>1, <2>2, <2>3, <2>4 DEF Next, WorkerStep, DeletionStep, Startup
<1>3. \A a \in DOMAIN outbox' \cup batch' : a[1] \in DOMAIN events'
  BY <1>1, <1>2, EventsGrow DEF RefsInv
<1>4. \A i \in DOMAIN runs' : runs'[i].cause \in DOMAIN events' \cup {None}
  <2>1. CASE UNCHANGED runs
    BY <1>1, <2>1, EventsGrow DEF RefsInv
  <2>2. CASE Finishes
    BY <1>1, <2>2, EventsGrow, FinishRunStep DEF RefsInv, Finishes
  <2>3. CASE Inserts
    <3>1. PICK r \in Routines, status \in {"running", "skipped"}, command \in Commands,
               cause \in DOMAIN events \cup {None} : Inserted(r, status, command, cause)
      BY <2>3 DEF Inserts
    <3>2. Run(r, status, command, cause).cause = cause
      BY DEF Run
    <3>3. QED BY <1>1, <3>1, <3>2, InsertedRuns, EventsGrow DEF RefsInv
  <2>4. QED BY <2>1, <2>2, <2>3, RunChanges
<1>5. QED BY <1>3, <1>4 DEF RefsInv
(* Only a delivery adds a receipt.                                         *)
LEMMA Delivered ==
    ASSUME IInv, Next
    PROVE  receipts' = receipts \/ \E a \in batch : Deliver(a)
<1>1. TypeOK /\ RefsInv
  BY DEF IInv
<1>2. CASE \E i \in DOMAIN runs : RunStep(i)
  BY <1>1, <1>2, RunEvents
<1>3. CASE \/ \E b \in Bindings : PollDue(b)
           \/ \E c \in Chats : FinishTurn(c) \/ Project(c) \/ BeginDelete(c)
           \/ \E r \in Routines : StartManually(r)
           \/ ReadPending \/ Settle
           \/ \E a \in batch : SkipStale(a) \/ DeliveryFails(a) \/ StartRoutine(a)
           \/ SaveClosure \/ DeleteChat \/ CloseInDeletion \/ ForgetInDeletion \/ DeletionFails
           \/ Crash \/ Restart \/ CloseAtStartup \/ ForgetAtStartup \/ RecoverRun \/ Serve
  BY <1>3 DEF PollDue, FinishTurn, Project, BeginDelete, StartManually, ReadPending, Settle,
     SkipStale, DeliveryFails, StartRoutine, SaveClosure, DeleteChat, CloseInDeletion,
     ForgetInDeletion, ForgetClosures, Close, DeletionFails, Crash, Restart, CloseAtStartup,
     ForgetAtStartup, RecoverRun, Serve, checkpoint
<1>4. QED BY <1>2, <1>3 DEF Next, WorkerStep, DeletionStep, Startup

LEMMA OnceStep ==
    ASSUME IInv, Next
    PROVE  OncePerRow'
<1>1. TypeOK /\ RefsInv /\ OncePerRow
  BY DEF IInv
<1>2. receipts' = receipts \/ \E a \in batch : Deliver(a)
  BY Delivered
<1>3. IsInjective(receipts')
  <2>1. CASE receipts' = receipts
    BY <1>1, <2>1 DEF OncePerRow
  <2>2. CASE \E a \in batch : Deliver(a)
    <3>1. PICK a \in batch : Deliver(a)
      BY <2>2
    <3>2. receipts' = receipts \/ (a \notin ToSet(receipts) /\ receipts' = Append(receipts, a))
      BY <3>1 DEF Deliver, Accept
    <3>3. CASE a \notin ToSet(receipts) /\ receipts' = Append(receipts, a)
      <4>1. receipts \in Seq(Rows) /\ a \in Rows
        BY <1>1 DEF TypeOK
      <4>2. \A i \in DOMAIN receipts : receipts[i] # a
        BY <3>3 DEF ToSet
      <4>3. QED BY <1>1, <3>3, <4>1, <4>2 DEF OncePerRow, IsInjective
    <3>4. QED BY <1>1, <3>2, <3>3 DEF OncePerRow
  <2>3. QED BY <1>2, <2>1, <2>2
<1>4. \A i, j \in DOMAIN runs' : runs'[i].command = runs'[j].command => i = j
  <2>1. CASE UNCHANGED runs
    BY <1>1, <2>1 DEF OncePerRow
  <2>2. CASE Finishes
    BY <1>1, <2>2, FinishRunStep DEF OncePerRow, Finishes
  <2>3. CASE Inserts
    <3>1. PICK r \in Routines, status \in {"running", "skipped"}, command \in Commands,
               cause \in DOMAIN events \cup {None} : Inserted(r, status, command, cause)
      BY <2>3 DEF Inserts
    <3>2. Run(r, status, command, cause).command = command
      BY DEF Run
    <3>3. \A i \in DOMAIN runs : runs[i].command # command
      BY <3>1 DEF Inserted, Recorded
    <3>4. QED BY <1>1, <3>1, <3>2, <3>3, InsertedRuns DEF OncePerRow
  <2>4. QED BY <2>1, <2>2, <2>3, RunChanges
<1>5. QED BY <1>3, <1>4 DEF OncePerRow

(* Who changes the chats and the saved fact.                               *)
LEMMA ChatSteps ==
    ASSUME IInv, Next
    PROVE  \/ UNCHANGED <<chats, closures>>
           \/ SaveClosure \/ DeleteChat \/ ForgetInDeletion \/ ForgetAtStartup
<1>1. TypeOK /\ RefsInv
  BY DEF IInv
<1>2. CASE \E i \in DOMAIN runs : RunStep(i)
  BY <1>1, <1>2, RunEvents
<1>3. CASE \/ \E b \in Bindings : PollDue(b)
           \/ \E c \in Chats : FinishTurn(c) \/ Project(c) \/ BeginDelete(c)
           \/ \E r \in Routines : StartManually(r)
           \/ ReadPending \/ Settle
           \/ \E a \in batch : SkipStale(a) \/ Deliver(a) \/ DeliveryFails(a) \/ StartRoutine(a)
           \/ CloseInDeletion \/ DeletionFails
           \/ Crash \/ Restart \/ CloseAtStartup \/ RecoverRun \/ Serve
  BY <1>3 DEF PollDue, FinishTurn, Project, BeginDelete, StartManually, ReadPending, Settle,
     SkipStale, Deliver, DeliveryFails, StartRoutine, CloseInDeletion, Close, DeletionFails,
     Crash, Restart, CloseAtStartup, RecoverRun, Serve, checkpoint
<1>4. QED BY <1>2, <1>3 DEF Next, WorkerStep, DeletionStep, Startup

(* A saved closing fact is a new one.                                      *)
LEMMA SavedFact ==
    ASSUME TypeOK, SaveClosure
    PROVE  closures' \in HookEvents /\ IsClosing(closures') /\ closures'.source = deleting.chat
           /\ closures' # None
<1> DEFINE c == deleting.chat
           id == <<"deleted", c, budget.troubles>>
<1>1. c \in Chats /\ budget.troubles \in Nat
  BY DEF TypeOK, SaveClosure, Deleting
<1>2. id \in EventIds /\ id[1] = "deleted" /\ id[2] = c /\ c \in Sources /\ "deleted" \in Kinds
  BY <1>1, NewIds DEF Sources, Kinds
<1>3. closures' = HookEvent(id, c, "deleted", UserTurn)
  BY DEF SaveClosure
<1> HIDE DEF id
<1>4. QED BY <1>1, <1>2, <1>3, NewEvent, UserCause, NoneIsNoValue DEF IsClosing

LEMMA FactsStep ==
    ASSUME IInv, Next
    PROVE  EventsInv' /\ FactsInv' /\ \A c : Facts(c) # {} => Facts(c)' # {}
<1>1. TypeOK /\ RefsInv /\ EventsInv /\ FactsInv /\ DeletionInv
  BY DEF IInv
<1>2. CASE Records
  BY <1>1, <1>2, OpensFacts DEF Records
<1>3. CASE Closes
  BY <1>1, <1>3, ClosingFactsStep DEF Closes
<1>4. CASE Settle
  <2>1. UNCHANGED <<events, chats, closures, bound>>
    BY <1>4 DEF Settle, checkpoint
  <2>2. DOMAIN outbox' = DOMAIN outbox
        /\ \A a \in DOMAIN outbox : outbox[a] = "accepted" => outbox'[a] = "accepted"
    BY <1>1, <1>4 DEF Settle, Marked, TypeOK
  <2>3. \A c : Facts(c)' = Facts(c)
    BY <2>1 DEF Facts
  <2>4. EventsInv'
    BY <1>1, <2>1 DEF EventsInv, IsOpen, IsClosing
  <2>5. \A c : Silent(c) => Silent(c)'
    BY <2>1, <2>2, <2>3 DEF Silent
  <2>6. FactsInv'
    BY <1>1, <2>1, <2>3, <2>5 DEF FactsInv, Unwatched, Known, IsClosing
  <2>7. QED BY <2>3, <2>4, <2>6
<1>5. CASE Quiet
  <2>1. \A c : Facts(c)' = Facts(c)
    BY <1>5 DEF Facts, Quiet
  <2>2. EventsInv'
    BY <1>1, <1>5 DEF EventsInv, IsOpen, IsClosing, Quiet
  <2>3. \A c : (Silent(c)' <=> Silent(c)) /\ (Unwatched(c)' <=> Unwatched(c))
    BY <1>5, <2>1 DEF Silent, Unwatched, Quiet
  <2>4. FactsInv'
    <3>1. CASE UNCHANGED <<chats, closures>>
      BY <1>1, <1>5, <2>1, <2>3, <3>1 DEF FactsInv, Known, IsClosing, Quiet
    <3>2. CASE SaveClosure
      <4>1. deleting.chat \in chats /\ closures = None /\ chats' = chats /\ deleting.chat \in Chats
        BY <1>1, <3>2 DEF DeletionInv, SaveClosure, Deleting, TypeOK
      <4>2. IsClosing(closures') /\ closures'.source = deleting.chat
        BY <1>1, <3>2, SavedFact
      <4>3. Facts(deleting.chat) = {}
        BY <1>1, <4>1 DEF FactsInv
      <4>4. QED BY <1>1, <1>5, <2>1, <2>3, <4>1, <4>2, <4>3 DEF FactsInv, IsClosing
    <3>3. CASE DeleteChat
      <4>1. /\ chats' = chats \ {deleting.chat} /\ closures' = closures
            /\ closures # None /\ closures.source = deleting.chat
        BY <1>1, <3>3 DEF DeletionInv, DeleteChat, Deleting
      <4>2. QED BY <1>1, <1>5, <2>1, <2>3, <4>1 DEF FactsInv, Known, IsClosing, Quiet
    <3>4. CASE ForgetInDeletion \/ ForgetAtStartup
      <4>1. chats' = chats /\ closures' = None /\ Published
        BY <1>1, <3>4 DEF DeletionInv, ForgetInDeletion, ForgetAtStartup, ForgetClosures, Deleting
      <4>2. QED BY <1>1, <2>1, <2>3, <4>1 DEF FactsInv, Published
    <3>5. QED BY <3>1, <3>2, <3>3, <3>4, ChatSteps
  <2>5. QED BY <2>1, <2>2, <2>4
<1>6. QED BY <1>2, <1>3, <1>4, <1>5, EventSteps
LEMMA DeletionStepInv ==
    ASSUME IInv, Next
    PROVE  DeletionInv'
<1>1. TypeOK /\ RefsInv /\ EventsInv /\ FactsInv /\ DeletionInv
  BY DEF IInv
<1>2. Published /\ UNCHANGED <<chats, closures>> => Published'
  BY FactsStep DEF Published
<1>3. CASE UNCHANGED <<phase, deleting, chats, closures>>
  BY <1>1, <1>2, <1>3 DEF DeletionInv
<1>4. CASE \E i \in DOMAIN runs : RunStep(i)
  BY <1>1, <1>3, <1>4, RunEvents
<1>5. CASE \/ \E b \in Bindings : PollDue(b)
           \/ \E c \in Chats : FinishTurn(c) \/ Project(c)
           \/ \E r \in Routines : StartManually(r)
           \/ ReadPending \/ Settle
           \/ \E a \in batch : SkipStale(a) \/ Deliver(a) \/ DeliveryFails(a) \/ StartRoutine(a)
  BY <1>3, <1>5 DEF PollDue, FinishTurn, Project, StartManually, ReadPending, Settle,
     SkipStale, Deliver, DeliveryFails, StartRoutine, checkpoint, memory
<1>6. CASE Crash \/ RecoverRun
  <2>1. UNCHANGED <<chats, closures>>
    BY <1>6 DEF Crash, RecoverRun, checkpoint
  <2>2. (phase' = "down" /\ deleting' = None) \/ UNCHANGED <<phase, deleting>>
    BY <1>1, <1>6, RecoverRunCases DEF Crash, MemoryLost, memory
  <2>3. QED BY <1>3, <2>1, <2>2 DEF DeletionInv
<1>7. CASE Restart \/ Serve
  BY <1>1, <1>7 DEF Restart, Serve, checkpoint, DeletionInv
<1>8. CASE CloseAtStartup
  <2>1. closures # None /\ CloseSource(closures) /\ UNCHANGED <<chats, closures>>
    BY <1>1, <1>8 DEF CloseAtStartup, Close, checkpoint, DeletionInv
  <2>2. Published'
    BY <1>1, <2>1, ClosingFactsStep
  <2>3. QED BY <1>1, <1>8, <2>1, <2>2 DEF CloseAtStartup, DeletionInv
<1>9. CASE ForgetAtStartup
  BY <1>1, <1>9 DEF ForgetAtStartup, ForgetClosures, DeletionInv
<1>10. CASE \E c \in Chats : BeginDelete(c)
  BY <1>1, <1>10 DEF BeginDelete, checkpoint, DeletionInv
<1>11. CASE DeletionFails
  BY <1>1, <1>11 DEF DeletionFails, checkpoint, DeletionInv
<1>12. CASE SaveClosure
  <2>1. closures' # None /\ closures'.source = deleting.chat
    BY <1>1, <1>12, SavedFact
  <2>2. deleting \in [chat : Chats, step : DeletionSteps] /\ deleting.step = "recovered" /\ phase = "up"
    BY <1>1, <1>12 DEF SaveClosure, Deleting, TypeOK
  <2>3. deleting' = [deleting EXCEPT !.step = "saved"] /\ UNCHANGED <<phase, chats>>
    BY <1>12 DEF SaveClosure, DeletionAt
  <2>4. deleting'.step = "saved" /\ deleting'.chat = deleting.chat
    BY <2>2, <2>3
  <2>5. deleting.chat \in chats
    BY <1>1, <1>12, <2>2 DEF DeletionInv, SaveClosure, Deleting
  <2>6. QED BY <2>1, <2>2, <2>3, <2>4, <2>5 DEF DeletionInv
<1>13. CASE DeleteChat
  <2>1. deleting \in [chat : Chats, step : DeletionSteps] /\ phase = "up" /\ closures # None
    BY <1>1, <1>13 DEF DeleteChat, Deleting, TypeOK, DeletionInv
  <2>2. deleting' = [deleting EXCEPT !.step = "deleted"] /\ UNCHANGED <<phase, closures>>
    BY <1>13 DEF DeleteChat, DeletionAt
  <2>3. deleting'.step = "deleted"
    BY <2>1, <2>2
  <2>4. QED BY <2>1, <2>2, <2>3 DEF DeletionInv
<1>14. CASE CloseInDeletion
  <2>1. closures # None /\ CloseSource(closures) /\ UNCHANGED <<chats, closures, phase>>
    BY <1>1, <1>14 DEF CloseInDeletion, Close, checkpoint, DeletionInv, Deleting
  <2>2. Published'
    BY <1>1, <2>1, ClosingFactsStep
  <2>3. deleting \in [chat : Chats, step : DeletionSteps] /\ phase = "up" /\ deleting # None
    BY <1>1, <1>14 DEF CloseInDeletion, Deleting, TypeOK
  <2>4. \/ deleting.step = "recover" /\ deleting' = [deleting EXCEPT !.step = "closed first"]
        \/ deleting' = [deleting EXCEPT !.step = "closed"]
    BY <1>14 DEF CloseInDeletion, Deleting, DeletionAt
  <2>5. deleting'.chat = deleting.chat /\ (\/ deleting.step = "recover" /\ deleting'.step = "closed first"
                                           \/ deleting'.step = "closed")
    BY <2>3, <2>4
  <2>6. deleting.step = "recover" => deleting.chat \in chats
    BY <1>1, <2>3 DEF DeletionInv
  <2>7. QED BY <2>1, <2>2, <2>3, <2>5, <2>6 DEF DeletionInv
<1>15. CASE ForgetInDeletion
  <2>1. closures' = None /\ UNCHANGED <<chats, phase>>
    BY <1>15 DEF ForgetInDeletion, ForgetClosures
  <2>2. deleting \in [chat : Chats, step : DeletionSteps] /\ phase = "up" /\ deleting # None
    BY <1>1, <1>15 DEF ForgetInDeletion, Deleting, TypeOK
  <2>3. \/ deleting.step = "closed first" /\ deleting' = [deleting EXCEPT !.step = "recovered"]
        \/ deleting' = None
    BY <1>15 DEF ForgetInDeletion, Deleting, DeletionAt
  <2>4. \/ deleting.step = "closed first" /\ deleting'.step = "recovered" /\ deleting'.chat = deleting.chat
        \/ deleting' = None
    BY <2>2, <2>3
  <2>5. deleting.step = "closed first" => deleting.chat \in chats
    BY <1>1, <2>2 DEF DeletionInv
  <2>6. QED BY <2>1, <2>2, <2>4, <2>5 DEF DeletionInv
<1>16. QED
  BY <1>4, <1>5, <1>6, <1>7, <1>8, <1>9, <1>10, <1>11, <1>12, <1>13, <1>14, <1>15
     DEF Next, WorkerStep, DeletionStep, Startup
(* A step of one run: its actor, its lock and its records change together. *)
LEMMA LockLocal ==
    ASSUME TypeOK, LocksInv, NEW i \in DOMAIN runs, NEW x, NEW y,
           DOMAIN runs' = DOMAIN runs, Len(runs') = Len(runs),
           \A j \in DOMAIN runs : /\ runs'[j].routine = runs[j].routine
                                  /\ j # i => runs'[j].status = runs[j].status,
           actor' = [actor EXCEPT ![i] = x], outcome' = [outcome EXCEPT ![i] = y], phase' = phase,
           \/ x # "gone" /\ held[runs[i].routine] = i /\ held' = held
           \/ x # "gone" /\ held[runs[i].routine] = None /\ held' = [held EXCEPT ![runs[i].routine] = i]
           \/ x = "gone" /\ held[runs[i].routine] = i /\ held' = [held EXCEPT ![runs[i].routine] = None]
           \/ x = "gone" /\ actor[i] = "gone" /\ held' = held,
           x \in {"admit", "turn", "approval", "deciding", "ended"} => runs'[i].status = "running",
           x = "finished" => runs'[i].status # "running",
           x \in {"approval", "deciding"} => y = "approval",
           phase = "up" /\ runs'[i].status = "running" /\ x = "gone" => y = "approval"
    PROVE  LocksInv'
<1>1. /\ DOMAIN runs = 1 .. Len(runs) /\ Len(runs) \in Nat
      /\ \A j \in DOMAIN runs : runs[j].routine \in Routines
      /\ held \in [Routines -> Nat \cup {None}]
  <2>1. runs \in Seq(RunRecords) /\ held \in [Routines -> Nat \cup {None}]
    BY DEF TypeOK
  <2>2. \A j \in DOMAIN runs : runs[j] \in RunRecords
    BY <2>1
  <2>3. QED BY <2>1, <2>2 DEF RunRecords
<1>2. /\ Len(actor') = Len(runs') /\ Len(outcome') = Len(runs')
      /\ \A j \in DOMAIN runs : /\ actor'[j] = IF j = i THEN x ELSE actor[j]
                                /\ outcome'[j] = IF j = i THEN y ELSE outcome[j]
  BY <1>1 DEF TypeOK, LocksInv
<1>3. i # None
  BY <1>1, NoneIsNoValue
<1>4. ASSUME NEW j \in DOMAIN runs'
      PROVE  RunInv(j)'
  <2>1. RunInv(j)
    BY DEF LocksInv
  <2>2. CASE j = i
    BY <1>1, <1>2, <2>1, <2>2 DEF RunInv
  <2>3. CASE j # i
    <3>1. actor'[j] = actor[j] /\ outcome'[j] = outcome[j] /\ runs'[j].status = runs[j].status
          /\ runs'[j].routine = runs[j].routine
      BY <1>2, <2>3
    <3>2. actor[j] # "gone" => held'[runs[j].routine] = j
      BY <1>1, <1>3, <2>1, <2>3, NoneIsNoValue DEF RunInv
    <3>3. QED BY <2>1, <3>1, <3>2 DEF RunInv
  <2>4. QED BY <2>2, <2>3
<1>5. ASSUME NEW r \in Routines, held'[r] # None
      PROVE  held'[r] \in DOMAIN runs /\ runs'[held'[r]].routine = r /\ actor'[held'[r]] # "gone"
  <2>1. held[r] # None => held[r] \in DOMAIN runs /\ runs[held[r]].routine = r /\ actor[held[r]] # "gone"
    BY DEF LocksInv
  <2>2. CASE r = runs[i].routine
    BY <1>1, <1>2, <1>5, <2>1, <2>2
  <2>3. CASE r # runs[i].routine
    BY <1>1, <1>2, <1>5, <2>1, <2>3
  <2>4. QED BY <2>2, <2>3
<1>6. QED BY <1>2, <1>4, <1>5 DEF LocksInv

LEMMA LockRunStep ==
    ASSUME TypeOK, RefsInv, LocksInv, NEW i \in DOMAIN runs, RunStep(i)
    PROVE  LocksInv'
<1> DEFINE r == runs[i].routine
<1>1. /\ RunInv(i) /\ i \in DOMAIN actor /\ i \in DOMAIN outcome
      /\ actor = [actor EXCEPT ![i] = actor[i]] /\ outcome = [outcome EXCEPT ![i] = outcome[i]]
  <2>1. RunInv(i) /\ i \in DOMAIN actor /\ i \in DOMAIN outcome
    BY DEF LocksInv, TypeOK
  <2>2. actor = [j \in DOMAIN actor |-> actor[j]] /\ outcome = [j \in DOMAIN outcome |-> outcome[j]]
    BY DEF TypeOK
  <2>3. QED BY <2>1, <2>2, Zenon
<1>2. phase' = phase
  BY RunEvents
<1>3. CASE Admit(i)
  BY <1>1, <1>2, <1>3, LockLocal DEF Admit, checkpoint, botState, RunInv
<1>4. CASE AskApproval(i)
  BY <1>1, <1>2, <1>4, LockLocal DEF AskApproval, memory, botState, RunInv
<1>5. CASE HearApproval(i)
  BY <1>1, <1>2, <1>5, LockLocal DEF HearApproval, checkpoint, botState, RunInv
<1>6. CASE Decide(i)
  BY <1>1, <1>2, <1>6, LockLocal DEF Decide, checkpoint, botState, RunInv
<1>7. CASE ApplyDecision(i)
  BY <1>1, <1>2, <1>7, LockLocal DEF ApplyDecision, botState, RunInv
<1>8. CASE EndTurn(i)
  <2>1. PICK y : outcome' = [outcome EXCEPT ![i] = y]
    BY <1>8 DEF EndTurn
  <2>2. /\ actor[i] = "turn" /\ actor' = [actor EXCEPT ![i] = "ended"] /\ runs' = runs /\ held' = held
    BY <1>8 DEF EndTurn, botState
  <2>3. held[runs[i].routine] = i /\ runs[i].status = "running"
    BY <1>1, <2>2 DEF RunInv
  <2>4. QED BY <1>2, <2>1, <2>2, <2>3, LockLocal
<1>9. CASE ReleaseLock(i)
  BY <1>1, <1>2, <1>9, LockLocal DEF ReleaseLock, checkpoint, botState, RunInv
<1>10. CASE OpenRun(i)
  BY <1>1, <1>2, <1>10, LockLocal DEF OpenRun, Resume, checkpoint, botState, RunInv
<1>11. CASE AdmissionFails(i)
  <2>1. PICK status \in {"failed", "skipped"} : FinishRun(i, status)
    BY <1>11 DEF AdmissionFails
  <2>2. /\ DOMAIN runs' = DOMAIN runs /\ Len(runs') = Len(runs) /\ runs'[i].status = status
        /\ \A j \in DOMAIN runs : runs'[j].routine = runs[j].routine
                                  /\ (j # i => runs'[j].status = runs[j].status)
    BY <2>1, FinishRunStep DEF RunStatuses
  <2>3. QED BY <1>1, <1>2, <1>11, <2>2, LockLocal DEF AdmissionFails, checkpoint, RunInv
<1>12. CASE ObserveEnd(i)
  <2>1. FinishRun(i, ResultOf(i)) /\ ResultOf(i) \in RunStatuses /\ ResultOf(i) # "running"
    BY <1>12, ResultStatus DEF ObserveEnd
  <2>2. /\ DOMAIN runs' = DOMAIN runs /\ Len(runs') = Len(runs) /\ runs'[i].status # "running"
        /\ \A j \in DOMAIN runs : runs'[j].routine = runs[j].routine
                                  /\ (j # i => runs'[j].status = runs[j].status)
    BY <2>1, FinishRunStep
  <2>3. QED BY <1>1, <1>2, <1>12, <2>2, LockLocal DEF ObserveEnd, checkpoint, RunInv
<1>13. CASE StopActor(i)
  <2>1. CASE actor[i] = "approval"
    <3>1. /\ actor' = [actor EXCEPT ![i] = "gone"] /\ outcome' = outcome /\ runs' = runs
          /\ held' = [held EXCEPT ![runs[i].routine] = None]
      BY <1>13, <2>1 DEF StopActor, checkpoint
    <3>2. held[runs[i].routine] = i /\ outcome[i] = "approval"
      BY <1>1, <2>1 DEF RunInv
    <3>3. QED BY <1>1, <1>2, <3>1, <3>2, LockLocal
  <2>2. CASE actor[i] # "approval"
    <3>1. FinishRun(i, "failed") /\ "failed" \in RunStatuses
      BY <1>13, <2>2 DEF StopActor, RunStatuses
    <3>2. /\ DOMAIN runs' = DOMAIN runs /\ Len(runs') = Len(runs) /\ runs'[i].status = "failed"
          /\ \A j \in DOMAIN runs : runs'[j].routine = runs[j].routine
                                    /\ (j # i => runs'[j].status = runs[j].status)
      BY <3>1, FinishRunStep
    <3>3. QED BY <1>1, <1>2, <1>13, <2>2, <3>2, LockLocal DEF StopActor, checkpoint, RunInv
  <2>3. QED BY <2>1, <2>2
<1>14. QED
  BY <1>3, <1>4, <1>5, <1>6, <1>7, <1>8, <1>9, <1>10, <1>11, <1>12, <1>13 DEF RunStep
LEMMA LockBegins ==
    ASSUME TypeOK, RefsInv, LocksInv, NEW r \in Routines, NEW command \in Commands,
           NEW cause \in DOMAIN events \cup {None}, Begins(r, command, cause), phase' = phase
    PROVE  LocksInv'
<1>1. CASE UNCHANGED <<runs, outcome, actor, events, outbox, held>>
  BY <1>1 DEF LocksInv, RunInv
<1>2. ASSUME NEW status \in {"running", "skipped"}, Inserted(r, status, command, cause),
             \/ status = "skipped" /\ UNCHANGED held
             \/ status = "running" /\ held[r] = None /\ held' = [held EXCEPT ![r] = Len(runs) + 1]
      PROVE  LocksInv'
  <2> DEFINE run == Run(r, status, command, cause)
  <2>0. PICK n \in Nat : n = Len(runs) + 1
    BY DEF TypeOK
  <2>1. /\ DOMAIN runs = 1 .. Len(runs) /\ Len(runs) \in Nat
        /\ held \in [Routines -> Nat \cup {None}]
        /\ \A j \in DOMAIN runs : runs[j].routine \in Routines
    <3>1. runs \in Seq(RunRecords) /\ held \in [Routines -> Nat \cup {None}]
      BY DEF TypeOK
    <3>2. \A j \in DOMAIN runs : runs[j] \in RunRecords
      BY <3>1
    <3>3. QED BY <3>1, <3>2 DEF RunRecords
  <2>2. /\ Len(runs') = n /\ DOMAIN runs' = DOMAIN runs \cup {n} /\ n \notin DOMAIN runs
        /\ \A j \in DOMAIN runs : runs'[j] = runs[j]
        /\ runs'[n] = run
    <3>1. /\ Len(runs') = Len(runs) + 1
          /\ DOMAIN runs' = DOMAIN runs \cup {Len(runs) + 1} /\ Len(runs) + 1 \notin DOMAIN runs
          /\ \A j \in DOMAIN runs : runs'[j] = runs[j]
          /\ runs'[Len(runs) + 1] = run
      BY <1>2, InsertedRuns
    <3> HIDE DEF run
    <3>2. QED BY <2>0, <3>1
  <2>3. run.routine = r /\ run.status = status
    BY DEF Run
  <2>4. /\ Len(actor') = n /\ Len(outcome') = n
        /\ \A j \in DOMAIN runs : actor'[j] = actor[j] /\ outcome'[j] = outcome[j]
        /\ actor'[n] = IF status = "running" THEN "admit" ELSE "gone"
    BY <1>2, <2>0, <2>1 DEF TypeOK, LocksInv, Inserted
  <2> HIDE DEF run
  <2>5. n # None /\ \A j \in DOMAIN runs : j # None /\ j # n
    BY <2>1, <2>2, NoneIsNoValue
  <2>6. ASSUME NEW j \in DOMAIN runs
        PROVE  RunInv(j)'
    <3>1. RunInv(j) /\ runs'[j] = runs[j] /\ actor'[j] = actor[j] /\ outcome'[j] = outcome[j]
      BY <2>2, <2>4 DEF LocksInv
    <3>2. actor[j] # "gone" => held'[runs[j].routine] = j
      BY <1>2, <2>1, <2>5, <3>1 DEF RunInv
    <3>3. QED BY <3>1, <3>2 DEF RunInv
  <2>7. RunInv(n)'
    BY <1>2, <2>0, <2>1, <2>2, <2>3, <2>4 DEF RunInv
  <2>8. ASSUME NEW s \in Routines, held'[s] # None
        PROVE  held'[s] \in DOMAIN runs' /\ runs'[held'[s]].routine = s /\ actor'[held'[s]] # "gone"
    <3>1. held[s] # None => held[s] \in DOMAIN runs /\ runs[held[s]].routine = s /\ actor[held[s]] # "gone"
      BY DEF LocksInv
    <3>2. CASE held'[s] = held[s]
      BY <2>2, <2>4, <2>8, <3>1, <3>2
    <3>3. CASE held'[s] # held[s]
      BY <1>2, <2>0, <2>1, <2>2, <2>3, <2>4, <3>3
    <3>4. QED BY <3>2, <3>3
  <2>9. QED BY <2>2, <2>4, <2>6, <2>7, <2>8 DEF LocksInv
<1>3. QED BY <1>1, <1>2, BeginsStep

(* Without memory nobody holds a lock.                                     *)
LEMMA LockLost ==
    ASSUME TypeOK, LocksInv, MemoryLost, UNCHANGED <<runs, outcome>>
    PROVE  LocksInv'
<1>1. /\ Len(actor') = Len(runs') /\ Len(outcome') = Len(runs')
      /\ \A i \in DOMAIN runs : actor'[i] = "gone"
  BY DEF TypeOK, LocksInv, MemoryLost
<1>2. \A r \in Routines : held'[r] = None
  BY DEF MemoryLost
<1>3. \A i \in DOMAIN runs' : RunInv(i)'
  BY <1>1 DEF MemoryLost, RunInv
<1>4. QED BY <1>1, <1>2, <1>3 DEF LocksInv

LEMMA LocksStep ==
    ASSUME IInv, Next
    PROVE  LocksInv'
<1>1. TypeOK /\ RefsInv /\ LocksInv
  BY DEF IInv
<1>2. CASE \E i \in DOMAIN runs : RunStep(i)
  BY <1>1, <1>2, LockRunStep
<1>3. CASE \E r \in Routines : StartManually(r)
  <2>1. PICK r \in Routines : StartManually(r)
    BY <1>3
  <2>2. Begins(r, <<<<"manual", budget.inputs>>, None>>, None) /\ budget.inputs \in Nat
    BY <1>1, <2>1, StartManuallyStep
  <2>3. <<<<"manual", budget.inputs>>, None>> \in Commands /\ phase' = phase
    BY <2>1, <2>2 DEF Commands, StartManually
  <2>4. QED BY <1>1, <2>2, <2>3, LockBegins
<1>4. CASE \E a \in batch : StartRoutine(a)
  <2>1. PICK a \in batch : StartRoutine(a)
    BY <1>4
  <2>2. a \in DOMAIN outbox /\ Target(a) \in Routines /\ Begins(Target(a), a, a[1])
    BY <1>1, <2>1, StartRoutineStep
  <2>3. a \in Commands /\ a[1] \in DOMAIN events /\ phase' = phase
    BY <1>1, <2>1, <2>2 DEF Commands, TypeOK, RefsInv, StartRoutine
  <2>4. QED BY <1>1, <2>2, <2>3, LockBegins
<1>5. CASE Crash
  BY <1>1, <1>5, LockLost DEF Crash, checkpoint, botState
<1>6. CASE RecoverRun
  <2> DEFINE i == Recovered
  <2>1. i \in DOMAIN runs /\ runs[i].status = "running" /\ actor[i] = "gone" /\ phase = "runs"
    BY <1>1, <1>6, RecoveredRun DEF RecoverRun
  <2>2. outcome' = outcome
    BY <1>6 DEF RecoverRun, checkpoint
  <2>3. i \in DOMAIN actor /\ i \in DOMAIN outcome
    BY <1>1, <2>1 DEF LocksInv, TypeOK
  <2>4. actor = [j \in DOMAIN actor |-> actor[j]] /\ outcome = [j \in DOMAIN outcome |-> outcome[j]]
    BY <1>1 DEF TypeOK
  <2>5. actor = [actor EXCEPT ![i] = actor[i]] /\ outcome = [outcome EXCEPT ![i] = outcome[i]]
    BY <2>3, <2>4, Zenon
  <2>6. CASE /\ Resume(i) /\ outcome[i] = "approval"
             /\ UNCHANGED <<events, outbox, runs, phase, batch, acting, deleting>>
    BY <1>1, <2>1, <2>2, <2>5, <2>6, LockLocal DEF Resume
  <2>7. CASE MemoryLost /\ UNCHANGED <<events, outbox, runs>>
    BY <1>1, <2>2, <2>7, LockLost
  <2>8. CASE FinishRun(i, ResultOf(i)) /\ UNCHANGED memory
    <3>1. ResultOf(i) \in RunStatuses /\ ResultOf(i) # "running"
      BY ResultStatus
    <3>2. /\ DOMAIN runs' = DOMAIN runs /\ Len(runs') = Len(runs) /\ runs'[i].status # "running"
          /\ \A j \in DOMAIN runs : runs'[j].routine = runs[j].routine
                                    /\ (j # i => runs'[j].status = runs[j].status)
      BY <1>1, <2>1, <2>8, <3>1, FinishRunStep
    <3>3. phase' = phase /\ held' = held /\ actor' = actor
      BY <2>8 DEF memory
    <3>4. QED BY <1>1, <2>1, <2>2, <2>5, <3>2, <3>3, LockLocal
  <2>9. QED BY <1>1, <1>6, <2>6, <2>7, <2>8, RecoverRunCases
<1>7. CASE Serve
  <2>1. UNCHANGED <<runs, outcome, actor, held>>
    BY <1>7 DEF Serve, checkpoint, botState
  <2>2. \A i \in DOMAIN runs : ~(runs[i].status = "running" /\ actor[i] = "gone")
    BY <1>7 DEF Serve, Interrupted
  <2>3. QED BY <1>1, <2>1, <2>2 DEF LocksInv, RunInv
<1>8. CASE UNCHANGED <<runs, outcome, actor, held>> /\ (phase' = phase \/ phase' # "up")
  BY <1>1, <1>8 DEF LocksInv, RunInv
<1>9. CASE \/ \E b \in Bindings : PollDue(b)
           \/ \E c \in Chats : FinishTurn(c) \/ Project(c) \/ BeginDelete(c)
           \/ ReadPending \/ Settle
           \/ \E a \in batch : SkipStale(a) \/ Deliver(a) \/ DeliveryFails(a)
           \/ SaveClosure \/ DeleteChat \/ CloseInDeletion \/ ForgetInDeletion \/ DeletionFails
           \/ Restart \/ CloseAtStartup \/ ForgetAtStartup
  BY <1>8, <1>9 DEF PollDue, FinishTurn, Project, BeginDelete, ReadPending, Settle, SkipStale,
     Deliver, DeliveryFails, SaveClosure, DeleteChat, CloseInDeletion, ForgetInDeletion,
     ForgetClosures, Close, DeletionFails, Restart, CloseAtStartup, ForgetAtStartup,
     checkpoint, botState, memory
<1>10. QED
  BY <1>2, <1>3, <1>4, <1>5, <1>6, <1>7, <1>9 DEF Next, WorkerStep, DeletionStep, Startup
(* Types: what every step does to the variables it shares with others is   *)
(* known; the rest is read off the action.                                 *)
SharedTypes ==
    /\ DOMAIN events \subseteq EventIds /\ events \in [DOMAIN events -> HookEvents]
    /\ DOMAIN outbox \subseteq Rows
    /\ outbox \in [DOMAIN outbox -> {"pending", "retry", "failed", "accepted"}]
    /\ bound \subseteq Bindings
    /\ cursor \in [Chats -> Nat]
    /\ runs \in Seq(RunRecords)
    /\ batch \subseteq Rows

ChatTypes ==
    /\ chats \subseteq Chats
    /\ journal \in [Chats -> Seq(Causes)]
    /\ mail \in [Chats -> Seq(Causes)]
    /\ receipts \in Seq(Rows)
    /\ closures \in HookEvents \cup {None}

MemoryTypes ==
    /\ outcome \in Seq({"none", "approval", "completed", "aborted"})
    /\ phase \in {"down", "closures", "closed", "runs", "up"}
    /\ acting \in [row : Rows, result : {"done", "retry", "failed"}] \cup {None}
    /\ deleting \in [chat : Chats, step : DeletionSteps] \cup {None}
    /\ held \in [Routines -> Nat \cup {None}]
    /\ actor \in Seq({"admit", "turn", "approval", "deciding", "ended", "finished", "gone"})
    /\ budget \in [inputs : Nat, troubles : Nat]

LEMMA Types == TypeOK <=> SharedTypes /\ ChatTypes /\ MemoryTypes
  BY DEF TypeOK, SharedTypes, ChatTypes, MemoryTypes

LEMMA SharedStep ==
    ASSUME IInv, Next
    PROVE  SharedTypes'
<1>1. TypeOK /\ RefsInv /\ FactsInv
  BY DEF IInv
<1>2. bound' \subseteq Bindings /\ cursor' \in [Chats -> Nat]
  <2>1. CASE Quiet
    BY <1>1, <2>1 DEF TypeOK, Quiet
  <2>2. CASE Closes
    BY <1>1, <2>2, ClosingTypes DEF Closes, FactsInv
  <2>3. CASE Settle
    BY <1>1, <2>3 DEF TypeOK, Settle
  <2>4. CASE \E c \in Chats : Project(c)
    BY <1>1, <2>4 DEF TypeOK, Project
  <2>5. CASE \E b \in Bindings : PollDue(b)
    BY <1>1, <2>5 DEF TypeOK, PollDue
  <2>6. CASE UNCHANGED <<bound, cursor>>
    BY <1>1, <2>6 DEF TypeOK
  <2>7. CASE (\E r \in Routines : StartManually(r)) \/ (\E a \in batch : StartRoutine(a))
    BY <2>6, <2>7 DEF StartManually, StartRoutine
  <2>8. CASE (\E i \in DOMAIN runs : RunStep(i)) \/ RecoverRun
    BY <1>1, <2>1, <2>6, <2>8, RunEvents, RecoverEvents DEF Records
  <2>9. CASE CloseInDeletion \/ CloseAtStartup
    <3>1. closures # None
      BY <2>9 DEF IInv, DeletionInv, CloseInDeletion, CloseAtStartup, Deleting
    <3>2. QED BY <2>2, <2>9, <3>1 DEF CloseInDeletion, CloseAtStartup, Close, Closes, checkpoint
  <2>10. CASE \/ \E c \in Chats : FinishTurn(c) \/ BeginDelete(c)
              \/ ReadPending
              \/ \E a \in batch : SkipStale(a) \/ Deliver(a) \/ DeliveryFails(a)
              \/ SaveClosure \/ DeleteChat \/ ForgetInDeletion \/ DeletionFails
              \/ Crash \/ Restart \/ ForgetAtStartup \/ Serve
    BY <2>6, <2>10 DEF FinishTurn, BeginDelete, ReadPending, SkipStale, Deliver, DeliveryFails,
       SaveClosure, DeleteChat, ForgetInDeletion, ForgetClosures, DeletionFails, Crash, Restart,
       ForgetAtStartup, Serve, botState
  <2>11. QED BY <2>3, <2>4, <2>5, <2>7, <2>8, <2>9, <2>10 DEF Next, WorkerStep, DeletionStep, Startup
<1>3. runs' \in Seq(RunRecords)
  <2>1. CASE UNCHANGED runs
    BY <1>1, <2>1 DEF TypeOK
  <2>2. CASE Finishes
    BY <1>1, <2>2, FinishRunStep DEF Finishes
  <2>3. CASE Inserts
    BY <1>1, <2>3, InsertedRuns DEF Inserts
  <2>4. QED BY <2>1, <2>2, <2>3, RunChanges
<1>4. batch' \subseteq Rows
  <2>1. CASE batch' = batch
    BY <1>1, <2>1 DEF TypeOK
  <2>2. CASE \E i \in DOMAIN runs : RunStep(i)
    BY <1>1, <2>1, <2>2, RunEvents
  <2>3. CASE RecoverRun
    BY <1>1, <2>1, <2>3, RecoverRunCases DEF MemoryLost, memory
  <2>4. CASE \/ \E b \in Bindings : PollDue(b)
             \/ \E c \in Chats : FinishTurn(c) \/ Project(c) \/ BeginDelete(c)
             \/ \E r \in Routines : StartManually(r)
             \/ Settle
             \/ SaveClosure \/ DeleteChat \/ CloseInDeletion \/ ForgetInDeletion \/ DeletionFails
             \/ Restart \/ CloseAtStartup \/ ForgetAtStartup \/ Serve
    BY <2>1, <2>4 DEF PollDue, FinishTurn, Project, BeginDelete, StartManually, Settle, SaveClosure,
       DeleteChat, CloseInDeletion, ForgetInDeletion, ForgetClosures, Close, DeletionFails,
       Restart, CloseAtStartup, ForgetAtStartup, Serve, memory
  <2>5. CASE ReadPending
    BY <1>1, <2>5 DEF ReadPending, Pending, TypeOK
  <2>6. CASE Crash
    BY <2>6 DEF Crash, MemoryLost
  <2>7. CASE \E a \in batch : SkipStale(a) \/ Deliver(a) \/ DeliveryFails(a) \/ StartRoutine(a)
    BY <1>1, <2>7 DEF SkipStale, Deliver, DeliveryFails, StartRoutine, Answer, TypeOK
  <2>8. QED BY <2>2, <2>3, <2>4, <2>5, <2>6, <2>7 DEF Next, WorkerStep, DeletionStep, Startup
<1>5. QED BY <1>2, <1>3, <1>4, EventsGrow DEF SharedTypes

LEMMA ChatTypesStep ==
    ASSUME IInv, Next
    PROVE  ChatTypes'
<1>1. TypeOK /\ RefsInv /\ ChatTypes
  BY DEF IInv, TypeOK, ChatTypes
<1>2. CASE UNCHANGED <<chats, journal, mail, receipts, closures>>
  BY <1>1, <1>2 DEF ChatTypes
<1>3. CASE \E i \in DOMAIN runs : RunStep(i)
  BY <1>1, <1>2, <1>3, RunEvents
<1>4. CASE \E c \in Chats : FinishTurn(c)
  <2>1. PICK c \in Chats : FinishTurn(c)
    BY <1>4
  <2>2. journal[c] \in Seq(Causes) /\ mail[c] \in Seq(Causes)
    BY <1>1 DEF ChatTypes
  <2>3. CASE journal' = [journal EXCEPT ![c] = Append(@, UserTurn)] /\ UNCHANGED mail
    BY <1>1, <2>1, <2>2, <2>3, UserCause DEF ChatTypes, FinishTurn
  <2>4. CASE /\ mail[c] # <<>>
             /\ journal' = [journal EXCEPT ![c] = Append(@, Head(mail[c]))]
             /\ mail' = [mail EXCEPT ![c] = Tail(@)]
    <3>1. Head(mail[c]) \in Causes /\ Tail(mail[c]) \in Seq(Causes)
      BY <2>2, <2>4
    <3>2. QED BY <1>1, <2>1, <2>2, <2>4, <3>1 DEF ChatTypes, FinishTurn
  <2>5. QED BY <2>1, <2>3, <2>4 DEF FinishTurn
<1>5. CASE \E a \in batch : Deliver(a)
  <2>1. PICK a \in batch : Deliver(a)
    BY <1>5
  <2>2. PICK m \in Causes : a \in Rows /\ m = [cause |-> a, ancestry |-> MessageLineage(a)]
    BY <1>1, MessageType DEF TypeOK, RefsInv
  <2>3. UNCHANGED <<chats, journal, closures>>
    BY <2>1 DEF Deliver
  <2>4. receipts' \in Seq(Rows) /\ mail' \in [Chats -> Seq(Causes)]
    <3>1. \/ UNCHANGED <<receipts, mail>>
          \/ /\ receipts' = Append(receipts, a)
             /\ mail' = mail \/ mail' = [mail EXCEPT ![Target(a)] = Append(@, m)]
      BY <2>1, <2>2 DEF Deliver, Accept
    <3>2. \A c \in Chats : Append(mail[c], m) \in Seq(Causes)
      BY <1>1 DEF ChatTypes
    <3>3. receipts' \in Seq(Rows)
      <4>1. receipts \in Seq(Rows) /\ a \in Rows
        BY <1>1, <2>2 DEF ChatTypes
      <4>2. Append(receipts, a) \in Seq(Rows)
        BY <4>1
      <4>3. QED BY <3>1, <4>1, <4>2, Zenon
    <3> DEFINE Boxes == Seq(Causes)
    <3>4. mail \in [Chats -> Boxes] /\ \A c \in Chats : Append(mail[c], m) \in Boxes
      BY <1>1, <3>2 DEF ChatTypes
    <3> HIDE DEF Boxes
    <3>5. mail' \in [Chats -> Boxes]
      BY <3>1, <3>4
    <3>6. QED BY <3>3, <3>5 DEF Boxes
  <2>5. QED BY <1>1, <2>3, <2>4 DEF ChatTypes
<1>6. CASE SaveClosure
  BY <1>1, <1>6, SavedFact DEF SaveClosure, ChatTypes
<1>7. CASE DeleteChat
  <2>1. <<>> \in Seq(Causes)
    OBVIOUS
  <2>2. mail' \in [Chats -> Seq(Causes)]
    BY <1>1, <1>7, <2>1 DEF DeleteChat, ChatTypes
  <2>3. QED BY <1>1, <1>7, <2>2 DEF DeleteChat, ChatTypes
<1>8. CASE ForgetInDeletion \/ ForgetAtStartup
  BY <1>1, <1>8 DEF ForgetInDeletion, ForgetAtStartup, ForgetClosures, ChatTypes
<1>9. CASE \/ \E b \in Bindings : PollDue(b)
           \/ \E c \in Chats : Project(c) \/ BeginDelete(c)
           \/ \E r \in Routines : StartManually(r)
           \/ ReadPending \/ Settle
           \/ \E a \in batch : SkipStale(a) \/ DeliveryFails(a) \/ StartRoutine(a)
           \/ CloseInDeletion \/ DeletionFails
           \/ Crash \/ Restart \/ CloseAtStartup \/ RecoverRun \/ Serve
  BY <1>2, <1>9 DEF PollDue, Project, BeginDelete, StartManually, ReadPending, Settle,
     SkipStale, DeliveryFails, StartRoutine, CloseInDeletion, Close, DeletionFails,
     Crash, Restart, CloseAtStartup, RecoverRun, Serve, checkpoint
<1>10. QED
  BY <1>3, <1>4, <1>5, <1>6, <1>7, <1>8, <1>9 DEF Next, WorkerStep, DeletionStep, Startup
LEMMA Spent ==
    ASSUME MemoryTypes, NEW what \in {"inputs", "troubles"}, Spend(what)
    PROVE  budget' \in [inputs : Nat, troubles : Nat]
<1>1. budget \in [inputs : Nat, troubles : Nat]
  BY DEF MemoryTypes
<1>2. QED BY <1>1 DEF Spend

LEMMA MemoryRunStep ==
    ASSUME TypeOK, LocksInv, MemoryTypes, NEW i \in DOMAIN runs, RunStep(i)
    PROVE  MemoryTypes'
<1>1. i \in Nat /\ runs[i].routine \in Routines /\ i \in DOMAIN actor /\ i \in DOMAIN outcome
  <2>1. runs \in Seq(RunRecords)
    BY DEF TypeOK
  <2>2. runs[i] \in RunRecords /\ i \in Nat
    BY <2>1
  <2>3. i \in DOMAIN actor /\ i \in DOMAIN outcome
    BY <2>1 DEF MemoryTypes, LocksInv
  <2>4. QED BY <2>2, <2>3 DEF RunRecords
<1>2. ASSUME NEW x \in {"admit", "turn", "approval", "deciding", "ended", "finished", "gone"}
      PROVE  [actor EXCEPT ![i] = x] \in
                 Seq({"admit", "turn", "approval", "deciding", "ended", "finished", "gone"})
  BY <1>1 DEF MemoryTypes
<1>3. ASSUME NEW x \in {"none", "approval", "completed", "aborted"}
      PROVE  [outcome EXCEPT ![i] = x] \in Seq({"none", "approval", "completed", "aborted"})
  BY <1>1 DEF MemoryTypes
<1>4. CASE Admit(i) \/ HearApproval(i) \/ Decide(i)
  BY <1>2, <1>4 DEF Admit, HearApproval, Decide, checkpoint, MemoryTypes
<1>5. CASE AskApproval(i) \/ ApplyDecision(i)
  BY <1>2, <1>3, <1>5 DEF AskApproval, ApplyDecision, memory, MemoryTypes
<1>6. CASE AdmissionFails(i)
  BY <1>2, <1>6, Spent DEF AdmissionFails, checkpoint, MemoryTypes
<1>7. CASE EndTurn(i)
  BY <1>2, <1>3, <1>7, Spent DEF EndTurn, MemoryTypes
<1>8. CASE ObserveEnd(i)
  BY <1>2, <1>8 DEF ObserveEnd, checkpoint, MemoryTypes
<1>9. CASE ReleaseLock(i) \/ OpenRun(i)
  <2>1. \E x \in Nat \cup {None} : held' = [held EXCEPT ![runs[i].routine] = x]
    BY <1>1, <1>9 DEF ReleaseLock, OpenRun, Resume
  <2>2. held' \in [Routines -> Nat \cup {None}]
    BY <2>1 DEF MemoryTypes
  <2>3. actor' \in Seq({"admit", "turn", "approval", "deciding", "ended", "finished", "gone"})
    <3>1. \E x \in {"approval", "gone"} : actor' = [actor EXCEPT ![i] = x]
      BY <1>9 DEF ReleaseLock, OpenRun, Resume
    <3>2. QED BY <1>2, <3>1
  <2>4. CASE ReleaseLock(i)
    BY <2>2, <2>3, <2>4 DEF ReleaseLock, checkpoint, MemoryTypes
  <2>5. CASE OpenRun(i)
    BY <2>2, <2>3, <2>5 DEF OpenRun, checkpoint, MemoryTypes
  <2>6. QED BY <1>9, <2>4, <2>5
<1>10. CASE StopActor(i)
  BY <1>1, <1>2, <1>10, Spent DEF StopActor, checkpoint, MemoryTypes
<1>11. QED BY <1>4, <1>5, <1>6, <1>7, <1>8, <1>9, <1>10 DEF RunStep

LEMMA MemoryBegins ==
    ASSUME TypeOK, RefsInv, MemoryTypes, NEW r \in Routines, NEW command \in Commands,
           NEW cause \in DOMAIN events \cup {None}, Begins(r, command, cause)
    PROVE  /\ outcome' \in Seq({"none", "approval", "completed", "aborted"})
           /\ held' \in [Routines -> Nat \cup {None}]
           /\ actor' \in Seq({"admit", "turn", "approval", "deciding", "ended", "finished", "gone"})
<1>1. Len(runs) + 1 \in Nat
  BY DEF TypeOK
<1>2. CASE UNCHANGED <<outcome, actor, held>>
  BY <1>2 DEF MemoryTypes
<1>3. ASSUME NEW status, Inserted(r, status, command, cause)
      PROVE  /\ outcome' \in Seq({"none", "approval", "completed", "aborted"})
             /\ actor' \in Seq({"admit", "turn", "approval", "deciding", "ended", "finished", "gone"})
  BY <1>3 DEF Inserted, MemoryTypes
<1>4. held' \in [Routines -> Nat \cup {None}] \/ UNCHANGED held \/ held' = [held EXCEPT ![r] = Len(runs) + 1]
  BY BeginsStep
<1>5. held' \in [Routines -> Nat \cup {None}]
  BY <1>1, <1>4 DEF MemoryTypes
<1>6. QED BY <1>2, <1>3, <1>5, BeginsStep

LEMMA MemoryLostTypes ==
    ASSUME MemoryTypes, MemoryLost
    PROVE  /\ phase' \in {"down", "closures", "closed", "runs", "up"}
           /\ acting' = None /\ deleting' = None
           /\ held' \in [Routines -> Nat \cup {None}]
           /\ actor' \in Seq({"admit", "turn", "approval", "deciding", "ended", "finished", "gone"})
<1>1. actor' = [i \in 1 .. Len(actor) |-> "gone"] /\ Len(actor) \in Nat
  BY DEF MemoryTypes, MemoryLost
<1>2. actor' \in Seq({"admit", "turn", "approval", "deciding", "ended", "finished", "gone"})
  BY <1>1
<1>3. QED BY <1>2 DEF MemoryLost

LEMMA MemoryStep ==
    ASSUME IInv, Next
    PROVE  MemoryTypes'
<1>1. TypeOK /\ RefsInv /\ LocksInv /\ MemoryTypes
  BY DEF IInv, TypeOK, MemoryTypes
<1>2. CASE \E i \in DOMAIN runs : RunStep(i)
  BY <1>1, <1>2, MemoryRunStep
<1>3. CASE \E r \in Routines : StartManually(r)
  <2>1. PICK r \in Routines : StartManually(r)
    BY <1>3
  <2>2. Begins(r, <<<<"manual", budget.inputs>>, None>>, None) /\ budget.inputs \in Nat
    BY <1>1, <2>1, StartManuallyStep
  <2>3. <<<<"manual", budget.inputs>>, None>> \in Commands
    BY <2>2 DEF Commands
  <2>4. budget' \in [inputs : Nat, troubles : Nat]
    BY <1>1, <2>1, Spent DEF StartManually
  <2>5. QED BY <1>1, <2>1, <2>2, <2>3, <2>4, MemoryBegins DEF StartManually, MemoryTypes
<1>4. CASE \E a \in batch : StartRoutine(a)
  <2>1. PICK a \in batch : StartRoutine(a)
    BY <1>4
  <2>2. a \in DOMAIN outbox /\ Target(a) \in Routines /\ Begins(Target(a), a, a[1])
    BY <1>1, <2>1, StartRoutineStep
  <2>3. a \in Rows /\ a \in Commands /\ a[1] \in DOMAIN events
    BY <1>1, <2>2 DEF Commands, TypeOK, RefsInv
  <2>4. acting' \in [row : Rows, result : {"done", "retry", "failed"}]
    BY <2>1, <2>3 DEF StartRoutine, Answer
  <2>5. UNCHANGED <<phase, deleting, budget>>
    BY <2>1 DEF StartRoutine
  <2>6. QED BY <1>1, <2>2, <2>3, <2>4, <2>5, MemoryBegins DEF MemoryTypes
<1>5. CASE \E b \in Bindings : PollDue(b)
  BY <1>1, <1>5, Spent DEF PollDue, checkpoint, memory, MemoryTypes
<1>6. CASE \E c \in Chats : FinishTurn(c) \/ Project(c)
  BY <1>1, <1>6, Spent DEF FinishTurn, Project, checkpoint, memory, MemoryTypes
<1>7. CASE ReadPending \/ Settle
  BY <1>1, <1>7 DEF ReadPending, Settle, checkpoint, MemoryTypes
<1>8. CASE \E a \in batch : SkipStale(a) \/ Deliver(a) \/ DeliveryFails(a)
  <2>1. PICK a \in batch : SkipStale(a) \/ Deliver(a) \/ DeliveryFails(a)
    BY <1>8
  <2>2. a \in Rows
    BY <1>1 DEF TypeOK
  <2>3. acting' \in [row : Rows, result : {"done", "retry", "failed"}]
    BY <2>1, <2>2 DEF SkipStale, Deliver, DeliveryFails, Answer
  <2>4. budget' \in [inputs : Nat, troubles : Nat]
    BY <1>1, <2>1, Spent DEF SkipStale, Deliver, DeliveryFails, MemoryTypes
  <2>5. UNCHANGED <<outcome, phase, deleting, held, actor>>
    BY <2>1 DEF SkipStale, Deliver, DeliveryFails, checkpoint
  <2>6. QED BY <1>1, <2>3, <2>4, <2>5 DEF MemoryTypes
<1>9. CASE \E c \in Chats : BeginDelete(c)
  BY <1>1, <1>9, Spent DEF BeginDelete, checkpoint, MemoryTypes, DeletionSteps
<1>10. CASE DeletionFails
  BY <1>1, <1>10, Spent DEF DeletionFails, checkpoint, MemoryTypes
<1>11. CASE SaveClosure \/ DeleteChat \/ CloseInDeletion \/ ForgetInDeletion
  <2>1. deleting \in [chat : Chats, step : DeletionSteps]
    BY <1>1, <1>11 DEF SaveClosure, DeleteChat, CloseInDeletion, ForgetInDeletion, Deleting, MemoryTypes
  <2>2. deleting' = None \/ \E step \in DeletionSteps : deleting' = [deleting EXCEPT !.step = step]
    BY <1>11 DEF SaveClosure, DeleteChat, CloseInDeletion, ForgetInDeletion, DeletionAt, DeletionSteps
  <2>3. deleting' \in [chat : Chats, step : DeletionSteps] \cup {None}
    BY <2>1, <2>2
  <2>4. UNCHANGED <<outcome, phase, acting, held, actor, budget>>
    BY <1>11 DEF SaveClosure, DeleteChat, CloseInDeletion, ForgetInDeletion, ForgetClosures, Close, checkpoint
  <2>5. QED BY <1>1, <2>3, <2>4 DEF MemoryTypes
<1>12. CASE Crash
  BY <1>1, <1>12, Spent, MemoryLostTypes DEF Crash, checkpoint, MemoryTypes
<1>13. CASE RecoverRun
  <2>1. UNCHANGED <<outcome, budget>>
    BY <1>13 DEF RecoverRun, checkpoint
  <2>2. CASE Resume(Recovered) /\ UNCHANGED <<phase, acting, deleting>>
    <3>1. Recovered \in DOMAIN runs
      BY <1>1, <1>13, RecoveredRun
    <3>2. runs[Recovered].routine \in Routines /\ Recovered \in Nat
      <4>1. runs \in Seq(RunRecords)
        BY <1>1 DEF TypeOK
      <4>2. runs[Recovered] \in RunRecords /\ Recovered \in Nat
        BY <3>1, <4>1
      <4>3. QED BY <4>2 DEF RunRecords
    <3>3. Recovered \in DOMAIN actor
      BY <1>1, <3>1 DEF LocksInv, TypeOK
    <3>4. actor' \in Seq({"admit", "turn", "approval", "deciding", "ended", "finished", "gone"})
      BY <1>1, <2>2, <3>3 DEF Resume, MemoryTypes
    <3>5. held' \in [Routines -> Nat \cup {None}]
      BY <1>1, <2>2, <3>2 DEF Resume, MemoryTypes
    <3>6. QED BY <1>1, <2>1, <2>2, <3>4, <3>5 DEF MemoryTypes
  <2>3. CASE MemoryLost
    BY <1>1, <2>1, <2>3, MemoryLostTypes DEF MemoryTypes
  <2>4. CASE UNCHANGED memory
    BY <1>1, <2>1, <2>4 DEF memory, MemoryTypes
  <2>5. QED BY <1>1, <1>13, <2>2, <2>3, <2>4, RecoverRunCases
<1>14. CASE Restart \/ CloseAtStartup \/ ForgetAtStartup \/ Serve
  BY <1>1, <1>14 DEF Restart, CloseAtStartup, ForgetAtStartup, ForgetClosures, Close, Serve,
     checkpoint, MemoryTypes
<1>15. QED
  BY <1>2, <1>3, <1>4, <1>5, <1>6, <1>7, <1>8, <1>9, <1>10, <1>11, <1>12, <1>13, <1>14
     DEF Next, WorkerStep, DeletionStep, Startup
-----------------------------------------------------------------------------
(* Theorems                                                                *)

LEMMA InitInv == Init => IInv
<1> SUFFICES ASSUME Init PROVE IInv
  OBVIOUS
<1>1. TypeOK
  <2>1. SharedTypes
    BY DEF Init, SharedTypes
  <2>2. ChatTypes /\ MemoryTypes
    BY BoundsAreDefined DEF Init, ChatTypes, MemoryTypes
  <2>3. QED BY <2>1, <2>2, Types
<1>2. RefsInv /\ OncePerRow
  BY DEF Init, RefsInv, OncePerRow, IsInjective
<1>3. LocksInv
  BY DEF Init, LocksInv
<1>4. \A c : Facts(c) = {}
  BY DEF Init, Facts, Range
<1>5. EventsInv /\ FactsInv /\ DeletionInv
  BY <1>4 DEF Init, EventsInv, FactsInv, DeletionInv
<1>6. QED BY <1>1, <1>2, <1>3, <1>5 DEF IInv

LEMMA StepInv == IInv /\ [Next]_vars => IInv'
<1>1. ASSUME IInv, Next PROVE IInv'
  <2>1. TypeOK'
    <3>1. (SharedTypes /\ ChatTypes /\ MemoryTypes)'
      BY <1>1, SharedStep, ChatTypesStep, MemoryStep
    <3>2. QED BY <3>1 DEF TypeOK, SharedTypes, ChatTypes, MemoryTypes
  <2>2. QED
    BY <1>1, <2>1, RefsStep, OnceStep, LocksStep, FactsStep, DeletionStepInv DEF IInv
<1>2. ASSUME IInv, UNCHANGED vars PROVE IInv'
  <2>1. TypeOK' /\ RefsInv' /\ OncePerRow'
    BY <1>2 DEF vars, checkpoint, botState, memory, IInv, TypeOK, RefsInv, OncePerRow
  <2>2. LocksInv'
    BY <1>2 DEF vars, checkpoint, botState, memory, IInv, LocksInv, RunInv
  <2>3. EventsInv' /\ FactsInv'
    <3>1. EventsInv'
      BY <1>2 DEF vars, checkpoint, botState, memory, IInv, EventsInv, IsClosing, IsOpen,
         Facts, Silent, Unwatched, Known
    <3>2. FactsInv'
      BY <1>2 DEF vars, checkpoint, botState, memory, IInv, FactsInv, IsClosing, IsOpen,
         Facts, Silent, Unwatched, Known
    <3>3. QED BY <3>1, <3>2
  <2>4. DeletionInv'
    BY <1>2 DEF vars, checkpoint, botState, memory, IInv, DeletionInv, Published, Facts
  <2>5. QED BY <2>1, <2>2, <2>3, <2>4 DEF IInv
<1>3. QED BY <1>1, <1>2

(* The inductive invariant holds in every state of the Bot's databases and *)
(* memory, for every set of chats, routines and bindings.                  *)
THEOREM Inductive == Spec => []IInv
<1>1. QED BY InitInv, StepInv, PTL DEF Spec

(* Every variable keeps its type.                                          *)
THEOREM TypeCorrect == Spec => []TypeOK
<1>1. IInv => TypeOK
  BY DEF IInv
<1>2. QED BY <1>1, Inductive, PTL

(* An outbox row is carried out at most once: Accept takes a message under *)
(* the id of its row and InsertRun a run under its command, whatever the   *)
(* worker retries after a lost answer or a crash.                          *)
THEOREM OnceSafety == Spec => []OncePerRow
<1>1. IInv => OncePerRow
  BY DEF IInv
<1>2. QED BY <1>1, Inductive, PTL

(* While the gateway serves, a running run holds its routine's lock or     *)
(* waits for an approval: StopActor, ReleaseLock and the recovery of a     *)
(* crash leave no run that blocks its routine.                             *)
THEOREM LockSafety == Spec => []RunningIsHeld
<1>1. IInv => RunningIsHeld
  BY DEF IInv, LocksInv, RunInv, RunningIsHeld
<1>2. QED BY <1>1, Inductive, PTL

(* A closing fact is on record exactly once if its chat is gone and no     *)
(* deletion is unfinished, and never if the chat exists, although the fact *)
(* and the chat live in two databases and either write may be the last     *)
(* before a crash.                                                         *)
THEOREM ClosingSafety == Spec => []ClosingFacts
<1>1. IInv => ClosingFacts
  <2> SUFFICES ASSUME IInv, NEW c \in Chats
               PROVE  /\ c \in chats => Facts(c) = {}
                      /\ c \notin chats /\ closures = None =>
                          /\ Cardinality(Facts(c)) = 1
                          /\ \A a \in Pending(outbox) :
                                EventOf(a[1]).source = c => EventOf(a[1]) \in Facts(c)
                          /\ \A b \in bound : Watches[b][1] # c
    BY DEF ClosingFacts
  <2>1. FactsInv
    BY DEF IInv
  <2>2. c \in chats => Facts(c) = {}
    BY <2>1 DEF FactsInv
  <2>3. ASSUME c \notin chats, closures = None
        PROVE  /\ Cardinality(Facts(c)) = 1
               /\ \A a \in Pending(outbox) :
                     EventOf(a[1]).source = c => EventOf(a[1]) \in Facts(c)
               /\ \A b \in bound : Watches[b][1] # c
    <3>1. Silent(c) /\ Unwatched(c) /\ \E f : Facts(c) = {f}
      BY <2>1, <2>3 DEF FactsInv
    <3>2. Cardinality(Facts(c)) = 1
      BY <3>1, FS_Singleton
    <3>3. QED BY <3>1, <3>2 DEF Silent, Unwatched, Pending, EventOf
  <2>4. QED BY <2>2, <2>3
<1>2. QED BY <1>1, Inductive, PTL

(* Nothing that a chat's turns asked for is carried out once its closing   *)
(* fact is on record: StillWanted looks the row up again after             *)
(* CloseSource cancelled it.                                               *)
THEOREM SilenceSafety == Spec => ClosedSourcesAreSilent
<1> DEFINE Done(a) == \/ a \notin ToSet(receipts) /\ a \in ToSet(receipts')
                      \/ ~Recorded(a) /\ Recorded(a)'
           Closed(c) == \E f \in Range(events) : f.source = c /\ f.kind = "deleted"
           Quietly == \A a \in DOMAIN outbox \cup batch :
               Done(a) /\ EventOf(a[1]).kind = "turn" => ~Closed(EventOf(a[1]).source)
<1>1. ASSUME IInv, Next, NEW a \in DOMAIN outbox \cup batch, Done(a)
      PROVE  a \in Pending(outbox)
  <2>1. TypeOK /\ RefsInv
    BY <1>1 DEF IInv
  <2>2. a \in Rows
    BY <2>1 DEF TypeOK
  <2>3. CASE a \notin ToSet(receipts) /\ a \in ToSet(receipts')
    <3>1. receipts' = receipts \/ \E d \in batch : Deliver(d)
      BY <1>1, Delivered
    <3>2. PICK d \in batch : Deliver(d)
      BY <2>3, <3>1
    <3>3. receipts' = receipts \/ receipts' = Append(receipts, d)
      BY <3>2 DEF Deliver, Accept
    <3>4. d \in Rows /\ receipts \in Seq(Rows)
      BY <2>1 DEF TypeOK
    <3>5. a = d
      BY <2>3, <3>3, <3>4 DEF ToSet
    <3>6. QED BY <3>2, <3>5 DEF Deliver, StillWanted
  <2>4. CASE ~Recorded(a) /\ Recorded(a)'
    <3>1. CASE UNCHANGED runs
      BY <2>4, <3>1 DEF Recorded
    <3>2. CASE Finishes
      BY <2>1, <2>4, <3>2, FinishRunStep DEF Recorded, Finishes
    <3>3. CASE \E d \in batch : StartRoutine(d)
      <4>1. PICK d \in batch : StartRoutine(d)
        BY <3>3
      <4>2. /\ d \in DOMAIN outbox /\ d \in Pending(outbox) /\ Target(d) \in Routines
            /\ Begins(Target(d), d, d[1])
        BY <2>1, <4>1, StartRoutineStep
      <4>3. d \in Commands /\ d[1] \in DOMAIN events
        BY <2>1, <4>2 DEF Commands, TypeOK, RefsInv
      <4>4. PICK status \in {"running", "skipped"} : Inserted(Target(d), status, d, d[1])
        BY <2>1, <2>4, <3>1, <4>2, <4>3, BeginsStep DEF Recorded
      <4>5. Run(Target(d), status, d, d[1]).command = d
        BY DEF Run
      <4>6. a = d
        BY <2>1, <2>4, <4>2, <4>3, <4>4, <4>5, InsertedRuns DEF Recorded
      <4>7. QED BY <4>2, <4>6
    <3>4. CASE \E r \in Routines : StartManually(r)
      <4>1. PICK r \in Routines : StartManually(r)
        BY <3>4
      <4>2. PICK command : command = <<<<"manual", budget.inputs>>, None>>
        OBVIOUS
      <4>3. Begins(r, command, None) /\ budget.inputs \in Nat
        BY <2>1, <4>1, <4>2, StartManuallyStep
      <4>4. command \in Commands /\ command # a
        BY <2>2, <4>2, <4>3, NoneIsNoValue DEF Commands, Rows
      <4>5. PICK status \in {"running", "skipped"} : Inserted(r, status, command, None)
        BY <2>1, <2>4, <3>1, <4>3, <4>4, BeginsStep DEF Recorded
      <4>6. Run(r, status, command, None).command = command
        BY DEF Run
      <4>7. QED BY <2>1, <2>4, <4>4, <4>5, <4>6, InsertedRuns DEF Recorded
    <3>5. QED BY <1>1, <3>1, <3>2, <3>3, <3>4, RunChangesBy
  <2>5. QED BY <1>1, <2>3, <2>4
<1>2. ASSUME IInv, Next PROVE Quietly
  <2> SUFFICES ASSUME NEW a \in DOMAIN outbox \cup batch, Done(a), EventOf(a[1]).kind = "turn",
                      Closed(EventOf(a[1]).source)
               PROVE  FALSE
    OBVIOUS
  <2>1. a \in DOMAIN outbox /\ outbox[a] # "accepted" /\ events[a[1]].kind = "turn"
    BY <1>1, <1>2 DEF Pending, EventOf
  <2>2. a[1] \in DOMAIN events /\ FactsInv /\ EventsInv
    BY <1>2, <2>1 DEF IInv, RefsInv
  <2>3. events[a[1]].source \in Chats
    BY <2>1, <2>2 DEF EventsInv, IsOpen, IsClosing
  <2>4. Facts(events[a[1]].source) # {}
    BY DEF Facts, EventOf
  <2>5. Silent(events[a[1]].source)
    BY <2>2, <2>3, <2>4 DEF FactsInv
  <2>6. events[a[1]].kind = "deleted"
    BY <2>1, <2>5 DEF Silent, Facts
  <2>7. QED BY <2>1, <2>6
<1>3. ASSUME IInv, UNCHANGED vars PROVE [Quietly]_vars
  BY <1>3
<1>4. IInv /\ [Next]_vars => [Quietly]_vars
  BY <1>2, <1>3
<1>5. QED BY <1>4, Inductive, PTL DEF Spec, ClosedSourcesAreSilent

-----------------------------------------------------------------------------
(* Loops of bindings                                                       *)

Short(m) == Cardinality(m.ancestry) < MaxAncestry

(* A cause names nothing or an event on record, and an ancestry below the  *)
(* limit has every cause of its members.                                   *)
Traced(m) ==
    /\ m.cause = None \/ CauseOf(m) # {}
    /\ m.ancestry \cap EventIds \subseteq DOMAIN events
    /\ Short(m) =>
        /\ CauseOf(m) \subseteq m.ancestry
        /\ \A f \in m.ancestry \cap DOMAIN events : CauseOf(events[f]) \subseteq m.ancestry

(* Only events below the limit have rows, and no binding has a row for two *)
(* events of which one is in the other's ancestry.                         *)
RowsInv ==
    /\ \A a \in DOMAIN outbox : Short(events[a[1]])
    /\ \A a, b \in DOMAIN outbox : a # b /\ a[2] = b[2] => a[1] \notin events[b[1]].ancestry

ChainInv ==
    /\ \A id \in DOMAIN events : Traced(events[id])
    /\ \A c \in Chats : \A n \in DOMAIN journal[c] : Traced(journal[c][n])
    /\ \A c \in Chats : \A n \in DOMAIN mail[c] : Traced(mail[c][n])
    /\ closures # None => closures.cause = None /\ closures.ancestry = {}
    /\ RowsInv

(* The ids of events are triples, those of rows pairs.                     *)
LEMMA IdsAreNoRows == \A f \in EventIds : f \notin Rows
<1> SUFFICES ASSUME NEW f \in EventIds, f \in Rows PROVE FALSE
  OBVIOUS
<1>1. PICK x, y, z : f = <<x, y, z>>
  BY DEF EventIds
<1>2. PICK v, w : f = <<v, w>>
  BY DEF Rows
<1>3. QED BY <1>1, <1>2

(* A cause names one event, whatever is on record.                         *)
LEMMA OneCause ==
    ASSUME NEW f \in EventIds, NEW g \in EventIds, NEW cause,
           cause = f \/ cause \in {f} \X Bindings, cause = g \/ cause \in {g} \X Bindings
    PROVE  f = g
<1>1. cause \in {f} \X Bindings => cause \in Rows /\ cause[1] = f
  BY DEF Rows
<1>2. cause \in {g} \X Bindings => cause \in Rows /\ cause[1] = g
  BY DEF Rows
<1>3. QED BY <1>1, <1>2, IdsAreNoRows

LEMMA NoCause ==
    ASSUME TypeOK, NEW m, m.cause = None
    PROVE  CauseOf(m) = {}
<1>1. ASSUME NEW f \in DOMAIN events PROVE None # f /\ None \notin {f} \X Bindings
  <2>1. f \in EventIds
    BY DEF TypeOK
  <2>2. f \in CauseIds /\ {f} \X Bindings \subseteq CauseIds
    BY <2>1 DEF CauseIds, Rows
  <2>3. QED BY <2>2, NoneIsNoValue
<1>2. QED BY <1>1 DEF CauseOf

(* Events stay on record as they are.                                      *)
Grows ==
    /\ TypeOK /\ TypeOK'
    /\ DOMAIN events \subseteq DOMAIN events'
    /\ \A id \in DOMAIN events : events'[id] = events[id]

LEMMA CauseKept ==
    ASSUME Grows, NEW m, m.cause = None \/ CauseOf(m) # {}
    PROVE  CauseOf(m)' = CauseOf(m)
<1> DEFINE Names(f) == m.cause = f \/ m.cause \in {f} \X Bindings
<1>1. DOMAIN events \subseteq EventIds /\ DOMAIN events' \subseteq EventIds
  BY DEF Grows, TypeOK
<1>2. CASE m.cause = None
  <2>1. \A f \in EventIds : ~Names(f)
    <3> SUFFICES ASSUME NEW f \in EventIds PROVE None # f /\ None \notin {f} \X Bindings
      BY <1>2
    <3>1. f \in CauseIds /\ {f} \X Bindings \subseteq CauseIds
      BY DEF CauseIds, Rows
    <3>2. QED BY <3>1, NoneIsNoValue
  <2>2. QED BY <1>1, <2>1 DEF CauseOf
<1>3. CASE CauseOf(m) # {}
  <2>1. PICK f \in DOMAIN events : Names(f)
    BY <1>3 DEF CauseOf
  <2>2. \A g \in DOMAIN events' : Names(g) => g = f
    BY <1>1, <2>1, OneCause
  <2>3. f \in DOMAIN events'
    BY DEF Grows
  <2>4. CauseOf(m)' = {f}
    BY <2>1, <2>2, <2>3 DEF CauseOf
  <2>5. CauseOf(m) = {f}
    BY <2>1, <2>2 DEF CauseOf, Grows
  <2>6. QED BY <2>4, <2>5
<1>4. QED BY <1>2, <1>3

LEMMA TracedKept ==
    ASSUME Grows, NEW m, Traced(m), \A id \in DOMAIN events : Traced(events[id])
    PROVE  Traced(m)'
<1>1. CauseOf(m)' = CauseOf(m)
  BY CauseKept DEF Traced
<1>2. m.ancestry \cap DOMAIN events' = m.ancestry \cap DOMAIN events
  BY DEF Traced, Grows, TypeOK
<1>3. ASSUME NEW f \in DOMAIN events
      PROVE  CauseOf(events[f])' = CauseOf(events[f])
  <2>1. PICK e : e = events[f]
    OBVIOUS
  <2>2. events'[f] = e
    BY <2>1 DEF Grows
  <2>3. e.cause = None \/ CauseOf(e) # {}
    BY <2>1 DEF Traced
  <2>4. CauseOf(e)' = CauseOf(e)
    BY <2>3, CauseKept
  <2>5. QED BY <2>1, <2>2, <2>4 DEF CauseOf
<1>4. QED BY <1>1, <1>2, <1>3 DEF Traced, Short, Grows

(* What an event on record causes, and the message of a row, are traced.   *)
LEMMA CausedByTraced ==
    ASSUME TypeOK, EventsInv, \A id \in DOMAIN events : Traced(events[id]),
           NEW id \in DOMAIN events \cup {None}
    PROVE  Traced(CausedBy(id))
<1>1. CASE id = None
  <2>1. CausedBy(id).cause = None /\ CausedBy(id).ancestry = {}
    BY <1>1 DEF CausedBy, UserTurn
  <2>2. QED BY <2>1, NoCause DEF Traced
<1>2. CASE id # None
  <2> DEFINE m == CausedBy(id)
             e == events[id]
  <2>1. id \in DOMAIN events /\ id \in EventIds /\ e.id = id /\ Traced(e)
    BY <1>2 DEF TypeOK, EventsInv
  <2>2. m.cause = id /\ m.ancestry = e.ancestry \cup (IF Short(e) THEN {id} ELSE {})
    BY <1>2, <2>1 DEF CausedBy, Lineage, EventOf, Short
  <2> HIDE DEF m
  <2>3. CauseOf(m) = {id}
    <3>1. \A f \in DOMAIN events : (m.cause = f \/ m.cause \in {f} \X Bindings) => f = id
      BY <2>1, <2>2, OneCause DEF TypeOK
    <3>2. QED BY <2>1, <2>2, <3>1 DEF CauseOf
  <2>4. Short(m) => Short(e)
    BY <2>2 DEF Short
  <2>5. m.ancestry \cap EventIds \subseteq DOMAIN events
    BY <2>1, <2>2 DEF Traced
  <2>6. ASSUME Short(m)
        PROVE  /\ CauseOf(m) \subseteq m.ancestry
               /\ \A f \in m.ancestry \cap DOMAIN events : CauseOf(events[f]) \subseteq m.ancestry
    BY <2>1, <2>2, <2>3, <2>4, <2>6 DEF Traced
  <2>7. QED BY <2>3, <2>5, <2>6 DEF Traced, m
<1>3. QED BY <1>1, <1>2

LEMMA MessageTraced ==
    ASSUME TypeOK, RefsInv, ChainInv, NEW a \in DOMAIN outbox
    PROVE  Traced([cause |-> a, ancestry |-> MessageLineage(a)])
<1> DEFINE m == [cause |-> a, ancestry |-> MessageLineage(a)]
           e == events[a[1]]
<1>1. a \in Rows /\ a[1] \in DOMAIN events /\ a[1] \in EventIds /\ a \notin EventIds
  BY IdsAreNoRows DEF TypeOK, RefsInv
<1>2. Traced(e) /\ Short(e)
  BY <1>1 DEF ChainInv, RowsInv
<1>3. /\ m.cause = a /\ e.ancestry \cup {a[1]} \subseteq m.ancestry
      /\ m.ancestry \subseteq e.ancestry \cup {a[1], a}
  BY DEF MessageLineage, EventOf
<1> HIDE DEF m
<1>4. CauseOf(m) = {a[1]}
  <2>1. a \in {a[1]} \X Bindings
    BY <1>1 DEF Rows
  <2>2. \A f \in DOMAIN events : (m.cause = f \/ m.cause \in {f} \X Bindings) => f = a[1]
    BY <1>1, <1>3, <2>1, OneCause DEF TypeOK
  <2>3. QED BY <1>1, <1>3, <2>1, <2>2 DEF CauseOf
<1>5. m.ancestry \cap EventIds \subseteq DOMAIN events
  BY <1>1, <1>2, <1>3 DEF Traced
<1>6. CauseOf(e) \subseteq e.ancestry
      /\ \A f \in e.ancestry \cap DOMAIN events : CauseOf(events[f]) \subseteq e.ancestry
  BY <1>2 DEF Traced
<1>7. \A f \in m.ancestry \cap DOMAIN events : CauseOf(events[f]) \subseteq m.ancestry
  <2> SUFFICES ASSUME NEW f \in m.ancestry, f \in DOMAIN events
               PROVE  CauseOf(events[f]) \subseteq e.ancestry
    BY <1>3
  <2>1. f \in e.ancestry \/ f = a[1]
    BY <1>1, <1>3 DEF TypeOK
  <2>2. QED BY <1>6, <2>1
<1>8. QED BY <1>3, <1>4, <1>5, <1>7 DEF Traced, m

(* An event that is recorded brings rows only for bindings whose actions   *)
(* are not among its causes.                                               *)
LEMMA RecordChain ==
    ASSUME TypeOK, RefsInv, ChainInv, NEW e \in HookEvents, Traced(e),
           NEW box, Box(box), RecordEvent(e, box), Grows
    PROVE  (\A id \in DOMAIN events : Traced(events[id]))' /\ RowsInv'
<1>1. /\ DOMAIN events' = DOMAIN events \cup {e.id}
      /\ \A id \in DOMAIN events : events'[id] = events[id]
      /\ e.id \notin DOMAIN events => events'[e.id] = e
  BY Recording
<1>2. \A id \in DOMAIN events : Traced(events[id])
  BY DEF ChainInv
<1>3. ASSUME NEW id \in DOMAIN events'
      PROVE  Traced(events[id])'
  <2>1. PICK f : f = events'[id]
    OBVIOUS
  <2>2. Traced(f)
    BY <1>1, <1>2, <2>1
  <2>3. Traced(f)'
    BY <1>2, <2>2, TracedKept
  <2>4. QED BY <2>1, <2>3
<1>4. \A a \in DOMAIN outbox' :
        \/ a \in DOMAIN outbox
        \/ a[1] = e.id /\ a = <<e.id, a[2]>> /\ e.id \notin DOMAIN events /\ a[2] \in Matched(e)
  <2>1. DOMAIN outbox' = DOMAIN box \cup
           (IF Known(e) THEN {} ELSE {Row(e, b) : b \in Matched(e)})
    BY DEF RecordEvent, Over, NewRows
  <2>2. QED BY <2>1 DEF Box, Row, Known
<1>5. \A b \in Matched(e) : Short(e) /\ ~Revisited(e, b)
  BY DEF Matched, Short
<1>6. \A a \in DOMAIN outbox : a[1] \in DOMAIN events /\ events'[a[1]] = events[a[1]] /\ a = <<a[1], a[2]>>
  BY <1>1 DEF RefsInv, TypeOK, Rows
<1>7. ASSUME NEW a \in DOMAIN outbox'
      PROVE  Short(events[a[1]])'
  <2>1. PICK f : f = events'[a[1]]
    OBVIOUS
  <2>2. Short(f)
    BY <1>1, <1>4, <1>5, <1>6, <2>1 DEF ChainInv, RowsInv
  <2>3. QED BY <2>1, <2>2 DEF Short
<1>8. ASSUME NEW a \in DOMAIN outbox', NEW b \in DOMAIN outbox', a # b, a[2] = b[2]
      PROVE  a[1] \notin events'[b[1]].ancestry
  <2>1. CASE a \in DOMAIN outbox /\ b \in DOMAIN outbox
    BY <1>6, <1>8, <2>1 DEF ChainInv, RowsInv
  <2>2. CASE a \in DOMAIN outbox /\ b \notin DOMAIN outbox
    <3>1. events'[b[1]] = e /\ ~Revisited(e, b[2])
      BY <1>1, <1>4, <1>5, <2>2
    <3>2. a = <<a[1], b[2]>>
      BY <1>6, <1>8, <2>2
    <3>3. QED BY <2>2, <3>1, <3>2 DEF Revisited
  <2>3. CASE a \notin DOMAIN outbox /\ b \in DOMAIN outbox
    <3>1. a[1] = e.id /\ a[1] \notin DOMAIN events /\ a[1] \in EventIds
      BY <1>4, <2>3 DEF HookEvents
    <3>2. Traced(events[b[1]]) /\ events'[b[1]] = events[b[1]]
      BY <1>2, <1>6, <2>3
    <3>3. QED BY <3>1, <3>2 DEF Traced
  <2>4. CASE a \notin DOMAIN outbox /\ b \notin DOMAIN outbox
    BY <1>4, <1>8, <2>4
  <2>5. QED BY <2>1, <2>2, <2>3, <2>4
<1>9. QED BY <1>3, <1>7, <1>8 DEF RowsInv

(* Who changes what the chats carry.                                       *)
LEMMA TurnSteps ==
    ASSUME IInv, Next
    PROVE  \/ UNCHANGED <<journal, mail>>
           \/ \E c \in Chats : FinishTurn(c)
           \/ \E a \in batch : Deliver(a)
           \/ DeleteChat
<1>1. TypeOK /\ RefsInv
  BY DEF IInv
<1>2. CASE \E i \in DOMAIN runs : RunStep(i)
  BY <1>1, <1>2, RunEvents
<1>3. CASE \/ \E b \in Bindings : PollDue(b)
           \/ \E c \in Chats : Project(c) \/ BeginDelete(c)
           \/ \E r \in Routines : StartManually(r)
           \/ ReadPending \/ Settle
           \/ \E a \in batch : SkipStale(a) \/ DeliveryFails(a) \/ StartRoutine(a)
           \/ SaveClosure \/ CloseInDeletion \/ ForgetInDeletion \/ DeletionFails
           \/ Crash \/ Restart \/ CloseAtStartup \/ ForgetAtStartup \/ RecoverRun \/ Serve
  BY <1>3 DEF PollDue, Project, BeginDelete, StartManually, ReadPending, Settle,
     SkipStale, DeliveryFails, StartRoutine, SaveClosure, CloseInDeletion, ForgetInDeletion,
     ForgetClosures, Close, DeletionFails, Crash, Restart, CloseAtStartup, ForgetAtStartup,
     RecoverRun, Serve, checkpoint
<1>4. QED BY <1>2, <1>3 DEF Next, WorkerStep, DeletionStep, Startup

(* What the chats carry was carried before, is a user's, or is the message *)
(* of a row.                                                               *)
LEMMA Carried ==
    ASSUME IInv, ChainInv, Next
    PROVE  \A c \in Chats : /\ \A n \in DOMAIN journal'[c] : Traced(journal'[c][n])
                            /\ \A n \in DOMAIN mail'[c] : Traced(mail'[c][n])
<1>1. TypeOK /\ RefsInv /\ EventsInv
  BY DEF IInv
<1>2. /\ journal \in [Chats -> Seq(Causes)] /\ mail \in [Chats -> Seq(Causes)]
      /\ \A c \in Chats : \A n \in DOMAIN journal[c] : Traced(journal[c][n])
      /\ \A c \in Chats : \A n \in DOMAIN mail[c] : Traced(mail[c][n])
  BY <1>1 DEF TypeOK, ChainInv
<1> SUFFICES ASSUME NEW d \in Chats
             PROVE  /\ \A n \in DOMAIN journal'[d] : Traced(journal'[d][n])
                    /\ \A n \in DOMAIN mail'[d] : Traced(mail'[d][n])
  OBVIOUS
<1>3. journal[d] \in Seq(Causes) /\ mail[d] \in Seq(Causes)
  BY <1>2
<1>4. ASSUME NEW s \in Seq(Causes), NEW m, \A n \in DOMAIN s : Traced(s[n]), Traced(m), m \in Causes
      PROVE  \A n \in DOMAIN Append(s, m) : Traced(Append(s, m)[n])
  BY <1>4
<1>5. CASE UNCHANGED <<journal, mail>>
  BY <1>2, <1>5
<1>6. CASE \E c \in Chats : FinishTurn(c)
  <2>1. PICK c \in Chats : FinishTurn(c)
    BY <1>6
  <2>2. Traced(UserTurn)
    <3>1. CausedBy(None) = UserTurn
      BY DEF CausedBy
    <3>2. \A id \in DOMAIN events : Traced(events[id])
      BY DEF ChainInv
    <3>3. QED BY <1>1, <3>1, <3>2, CausedByTraced
  <2>3. CASE c # d
    BY <1>2, <2>1, <2>3 DEF FinishTurn
  <2>4. CASE c = d /\ journal'[d] = Append(journal[d], UserTurn) /\ mail'[d] = mail[d]
    BY <1>2, <1>3, <1>4, <2>2, <2>4, UserCause
  <2>5. CASE /\ c = d /\ mail[d] # <<>> /\ journal'[d] = Append(journal[d], Head(mail[d]))
             /\ mail'[d] = Tail(mail[d])
    <3>1. Head(mail[d]) \in Causes /\ Traced(Head(mail[d]))
      BY <1>2, <1>3, <2>5
    <3>2. \A n \in DOMAIN journal'[d] : Traced(journal'[d][n])
      BY <1>2, <1>3, <1>4, <2>5, <3>1
    <3>3. ASSUME NEW n \in DOMAIN mail'[d] PROVE Traced(mail'[d][n])
      <4>1. n + 1 \in DOMAIN mail[d] /\ mail'[d][n] = mail[d][n + 1]
        BY <1>3, <2>5
      <4>2. QED BY <1>2, <4>1
    <3>4. QED BY <3>2, <3>3
  <2>6. QED BY <1>2, <2>1, <2>3, <2>4, <2>5 DEF FinishTurn
<1>7. CASE \E a \in batch : Deliver(a)
  <2>1. PICK a \in batch : Deliver(a)
    BY <1>7
  <2>2. a \in DOMAIN outbox /\ a \in Rows /\ a[1] \in DOMAIN events
    BY <1>1, <2>1 DEF Deliver, StillWanted, Pending, TypeOK, RefsInv
  <2>3. PICK m \in Causes : m = [cause |-> a, ancestry |-> MessageLineage(a)] /\ Traced(m)
    BY <1>1, <2>2, MessageType, MessageTraced
  <2>4. journal' = journal /\ (mail'[d] = mail[d] \/ mail'[d] = Append(mail[d], m))
    BY <1>2, <2>1, <2>3 DEF Deliver, Accept
  <2>5. QED BY <1>2, <1>3, <1>4, <2>3, <2>4
<1>8. CASE DeleteChat
  <2>1. journal' = journal /\ (mail'[d] = mail[d] \/ mail'[d] = <<>>)
    BY <1>2, <1>8 DEF DeleteChat
  <2>2. QED BY <1>2, <2>1
<1>9. QED BY <1>5, <1>6, <1>7, <1>8, TurnSteps

LEMMA ChainStep ==
    ASSUME IInv, ChainInv, Next, IInv'
    PROVE  ChainInv'
<1>1. TypeOK /\ RefsInv /\ EventsInv /\ FactsInv /\ DeletionInv /\ TypeOK' /\ RowsInv
  BY DEF IInv, ChainInv
<1>2. Grows
  BY <1>1, EventsGrow DEF Grows
<1>3. \A id \in DOMAIN events : Traced(events[id])
  BY DEF ChainInv
<1>4. (\A id \in DOMAIN events : Traced(events[id]))' /\ RowsInv'
  <2>1. CASE UNCHANGED events /\ DOMAIN outbox' = DOMAIN outbox
    <3>1. \A m : CauseOf(m)' = CauseOf(m)
      BY <2>1 DEF CauseOf
    <3>2. QED BY <1>1, <1>3, <2>1, <3>1 DEF RowsInv, Traced, Short
  <2>2. CASE Records
    <3>1. PICK e \in HookEvents : \E box : Derived(e) /\ Box(box) /\ RecordEvent(e, box)
      BY <2>2 DEF Records, Opens
    <3>2. PICK box : Derived(e) /\ Box(box) /\ RecordEvent(e, box)
      BY <3>1
    <3>3. PICK m : Traced(m) /\ e.cause = m.cause /\ e.ancestry = m.ancestry
      BY <1>1, <1>3, <3>2, CausedByTraced DEF Derived, ChainInv
    <3>4. Traced(e)
      BY <3>3 DEF Traced, Short, CauseOf
    <3>5. QED BY <1>1, <1>2, <3>2, <3>4, RecordChain
  <2>3. CASE Closes
    <3>1. closures \in HookEvents /\ closures.cause = None /\ closures.ancestry = {}
      BY <1>1, <2>3 DEF Closes, ChainInv, TypeOK
    <3>2. PICK e \in HookEvents : e = closures
      BY <3>1
    <3>3. Traced(e)
      BY <1>1, <3>1, <3>2, NoCause DEF Traced
    <3>4. (UNCHANGED <<events, outbox>>) \/ \E box : Box(box) /\ RecordEvent(e, box)
      BY <1>1, <2>3, <3>2, ClosingCases DEF Closes
    <3>5. CASE \E box : Box(box) /\ RecordEvent(e, box)
      BY <1>1, <1>2, <3>3, <3>5, RecordChain
    <3>6. QED BY <2>1, <3>4, <3>5
  <2>4. CASE Settle
    BY <1>1, <2>1, <2>4 DEF Settle, Marked, TypeOK
  <2>5. QED BY <2>1, <2>2, <2>3, <2>4, EventSteps DEF Quiet
<1>5. ASSUME NEW c \in Chats
      PROVE  /\ (\A n \in DOMAIN journal[c] : Traced(journal[c][n]))'
             /\ (\A n \in DOMAIN mail[c] : Traced(mail[c][n]))'
  <2>1. ASSUME NEW n \in DOMAIN journal'[c] PROVE Traced(journal[c][n])'
    <3>1. PICK m : m = journal'[c][n]
      OBVIOUS
    <3>2. Traced(m)
      BY <3>1, Carried
    <3>3. Traced(m)'
      BY <1>2, <1>3, <3>2, TracedKept
    <3>4. QED BY <3>1, <3>3
  <2>2. ASSUME NEW n \in DOMAIN mail'[c] PROVE Traced(mail[c][n])'
    <3>1. PICK m : m = mail'[c][n]
      OBVIOUS
    <3>2. Traced(m)
      BY <3>1, Carried
    <3>3. Traced(m)'
      BY <1>2, <1>3, <3>2, TracedKept
    <3>4. QED BY <3>1, <3>3
  <2>3. QED BY <2>1, <2>2
<1>6. ASSUME closures' # None PROVE closures'.cause = None /\ closures'.ancestry = {}
  <2>1. CASE SaveClosure
    <3>1. closures' = HookEvent(<<"deleted", deleting.chat, budget.troubles>>, deleting.chat,
                                "deleted", UserTurn)
      BY <2>1 DEF SaveClosure
    <3>2. QED BY <3>1 DEF HookEvent, UserTurn
  <2>2. CASE closures' = closures
    BY <1>6, <2>2 DEF ChainInv
  <2>3. QED BY <1>6, <2>1, <2>2, ChatSteps DEF DeleteChat, ForgetInDeletion, ForgetAtStartup, ForgetClosures
<1>7. QED BY <1>4, <1>5, <1>6 DEF ChainInv

(* No binding acts on a consequence of its own action: Matched skips a     *)
(* binding that has a row for an ancestor of the event, the ancestry below *)
(* MAX_HOOK_ANCESTRY has every cause, and at the limit nothing fires.      *)
THEOREM ChainSafety == Spec => []ChainsEnd
<1>1. Init => ChainInv
  BY DEF Init, ChainInv, RowsInv
<1>2. IInv /\ IInv' /\ ChainInv /\ [Next]_vars => ChainInv'
  <2>1. CASE Next
    BY <2>1, ChainStep
  <2>2. CASE UNCHANGED vars
    BY <2>2 DEF vars, checkpoint, botState, ChainInv, RowsInv, Traced, Short, CauseOf
  <2>3. QED BY <2>1, <2>2
<1>3. IInv /\ ChainInv => ChainsEnd
  <2> SUFFICES ASSUME IInv, ChainInv, NEW a \in DOMAIN outbox, NEW b \in DOMAIN outbox,
                      a # b, a[2] = b[2]
               PROVE  \E S \in SUBSET (DOMAIN events \ {a[1]}) : HasAllCauses(S, b[1])
    BY DEF ChainsEnd
  <2> DEFINE e == events[b[1]]
             S == e.ancestry \cap DOMAIN events
  <2>1. b[1] \in DOMAIN events /\ Traced(e) /\ Short(e) /\ a[1] \notin e.ancestry
    BY DEF IInv, RefsInv, ChainInv, RowsInv
  <2>2. \A m : CauseOf(m) \subseteq DOMAIN events
    BY DEF CauseOf
  <2>3. HasAllCauses(S, b[1])
    BY <2>1, <2>2 DEF HasAllCauses, Traced
  <2>4. QED BY <2>1, <2>3
<1>4. QED BY <1>1, <1>2, <1>3, Inductive, PTL DEF Spec

=============================================================================
