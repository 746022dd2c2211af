--------------------------- MODULE CheckpointStore ---------------------------
(***************************************************************************)
(* The SQLite checkpoint store (src/src/backend/checkpoint/sqlite.rs and   *)
(* sqlite_context.rs): a checkpoint is split into a header row and one row *)
(* per context item, and a save writes only the items that are new.  Each  *)
(* connection remembers which item objects it wrote last, so that it need  *)
(* not read them back; connections come and go with concurrent operations. *)
(*                                                                         *)
(* A write runs in an IMMEDIATE transaction: SQLite's one writer lock      *)
(* makes it a single step, and so is a read of one snapshot.  The caches   *)
(* belong to the connection an operation has checked out, so they change   *)
(* in the same step.  A failing operation rolls back and only returns its  *)
(* connection.                                                             *)
(***************************************************************************)
EXTENDS Naturals, Sequences, FiniteSets, SequencesExt

CONSTANTS
    Sessions,
    Conns,          \* connections: as many as operations run at once
    Items,          \* context item objects, told apart by address
    Value,          \* the immutable JSON value of each object
    None,
    Checkpoints,    \* the checkpoints callers may offer: sequence, epoch, context
    MaxWrites       \* bound on the number of commits

ASSUME ConnsAssumption == Conns # {} /\ None \notin Conns \cup Sessions
ASSUME ValueAssumption == DOMAIN Value = Items
ASSUME CheckpointAssumption ==
    Checkpoints \subseteq [sequence : Nat, epoch : Nat, context : Seq(Items)]
ASSUME BoundAssumption == MaxWrites \in Nat

Values == {Value[i] : i \in Items}
Headers == [sequence : Nat, epoch : Nat, count : Nat]
ContextHints == [sequence : Nat, epoch : Nat, items : Seq(Items)]
SavedCheckpoints == [sequence : Nat, epoch : Nat, context : Seq(Values)]

ASSUME NoneAssumption == None \notin Headers \cup ContextHints \cup SavedCheckpoints

VARIABLES
    row,        \* table sessions: latest_sequence, context_epoch, context_count
    items,      \* table context_items: epoch, index, value
    parent,     \* parent_session_id
    use,        \* what each connection is doing
    cache,      \* ContextCache of each connection and session
    changed,    \* hints taken under another data_version than the current one
    writes,     \* commits so far
    accepted    \* observation: the checkpoint last acknowledged, by value

vars == <<row, items, parent, use, cache, changed, writes, accepted>>
tables == <<row, items, parent>>

Uses == {"closed", "idle", "taken", "done"}
Contexts == {cp.context : cp \in Checkpoints}
ValuesOf(context) == [i \in DOMAIN context |-> Value[context[i]]]
ItemRows == [epoch : Nat, index : Nat, value : Values]

TypeOK ==
    /\ row \in [Sessions -> Headers \cup {None}]
    /\ items \in [Sessions -> SUBSET ItemRows]
    /\ parent \in [Sessions -> Sessions \cup {None}]
    /\ use \in [Conns -> Uses]
    /\ cache \in [Conns -> [Sessions -> ContextHints \cup {None}]]
    /\ changed \subseteq Conns \X Sessions
    /\ writes \in Nat
    /\ accepted \in [Sessions -> SavedCheckpoints \cup {None}]

Init ==
    /\ row = [s \in Sessions |-> None]
    /\ items = [s \in Sessions |-> {}]
    /\ parent = [s \in Sessions |-> None]
    /\ \E k \in Conns : use = [j \in Conns |-> IF j = k THEN "idle" ELSE "closed"]
    /\ cache = [k \in Conns |-> [s \in Sessions |-> None]]
    /\ changed = {}
    /\ writes = 0
    /\ accepted = [s \in Sessions |-> None]

-----------------------------------------------------------------------------
(* SqliteCheckpoint::run: the idle connection or a new one, an operation   *)
(* on it, and back into the idle slot if that is still empty.              *)

SomeIdle == \E k \in Conns : use[k] = "idle"

Take(k) ==
    /\ use[k] = IF SomeIdle THEN "idle" ELSE "closed"
    /\ use' = [use EXCEPT ![k] = "taken"]
    /\ UNCHANGED <<tables, cache, changed, writes, accepted>>

Closed(k) ==
    /\ cache' = [cache EXCEPT ![k] = [s \in Sessions |-> None]]
    /\ changed' = changed \ ({k} \X Sessions)

PutBack(k) ==
    /\ use[k] = "done"
    /\ IF SomeIdle
       THEN use' = [use EXCEPT ![k] = "closed"] /\ Closed(k)
       ELSE use' = [use EXCEPT ![k] = "idle"] /\ UNCHANGED <<cache, changed>>
    /\ UNCHANGED <<tables, writes, accepted>>

(* PRAGMA data_version changes for a connection when another one commits,  *)
(* not when it commits itself, so the number stored in a hint differs from *)
(* the current one exactly when another connection has committed since.    *)
Hints == {ks \in Conns \X Sessions : cache[ks[1]][ks[2]] # None}

Commit(k) ==
    /\ use[k] = "taken"
    /\ use' = [use EXCEPT ![k] = "done"]
    /\ writes < MaxWrites
    /\ writes' = writes + 1

Outdated(k) == changed \cup {ks \in Hints : ks[1] # k}

(* ContextCache::record under the data_version read in the transaction:    *)
(* hints whose objects are all gone are dropped on the way.  Objects that  *)
(* a hint still names keep their address, so an address never stands for   *)
(* two values.                                                             *)
Recorded(k, s, cp, outdated) ==
    \E dead \in SUBSET {t \in Sessions \ {s} : cache[k][t] # None} :
        /\ cache' = [cache EXCEPT ![k] = [t \in Sessions |->
              CASE t \in dead -> None
                [] t = s /\ cp.context = <<>> -> None
                [] t = s /\ cp.context # <<>> ->
                      [sequence |-> cp.sequence, epoch |-> cp.epoch, items |-> cp.context]
                [] OTHER -> cache[k][t]]]
        /\ changed' = outdated \ ({k} \X (dead \cup {s}))

-----------------------------------------------------------------------------
(* Writing a checkpoint.                                                   *)

(* Mutant of Warm: the hint is trusted whatever other connections did.     *)
WarmWithoutVersion(k, s, cp) ==
    /\ cache[k][s] # None
    /\ cache[k][s].sequence = row[s].sequence
    /\ cache[k][s].epoch = cp.epoch
    /\ Len(cache[k][s].items) = row[s].count

(* prepare_append, cached.filter: the hint describes the stored rows.      *)
Warm(k, s, cp) ==
    /\ cache[k][s] # None
    /\ cache[k][s].sequence = row[s].sequence
    /\ cache[k][s].epoch = cp.epoch
    /\ <<k, s>> \notin changed
    /\ Len(cache[k][s].items) = row[s].count

SameObject(k, s, cp, i) == cache[k][s].items[i] = cp.context[i]

SameValue(s, cp, i) ==
    [epoch |-> row[s].epoch, index |-> i - 1, value |-> Value[cp.context[i]]] \in items[s]

HasItem(s, i) == \E r \in items[s] : r.epoch = row[s].epoch /\ r.index = i - 1

(* The stored prefix is the one the new checkpoint starts with: known from *)
(* the hint without reading, or read and compared item by item.            *)
PrefixVerified(k, s, cp) ==
    \/ row[s].count = 0
    \/ Warm(k, s, cp) /\ \A i \in 1..row[s].count : SameObject(k, s, cp, i)
    \/ \A i \in 1..row[s].count :
          /\ HasItem(s, i)
          /\ (Warm(k, s, cp) /\ SameObject(k, s, cp, i)) \/ SameValue(s, cp, i)

(* Mutant of Appends: the sequence number is not looked at.                *)
AppendsAnySequence(k, s, cp) ==
    row[s] # None =>
        \/ cp.epoch > row[s].epoch
        \/ /\ cp.epoch = row[s].epoch
           /\ Len(cp.context) >= row[s].count
           /\ PrefixVerified(k, s, cp)

(* prepare_append and store_checkpoint accept the checkpoint.              *)
Appends(k, s, cp) ==
    row[s] # None =>
        /\ cp.sequence > row[s].sequence
        /\ \/ cp.epoch > row[s].epoch
           \/ /\ cp.epoch = row[s].epoch
              /\ Len(cp.context) >= row[s].count
              /\ PrefixVerified(k, s, cp)

(* Mutant of KeptItems: a new epoch leaves the old rows behind.            *)
KeepsOldEpoch(s, cp) == items[s]

(* A new epoch deletes the rows of the session.                            *)
KeptItems(s, cp) ==
    IF row[s] # None /\ cp.epoch # row[s].epoch THEN {} ELSE items[s]

FirstNew(s, cp) ==
    IF row[s] = None \/ cp.epoch # row[s].epoch THEN 0 ELSE row[s].count

(* append_context from index `start'.                                      *)
NewItems(cp, start) ==
    {[epoch |-> cp.epoch, index |-> i - 1, value |-> Value[cp.context[i]]] :
        i \in (start + 1)..Len(cp.context)}

(* The primary key of context_items.                                       *)
NoDuplicates(old, new) ==
    \A a \in old, b \in new : a.epoch # b.epoch \/ a.index # b.index

HeaderOf(cp) == [sequence |-> cp.sequence, epoch |-> cp.epoch, count |-> Len(cp.context)]

Saved(cp) == [cp EXCEPT !.context = ValuesOf(@)]

(* save_with_events.                                                       *)
Save(k, s, cp) ==
    LET kept == KeptItems(s, cp)
        new == NewItems(cp, FirstNew(s, cp)) IN
    /\ Commit(k)
    /\ Appends(k, s, cp)
    /\ NoDuplicates(kept, new)
    /\ row' = [row EXCEPT ![s] = HeaderOf(cp)]
    /\ items' = [items EXCEPT ![s] = kept \cup new]
    /\ Recorded(k, s, cp, Outdated(k))
    /\ accepted' = [accepted EXCEPT ![s] = Saved(cp)]
    /\ UNCHANGED parent

(* fork: a new session under an existing parent, beginning at sequence 0.  *)
Fork(k, s, p, cp) ==
    /\ Commit(k)
    /\ p # s
    /\ row[p] # None
    /\ row[s] = None
    /\ cp.sequence = 0
    /\ NoDuplicates(items[s], NewItems(cp, 0))
    /\ row' = [row EXCEPT ![s] = HeaderOf(cp)]
    /\ items' = [items EXCEPT ![s] = @ \cup NewItems(cp, 0)]
    /\ parent' = [parent EXCEPT ![s] = p]
    /\ Recorded(k, s, cp, Outdated(k))
    /\ accepted' = [accepted EXCEPT ![s] = Saved(cp)]

-----------------------------------------------------------------------------
(* Deleting and loading.                                                   *)

(* The recursive query: the roots that exist and all their descendants.    *)
SessionTree(roots) ==
    {s \in Sessions : row[s] # None /\
        \A T \in SUBSET Sessions :
            roots \subseteq T /\ (\A c \in Sessions : parent[c] \in T => c \in T) => s \in T}

(* The connection's own commit does not change its data_version, so its    *)
(* hints of the deleted sessions are dropped.                              *)
Forget(k, gone) ==
    /\ cache' = [cache EXCEPT ![k] = [s \in Sessions |-> IF s \in gone THEN None ELSE cache[k][s]]]
    /\ changed' = Outdated(k) \ ({k} \X gone)

(* delete_sessions: all roots must exist.  The rows of context_items go    *)
(* with their session (ON DELETE CASCADE).                                 *)
DeleteSessions(k, roots) ==
    LET gone == SessionTree(roots) IN
    /\ Commit(k)
    /\ roots # {}
    /\ roots \subseteq gone
    /\ row' = [s \in Sessions |-> IF s \in gone THEN None ELSE row[s]]
    /\ items' = [s \in Sessions |-> IF s \in gone THEN {} ELSE items[s]]
    /\ parent' = [s \in Sessions |-> IF s \in gone THEN None ELSE parent[s]]
    /\ accepted' = [s \in Sessions |-> IF s \in gone THEN None ELSE accepted[s]]
    /\ Forget(k, gone)

(* load_context: the rows must be exactly those the header counts.         *)
RowsMatch(s) ==
    /\ {<<r.epoch, r.index>> : r \in items[s]} = {row[s].epoch} \X {i - 1 : i \in 1..row[s].count}
    /\ Cardinality(items[s]) = row[s].count

ValueAt(s, i) == (CHOOSE r \in items[s] : r.index = i - 1).value

Loaded(s) ==
    IF row[s] = None THEN None
    ELSE [sequence |-> row[s].sequence, epoch |-> row[s].epoch,
          context |-> IF RowsMatch(s) THEN [i \in 1..row[s].count |-> ValueAt(s, i)] ELSE None]

(* load: new objects with the stored values, remembered by the connection  *)
(* together with the data_version of the snapshot.                         *)
Load(k, s) ==
    /\ use[k] = "taken"
    /\ use' = [use EXCEPT ![k] = "done"]
    /\ row[s] # None
    /\ RowsMatch(s)
    /\ \E context \in Contexts :
          /\ ValuesOf(context) = Loaded(s).context
          /\ Recorded(k, s, [sequence |-> row[s].sequence, epoch |-> row[s].epoch,
                             context |-> context], changed)
    /\ UNCHANGED <<tables, writes, accepted>>

(* Any other write: append_event, save_state.                              *)
OtherWrite(k) ==
    /\ Commit(k)
    /\ changed' = Outdated(k)
    /\ UNCHANGED <<tables, cache, accepted>>

(* Any other read, and every operation that fails.                         *)
NoWrite(k) ==
    /\ use[k] = "taken"
    /\ use' = [use EXCEPT ![k] = "done"]
    /\ UNCHANGED <<tables, cache, changed, writes, accepted>>

(* The process dies; committed rows survive.                               *)
Crash ==
    /\ \E k \in Conns : use' = [j \in Conns |-> IF j = k THEN "idle" ELSE "closed"]
    /\ cache' = [k \in Conns |-> [s \in Sessions |-> None]]
    /\ changed' = {}
    /\ UNCHANGED <<tables, writes, accepted>>

-----------------------------------------------------------------------------
Operation(k) ==
    \/ \E s \in Sessions : Load(k, s)
    \/ \E s \in Sessions, cp \in Checkpoints : Save(k, s, cp)
    \/ \E s, p \in Sessions, cp \in Checkpoints : Fork(k, s, p, cp)
    \/ \E roots \in SUBSET Sessions : DeleteSessions(k, roots)
    \/ OtherWrite(k)
    \/ NoWrite(k)

Next == Crash \/ \E k \in Conns : Take(k) \/ PutBack(k) \/ Operation(k)

Spec == Init /\ [][Next]_vars

-----------------------------------------------------------------------------
(* A load returns exactly the checkpoint last acknowledged, context        *)
(* included, although a save wrote only part of it and may have skipped    *)
(* the comparison: no sequence of saves, forks, deletions and recreations  *)
(* over several connections makes the rows and the header disagree or lets *)
(* a save be acknowledged whose prefix is not what is stored.              *)
LoadedIsSaved == \A s \in Sessions : Loaded(s) = accepted[s]

(* A hint that the next save would trust names objects with exactly the    *)
(* stored values: whatever other connections deleted, recreated or         *)
(* rewrote meanwhile, and whatever this one did itself, a save never skips *)
(* the comparison with rows it does not know (prepare_append).             *)
HintsAreTrue ==
    \A k \in Conns, s \in Sessions :
        row[s] # None /\ Warm(k, s, row[s]) =>
            \A i \in 1..row[s].count :
                [epoch |-> row[s].epoch, index |-> i - 1,
                 value |-> Value[cache[k][s].items[i]]] \in items[s]

(* The store implements CheckpointHistory: the checkpoint of a session,    *)
(* which LoadedIsSaved identifies with what a load returns, is only        *)
(* replaced by a later one that extends its context (so a stale owner      *)
(* never overwrites a newer one and the prefix of an epoch never changes), *)
(* and sessions disappear only in whole trees.                             *)
History == INSTANCE CheckpointHistory WITH saved <- accepted
StoreRefined == History!Spec
=============================================================================
