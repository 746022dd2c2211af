----------------------- MODULE CheckpointStore_proofs -----------------------
(***************************************************************************)
(* Proofs about CheckpointStore, for any sessions, connections, items and  *)
(* offered checkpoints.                                                    *)
(*                                                                         *)
(* Two facts carry everything.  The tables say the same as the checkpoint  *)
(* last acknowledged, though a save writes only what is new (RowsInv); and *)
(* a hint taken under the current data_version describes exactly the       *)
(* stored rows (HintsInv).  Each needs the other: a save may skip the      *)
(* comparison only because hints are true, and hints are true only because *)
(* every commit outdates the hints of all other connections.               *)
(***************************************************************************)
EXTENDS CheckpointStore, FiniteSetTheorems, SequenceTheorems, TLAPS

(* The rows of table context_items for a checkpoint.                       *)
ItemsOf(a) ==
    {[epoch |-> a.epoch, index |-> i - 1, value |-> a.context[i]] : i \in 1..Len(a.context)}

RowsInv ==
    \A s \in Sessions :
        IF row[s] = None
        THEN items[s] = {} /\ accepted[s] = None /\ parent[s] = None
        ELSE /\ accepted[s] # None
             /\ row[s] = HeaderOf(accepted[s])
             /\ items[s] = ItemsOf(accepted[s])

HintsInv ==
    \A k \in Conns, s \in Sessions :
        cache[k][s] # None /\ <<k, s>> \notin changed =>
            /\ row[s] # None
            /\ cache[k][s].sequence = row[s].sequence
            /\ cache[k][s].epoch = row[s].epoch
            /\ ValuesOf(cache[k][s].items) = accepted[s].context

IInv == TypeOK /\ RowsInv /\ HintsInv

-----------------------------------------------------------------------------
(* Facts about the operators of the model.                                 *)

(* The values of a context are a sequence of the same length.              *)
LEMMA ValuesOfType ==
    ASSUME NEW c \in Seq(Items)
    PROVE  /\ ValuesOf(c) \in Seq(Values)
           /\ Len(ValuesOf(c)) = Len(c)
           /\ \A i \in 1..Len(c) : ValuesOf(c)[i] = Value[c[i]]
<1>1. DOMAIN c = 1..Len(c) /\ Len(c) \in Nat
  BY LenProperties
<1>2. \A i \in 1..Len(c) : Value[c[i]] \in Values
  BY ElementOfSeq DEF Values
<1>3. ValuesOf(c) = [i \in 1..Len(c) |-> Value[c[i]]]
  BY <1>1 DEF ValuesOf
<1>4. [i \in 1..Len(c) |-> Value[c[i]]] \in Seq(Values)
  BY <1>1, <1>2, SMT
<1> QED
  BY <1>1, <1>3, <1>4, LenProperties

(* What a save makes of an offered checkpoint.                             *)
LEMMA SavedType ==
    ASSUME NEW cp \in [sequence : Nat, epoch : Nat, context : Seq(Items)]
    PROVE  /\ Saved(cp) \in SavedCheckpoints
           /\ Saved(cp) # None
           /\ Saved(cp).sequence = cp.sequence
           /\ Saved(cp).epoch = cp.epoch
           /\ Saved(cp).context = ValuesOf(cp.context)
           /\ HeaderOf(cp) = HeaderOf(Saved(cp))
           /\ HeaderOf(cp) \in Headers
           /\ HeaderOf(cp) # None
<1>1. ValuesOf(cp.context) \in Seq(Values) /\ Len(ValuesOf(cp.context)) = Len(cp.context)
  BY ValuesOfType
<1>2. Saved(cp) = [sequence |-> cp.sequence, epoch |-> cp.epoch, context |-> ValuesOf(cp.context)]
  BY DEF Saved
<1>3. Saved(cp) \in SavedCheckpoints
  BY <1>1, <1>2 DEF SavedCheckpoints
<1>4. HeaderOf(cp) \in Headers
  BY LenProperties DEF HeaderOf, Headers
<1> QED
  BY <1>1, <1>2, <1>3, <1>4, NoneAssumption DEF HeaderOf

(* Items appended behind a prefix that is stored already are the items of  *)
(* the whole checkpoint.                                                   *)
LEMMA ItemsAppended ==
    ASSUME NEW cp \in [sequence : Nat, epoch : Nat, context : Seq(Items)],
           NEW n \in Nat, n <= Len(cp.context)
    PROVE  /\ NewItems(cp, n) \subseteq ItemRows
           /\ {[epoch |-> cp.epoch, index |-> i - 1, value |-> Value[cp.context[i]]] : i \in 1..n}
                \cup NewItems(cp, n) = ItemsOf(Saved(cp))
<1> DEFINE len == Len(cp.context)
           r(i) == [epoch |-> cp.epoch, index |-> i - 1, value |-> Value[cp.context[i]]]
<1>1. len \in Nat /\ \A i \in 1..len : cp.context[i] \in Items
  BY LenProperties, ElementOfSeq
<1>2. \A i \in 1..len : r(i) \in ItemRows
  <2> TAKE i \in 1..len
  <2>1. i - 1 \in Nat
    BY <1>1
  <2>2. Value[cp.context[i]] \in Values
    BY <1>1 DEF Values
  <2> QED
    BY <2>1, <2>2 DEF ItemRows
<1>3. NewItems(cp, n) = {r(i) : i \in (n + 1)..len}
  BY DEF NewItems
<1>4. (n + 1)..len \subseteq 1..len /\ (1..n) \cup ((n + 1)..len) = 1..len
  BY <1>1
<1>5. ItemsOf(Saved(cp)) = {r(i) : i \in 1..len}
  <2> DEFINE a == Saved(cp)
             q(i) == [epoch |-> a.epoch, index |-> i - 1, value |-> a.context[i]]
  <2>1. a.epoch = cp.epoch /\ a.context = ValuesOf(cp.context)
    BY SavedType
  <2>2. Len(a.context) = len /\ \A i \in 1..len : a.context[i] = Value[cp.context[i]]
    BY <2>1, ValuesOfType
  <2>3. \A i \in 1..len : q(i) = r(i)
    BY <2>1, <2>2
  <2>4. ItemsOf(a) = {q(i) : i \in 1..len}
    BY <2>2 DEF ItemsOf
  <2> HIDE DEF q, r, a
  <2> QED
    BY <2>3, <2>4 DEF a
<1> QED
  <2> HIDE DEF r
  <2>1. {r(i) : i \in 1..n} \cup {r(i) : i \in (n + 1)..len} = {r(i) : i \in 1..len}
    BY <1>4
  <2>2. {r(i) : i \in (n + 1)..len} \subseteq ItemRows
    BY <1>2, <1>4
  <2> QED
    BY <2>1, <2>2, <1>3, <1>5 DEF r

(* Written from the start, they are the whole checkpoint.                  *)
LEMMA WholeItems ==
    ASSUME NEW cp \in [sequence : Nat, epoch : Nat, context : Seq(Items)]
    PROVE  NewItems(cp, 0) = ItemsOf(Saved(cp)) /\ ItemsOf(Saved(cp)) \subseteq ItemRows
<1> DEFINE r(i) == [epoch |-> cp.epoch, index |-> i - 1, value |-> Value[cp.context[i]]]
<1>1. Len(cp.context) \in Nat
  BY LenProperties
<1>2. NewItems(cp, 0) \subseteq ItemRows /\ {r(i) : i \in 1..0} \cup NewItems(cp, 0) = ItemsOf(Saved(cp))
  BY <1>1, ItemsAppended
<1>3. 1..0 = {}
  OBVIOUS
<1> HIDE DEF r
<1>4. {r(i) : i \in 1..0} = {}
  BY <1>3
<1> QED
  BY <1>2, <1>4

-----------------------------------------------------------------------------
LEMMA InitInv == Init => IInv
<1> SUFFICES ASSUME Init PROVE IInv
  OBVIOUS
<1>1. TypeOK
  BY DEF Init, TypeOK, Uses
<1>2. RowsInv
  BY DEF Init, RowsInv
<1>3. HintsInv
  BY DEF Init, HintsInv
<1> QED
  BY <1>1, <1>2, <1>3 DEF IInv

-----------------------------------------------------------------------------
(* The hints.                                                              *)

(* A hint that is current after ContextCache::record is the new one, or    *)
(* one that was there before and not outdated.                             *)
LEMMA RecordedHints ==
    ASSUME TypeOK, NEW k \in Conns, NEW s \in Sessions,
           NEW cp \in [sequence : Nat, epoch : Nat, context : Seq(Items)],
           NEW outdated \in SUBSET (Conns \X Sessions),
           Recorded(k, s, cp, outdated)
    PROVE  /\ cache' \in [Conns -> [Sessions -> ContextHints \cup {None}]]
           /\ changed' \subseteq Conns \X Sessions
           /\ \A j \in Conns, t \in Sessions :
                cache'[j][t] # None /\ <<j, t>> \notin changed' =>
                  \/ /\ j = k /\ t = s
                     /\ cache'[j][t] = [sequence |-> cp.sequence, epoch |-> cp.epoch,
                                        items |-> cp.context]
                  \/ /\ j # k \/ t # s
                     /\ cache'[j][t] = cache[j][t]
                     /\ <<j, t>> \notin outdated
<1> DEFINE new == [sequence |-> cp.sequence, epoch |-> cp.epoch, items |-> cp.context]
<1>1. PICK dead \in SUBSET {t \in Sessions \ {s} : cache[k][t] # None} :
        /\ cache' = [cache EXCEPT ![k] = [t \in Sessions |->
              CASE t \in dead -> None
                [] t = s /\ cp.context = <<>> -> None
                [] t = s /\ cp.context # <<>> -> new
                [] OTHER -> cache[k][t]]]
        /\ changed' = outdated \ ({k} \X (dead \cup {s}))
  BY DEF Recorded
<1>2. new \in ContextHints /\ new # None
  BY NoneAssumption DEF ContextHints
<1> HIDE DEF new
<1>3. cache \in [Conns -> [Sessions -> ContextHints \cup {None}]]
  BY DEF TypeOK
<1> DEFINE mine == [t \in Sessions |->
              CASE t \in dead -> None
                [] t = s /\ cp.context = <<>> -> None
                [] t = s /\ cp.context # <<>> -> new
                [] OTHER -> cache[k][t]]
<1>4. mine \in [Sessions -> ContextHints \cup {None}]
  BY <1>2, <1>3
<1>5. \A t \in Sessions :
         /\ t \in dead => mine[t] = None
         /\ t = s => mine[t] \in {None, new}
         /\ t \notin dead /\ t # s => mine[t] = cache[k][t]
  BY <1>1
<1>6. cache' = [cache EXCEPT ![k] = mine]
  BY <1>1
<1> HIDE DEF mine
<1>7. cache' \in [Conns -> [Sessions -> ContextHints \cup {None}]]
  BY <1>3, <1>4, <1>6
<1>8. changed' \subseteq Conns \X Sessions
  BY <1>1
<1>9. ASSUME NEW j \in Conns, NEW t \in Sessions,
             cache'[j][t] # None, <<j, t>> \notin changed'
      PROVE  \/ /\ j = k /\ t = s
                /\ cache'[j][t] = new
             \/ /\ j # k \/ t # s
                /\ cache'[j][t] = cache[j][t]
                /\ <<j, t>> \notin outdated
  <2>1. CASE j # k
    BY <1>1, <1>3, <1>6, <1>9, <2>1
  <2>2. CASE j = k
    <3>1. cache'[j][t] = mine[t] /\ t \notin dead
      BY <1>3, <1>5, <1>6, <1>9, <2>2
    <3>2. CASE t = s
      BY <3>1, <3>2, <1>5, <1>9, <2>2
    <3>3. CASE t # s
      BY <3>1, <3>3, <1>1, <1>5, <1>9, <2>2
    <3> QED
      BY <3>2, <3>3
  <2> QED
    BY <2>1, <2>2
<1> QED
  BY <1>7, <1>8, <1>9 DEF new

(* A commit outdates the hints of every other connection.                  *)
LEMMA OutdatedHints ==
    ASSUME TypeOK, NEW k \in Conns
    PROVE  /\ Outdated(k) \in SUBSET (Conns \X Sessions)
           /\ \A j \in Conns, t \in Sessions :
                cache[j][t] # None /\ <<j, t>> \notin Outdated(k) => j = k /\ <<j, t>> \notin changed
BY DEF TypeOK, Outdated, Hints

-----------------------------------------------------------------------------
(* Writing a checkpoint.                                                   *)

(* The prefix that prepare_append lets pass, read or not, is the one that  *)
(* is stored: here a save relies on the hints.                             *)
LEMMA PrefixStored ==
    ASSUME IInv, NEW k \in Conns, NEW s \in Sessions,
           NEW cp \in [sequence : Nat, epoch : Nat, context : Seq(Items)],
           row[s] # None, cp.epoch = row[s].epoch, Len(cp.context) >= row[s].count,
           PrefixVerified(k, s, cp)
    PROVE  \A i \in 1..row[s].count : Value[cp.context[i]] = accepted[s].context[i]
<1> DEFINE n == row[s].count
           a == accepted[s]
<1>1. /\ row[s] = HeaderOf(a) /\ items[s] = ItemsOf(a)
      /\ a \in SavedCheckpoints
      /\ row[s] \in Headers
  BY DEF IInv, TypeOK, RowsInv
<1>2. n \in Nat /\ n = Len(a.context) /\ row[s].epoch = a.epoch
  BY <1>1 DEF Headers, HeaderOf
<1>3. cache[k][s] \in ContextHints \cup {None}
  BY DEF IInv, TypeOK
<1>4. ASSUME NEW i \in 1..n, Warm(k, s, cp), SameObject(k, s, cp, i)
      PROVE  Value[cp.context[i]] = a.context[i]
  <2>1. /\ cache[k][s] \in ContextHints
        /\ ValuesOf(cache[k][s].items) = a.context
        /\ cache[k][s].items \in Seq(Items)
        /\ Len(cache[k][s].items) = n
    BY <1>3, <1>4 DEF Warm, IInv, HintsInv, ContextHints
  <2>2. ValuesOf(cache[k][s].items)[i] = Value[cache[k][s].items[i]]
    BY <2>1, ValuesOfType
  <2> QED
    BY <2>1, <2>2, <1>4 DEF SameObject
<1>5. ASSUME NEW i \in 1..n, SameValue(s, cp, i)
      PROVE  Value[cp.context[i]] = a.context[i]
  <2>0. [epoch |-> row[s].epoch, index |-> i - 1, value |-> Value[cp.context[i]]] \in ItemsOf(a)
    BY <1>1, <1>5, Zenon DEF SameValue
  <2>1. PICK j \in 1..n :
           [epoch |-> row[s].epoch, index |-> i - 1, value |-> Value[cp.context[i]]]
             = [epoch |-> a.epoch, index |-> j - 1, value |-> a.context[j]]
    BY <1>2, <2>0, Zenon DEF ItemsOf
  <2>2. i - 1 = j - 1 /\ Value[cp.context[i]] = a.context[j]
    BY <2>1
  <2> QED
    BY <2>2, <1>2
<1> QED
  BY <1>2, <1>4, <1>5 DEF PrefixVerified

(* A commit that puts the whole checkpoint in the tables and remembers it  *)
(* keeps the invariant.                                                    *)
LEMMA WriteKeeps ==
    ASSUME IInv, NEW k \in Conns, NEW s \in Sessions,
           NEW cp \in [sequence : Nat, epoch : Nat, context : Seq(Items)],
           Commit(k), Recorded(k, s, cp, Outdated(k)),
           row' = [row EXCEPT ![s] = HeaderOf(cp)],
           items' = [items EXCEPT ![s] = ItemsOf(Saved(cp))],
           accepted' = [accepted EXCEPT ![s] = Saved(cp)],
           parent' \in [Sessions -> Sessions \cup {None}],
           \A t \in Sessions \ {s} : parent'[t] = parent[t]
    PROVE  IInv'
<1>1. ItemsOf(Saved(cp)) \subseteq ItemRows
  BY WholeItems
<1>2. TypeOK
  BY DEF IInv
<1>3. Outdated(k) \in SUBSET (Conns \X Sessions)
  BY <1>2, OutdatedHints
<1>4. TypeOK'
  <2>1. cache' \in [Conns -> [Sessions -> ContextHints \cup {None}]] /\ changed' \subseteq Conns \X Sessions
    BY <1>2, <1>3, RecordedHints
  <2>2. use' \in [Conns -> Uses] /\ writes' \in Nat
    BY <1>2 DEF TypeOK, Commit, Uses
  <2>3. row' \in [Sessions -> Headers \cup {None}] /\ accepted' \in [Sessions -> SavedCheckpoints \cup {None}]
    BY <1>2, SavedType DEF TypeOK
  <2>4. items' \in [Sessions -> SUBSET ItemRows]
    BY <1>1, <1>2 DEF TypeOK
  <2> QED
    BY <2>1, <2>2, <2>3, <2>4 DEF TypeOK
<1>5. RowsInv'
  <2> SUFFICES ASSUME NEW t \in Sessions
               PROVE  IF row'[t] = None
                      THEN items'[t] = {} /\ accepted'[t] = None /\ parent'[t] = None
                      ELSE /\ accepted'[t] # None
                           /\ row'[t] = HeaderOf(accepted'[t])
                           /\ items'[t] = ItemsOf(accepted'[t])
    BY DEF RowsInv, HeaderOf, ItemsOf
  <2>1. CASE t = s
    BY <1>2, <2>1, SavedType DEF TypeOK
  <2>2. CASE t # s
    BY <1>2, <2>2 DEF TypeOK, IInv, RowsInv
  <2> QED
    BY <2>1, <2>2
<1>6. HintsInv'
  <2> SUFFICES ASSUME NEW j \in Conns, NEW t \in Sessions,
                      cache'[j][t] # None, <<j, t>> \notin changed'
               PROVE  /\ row'[t] # None
                      /\ cache'[j][t].sequence = row'[t].sequence
                      /\ cache'[j][t].epoch = row'[t].epoch
                      /\ ValuesOf(cache'[j][t].items) = accepted'[t].context
    BY DEF HintsInv, ValuesOf
  <2>1. CASE /\ j = k /\ t = s
             /\ cache'[j][t] = [sequence |-> cp.sequence, epoch |-> cp.epoch, items |-> cp.context]
    <3>1. row'[t] = HeaderOf(cp) /\ accepted'[t] = Saved(cp)
      BY <1>2, <2>1 DEF TypeOK
    <3>2. row'[t] # None /\ row'[t].sequence = cp.sequence /\ row'[t].epoch = cp.epoch
      <4>1. HeaderOf(cp) # None
        BY SavedType
      <4>2. HeaderOf(cp).sequence = cp.sequence /\ HeaderOf(cp).epoch = cp.epoch
        BY DEF HeaderOf
      <4> QED
        BY <3>1, <4>1, <4>2
    <3>3. accepted'[t].context = ValuesOf(cp.context)
      BY <3>1, SavedType
    <3>4. cache'[j][t].items = cp.context /\ cache'[j][t].sequence = cp.sequence /\ cache'[j][t].epoch = cp.epoch
      BY <2>1
    <3> QED
      BY <3>2, <3>3, <3>4
  <2>2. CASE (j # k \/ t # s) /\ cache'[j][t] = cache[j][t] /\ <<j, t>> \notin Outdated(k)
    <3>1. j = k /\ <<j, t>> \notin changed /\ t # s
      BY <1>2, <2>2, OutdatedHints
    <3>2. row'[t] = row[t] /\ accepted'[t] = accepted[t]
      BY <1>2, <3>1 DEF TypeOK
    <3> QED
      BY <2>2, <3>1, <3>2 DEF IInv, HintsInv
  <2> QED
    BY <1>2, <1>3, <2>1, <2>2, RecordedHints
<1> QED
  BY <1>4, <1>5, <1>6 DEF IInv

(* After prepare_append the session's rows are those of the checkpoint     *)
(* offered, whichever of them were written now.                            *)
LEMMA SaveRows ==
    ASSUME IInv, NEW k \in Conns, NEW s \in Sessions,
           NEW cp \in [sequence : Nat, epoch : Nat, context : Seq(Items)],
           Appends(k, s, cp)
    PROVE  KeptItems(s, cp) \cup NewItems(cp, FirstNew(s, cp)) = ItemsOf(Saved(cp))
<1>0. Len(cp.context) \in Nat
  BY LenProperties
<1>1. CASE row[s] = None \/ cp.epoch # row[s].epoch
  <2>1. KeptItems(s, cp) = {} /\ FirstNew(s, cp) = 0
    BY <1>1 DEF KeptItems, FirstNew, IInv, RowsInv
  <2> QED
    BY <2>1, WholeItems
<1>2. CASE row[s] # None /\ cp.epoch = row[s].epoch
  <2> DEFINE n == row[s].count
             a == accepted[s]
  <2>1. row[s] \in Headers /\ a \in SavedCheckpoints /\ row[s] = HeaderOf(a) /\ items[s] = ItemsOf(a)
    BY <1>2 DEF IInv, TypeOK, RowsInv
  <2>2. n \in Nat /\ n = Len(a.context) /\ a.epoch = cp.epoch
    BY <1>2, <2>1 DEF Headers, HeaderOf
  <2>3. ~(cp.epoch > row[s].epoch)
    BY <1>2
  <2>4. n <= Len(cp.context) /\ PrefixVerified(k, s, cp)
    BY <1>0, <1>2, <2>2, <2>3 DEF Appends
  <2>5. \A i \in 1..n : Value[cp.context[i]] = a.context[i]
    BY <1>0, <1>2, <2>2, <2>4, PrefixStored
  <2>6. KeptItems(s, cp) = items[s] /\ FirstNew(s, cp) = n
    BY <1>2 DEF KeptItems, FirstNew
  <2>7. {[epoch |-> cp.epoch, index |-> i - 1, value |-> Value[cp.context[i]]] : i \in 1..n} = ItemsOf(a)
    BY <2>2, <2>5 DEF ItemsOf
  <2>8. {[epoch |-> cp.epoch, index |-> i - 1, value |-> Value[cp.context[i]]] : i \in 1..n}
             \cup NewItems(cp, n) = ItemsOf(Saved(cp))
    BY <1>0, <2>2, <2>4, ItemsAppended
  <2> QED
    BY <2>1, <2>6, <2>7, <2>8
<1> QED
  BY <1>1, <1>2

LEMMA SaveKeeps ==
    ASSUME IInv, NEW k \in Conns, NEW s \in Sessions, NEW cp \in Checkpoints, Save(k, s, cp)
    PROVE  IInv'
<1>1. cp \in [sequence : Nat, epoch : Nat, context : Seq(Items)]
  BY CheckpointAssumption
<1>2. /\ Commit(k) /\ Recorded(k, s, cp, Outdated(k)) /\ Appends(k, s, cp)
      /\ row' = [row EXCEPT ![s] = HeaderOf(cp)]
      /\ items' = [items EXCEPT ![s] = KeptItems(s, cp) \cup NewItems(cp, FirstNew(s, cp))]
      /\ accepted' = [accepted EXCEPT ![s] = Saved(cp)]
      /\ parent' = parent
  BY DEF Save
<1>3. items' = [items EXCEPT ![s] = ItemsOf(Saved(cp))]
  BY <1>1, <1>2, SaveRows
<1>4. parent' \in [Sessions -> Sessions \cup {None}]
  BY <1>2 DEF IInv, TypeOK
<1> QED
  BY <1>1, <1>2, <1>3, <1>4, WriteKeeps

LEMMA ForkKeeps ==
    ASSUME IInv, NEW k \in Conns, NEW s \in Sessions, NEW p \in Sessions, NEW cp \in Checkpoints,
           Fork(k, s, p, cp)
    PROVE  IInv'
<1>1. cp \in [sequence : Nat, epoch : Nat, context : Seq(Items)] /\ Len(cp.context) \in Nat
  BY CheckpointAssumption, LenProperties
<1>2. /\ Commit(k) /\ Recorded(k, s, cp, Outdated(k))
      /\ row' = [row EXCEPT ![s] = HeaderOf(cp)]
      /\ items' = [items EXCEPT ![s] = @ \cup NewItems(cp, 0)]
      /\ accepted' = [accepted EXCEPT ![s] = Saved(cp)]
      /\ parent' = [parent EXCEPT ![s] = p]
      /\ row[s] = None
  BY DEF Fork
<1>3. items' = [items EXCEPT ![s] = ItemsOf(Saved(cp))]
  <2>1. items[s] = {}
    BY <1>2 DEF IInv, RowsInv
  <2> QED
    BY <1>1, <1>2, <2>1, WholeItems
<1>4. parent' \in [Sessions -> Sessions \cup {None}] /\ \A t \in Sessions \ {s} : parent'[t] = parent[t]
  BY <1>2 DEF IInv, TypeOK
<1> QED
  BY <1>1, <1>2, <1>3, <1>4, WriteKeeps

-----------------------------------------------------------------------------
(* Loading.                                                                *)

(* The invariant makes the rows complete, so that a load succeeds and      *)
(* returns what was last acknowledged.                                     *)
LEMMA LoadedSaved ==
    ASSUME IInv
    PROVE  LoadedIsSaved
<1> SUFFICES ASSUME NEW s \in Sessions PROVE Loaded(s) = accepted[s]
  BY DEF LoadedIsSaved
<1>1. CASE row[s] = None
  BY <1>1 DEF Loaded, IInv, RowsInv
<1>2. CASE row[s] # None
  <2> DEFINE a == accepted[s]
             n == row[s].count
             r(i) == [epoch |-> a.epoch, index |-> i - 1, value |-> a.context[i]]
  <2>1. row[s] \in Headers /\ a \in SavedCheckpoints /\ row[s] = HeaderOf(a) /\ items[s] = ItemsOf(a)
    BY <1>2 DEF IInv, TypeOK, RowsInv
  <2>2. /\ n \in Nat /\ n = Len(a.context)
        /\ a.epoch = row[s].epoch /\ a.sequence = row[s].sequence /\ a.context \in Seq(Values)
    BY <2>1 DEF Headers, HeaderOf, SavedCheckpoints
  <2>3. items[s] = {r(i) : i \in 1..n}
    BY <2>1, <2>2 DEF ItemsOf
  <2>4. \A i \in 1..n : r(i).epoch = a.epoch /\ r(i).index = i - 1 /\ r(i).value = a.context[i]
    OBVIOUS
  <2>5. \A i, j \in 1..n : r(i).index = r(j).index => i = j
    BY <2>2
  <2> HIDE DEF r
  <2>6. {<<x.epoch, x.index>> : x \in items[s]} = {row[s].epoch} \X {i - 1 : i \in 1..n}
    BY <2>2, <2>3, <2>4
  <2>7. Cardinality(items[s]) = n
    <3> DEFINE f == [i \in 1..n |-> r(i)]
    <3>1. f \in Bijection(1..n, items[s])
      BY <2>3, <2>5 DEF Bijection, Injection, Surjection, IsInjective
    <3>2. ExistsBijection(1..n, items[s])
      BY <3>1 DEF ExistsBijection
    <3>3. IsFiniteSet(1..n) /\ Cardinality(1..n) = n
      BY <2>2, FS_Interval
    <3> QED
      BY <3>2, <3>3, FS_Bijection
  <2>8. ASSUME NEW i \in 1..n
        PROVE  ValueAt(s, i) = a.context[i]
    <3>1. \E x \in items[s] : x.index = i - 1
      BY <2>3, <2>4
    <3>2. \A x \in items[s] : x.index = i - 1 => x = r(i)
      BY <2>3, <2>4, <2>5
    <3> QED
      BY <2>4, <3>1, <3>2 DEF ValueAt
  <2>9. RowsMatch(s)
    BY <2>6, <2>7 DEF RowsMatch
  <2>10. a.context = [i \in 1..n |-> a.context[i]]
    BY <2>2, LenProperties
  <2>11. [i \in 1..n |-> ValueAt(s, i)] = a.context
    BY <2>8, <2>10
  <2>12. Loaded(s) = [sequence |-> row[s].sequence, epoch |-> row[s].epoch, context |-> a.context]
    BY <1>2, <2>9, <2>11 DEF Loaded
  <2>13. a = [sequence |-> a.sequence, epoch |-> a.epoch, context |-> a.context]
    BY <2>1 DEF SavedCheckpoints
  <2> QED
    BY <2>2, <2>12, <2>13
<1> QED
  BY <1>1, <1>2

(* The hint of a load describes the rows it read.                          *)
LEMMA LoadKeeps ==
    ASSUME IInv, NEW k \in Conns, NEW s \in Sessions, Load(k, s)
    PROVE  IInv'
<1>1. PICK context \in Contexts :
        /\ ValuesOf(context) = Loaded(s).context
        /\ Recorded(k, s, [sequence |-> row[s].sequence, epoch |-> row[s].epoch, context |-> context],
                    changed)
  BY DEF Load
<1> DEFINE cp == [sequence |-> row[s].sequence, epoch |-> row[s].epoch, context |-> context]
<1>2. /\ row' = row /\ items' = items /\ parent' = parent /\ accepted' = accepted /\ writes' = writes
      /\ use' = [use EXCEPT ![k] = "done"] /\ row[s] # None
  BY DEF Load, tables
<1>3. TypeOK /\ row[s] \in Headers /\ changed \in SUBSET (Conns \X Sessions)
  BY <1>2 DEF IInv, TypeOK
<1>4. context \in Seq(Items)
  BY CheckpointAssumption DEF Contexts
<1>5. cp \in [sequence : Nat, epoch : Nat, context : Seq(Items)]
  BY <1>3, <1>4 DEF Headers
<1>6. ValuesOf(context) = accepted[s].context
  BY <1>1, LoadedSaved DEF LoadedIsSaved
<1>7. Recorded(k, s, cp, changed)
  BY <1>1
<1>8. cp.sequence = row[s].sequence /\ cp.epoch = row[s].epoch /\ cp.context = context
  OBVIOUS
<1> HIDE DEF cp
<1>9. /\ cache' \in [Conns -> [Sessions -> ContextHints \cup {None}]]
      /\ changed' \subseteq Conns \X Sessions
      /\ \A j \in Conns, t \in Sessions :
           cache'[j][t] # None /\ <<j, t>> \notin changed' =>
             \/ /\ j = k /\ t = s
                /\ cache'[j][t] = [sequence |-> cp.sequence, epoch |-> cp.epoch, items |-> cp.context]
             \/ /\ j # k \/ t # s
                /\ cache'[j][t] = cache[j][t]
                /\ <<j, t>> \notin changed
  BY <1>3, <1>5, <1>7, RecordedHints
<1>10. TypeOK'
  BY <1>2, <1>3, <1>9 DEF TypeOK, Uses
<1>11. RowsInv'
  BY <1>2 DEF IInv, RowsInv, HeaderOf, ItemsOf
<1>12. HintsInv'
  <2> SUFFICES ASSUME NEW j \in Conns, NEW t \in Sessions,
                      cache'[j][t] # None, <<j, t>> \notin changed'
               PROVE  /\ row[t] # None
                      /\ cache'[j][t].sequence = row[t].sequence
                      /\ cache'[j][t].epoch = row[t].epoch
                      /\ ValuesOf(cache'[j][t].items) = accepted[t].context
    BY <1>2 DEF HintsInv, ValuesOf
  <2>1. CASE /\ j = k /\ t = s
             /\ cache'[j][t] = [sequence |-> cp.sequence, epoch |-> cp.epoch, items |-> cp.context]
    BY <1>2, <1>6, <1>8, <2>1
  <2>2. CASE cache'[j][t] = cache[j][t] /\ <<j, t>> \notin changed
    BY <2>2 DEF IInv, HintsInv
  <2> QED
    BY <1>9, <2>1, <2>2
<1> QED
  BY <1>10, <1>11, <1>12 DEF IInv

-----------------------------------------------------------------------------
(* Everything else.                                                        *)

LEMMA DeleteKeeps ==
    ASSUME IInv, NEW k \in Conns, NEW roots \in SUBSET Sessions, DeleteSessions(k, roots)
    PROVE  IInv'
<1> DEFINE gone == SessionTree(roots)
<1>1. /\ Commit(k) /\ Forget(k, gone)
      /\ row' = [s \in Sessions |-> IF s \in gone THEN None ELSE row[s]]
      /\ items' = [s \in Sessions |-> IF s \in gone THEN {} ELSE items[s]]
      /\ parent' = [s \in Sessions |-> IF s \in gone THEN None ELSE parent[s]]
      /\ accepted' = [s \in Sessions |-> IF s \in gone THEN None ELSE accepted[s]]
  BY DEF DeleteSessions
<1> HIDE DEF gone
<1>2. /\ cache' = [cache EXCEPT ![k] = [s \in Sessions |-> IF s \in gone THEN None ELSE cache[k][s]]]
      /\ changed' = Outdated(k) \ ({k} \X gone)
  BY <1>1 DEF Forget
<1>3. TypeOK
  BY DEF IInv
<1>4. TypeOK'
  <2>1. row' \in [Sessions -> Headers \cup {None}] /\ items' \in [Sessions -> SUBSET ItemRows]
    BY <1>1, <1>3 DEF TypeOK
  <2>2. parent' \in [Sessions -> Sessions \cup {None}] /\ accepted' \in [Sessions -> SavedCheckpoints \cup {None}]
    BY <1>1, <1>3 DEF TypeOK
  <2>3. use' \in [Conns -> Uses] /\ writes' \in Nat
    BY <1>1, <1>3 DEF TypeOK, Commit, Uses
  <2>4. changed' \subseteq Conns \X Sessions
    BY <1>2, <1>3, OutdatedHints
  <2>5. cache' \in [Conns -> [Sessions -> ContextHints \cup {None}]]
    BY <1>2, <1>3 DEF TypeOK
  <2> QED
    BY <2>1, <2>2, <2>3, <2>4, <2>5 DEF TypeOK
<1>5. RowsInv'
  <2> SUFFICES ASSUME NEW t \in Sessions
               PROVE  IF row'[t] = None
                      THEN items'[t] = {} /\ accepted'[t] = None /\ parent'[t] = None
                      ELSE /\ accepted'[t] # None
                           /\ row'[t] = HeaderOf(accepted'[t])
                           /\ items'[t] = ItemsOf(accepted'[t])
    BY DEF RowsInv, HeaderOf, ItemsOf
  <2> QED
    BY <1>1 DEF IInv, RowsInv
<1>6. HintsInv'
  <2> SUFFICES ASSUME NEW j \in Conns, NEW t \in Sessions,
                      cache'[j][t] # None, <<j, t>> \notin changed'
               PROVE  /\ row'[t] # None
                      /\ cache'[j][t].sequence = row'[t].sequence
                      /\ cache'[j][t].epoch = row'[t].epoch
                      /\ ValuesOf(cache'[j][t].items) = accepted'[t].context
    BY DEF HintsInv, ValuesOf
  <2>1. cache'[j][t] = cache[j][t] /\ (j = k => t \notin gone)
    BY <1>2, <1>3 DEF TypeOK
  <2>2. <<j, t>> \notin Outdated(k)
    BY <1>2, <2>1
  <2>3. j = k /\ <<j, t>> \notin changed
    BY <1>3, <2>1, <2>2, OutdatedHints
  <2>4. row'[t] = row[t] /\ accepted'[t] = accepted[t]
    BY <1>1, <2>1, <2>3
  <2> QED
    BY <2>1, <2>3, <2>4 DEF IInv, HintsInv
<1> QED
  BY <1>4, <1>5, <1>6 DEF IInv

(* The hints a step leaves describe rows that it leaves.                   *)
LEMMA HintsStep ==
    ASSUME row' = row, accepted' = accepted,
           \A j \in Conns, t \in Sessions :
              cache'[j][t] # None /\ <<j, t>> \notin changed' =>
                 /\ row[t] # None
                 /\ cache'[j][t].sequence = row[t].sequence
                 /\ cache'[j][t].epoch = row[t].epoch
                 /\ [i \in DOMAIN cache'[j][t].items |-> Value[cache'[j][t].items[i]]] = accepted[t].context
    PROVE  HintsInv'
BY Zenon DEF HintsInv, ValuesOf

(* Steps that leave the tables alone, and give up hints at most.           *)
LEMMA TablesUnchanged ==
    ASSUME IInv, UNCHANGED <<tables, accepted>>,
           use' \in [Conns -> Uses], writes' \in Nat,
           cache' \in [Conns -> [Sessions -> ContextHints \cup {None}]],
           changed' \subseteq Conns \X Sessions,
           \A j \in Conns, t \in Sessions :
              cache'[j][t] # None /\ <<j, t>> \notin changed' =>
                 cache'[j][t] = cache[j][t] /\ <<j, t>> \notin changed
    PROVE  IInv'
<1>1. row' = row /\ items' = items /\ parent' = parent /\ accepted' = accepted
  BY DEF tables
<1>2. TypeOK'
  BY <1>1 DEF IInv, TypeOK
<1>3. RowsInv'
  BY <1>1 DEF IInv, RowsInv, HeaderOf, ItemsOf
<1>4. HintsInv'
  <2>1. ASSUME NEW j \in Conns, NEW t \in Sessions,
               cache'[j][t] # None, <<j, t>> \notin changed'
        PROVE  /\ row[t] # None
               /\ cache'[j][t].sequence = row[t].sequence
               /\ cache'[j][t].epoch = row[t].epoch
               /\ [i \in DOMAIN cache'[j][t].items |-> Value[cache'[j][t].items[i]]] = accepted[t].context
    <3>1. cache[j][t] # None /\ <<j, t>> \notin changed /\ cache'[j][t] = cache[j][t]
      BY <2>1
    <3>2. HintsInv
      BY DEF IInv
    <3> QED
      BY <3>1, <3>2 DEF HintsInv, ValuesOf
  <2> QED
    BY <1>1, <2>1, HintsStep
<1> QED
  BY <1>2, <1>3, <1>4 DEF IInv

LEMMA PoolKeeps ==
    ASSUME IInv, NEW k \in Conns, Take(k) \/ PutBack(k) \/ OtherWrite(k) \/ NoWrite(k)
    PROVE  IInv'
<1>1. TypeOK
  BY DEF IInv
<1>2. CASE Take(k) \/ NoWrite(k)
  <2>1. /\ UNCHANGED <<tables, accepted>> /\ cache' = cache /\ changed' = changed /\ writes' = writes
        /\ use' \in [Conns -> Uses]
    BY <1>1, <1>2 DEF Take, NoWrite, TypeOK, Uses
  <2> QED
    BY <1>1, <2>1, TablesUnchanged DEF TypeOK
<1>3. CASE PutBack(k)
  <2>1. /\ UNCHANGED <<tables, accepted>> /\ writes' = writes
        /\ use' \in [Conns -> Uses]
    BY <1>1, <1>3 DEF PutBack, TypeOK, Uses
  <2>2. CASE cache' = cache /\ changed' = changed
    BY <1>1, <2>1, <2>2, TablesUnchanged DEF TypeOK
  <2>3. CASE Closed(k)
    <3>1. /\ cache' = [cache EXCEPT ![k] = [s \in Sessions |-> None]]
          /\ changed' = changed \ ({k} \X Sessions)
      BY <2>3 DEF Closed
    <3>2. /\ cache' \in [Conns -> [Sessions -> ContextHints \cup {None}]]
          /\ changed' \subseteq Conns \X Sessions
      BY <1>1, <3>1 DEF TypeOK
    <3>3. \A j \in Conns, t \in Sessions :
            cache'[j][t] # None /\ <<j, t>> \notin changed' =>
               cache'[j][t] = cache[j][t] /\ <<j, t>> \notin changed
      BY <1>1, <3>1 DEF TypeOK
    <3> QED
      BY <1>1, <2>1, <3>2, <3>3, TablesUnchanged DEF TypeOK
  <2> QED
    BY <1>3, <2>2, <2>3 DEF PutBack
<1>4. CASE OtherWrite(k)
  <2>1. /\ UNCHANGED <<tables, accepted>> /\ cache' = cache /\ changed' = Outdated(k)
        /\ use' \in [Conns -> Uses] /\ writes' \in Nat
    BY <1>1, <1>4 DEF OtherWrite, Commit, TypeOK, Uses
  <2>2. /\ changed' \subseteq Conns \X Sessions
        /\ \A j \in Conns, t \in Sessions :
             cache[j][t] # None /\ <<j, t>> \notin changed' => <<j, t>> \notin changed
    BY <1>1, <2>1, OutdatedHints
  <2> QED
    BY <1>1, <2>1, <2>2, TablesUnchanged DEF TypeOK
<1> QED
  BY <1>2, <1>3, <1>4

LEMMA CrashKeeps ==
    ASSUME IInv, Crash
    PROVE  IInv'
<1>1. /\ UNCHANGED <<tables, accepted>> /\ writes' = writes /\ changed' = {}
      /\ cache' = [k \in Conns |-> [s \in Sessions |-> None]]
      /\ use' \in [Conns -> Uses]
  BY DEF Crash, Uses
<1>2. \A j \in Conns, t \in Sessions : cache'[j][t] = None
  BY <1>1
<1>3. cache' \in [Conns -> [Sessions -> ContextHints \cup {None}]]
  BY <1>1
<1>4. writes' \in Nat
  BY <1>1 DEF IInv, TypeOK
<1> QED
  BY <1>1, <1>2, <1>3, <1>4, TablesUnchanged

LEMMA NextKeeps == IInv /\ [Next]_vars => IInv'
<1> SUFFICES ASSUME IInv, [Next]_vars PROVE IInv'
  OBVIOUS
<1>1. CASE Crash
  BY <1>1, CrashKeeps
<1>2. ASSUME NEW k \in Conns, Take(k) \/ PutBack(k) \/ OtherWrite(k) \/ NoWrite(k)
      PROVE  IInv'
  BY <1>2, PoolKeeps
<1>3. ASSUME NEW k \in Conns, NEW s \in Sessions, Load(k, s)
      PROVE  IInv'
  BY <1>3, LoadKeeps
<1>4. ASSUME NEW k \in Conns, NEW s \in Sessions, NEW cp \in Checkpoints, Save(k, s, cp)
      PROVE  IInv'
  BY <1>4, SaveKeeps
<1>5. ASSUME NEW k \in Conns, NEW s \in Sessions, NEW p \in Sessions, NEW cp \in Checkpoints,
             Fork(k, s, p, cp)
      PROVE  IInv'
  BY <1>5, ForkKeeps
<1>6. ASSUME NEW k \in Conns, NEW roots \in SUBSET Sessions, DeleteSessions(k, roots)
      PROVE  IInv'
  BY <1>6, DeleteKeeps
<1>7. CASE UNCHANGED vars
  <2>1. /\ UNCHANGED <<tables, accepted>> /\ cache' = cache /\ changed' = changed
        /\ use' = use /\ writes' = writes
    BY <1>7 DEF vars, tables
  <2> QED
    BY <2>1, TablesUnchanged DEF IInv, TypeOK
<1> QED
  BY <1>1, <1>2, <1>3, <1>4, <1>5, <1>6, <1>7 DEF Next, Operation

-----------------------------------------------------------------------------
(* The invariant is one of the specification.                              *)
THEOREM Inductive == Spec => []IInv
<1> QED
  BY InitInv, NextKeeps, PTL DEF Spec

(* Rows, headers, hints and acknowledged checkpoints have their types.     *)
THEOREM TypeCorrect == Spec => []TypeOK
<1>1. IInv => TypeOK
  BY DEF IInv
<1> QED
  BY <1>1, Inductive, PTL

(* A load returns the checkpoint last acknowledged, for any number of      *)
(* connections and any sequence of saves, forks, deletions and crashes.    *)
THEOREM LoadSafety == Spec => []LoadedIsSaved
<1>1. IInv => LoadedIsSaved
  BY LoadedSaved
<1> QED
  BY <1>1, Inductive, PTL

(* A hint that prepare_append would trust names the stored values.         *)
THEOREM HintSafety == Spec => []HintsAreTrue
<1>1. ASSUME IInv PROVE HintsAreTrue
  <2> SUFFICES ASSUME NEW k \in Conns, NEW s \in Sessions, row[s] # None, Warm(k, s, row[s]),
                      NEW i \in 1..row[s].count
               PROVE  [epoch |-> row[s].epoch, index |-> i - 1,
                       value |-> Value[cache[k][s].items[i]]] \in items[s]
    BY DEF HintsAreTrue
  <2> DEFINE a == accepted[s]
  <2>1. row[s] \in Headers /\ a \in SavedCheckpoints /\ row[s] = HeaderOf(a) /\ items[s] = ItemsOf(a)
    BY <1>1 DEF IInv, TypeOK, RowsInv
  <2>2. row[s].count = Len(a.context) /\ row[s].epoch = a.epoch
    BY <2>1 DEF HeaderOf
  <2>3. /\ cache[k][s] \in ContextHints
        /\ ValuesOf(cache[k][s].items) = a.context
        /\ Len(cache[k][s].items) = row[s].count
    BY <1>1 DEF Warm, IInv, TypeOK, HintsInv
  <2>4. a.context[i] = Value[cache[k][s].items[i]]
    BY <2>3, ValuesOfType DEF ContextHints
  <2> QED
    BY <2>1, <2>2, <2>4 DEF ItemsOf
<1> QED
  BY <1>1, Inductive, PTL

-----------------------------------------------------------------------------
(* The refinement.                                                         *)

(* A save that is accepted follows the checkpoint before it.               *)
LEMMA SaveRefines ==
    ASSUME IInv, NEW k \in Conns, NEW s \in Sessions, NEW cp \in Checkpoints, Save(k, s, cp)
    PROVE  History!Save(s)
<1>1. cp \in [sequence : Nat, epoch : Nat, context : Seq(Items)] /\ Len(cp.context) \in Nat
  BY CheckpointAssumption, LenProperties
<1>2. Appends(k, s, cp) /\ accepted' = [accepted EXCEPT ![s] = Saved(cp)] /\ parent' = parent
  BY DEF Save
<1>3. accepted \in [Sessions -> SavedCheckpoints \cup {None}]
  BY DEF IInv, TypeOK
<1>4. accepted'[s] = Saved(cp) /\ \A t \in Sessions \ {s} : accepted'[t] = accepted[t]
  BY <1>2, <1>3
<1>5. Saved(cp) # None
  BY <1>1, SavedType
<1>6. ASSUME accepted[s] # None
      PROVE  History!Follows(accepted[s], Saved(cp))
  <2> DEFINE a == accepted[s]
  <2>1. /\ row[s] # None /\ row[s] \in Headers /\ a \in SavedCheckpoints
        /\ row[s] = HeaderOf(a)
    BY <1>6 DEF IInv, TypeOK, RowsInv
  <2>2. /\ row[s].sequence = a.sequence /\ row[s].epoch = a.epoch /\ row[s].count = Len(a.context)
        /\ a.epoch \in Nat /\ a.sequence \in Nat /\ a.context \in Seq(Values) /\ row[s].count \in Nat
    BY <2>1 DEF HeaderOf, SavedCheckpoints, Headers
  <2>3. /\ cp.sequence > a.sequence /\ cp.epoch >= a.epoch
        /\ cp.epoch = a.epoch => Len(cp.context) >= Len(a.context) /\ PrefixVerified(k, s, cp)
    BY <1>1, <1>2, <2>1, <2>2 DEF Appends
  <2>4. Saved(cp).sequence = cp.sequence /\ Saved(cp).epoch = cp.epoch /\ Saved(cp).context = ValuesOf(cp.context)
    BY <1>1, SavedType
  <2>5. ASSUME cp.epoch = a.epoch
        PROVE  History!IsPrefix(a.context, ValuesOf(cp.context))
    <3> DEFINE n == Len(a.context)
               v == ValuesOf(cp.context)
    <3>1. \A i \in 1..n : Value[cp.context[i]] = a.context[i]
      BY <1>1, <2>1, <2>2, <2>3, <2>5, PrefixStored
    <3>2. v \in Seq(Values) /\ Len(v) = Len(cp.context) /\ \A i \in 1..Len(cp.context) : v[i] = Value[cp.context[i]]
      BY <1>1, ValuesOfType
    <3>3. n \in Nat /\ n <= Len(v)
      BY <1>1, <2>2, <2>3, <2>5, <3>2
    <3>4. \A i \in 1..n : v[i] = a.context[i] /\ v[i] \in Values
      BY <1>1, <2>2, <3>1, <3>2, <3>3, ElementOfSeq
    <3> HIDE DEF v
    <3>5. /\ SubSeq(v, 1, n) \in Seq(Values) /\ Len(SubSeq(v, 1, n)) = n
          /\ \A i \in 1..n : SubSeq(v, 1, n)[i] = v[i]
      BY <3>3, <3>4, SubSeqProperties
    <3>6. SubSeq(a.context, 1, n) = a.context
      BY <2>2, SubSeqFull
    <3>7. SubSeq(v, 1, n) = a.context
      BY <2>2, <3>3, <3>4, <3>5, SeqEqual
    <3> QED
      BY <3>3, <3>6, <3>7 DEF History!IsPrefix, v
  <2> QED
    BY <2>3, <2>4, <2>5 DEF History!Follows
<1> QED
  BY <1>2, <1>4, <1>5, <1>6 DEF History!Save

LEMMA ForkRefines ==
    ASSUME IInv, NEW k \in Conns, NEW s \in Sessions, NEW p \in Sessions, NEW cp \in Checkpoints,
           Fork(k, s, p, cp)
    PROVE  p \in Sessions \ {s} /\ History!Fork(s, p)
<1>1. cp \in [sequence : Nat, epoch : Nat, context : Seq(Items)]
  BY CheckpointAssumption
<1>2. /\ p # s /\ row[p] # None /\ row[s] = None /\ cp.sequence = 0
      /\ accepted' = [accepted EXCEPT ![s] = Saved(cp)] /\ parent' = [parent EXCEPT ![s] = p]
  BY DEF Fork
<1>3. accepted[s] = None /\ accepted[p] # None
  BY <1>2 DEF IInv, RowsInv
<1>4. accepted \in [Sessions -> SavedCheckpoints \cup {None}]
  BY DEF IInv, TypeOK
<1>5. Saved(cp) # None /\ Saved(cp).sequence = 0
  BY <1>1, <1>2, SavedType
<1>6. accepted'[s] = Saved(cp) /\ \A t \in Sessions \ {s} : accepted'[t] = accepted[t]
  BY <1>2, <1>4
<1> QED
  BY <1>2, <1>3, <1>5, <1>6 DEF History!Fork

(* What the recursive query finds is closed under children.                *)
LEMMA DeleteRefines ==
    ASSUME IInv, NEW k \in Conns, NEW roots \in SUBSET Sessions, DeleteSessions(k, roots)
    PROVE  SessionTree(roots) \in SUBSET Sessions /\ History!Delete(SessionTree(roots))
<1> DEFINE gone == SessionTree(roots)
<1>1. /\ parent' = [s \in Sessions |-> IF s \in gone THEN None ELSE parent[s]]
      /\ accepted' = [s \in Sessions |-> IF s \in gone THEN None ELSE accepted[s]]
  BY DEF DeleteSessions
<1>2. gone \subseteq Sessions /\ \A s \in gone : row[s] # None
  BY DEF SessionTree
<1>3. \A s \in gone : accepted[s] # None
  BY <1>2 DEF IInv, RowsInv
<1>4. ASSUME NEW s \in Sessions, parent[s] \in gone
      PROVE  s \in gone
  <2>1. row[s] # None
    BY <1>2, <1>4, ConnsAssumption DEF IInv, RowsInv
  <2>2. ASSUME NEW T \in SUBSET Sessions, roots \subseteq T,
               \A c \in Sessions : parent[c] \in T => c \in T
        PROVE  s \in T
    BY <1>4, <2>2 DEF SessionTree
  <2> QED
    BY <2>1, <2>2 DEF SessionTree
<1> HIDE DEF gone
<1>5. History!Delete(gone)
  BY <1>1, <1>3, <1>4 DEF History!Delete
<1> QED
  BY <1>2, <1>5 DEF gone

(* The store implements CheckpointHistory: each commit of a checkpoint is  *)
(* a step of the abstract store and every other step leaves it alone.      *)
THEOREM Refinement == Spec => StoreRefined
<1>1. Init => History!Init
  BY DEF Init, History!Init
<1>2. IInv /\ [Next]_vars => [History!Next]_<<accepted, parent>>
  <2> SUFFICES ASSUME IInv, [Next]_vars
               PROVE  History!Next \/ (accepted' = accepted /\ parent' = parent)
    OBVIOUS
  <2>1. CASE Crash \/ UNCHANGED vars
    BY <2>1 DEF Crash, vars, tables
  <2>2. ASSUME NEW k \in Conns, Take(k) \/ PutBack(k) \/ OtherWrite(k) \/ NoWrite(k)
        PROVE  accepted' = accepted /\ parent' = parent
    BY <2>2 DEF Take, PutBack, OtherWrite, NoWrite, tables
  <2>3. ASSUME NEW k \in Conns, NEW s \in Sessions, Load(k, s)
        PROVE  accepted' = accepted /\ parent' = parent
    BY <2>3 DEF Load, tables
  <2>4. ASSUME NEW k \in Conns, NEW s \in Sessions, NEW cp \in Checkpoints, Save(k, s, cp)
        PROVE  History!Next
    BY <2>4, SaveRefines DEF History!Next
  <2>5. ASSUME NEW k \in Conns, NEW s \in Sessions, NEW p \in Sessions, NEW cp \in Checkpoints,
               Fork(k, s, p, cp)
        PROVE  History!Next
    BY <2>5, ForkRefines DEF History!Next
  <2>6. ASSUME NEW k \in Conns, NEW roots \in SUBSET Sessions, DeleteSessions(k, roots)
        PROVE  History!Next
    BY <2>6, DeleteRefines DEF History!Next
  <2> QED
    BY <2>1, <2>2, <2>3, <2>4, <2>5, <2>6 DEF Next, Operation
<1> QED
  BY <1>1, <1>2, Inductive, PTL DEF Spec, StoreRefined, History!Spec
=============================================================================
