------------------------ MODULE AgentRuntime_proofs -------------------------
(***************************************************************************)
(* The runner of a session for every set of messages and calls, every      *)
(* capacity of its queues and every number of turns, crashes and faults.   *)
(*                                                                         *)
(* The inductive invariant IInv says of the checkpoint in memory and the   *)
(* one on disk that both are good and how far they may differ (Agree), and *)
(* of every place of the runner what it has open there (At); which calls   *)
(* may still take effect and which already did (EffectsAt); and that       *)
(* messages, inbox and journal tell one story. A step is shown to be a     *)
(* Step: it keeps the first parts, and to messages and turns it does one   *)
(* of a few things (MessageStep, TurnStep). From these alone the other     *)
(* parts, the properties and the refinement of MessageDelivery follow.     *)
(*                                                                         *)
(* Before it comes what the operations on the queue and on a checkpoint    *)
(* keep: first the operators of MessageQueue and Checkpoint (selecting     *)
(* entries of a sequence, extending a history, promoting and replacing     *)
(* queued messages); then when a checkpoint is good, which is more than    *)
(* validate_checkpoint asks (src/src/backend/checkpoint/mod.rs), and that  *)
(* each change the runner makes to a checkpoint keeps it so.               *)
(***************************************************************************)
EXTENDS AgentRuntime, FiniteSetTheorems, SequenceTheorems, WellFoundedInduction, TLAPS

-----------------------------------------------------------------------------
(* Operators on sequences, queues and histories.                           *)

(* A set of naturals that is not empty has a least member.                 *)
LEMMA LeastMember ==
    ASSUME NEW T \in SUBSET Nat, T # {}
    PROVE  \E i \in T : \A j \in T : i <= j
<1>1. PICK i \in T : \A j \in T : <<j, i>> \notin OpToRel(<, Nat)
  BY NatLessThanWellFounded, WFMin, Zenon
<1>2. \A j \in T : j \in Nat /\ i \in Nat /\ ~(j < i)
  BY <1>1, Zenon DEF OpToRel
<1>3. QED BY <1>2

(* Each number up to the size of a set of positions is the rank of exactly *)
(* one of them.                                                            *)
LEMMA Ranks ==
    ASSUME NEW n \in Nat, NEW I \in SUBSET (1..n)
    PROVE  /\ IsFiniteSet(I) /\ Cardinality(I) \in Nat
           /\ \A i \in I : Cardinality({j \in I : j <= i}) \in 1..Cardinality(I)
           /\ \A k \in 1..Cardinality(I) : \E i \in I : Cardinality({j \in I : j <= i}) = k
           /\ \A i, h \in I : i < h => Cardinality({j \in I : j <= i}) < Cardinality({j \in I : j <= h})
<1> DEFINE Upto(i) == {j \in I : j <= i}
           Rank(i) == Cardinality(Upto(i))
<1>0. \A j \in I : j \in Nat /\ j >= 1 /\ j <= n
  OBVIOUS
<1>1. IsFiniteSet(I) /\ Cardinality(I) \in Nat
  <2>1. IsFiniteSet(1..n)
    BY FS_Interval
  <2>2. QED BY <2>1, FS_Subset, FS_CardinalityType
<1>2. \A i \in 0..n : IsFiniteSet(Upto(i)) /\ Rank(i) \in Nat /\ Rank(i) <= Cardinality(I)
  <2>1. \A i \in 0..n : Upto(i) \in SUBSET I
    OBVIOUS
  <2>2. QED BY <1>1, <2>1, FS_Subset, FS_CardinalityType
<1>3. Rank(0) = 0
  <2>1. \A j \in I : ~(j <= 0)
    BY <1>0
  <2>2. Upto(0) = {}
    BY <2>1, Zenon
  <2>3. QED BY <2>2, FS_EmptySet
<1>4. Rank(n) = Cardinality(I)
  <2>1. \A j \in I : j <= n
    BY <1>0
  <2>2. Upto(n) = I
    BY <2>1, Zenon
  <2>3. QED BY <2>2
<1>5. ASSUME NEW i \in 0..n, i + 1 \in 0..n
      PROVE  Rank(i + 1) = IF i + 1 \in I THEN Rank(i) + 1 ELSE Rank(i)
  <2>1. CASE i + 1 \in I
    <3>1. (\A j \in I : j <= i + 1 <=> j <= i \/ j = i + 1) /\ ~(i + 1 <= i)
      BY <1>0
    <3>4. Upto(i + 1) = Upto(i) \cup {i + 1}
      BY <2>1, <3>1, Zenon
    <3>2. i + 1 \notin Upto(i)
      BY <3>1, Zenon
    <3>3. QED BY <1>2, <2>1, <3>4, <3>2, FS_AddElement
  <2>2. CASE i + 1 \notin I
    <3>1. \A j \in I : j <= i + 1 <=> j <= i
      BY <1>0, <2>2
    <3>2. Upto(i + 1) = Upto(i)
      BY <3>1, Zenon
    <3>3. QED BY <2>2, <3>2
  <2>3. QED BY <2>1, <2>2
<1>6. ASSUME NEW i \in I, NEW h \in I, i < h
      PROVE  Rank(i) < Rank(h)
  <2>1. /\ \A j \in I : j <= i => j <= h
        /\ h <= h /\ ~(h <= i) /\ h \in 0..n /\ i \in 0..n
    BY <1>0, <1>6
  <2>2. /\ Upto(i) \in SUBSET Upto(h)
        /\ h \in Upto(h) /\ h \notin Upto(i)
    BY <2>1, Zenon
  <2>3. /\ IsFiniteSet(Upto(h)) /\ Rank(h) \in Nat /\ Rank(i) \in Nat
    BY <1>2, <2>1
  <2> HIDE DEF Upto
  <2>4. Rank(i) <= Rank(h) /\ (Rank(i) = Rank(h) => Upto(i) = Upto(h))
    BY <2>2, <2>3, FS_Subset
  <2>5. QED BY <2>2, <2>3, <2>4
<1>7. ASSUME NEW i \in I PROVE Rank(i) >= 1
  <2>1. i \in 0..n /\ i - 1 \in 0..n /\ (i - 1) + 1 = i
    OBVIOUS
  <2>2. Rank(i) = Rank(i - 1) + 1
    BY <1>5, <2>1
  <2>3. Rank(i - 1) \in Nat
    BY <1>2, <2>1
  <2>4. QED BY <2>2, <2>3
<1>8. ASSUME NEW k \in 1..Cardinality(I)
      PROVE  \E i \in I : Rank(i) = k
  <2> DEFINE T == {i \in 0..n : Rank(i) >= k}
  <2>1. n \in T
    BY <1>4, <1>1
  <2>2. PICK i \in T : \A j \in T : i <= j
    <3> HIDE DEF Rank
    <3>1. T \in SUBSET Nat /\ T # {}
      BY <2>1
    <3> HIDE DEF T
    <3>2. QED BY <3>1, LeastMember
  <2>3. i \in 0..n /\ Rank(i) >= k /\ i # 0
    <3> HIDE DEF Rank
    <3>1. QED BY <1>3, <2>2
  <2>4. i - 1 \in 0..n /\ (i - 1) + 1 = i /\ i - 1 \notin T
    <3> HIDE DEF Rank
    <3>1. i - 1 \in 0..n /\ (i - 1) + 1 = i /\ ~(i <= i - 1)
      BY <2>3
    <3>2. QED BY <2>2, <3>1
  <2>5. Rank(i - 1) < k /\ Rank(i - 1) \in Nat /\ Rank(i) \in Nat
    <3>1. Rank(i - 1) \in Nat /\ Rank(i) \in Nat
      BY <1>2, <2>3, <2>4
    <3> HIDE DEF Rank
    <3>2. QED BY <2>4, <3>1
  <2>6. Rank(i) = IF i \in I THEN Rank(i - 1) + 1 ELSE Rank(i - 1)
    BY <1>5, <2>4
  <2> HIDE DEF Rank
  <2>7. i \in I /\ Rank(i) = k
    BY <2>3, <2>5, <2>6
  <2>8. QED BY <2>7
<1>9. QED BY <1>1, <1>2, <1>6, <1>7, <1>8

(* Entries(s, I) is a sequence of the entries at I, each as often as I has *)
(* positions of it.                                                        *)
LEMMA EntriesProperties ==
    ASSUME NEW T, NEW s \in Seq(T), NEW I \in SUBSET (DOMAIN s)
    PROVE  /\ Entries(s, I) \in Seq(T)
           /\ Len(Entries(s, I)) = Cardinality(I)
           /\ \A x : Contains(Entries(s, I), x) <=> \E i \in I : s[i] = x
           /\ Entries(s, I) = <<>> <=> I = {}
           /\ IsInjective(s) => IsInjective(Entries(s, I))
<1> DEFINE Rank(i) == Cardinality({j \in I : j <= i})
           P(k) == CHOOSE i \in I : Rank(i) = k
           t == Entries(s, I)
<1>1. /\ DOMAIN s = 1..Len(s) /\ Len(s) \in Nat /\ I \in SUBSET (1..Len(s))
      /\ \A i \in I : s[i] \in T /\ i \in Nat
  OBVIOUS
<1>2. /\ IsFiniteSet(I) /\ Cardinality(I) \in Nat
      /\ \A i \in I : Rank(i) \in 1..Cardinality(I)
      /\ \A k \in 1..Cardinality(I) : \E i \in I : Rank(i) = k
      /\ \A i, h \in I : i < h => Rank(i) < Rank(h)
  BY <1>1, Ranks
<1>3. t = [k \in 1..Cardinality(I) |-> s[P(k)]]
  BY DEF Entries
<1> HIDE DEF Rank, t
<1>4. \A k \in 1..Cardinality(I) : P(k) \in I /\ Rank(P(k)) = k
  BY <1>2
<1>5. \A i \in I : Rank(i) \in 1..Cardinality(I) /\ P(Rank(i)) = i
  <2> SUFFICES ASSUME NEW i \in I PROVE Rank(i) \in 1..Cardinality(I) /\ P(Rank(i)) = i
    OBVIOUS
  <2>1. Rank(i) \in 1..Cardinality(I)
    BY <1>2
  <2>2. P(Rank(i)) \in I /\ Rank(P(Rank(i))) = Rank(i)
    BY <1>4, <2>1
  <2> HIDE DEF P
  <2>3. ~(P(Rank(i)) < i) /\ ~(i < P(Rank(i))) /\ i \in Nat /\ P(Rank(i)) \in Nat
    BY <1>1, <1>2, <2>1, <2>2
  <2>4. QED BY <2>1, <2>3
<1> HIDE DEF P
<1>6. t \in Seq(T) /\ Len(t) = Cardinality(I) /\ DOMAIN t = 1..Cardinality(I)
  <2>1. \A k \in 1..Cardinality(I) : s[P(k)] \in T
    BY <1>1, <1>4
  <2>2. t \in [1..Cardinality(I) -> T]
    BY <1>3, <2>1
  <2>3. QED BY <1>2, <2>2
<1>7. \A x : Contains(t, x) <=> \E i \in I : s[i] = x
  BY <1>3, <1>4, <1>5, <1>6 DEF Contains
<1>8. t = <<>> <=> I = {}
  BY <1>2, <1>6, FS_EmptySet
<1>9. ASSUME IsInjective(s) PROVE IsInjective(t)
  <2> SUFFICES ASSUME NEW k \in 1..Cardinality(I), NEW h \in 1..Cardinality(I), t[k] = t[h]
               PROVE  k = h
    BY <1>6 DEF IsInjective
  <2>1. s[P(k)] = s[P(h)] /\ P(k) \in DOMAIN s /\ P(h) \in DOMAIN s
    BY <1>3, <1>4
  <2>2. P(k) = P(h)
    BY <1>9, <2>1 DEF IsInjective
  <2>3. QED BY <1>4, <2>2
<1>10. QED BY <1>6, <1>7, <1>8, <1>9 DEF t

-----------------------------------------------------------------------------
(* Sequences as collections of entries.                                    *)

(* Contains is membership in the set of the entries.                       *)
LEMMA ContainsIsToSet ==
    ASSUME NEW T, NEW s \in Seq(T), NEW x
    PROVE  (x \in ToSet(s) <=> Contains(s, x)) /\ (Contains(s, x) => x \in T)
BY DEF ToSet, Contains

(* Exactly the empty sequence contains nothing.                            *)
LEMMA ContainsNothing ==
    ASSUME NEW T, NEW s \in Seq(T)
    PROVE  /\ \A x : ~Contains(<<>>, x)
           /\ s = <<>> <=> \A x \in T : ~Contains(s, x)
<1>1. \A x : ~Contains(<<>>, x)
  BY DEF Contains
<1>2. s # <<>> => Len(s) \in Nat /\ Len(s) # 0 /\ s[1] \in T
  OBVIOUS
<1>3. s # <<>> => Contains(s, s[1])
  BY <1>2 DEF Contains
<1>4. QED BY <1>1, <1>2, <1>3

(* What a concatenation contains; it is injective if its parts are         *)
(* injective and share nothing.                                            *)
LEMMA ConcatContains ==
    ASSUME NEW T, NEW a \in Seq(T), NEW b \in Seq(T)
    PROVE  /\ a \o b \in Seq(T)
           /\ \A x : Contains(a \o b, x) <=> Contains(a, x) \/ Contains(b, x)
           /\ IsInjective(a) /\ IsInjective(b) /\ (\A x \in T : ~(Contains(a, x) /\ Contains(b, x)))
                => IsInjective(a \o b)
<1>1. /\ a \o b \in Seq(T) /\ Len(a) \in Nat /\ Len(b) \in Nat
      /\ Len(a \o b) = Len(a) + Len(b)
      /\ DOMAIN (a \o b) = 1..(Len(a) + Len(b)) /\ DOMAIN a = 1..Len(a) /\ DOMAIN b = 1..Len(b)
      /\ \A i \in 1..(Len(a) + Len(b)) : (a \o b)[i] = IF i <= Len(a) THEN a[i] ELSE b[i - Len(a)]
  OBVIOUS
<1>2. ASSUME NEW x, Contains(a \o b, x)
      PROVE  Contains(a, x) \/ Contains(b, x)
  <2>1. PICK i \in 1..(Len(a) + Len(b)) : (a \o b)[i] = x
    BY <1>1, <1>2 DEF Contains
  <2>2. i > Len(a) => i - Len(a) \in 1..Len(b)
    BY <1>1
  <2>3. QED BY <1>1, <2>1, <2>2 DEF Contains
<1>3. ASSUME NEW x, Contains(a, x)
      PROVE  Contains(a \o b, x)
  BY <1>1, <1>3 DEF Contains
<1>4. ASSUME NEW x, Contains(b, x)
      PROVE  Contains(a \o b, x)
  <2>1. PICK i \in 1..Len(b) : b[i] = x
    BY <1>4 DEF Contains
  <2>2. /\ i + Len(a) \in 1..(Len(a) + Len(b)) /\ ~(i + Len(a) <= Len(a)) /\ (i + Len(a)) - Len(a) = i
    BY <1>1
  <2>3. QED BY <1>1, <2>1, <2>2 DEF Contains
<1>5. ASSUME IsInjective(a), IsInjective(b), \A x \in T : ~(Contains(a, x) /\ Contains(b, x))
      PROVE  IsInjective(a \o b)
  <2> SUFFICES ASSUME NEW i \in 1..(Len(a) + Len(b)), NEW j \in 1..(Len(a) + Len(b)),
                      (a \o b)[i] = (a \o b)[j]
               PROVE  i = j
    BY <1>1 DEF IsInjective
  <2>1. CASE i <= Len(a) /\ j <= Len(a)
    BY <1>1, <1>5, <2>1 DEF IsInjective
  <2>2. CASE i > Len(a) /\ j > Len(a)
    <3>1. i - Len(a) \in DOMAIN b /\ j - Len(a) \in DOMAIN b /\ b[i - Len(a)] = b[j - Len(a)]
      BY <1>1, <2>2
    <3>2. i - Len(a) = j - Len(a)
      BY <1>5, <3>1 DEF IsInjective
    <3>3. QED BY <1>1, <3>2
  <2>3. ASSUME NEW k \in 1..Len(a), NEW h \in 1..Len(b) PROVE a[k] # b[h]
    <3>1. a[k] \in T /\ Contains(a, a[k])
      BY DEF Contains
    <3>2. a[k] = b[h] => Contains(b, a[k])
      BY DEF Contains
    <3>3. QED BY <1>5, <3>1, <3>2
  <2>4. CASE i <= Len(a) /\ j > Len(a)
    <3>1. i \in 1..Len(a) /\ j - Len(a) \in 1..Len(b) /\ a[i] = b[j - Len(a)]
      BY <1>1, <2>4
    <3>2. QED BY <2>3, <3>1
  <2>5. CASE i > Len(a) /\ j <= Len(a)
    <3>1. j \in 1..Len(a) /\ i - Len(a) \in 1..Len(b) /\ a[j] = b[i - Len(a)]
      BY <1>1, <2>5
    <3>2. QED BY <2>3, <3>1
  <2>6. QED BY <1>1, <2>1, <2>2, <2>4, <2>5
<1>6. QED BY <1>1, <1>2, <1>3, <1>4, <1>5

(* The same for one more entry.                                            *)
LEMMA AppendContains ==
    ASSUME NEW T, NEW a \in Seq(T), NEW e \in T
    PROVE  /\ Append(a, e) \in Seq(T) /\ Append(a, e) # <<>>
           /\ \A x : Contains(Append(a, e), x) <=> Contains(a, x) \/ x = e
           /\ IsInjective(a) /\ ~Contains(a, e) => IsInjective(Append(a, e))
<1>1. Append(a, e) = a \o <<e>> /\ <<e>> \in Seq(T)
  BY AppendIsConcat
<1>2. IsInjective(<<e>>) /\ \A x : Contains(<<e>>, x) <=> x = e
  BY DEF IsInjective, Contains
<1>3. Append(a, e) # <<>>
  OBVIOUS
<1>4. ~Contains(a, e) => \A x \in T : ~(Contains(a, x) /\ Contains(<<e>>, x))
  BY <1>2
<1>5. /\ a \o <<e>> \in Seq(T)
      /\ \A x : Contains(a \o <<e>>, x) <=> Contains(a, x) \/ Contains(<<e>>, x)
      /\ IsInjective(a) /\ IsInjective(<<e>>) /\ (\A x \in T : ~(Contains(a, x) /\ Contains(<<e>>, x)))
           => IsInjective(a \o <<e>>)
  BY <1>1, ConcatContains
<1>6. QED BY <1>1, <1>2, <1>3, <1>4, <1>5

-----------------------------------------------------------------------------
(* The history of a session.                                               *)

(* Every output comes after its call.                                      *)
Ordered(context) ==
    \A j \in DOMAIN context : \A c : context[j] = <<"output", c>> =>
        \E i \in 1..(j - 1) : context[i] = <<"call", c>>

(* The history items of a sequence of calls, and of their results.         *)
LEMMA ItemsProperties ==
    ASSUME NEW X, NEW calls \in Seq(X)
    PROVE  /\ CallItems(calls) \in Seq(ContextItems(X)) /\ OutputItems(calls) \in Seq(ContextItems(X))
           /\ \A k, x : Contains(CallItems(calls), <<k, x>>) <=> k = "call" /\ Contains(calls, x)
           /\ \A k, x : Contains(OutputItems(calls), <<k, x>>) <=> k = "output" /\ Contains(calls, x)
           /\ IsInjective(calls) => IsInjective(CallItems(calls)) /\ IsInjective(OutputItems(calls))
<1>1. /\ Len(calls) \in Nat /\ DOMAIN calls = 1..Len(calls)
      /\ \A i \in 1..Len(calls) : calls[i] \in X
  OBVIOUS
<1>2. /\ CallItems(calls) \in [1..Len(calls) -> ContextItems(X)]
      /\ OutputItems(calls) \in [1..Len(calls) -> ContextItems(X)]
  BY <1>1 DEF CallItems, OutputItems, ContextItems
<1>3. /\ CallItems(calls) \in Seq(ContextItems(X)) /\ Len(CallItems(calls)) = Len(calls)
      /\ OutputItems(calls) \in Seq(ContextItems(X)) /\ Len(OutputItems(calls)) = Len(calls)
  BY <1>1, <1>2
<1>4. \A k, x : Contains(CallItems(calls), <<k, x>>) <=> k = "call" /\ Contains(calls, x)
  BY <1>1, <1>3 DEF CallItems, Contains
<1>5. \A k, x : Contains(OutputItems(calls), <<k, x>>) <=> k = "output" /\ Contains(calls, x)
  BY <1>1, <1>3 DEF OutputItems, Contains
<1>6. IsInjective(calls) => IsInjective(CallItems(calls)) /\ IsInjective(OutputItems(calls))
  BY <1>1 DEF CallItems, OutputItems, IsInjective
<1>7. QED BY <1>3, <1>4, <1>5, <1>6

(* The history items of staged messages.                                   *)
LEMMA MessageItemsProperties ==
    ASSUME NEW X, NEW Q, NEW q \in Seq(Q), \A e \in Q : e.id \in X
    PROVE  /\ MessageItems(q) \in Seq(ContextItems(X))
           /\ \A k, x : Contains(MessageItems(q), <<k, x>>) <=> k = "message" /\ x \in IdsOf(q)
           /\ (\A i, j \in DOMAIN q : q[i].id = q[j].id => i = j) => IsInjective(MessageItems(q))
<1>1. /\ Len(q) \in Nat /\ DOMAIN q = 1..Len(q)
      /\ \A i \in 1..Len(q) : q[i] \in Q /\ q[i].id \in X
  OBVIOUS
<1>2. MessageItems(q) \in [1..Len(q) -> ContextItems(X)]
  BY <1>1 DEF MessageItems, ContextItems
<1>3. MessageItems(q) \in Seq(ContextItems(X)) /\ Len(MessageItems(q)) = Len(q)
  BY <1>1, <1>2
<1>4. \A k, x : Contains(MessageItems(q), <<k, x>>) <=> k = "message" /\ x \in IdsOf(q)
  BY <1>1, <1>3 DEF MessageItems, Contains, IdsOf
<1>5. (\A i, j \in DOMAIN q : q[i].id = q[j].id => i = j) => IsInjective(MessageItems(q))
  BY <1>1 DEF MessageItems, IsInjective
<1>6. QED BY <1>3, <1>4, <1>5

(* Appending items of one kind: messages or calls ...                      *)
LEMMA AddItems ==
    ASSUME NEW X, NEW a \in Seq(ContextItems(X)), NEW b \in Seq(ContextItems(X)),
           IsInjective(a), IsInjective(b), Ordered(a),
           \A k, x : Contains(b, <<k, x>>) => ~Contains(a, <<k, x>>),
           \A x : ~Contains(b, <<"output", x>>)
    PROVE  /\ a \o b \in Seq(ContextItems(X)) /\ IsInjective(a \o b) /\ Ordered(a \o b)
           /\ \A x : Contains(a \o b, x) <=> Contains(a, x) \/ Contains(b, x)
<1>1. \A x \in ContextItems(X) : ~(Contains(a, x) /\ Contains(b, x))
  <2>1. \A x \in ContextItems(X) : x = <<x[1], x[2]>>
    BY DEF ContextItems
  <2>2. QED BY <2>1
<1>2. /\ a \o b \in Seq(ContextItems(X)) /\ IsInjective(a \o b)
      /\ \A x : Contains(a \o b, x) <=> Contains(a, x) \/ Contains(b, x)
  BY <1>1, ConcatContains
<1>3. ASSUME NEW j \in DOMAIN (a \o b), NEW c, (a \o b)[j] = <<"output", c>>
      PROVE  \E i \in 1..(j - 1) : (a \o b)[i] = <<"call", c>>
  <2>1. /\ DOMAIN a = 1..Len(a) /\ Len(a) \in Nat /\ Len(b) \in Nat
        /\ DOMAIN (a \o b) = 1..(Len(a) + Len(b))
        /\ \A i \in 1..Len(a) : (a \o b)[i] = a[i]
        /\ j > Len(a) => (a \o b)[j] = b[j - Len(a)] /\ j - Len(a) \in 1..Len(b)
    OBVIOUS
  <2>2. j <= Len(a)
    BY <1>3, <2>1 DEF Contains
  <2>3. j \in DOMAIN a /\ a[j] = <<"output", c>>
    BY <1>3, <2>1, <2>2
  <2>4. PICK i \in 1..(j - 1) : a[i] = <<"call", c>>
    BY <2>3 DEF Ordered
  <2>5. QED BY <2>1, <2>2, <2>4
<1>4. QED BY <1>2, <1>3 DEF Ordered

(* A delivered message keeps the history injective and ordered.            *)
LEMMA AddMessage ==
    ASSUME NEW X, NEW a \in Seq(ContextItems(X)), NEW m \in X,
           IsInjective(a), Ordered(a), ~Contains(a, <<"message", m>>)
    PROVE  LET new == Append(a, <<"message", m>>) IN
           /\ new \in Seq(ContextItems(X)) /\ IsInjective(new) /\ Ordered(new)
           /\ \A x : Contains(new, x) <=> Contains(a, x) \/ x = <<"message", m>>
<1> DEFINE e == <<"message", m>>
<1>1. e \in ContextItems(X)
  BY DEF ContextItems
<1>2. ~Contains(a, e) /\ \A x : <<"output", x>> # e
  OBVIOUS
<1> HIDE DEF e
<1>3. /\ Append(a, e) = a \o <<e>> /\ <<e>> \in Seq(ContextItems(X))
      /\ IsInjective(<<e>>) /\ \A x : Contains(<<e>>, x) <=> x = e
  BY <1>1, AppendIsConcat DEF IsInjective, Contains
<1>4. /\ \A k, x : Contains(<<e>>, <<k, x>>) => ~Contains(a, <<k, x>>)
      /\ \A x : ~Contains(<<e>>, <<"output", x>>)
  <2>1. \A y : Contains(<<e>>, y) => ~Contains(a, y)
    BY <1>2, <1>3
  <2>2. \A x : ~Contains(<<e>>, <<"output", x>>)
    BY <1>2, <1>3
  <2>3. QED BY <2>1, <2>2
<1>5. /\ a \o <<e>> \in Seq(ContextItems(X)) /\ IsInjective(a \o <<e>>) /\ Ordered(a \o <<e>>)
      /\ \A x : Contains(a \o <<e>>, x) <=> Contains(a, x) \/ Contains(<<e>>, x)
  BY <1>3, <1>4, AddItems
<1>6. QED BY <1>3, <1>5 DEF e

(* ... or outputs of calls that are in the history.                        *)
LEMMA AddOutputs ==
    ASSUME NEW X, NEW a \in Seq(ContextItems(X)), NEW calls \in Seq(X),
           IsInjective(a), IsInjective(calls), Ordered(a),
           \A c : Contains(calls, c) => Contains(a, <<"call", c>>) /\ ~Contains(a, <<"output", c>>)
    PROVE  LET new == a \o OutputItems(calls) IN
           /\ new \in Seq(ContextItems(X)) /\ IsInjective(new) /\ Ordered(new)
           /\ \A k, x : Contains(new, <<k, x>>) <=>
                 Contains(a, <<k, x>>) \/ (k = "output" /\ Contains(calls, x))
<1> DEFINE b == OutputItems(calls)
           new == a \o b
<1>1. /\ b \in Seq(ContextItems(X)) /\ IsInjective(b)
      /\ \A k, x : Contains(b, <<k, x>>) <=> k = "output" /\ Contains(calls, x)
  BY ItemsProperties
<1> HIDE DEF b
<1>2. \A x \in ContextItems(X) : ~(Contains(a, x) /\ Contains(b, x))
  <2>1. \A x \in ContextItems(X) : x = <<x[1], x[2]>>
    BY DEF ContextItems
  <2>2. ASSUME NEW x \in ContextItems(X), Contains(a, x), Contains(b, x) PROVE FALSE
    <3>1. x = <<x[1], x[2]>>
      BY <2>1
    <3>2. x[1] = "output" /\ Contains(calls, x[2])
      BY <1>1, <2>2, <3>1
    <3>3. QED BY <2>2, <3>1, <3>2
  <2>3. QED BY <2>2
<1>3. /\ new \in Seq(ContextItems(X)) /\ IsInjective(new)
      /\ \A x : Contains(new, x) <=> Contains(a, x) \/ Contains(b, x)
  BY <1>1, <1>2, ConcatContains
<1>4. ASSUME NEW j \in DOMAIN new, NEW c, new[j] = <<"output", c>>
      PROVE  \E i \in 1..(j - 1) : new[i] = <<"call", c>>
  <2>1. /\ DOMAIN a = 1..Len(a) /\ Len(a) \in Nat /\ Len(b) \in Nat
        /\ DOMAIN new = 1..(Len(a) + Len(b))
        /\ \A i \in 1..Len(a) : new[i] = a[i]
        /\ j > Len(a) => new[j] = b[j - Len(a)] /\ j - Len(a) \in 1..Len(b)
    BY <1>1
  <2>2. CASE j <= Len(a)
    <3>1. j \in DOMAIN a /\ a[j] = <<"output", c>>
      BY <1>4, <2>1, <2>2
    <3>2. PICK i \in 1..(j - 1) : a[i] = <<"call", c>>
      BY <3>1 DEF Ordered
    <3>3. i \in 1..Len(a)
      BY <2>1, <2>2
    <3>4. QED BY <2>1, <3>2, <3>3
  <2>3. CASE j > Len(a)
    <3>1. Contains(b, <<"output", c>>)
      BY <1>4, <2>1, <2>3 DEF Contains
    <3>2. Contains(a, <<"call", c>>)
      BY <1>1, <3>1
    <3>3. PICK i \in 1..Len(a) : a[i] = <<"call", c>>
      BY <3>2 DEF Contains
    <3>4. i \in 1..(j - 1) /\ new[i] = <<"call", c>>
      <4>1. i \in 1..Len(a) /\ j \in Nat /\ new[i] = a[i]
        BY <2>1
      <4>2. QED BY <2>1, <2>3, <3>3, <4>1
    <3>5. QED BY <3>4
  <2>4. j <= Len(a) \/ j > Len(a)
    BY <2>1
  <2>5. QED BY <2>2, <2>3, <2>4
<1>5. \A k, x : Contains(new, <<k, x>>) <=> Contains(a, <<k, x>>) \/ (k = "output" /\ Contains(calls, x))
  BY <1>1, <1>3
<1>6. QED BY <1>3, <1>4, <1>5 DEF Ordered, b

-----------------------------------------------------------------------------
(* The message queue.                                                      *)

DistinctIds(q) == \A i, j \in DOMAIN q : q[i].id = q[j].id => i = j

(* Some of the queue: what staging takes out, and what it leaves.          *)
LEMMA EntriesOfQueue ==
    ASSUME NEW M, NEW q \in Seq(QueueItems(M)), NEW I \in SUBSET (DOMAIN q), DistinctIds(q)
    PROVE  /\ Entries(q, I) \in Seq(QueueItems(M)) /\ DistinctIds(Entries(q, I))
           /\ \A x : x \in IdsOf(Entries(q, I)) <=> \E i \in I : q[i].id = x
           /\ \A k \in DOMAIN Entries(q, I) : \E i \in I : Entries(q, I)[k] = q[i]
           /\ Entries(q, I) = <<>> <=> I = {}
<1> DEFINE t == Entries(q, I)
<1>1. IsInjective(q)
  BY DEF DistinctIds, IsInjective
<1>2. /\ t \in Seq(QueueItems(M)) /\ IsInjective(t) /\ (t = <<>> <=> I = {})
      /\ \A x : Contains(t, x) <=> \E i \in I : q[i] = x
  BY <1>1, EntriesProperties
<1> HIDE DEF t
<1>3. DOMAIN t = 1..Len(t) /\ Len(t) \in Nat
  BY <1>2
<1>4. \A k \in DOMAIN t : \E i \in I : t[k] = q[i]
  BY <1>2, <1>3 DEF Contains
<1>5. \A i \in I : \E k \in DOMAIN t : t[k] = q[i]
  BY <1>2, <1>3 DEF Contains
<1>6. DistinctIds(t)
  <2> SUFFICES ASSUME NEW k \in DOMAIN t, NEW h \in DOMAIN t, t[k].id = t[h].id
               PROVE  k = h
    BY DEF DistinctIds
  <2>1. PICK i \in I : t[k] = q[i]
    BY <1>4
  <2>2. PICK j \in I : t[h] = q[j]
    BY <1>4
  <2>3. i = j
    BY <2>1, <2>2 DEF DistinctIds
  <2>4. QED BY <1>2, <2>1, <2>2, <2>3 DEF IsInjective
<1>7. \A x : x \in IdsOf(t) <=> \E i \in I : q[i].id = x
  BY <1>4, <1>5 DEF IdsOf
<1>8. QED BY <1>2, <1>4, <1>6, <1>7 DEF t

(* The next message to start a turn, and the queue without it.             *)
LEMMA NextTurnProperties ==
    ASSUME NEW M, NEW q \in Seq(QueueItems(M)), DistinctIds(q), HasNextTurn(q)
    PROVE  /\ NextTurn(q) \in QueueItems(M) /\ NextTurn(q).id \in IdsOf(q)
           /\ ConsumeNextTurn(q) \in Seq(QueueItems(M)) /\ DistinctIds(ConsumeNextTurn(q))
           /\ IdsOf(ConsumeNextTurn(q)) = IdsOf(q) \ {NextTurn(q).id}
           /\ \A k \in DOMAIN ConsumeNextTurn(q) : \E i \in DOMAIN q : ConsumeNextTurn(q)[k] = q[i]
<1> DEFINE n == NextTurnIndex(q)
           T == {i \in DOMAIN q : StartsTurn(q[i])}
<1>1. DOMAIN q = 1..Len(q) /\ Len(q) \in Nat
  OBVIOUS
<1>2. PICK i \in T : \A j \in T : i <= j
  <2>1. T \in SUBSET Nat /\ T # {}
    BY <1>1 DEF HasNextTurn
  <2> HIDE DEF T
  <2>2. QED BY <2>1, LeastMember
<1>3. \A j \in 1..(i - 1) : ~StartsTurn(q[j])
  <2>1. ASSUME NEW j \in 1..(i - 1) PROVE j \in DOMAIN q /\ ~(i <= j)
    BY <1>1, <1>2
  <2>2. QED BY <1>2, <2>1
<1>4. n \in DOMAIN q /\ StartsTurn(q[n])
  BY <1>2, <1>3 DEF NextTurnIndex
<1> HIDE DEF n
<1> DEFINE J == DOMAIN q \ {n}
           t == Entries(q, J)
<1>5. NextTurn(q) = q[n] /\ ConsumeNextTurn(q) = t
  BY DEF NextTurn, ConsumeNextTurn, n
<1>6. J \in SUBSET (DOMAIN q) /\ \A k : k \in J <=> k \in DOMAIN q /\ k # n
  OBVIOUS
<1> HIDE DEF J
<1>7. /\ t \in Seq(QueueItems(M)) /\ DistinctIds(t)
      /\ \A x : x \in IdsOf(t) <=> \E k \in J : q[k].id = x
      /\ \A k \in DOMAIN t : \E h \in J : t[k] = q[h]
  BY <1>6, EntriesOfQueue
<1> HIDE DEF t
<1>8. \A x : x \in IdsOf(t) <=> x \in IdsOf(q) /\ x # q[n].id
  <2>1. \A x : x \in IdsOf(q) <=> \E k \in DOMAIN q : q[k].id = x
    BY DEF IdsOf
  <2>2. QED BY <1>4, <1>6, <1>7, <2>1 DEF DistinctIds
<1>9. q[n] \in QueueItems(M) /\ q[n].id \in IdsOf(q)
  BY <1>4 DEF IdsOf
<1>10. IdsOf(t) = IdsOf(q) \ {q[n].id}
  BY <1>8
<1>11. QED BY <1>5, <1>6, <1>7, <1>9, <1>10

(* An accepted message joins the queue.                                    *)
LEMMA AppendToQueue ==
    ASSUME NEW M, NEW q \in Seq(QueueItems(M)), DistinctIds(q), NEW e \in QueueItems(M),
           e.id \notin IdsOf(q)
    PROVE  /\ Append(q, e) \in Seq(QueueItems(M)) /\ DistinctIds(Append(q, e))
           /\ IdsOf(Append(q, e)) = IdsOf(q) \cup {e.id}
           /\ \A k \in DOMAIN Append(q, e) : Append(q, e)[k] = e \/ \E i \in DOMAIN q : Append(q, e)[k] = q[i]
<1> DEFINE t == Append(q, e)
<1>1. /\ t \in Seq(QueueItems(M)) /\ Len(t) = Len(q) + 1 /\ Len(q) \in Nat
      /\ DOMAIN t = 1..(Len(q) + 1) /\ DOMAIN q = 1..Len(q)
      /\ \A i \in 1..Len(q) : t[i] = q[i]
      /\ t[Len(q) + 1] = e
  OBVIOUS
<1> HIDE DEF t
<1>2. \A i \in DOMAIN q : q[i].id # e.id
  BY DEF IdsOf
<1>3. \A k \in DOMAIN t : (k = Len(q) + 1 /\ t[k] = e) \/ (k \in DOMAIN q /\ t[k] = q[k])
  BY <1>1
<1>4. DistinctIds(t)
  BY <1>2, <1>3 DEF DistinctIds
<1>5. \A x : x \in IdsOf(t) <=> x \in IdsOf(q) \/ x = e.id
  BY <1>1, <1>3 DEF IdsOf
<1>6. IdsOf(t) = IdsOf(q) \cup {e.id}
  BY <1>5
<1>7. QED BY <1>1, <1>3, <1>4, <1>6 DEF t

(* An edit: the new message stands where the old one stood.                *)
LEMMA ReplaceInQueue ==
    ASSUME NEW M, NEW q \in Seq(QueueItems(M)), DistinctIds(q), NEW old \in M, NEW new \in M,
           old \in IdsOf(q), new \notin IdsOf(q)
    PROVE  /\ Replaced(q, old, new) \in Seq(QueueItems(M)) /\ DistinctIds(Replaced(q, old, new))
           /\ IdsOf(Replaced(q, old, new)) = (IdsOf(q) \ {old}) \cup {new}
           /\ DOMAIN Replaced(q, old, new) = DOMAIN q
           /\ \A k \in DOMAIN q : /\ Replaced(q, old, new)[k].boundary = q[k].boundary
                                  /\ Replaced(q, old, new)[k].turn = q[k].turn
<1> DEFINE t == Replaced(q, old, new)
<1>1. /\ Len(q) \in Nat /\ DOMAIN q = 1..Len(q)
      /\ \A i \in DOMAIN q : q[i] \in QueueItems(M)
  OBVIOUS
<1>2. /\ DOMAIN t = DOMAIN q
      /\ \A i \in DOMAIN q : /\ t[i] \in QueueItems(M)
                             /\ t[i].id = IF q[i].id = old THEN new ELSE q[i].id
                             /\ t[i].boundary = q[i].boundary /\ t[i].turn = q[i].turn
  BY <1>1 DEF Replaced, QueueItems
<1>3. t \in Seq(QueueItems(M))
  <2>1. t \in [1..Len(q) -> QueueItems(M)]
    BY <1>1, <1>2 DEF Replaced
  <2>2. QED BY <1>1, <2>1
<1> HIDE DEF t
<1>4. \A i \in DOMAIN q : q[i].id # new
  BY DEF IdsOf
<1>5. DistinctIds(t)
  BY <1>2, <1>4 DEF DistinctIds
<1>6. \A x : x \in IdsOf(t) <=> (x \in IdsOf(q) /\ x # old) \/ x = new
  BY <1>2 DEF IdsOf
<1>7. IdsOf(t) = (IdsOf(q) \ {old}) \cup {new}
  BY <1>6
<1>8. QED BY <1>2, <1>3, <1>5, <1>7 DEF t

(* The end of a turn that did not complete: its steers wait for turns of   *)
(* their own.                                                              *)
LEMMA PromoteInQueue ==
    ASSUME NEW M, NEW q \in Seq(QueueItems(M)), DistinctIds(q), NEW turn
    PROVE  /\ PromoteFailedTurn(q, turn) \in Seq(QueueItems(M)) /\ DistinctIds(PromoteFailedTurn(q, turn))
           /\ IdsOf(PromoteFailedTurn(q, turn)) = IdsOf(q)
           /\ DOMAIN PromoteFailedTurn(q, turn) = DOMAIN q
           /\ \A k \in DOMAIN q : PromoteFailedTurn(q, turn)[k].boundary = "steer" =>
                 q[k].boundary = "steer" /\ q[k].turn # turn
<1> DEFINE t == PromoteFailedTurn(q, turn)
<1>1. /\ Len(q) \in Nat /\ DOMAIN q = 1..Len(q)
      /\ \A i \in DOMAIN q : q[i] \in QueueItems(M)
  OBVIOUS
<1>2. /\ DOMAIN t = DOMAIN q
      /\ \A i \in DOMAIN q : /\ t[i] \in QueueItems(M) /\ t[i].id = q[i].id
                             /\ t[i].boundary = "steer" => q[i].boundary = "steer" /\ q[i].turn # turn
  BY <1>1 DEF PromoteFailedTurn, QueueItems, Item, Steers, NoTurn
<1>3. t \in Seq(QueueItems(M))
  <2>1. t \in [1..Len(q) -> QueueItems(M)]
    BY <1>1, <1>2 DEF PromoteFailedTurn
  <2>2. QED BY <1>1, <2>1
<1> HIDE DEF t
<1>4. DistinctIds(t)
  BY <1>2 DEF DistinctIds
<1>5. IdsOf(t) = IdsOf(q)
  BY <1>2 DEF IdsOf
<1>6. QED BY <1>2, <1>3, <1>4, <1>5 DEF t

(* All entries are the sequence itself.                                    *)
LEMMA EntriesAll ==
    ASSUME NEW T, NEW s \in Seq(T)
    PROVE  Entries(s, DOMAIN s) = s
<1> DEFINE n == Len(s)
           Rank(i) == Cardinality({j \in 1..n : j <= i})
           t == Entries(s, 1..n)
<1>1. DOMAIN s = 1..n /\ n \in Nat
  OBVIOUS
<1> HIDE DEF n
<1>2. Cardinality(1..n) = n
  BY <1>1, FS_Interval
<1>3. \A i \in 1..n : Rank(i) = i
  <2> SUFFICES ASSUME NEW i \in 1..n PROVE Rank(i) = i
    OBVIOUS
  <2>1. {j \in 1..n : j <= i} = 1..i
    BY <1>1
  <2>2. Cardinality(1..i) = i
    BY <1>1, FS_Interval
  <2>3. QED BY <2>1, <2>2
<1>4. t = [k \in 1..n |-> s[CHOOSE i \in 1..n : Rank(i) = k]]
  BY <1>2 DEF Entries
<1> HIDE DEF Rank, t
<1>5. \A k \in 1..n : (CHOOSE i \in 1..n : Rank(i) = k) = k
  BY <1>3
<1>6. t = [k \in 1..n |-> s[k]]
  BY <1>4, <1>5
<1>7. QED BY <1>1, <1>6 DEF t

(* The calls that are in S keep their order and nothing else.              *)
LEMMA CallsInProperties ==
    ASSUME NEW C, NEW calls \in Seq(C), NEW S
    PROVE  /\ CallsIn(calls, S) \in Seq(C)
           /\ \A c : Contains(CallsIn(calls, S), c) <=> Contains(calls, c) /\ c \in S
           /\ IsInjective(calls) => IsInjective(CallsIn(calls, S))
           /\ (\A c : Contains(calls, c) => c \in S) => CallsIn(calls, S) = calls
<1> DEFINE I == {i \in DOMAIN calls : calls[i] \in S}
<1>1. I \in SUBSET (DOMAIN calls) /\ CallsIn(calls, S) = Entries(calls, I)
  BY DEF CallsIn
<1>2. \A c : (\E i \in I : calls[i] = c) <=> Contains(calls, c) /\ c \in S
  BY DEF Contains
<1>3. (\A c : Contains(calls, c) => c \in S) => I = DOMAIN calls
  <2>1. \A i \in DOMAIN calls : Contains(calls, calls[i])
    BY DEF Contains
  <2>2. QED BY <2>1, Zenon
<1> HIDE DEF I
<1>4. /\ Entries(calls, I) \in Seq(C)
      /\ \A c : Contains(Entries(calls, I), c) <=> \E i \in I : calls[i] = c
      /\ IsInjective(calls) => IsInjective(Entries(calls, I))
  BY <1>1, EntriesProperties
<1>5. Entries(calls, DOMAIN calls) = calls
  BY EntriesAll
<1>6. QED BY <1>1, <1>2, <1>3, <1>4, <1>5

(* Only the calls that are there matter.                                   *)
LEMMA CallsInSame ==
    ASSUME NEW C, NEW calls \in Seq(C), NEW S, NEW R, \A c : Contains(calls, c) => (c \in S <=> c \in R)
    PROVE  CallsIn(calls, S) = CallsIn(calls, R)
<1>1. {i \in DOMAIN calls : calls[i] \in S} = {i \in DOMAIN calls : calls[i] \in R}
  BY DEF Contains
<1>2. QED BY <1>1 DEF CallsIn

-----------------------------------------------------------------------------
HasMessage(ck, m) == Contains(ck.context, <<"message", m>>)
HasCall(ck, c)    == Contains(ck.context, <<"call", c>>)
HasOutput(ck, c)  == Contains(ck.context, <<"output", c>>)

-----------------------------------------------------------------------------
(* Checkpoints a runner can have.                                          *)

(* The queued messages are distinct and none of them is delivered.         *)
QueueInv(ck) ==
    /\ DistinctIds(ck.pending)
    /\ \A m \in IdsOf(ck.pending) : ~HasMessage(ck, m)

(* Turns are numbered below n; a steer waits for the active one.           *)
ExecInv(ck, n) ==
    /\ ck.exec.turn < n
    /\ ck.exec.turn = NoTurn => ck.exec = NoExec
    /\ \A i \in DOMAIN ck.pending :
          ck.pending[i].boundary = "steer" => ck.exec.turn # NoTurn /\ ck.pending[i].turn = ck.exec.turn

(* Pending calls are those of the history without output or, while the     *)
(* model step is open, calls that are not in the history yet.              *)
CallsInv(ck) ==
    /\ IsInjective(ck.tools) /\ IsInjective(ck.context) /\ Ordered(ck.context)
    /\ ck.step => \A c \in Calls : HasCall(ck, c) => HasOutput(ck, c) /\ ~Contains(ck.tools, c)
    /\ ~ck.step => \A c \in Calls : Contains(ck.tools, c) <=> HasCall(ck, c) /\ ~HasOutput(ck, c)

PendingInv(ck) ==
    /\ ck.tools # <<>> \/ ck.step \/ ck.approval # NoApproval
         => ck.exec.turn # NoTurn /\ ck.exec.phase = "model"
    /\ ck.approval # NoApproval => ck.approval.calls = ck.tools /\ ~ck.step /\ ck.tools # <<>>

Good(ck, n) ==
    ck \in Checkpoints /\ QueueInv(ck) /\ ExecInv(ck, n) /\ CallsInv(ck) /\ PendingInv(ck)

(* Nothing of a model step is open.                                        *)
Clear(ck) == ck.tools = <<>> /\ ~ck.step /\ ck.approval = NoApproval

SameMessages(new, ck) ==
    /\ IdsOf(new.pending) = IdsOf(ck.pending)
    /\ \A m : HasMessage(new, m) <=> HasMessage(ck, m)

Known(ck, c) == Contains(ck.tools, c) \/ HasCall(ck, c)

(* The fields of a checkpoint have their types.                            *)
LEMMA Fields ==
    ASSUME NEW ck \in Checkpoints
    PROVE  /\ ck.pending \in Seq(QueueItems(Messages)) /\ ck.step \in BOOLEAN
           /\ ck.exec \in [turn : Nat, phase : {"model", "completion"}, idle : BOOLEAN, steps : Nat]
           /\ ck.tools \in Seq(Calls) /\ ck.approval \in [calls : Seq(Calls), decided : BOOLEAN]
           /\ ck.context \in Seq(ContextItems(Messages \cup Calls))
           /\ ck = [pending |-> ck.pending, exec |-> ck.exec, step |-> ck.step, tools |-> ck.tools,
                    approval |-> ck.approval, context |-> ck.context]
BY DEF Checkpoints, CheckpointsOf

(* The values that stand for no execution and for no approval.             *)
LEMMA NoValues ==
    /\ NoExec \in [turn : Nat, phase : {"model", "completion"}, idle : BOOLEAN, steps : Nat]
    /\ NoExec.turn = NoTurn /\ NoTurn \in Nat /\ NoExec.phase = "model"
    /\ NoApproval \in [calls : Seq(Calls), decided : BOOLEAN]
    /\ NoApproval.calls = <<>> /\ ~NoApproval.decided
BY DEF NoExec, NoApproval, NoTurn

(* Executions keep their type when the step count or the phase changes.    *)
LEMMA Executions ==
    ASSUME NEW x \in [turn : Nat, phase : {"model", "completion"}, idle : BOOLEAN, steps : Nat],
           NEW k \in Nat, NEW p \in {"model", "completion"}
    PROVE  LET e == [x EXCEPT !.steps = k, !.phase = p] IN
           /\ e \in [turn : Nat, phase : {"model", "completion"}, idle : BOOLEAN, steps : Nat]
           /\ e.turn = x.turn /\ e.phase = p
<1> DEFINE d == [x EXCEPT !.steps = k]
<1>1. d \in [turn : Nat, phase : {"model", "completion"}, idle : BOOLEAN, steps : Nat] /\ d.turn = x.turn
  OBVIOUS
<1> HIDE DEF d
<1>2. LET e == [d EXCEPT !.phase = p] IN
      /\ e \in [turn : Nat, phase : {"model", "completion"}, idle : BOOLEAN, steps : Nat]
      /\ e.turn = x.turn /\ e.phase = p
  BY <1>1
<1>3. QED BY <1>2 DEF d

(* A call with an output is in the history.                                *)
LEMMA OutputHasCall ==
    ASSUME NEW T, NEW context \in Seq(T), Ordered(context), NEW c, Contains(context, <<"output", c>>)
    PROVE  Contains(context, <<"call", c>>)
<1>1. PICK j \in 1..Len(context) : context[j] = <<"output", c>>
  BY DEF Contains
<1>2. PICK i \in 1..(j - 1) : context[i] = <<"call", c>>
  <2>1. j \in DOMAIN context
    BY <1>1
  <2>2. QED BY <1>1, <2>1, Zenon DEF Ordered
<1>3. i \in 1..Len(context)
  BY <1>1, <1>2
<1>4. QED BY <1>2, <1>3 DEF Contains

(* The checkpoint of a new session is good.                                *)
LEMMA GoodEmpty == Good(EmptyCheckpoint, 1) /\ Clear(EmptyCheckpoint)
<1> DEFINE ck == EmptyCheckpoint
<1>1. /\ ck.pending = <<>> /\ ck.exec = NoExec /\ ck.step = FALSE /\ ck.tools = <<>>
      /\ ck.approval = NoApproval /\ ck.context = <<>>
  BY DEF EmptyCheckpoint
<1>2. ck \in Checkpoints
  BY NoValues DEF EmptyCheckpoint, Checkpoints, CheckpointsOf
<1>3. IdsOf(<<>>) = {} /\ \A x : ~Contains(<<>>, x)
  BY DEF IdsOf, Contains
<1> HIDE DEF ck
<1>4. QueueInv(ck) /\ ExecInv(ck, 1)
  BY <1>1, <1>3, NoValues DEF QueueInv, ExecInv, DistinctIds, NoTurn
<1>5. CallsInv(ck) /\ PendingInv(ck) /\ Clear(ck)
  BY <1>1, <1>3 DEF CallsInv, PendingInv, IsInjective, Ordered, HasCall, HasOutput, Clear
<1>6. QED BY <1>2, <1>4, <1>5 DEF Good, ck

(* A checkpoint stays good when later turns are numbered.                  *)
LEMMA GoodLater ==
    ASSUME NEW ck, NEW n \in Nat, NEW k \in Nat, Good(ck, n), n <= k
    PROVE  Good(ck, k)
<1>1. ck.exec.turn \in Nat
  BY Fields DEF Good
<1>2. QED BY <1>1 DEF Good, ExecInv

(* Between turns nothing is open and no steer waits.                       *)
LEMMA IdleIsClear ==
    ASSUME NEW ck, NEW n \in Nat, Good(ck, n), ck.exec.turn = NoTurn
    PROVE  /\ Clear(ck) /\ ck.exec = NoExec
           /\ \A i \in DOMAIN ck.pending : ck.pending[i].boundary # "steer"
BY Fields DEF Good, ExecInv, PendingInv, Clear

-----------------------------------------------------------------------------
(* What the runner's changes make of a good checkpoint.                    *)

(* A checkpoint with the execution of a new turn.                          *)
Begun(ck, t, idle) == [ck EXCEPT !.exec = Execution(t, idle)]

(* begin_turn.                                                             *)
LEMMA GoodBegun ==
    ASSUME NEW ck, NEW n \in Nat, Good(ck, n), ck.exec.turn = NoTurn,
           NEW t \in Nat \ {0}, t < n, NEW idle \in BOOLEAN
    PROVE  LET new == Begun(ck, t, idle) IN
           /\ Good(new, n) /\ Clear(new) /\ SameMessages(new, ck)
           /\ new.exec.turn = t /\ new.exec.phase = "model"
           /\ new.pending = ck.pending /\ new.context = ck.context /\ new.tools = ck.tools
<1> DEFINE new == Begun(ck, t, idle)
<1>1. /\ new.pending = ck.pending /\ new.context = ck.context /\ new.tools = ck.tools
      /\ new.step = ck.step /\ new.approval = ck.approval /\ new.exec = Execution(t, idle)
      /\ new \in Checkpoints
  BY DEF Good, Checkpoints, CheckpointsOf, Execution, Begun
<1>2. new.exec.turn = t /\ new.exec.phase = "model" /\ t # NoTurn
  BY <1>1 DEF Execution, NoTurn
<1>3. Clear(ck) /\ \A i \in DOMAIN ck.pending : ck.pending[i].boundary # "steer"
  BY IdleIsClear
<1> HIDE DEF new
<1>4. QueueInv(new) /\ CallsInv(new)
  BY <1>1 DEF Good, QueueInv, CallsInv, HasMessage, HasCall, HasOutput
<1>5. ExecInv(new, n) /\ PendingInv(new) /\ Clear(new) /\ SameMessages(new, ck)
  BY <1>1, <1>2, <1>3 DEF ExecInv, PendingInv, Clear, SameMessages, HasMessage
<1>6. QED BY <1>1, <1>2, <1>4, <1>5 DEF Good, new

(* What an operation on the queue and the history must ensure.             *)
LEMMA GoodQueued ==
    ASSUME NEW ck, NEW n \in Nat, Good(ck, n), NEW new,
           new.step = ck.step, new.tools = ck.tools, new.approval = ck.approval,
           new \in Checkpoints, QueueInv(new), ExecInv(new, n),
           IsInjective(new.context), Ordered(new.context),
           new.exec.turn = ck.exec.turn \/ (Clear(ck) /\ new.exec.phase = "model"),
           new.exec.phase = ck.exec.phase \/ Clear(ck),
           \A c : (HasCall(new, c) <=> HasCall(ck, c)) /\ (HasOutput(new, c) <=> HasOutput(ck, c))
    PROVE  Good(new, n)
<1>1. CallsInv(new)
  BY DEF Good, CallsInv
<1>2. PendingInv(new)
  BY DEF Good, PendingInv, Clear
<1>3. QED BY <1>1, <1>2 DEF Good

(* What depends on the history only is the same for equal histories.       *)
LEMMA SameContext ==
    ASSUME NEW ck, NEW n \in Nat, Good(ck, n), NEW new, new.context = ck.context
    PROVE  /\ IsInjective(new.context) /\ Ordered(new.context)
           /\ \A c : (HasCall(new, c) <=> HasCall(ck, c)) /\ (HasOutput(new, c) <=> HasOutput(ck, c))
           /\ \A m : HasMessage(new, m) <=> HasMessage(ck, m)
BY DEF Good, CallsInv, HasCall, HasOutput, HasMessage

(* A hook rejects the message that would start a turn.                     *)
LEMMA GoodRejected ==
    ASSUME NEW ck, NEW n \in Nat, Good(ck, n), ck.exec.turn = NoTurn, HasNextTurn(ck.pending)
    PROVE  LET new == [ck EXCEPT !.pending = ConsumeNextTurn(@)]
               m == NextTurn(ck.pending).id IN
           /\ Good(new, n) /\ new.exec = ck.exec /\ new.context = ck.context /\ new.tools = ck.tools
           /\ m \in IdsOf(ck.pending) /\ IdsOf(new.pending) = IdsOf(ck.pending) \ {m}
           /\ \A x : HasMessage(new, x) <=> HasMessage(ck, x)
<1> DEFINE new == [ck EXCEPT !.pending = ConsumeNextTurn(@)]
           q == ConsumeNextTurn(ck.pending)
           m == NextTurn(ck.pending).id
<1>1. /\ q \in Seq(QueueItems(Messages)) /\ DistinctIds(q)
      /\ m \in IdsOf(ck.pending) /\ IdsOf(q) = IdsOf(ck.pending) \ {m}
      /\ \A k \in DOMAIN q : \E i \in DOMAIN ck.pending : q[k] = ck.pending[i]
  <2>1. ck.pending \in Seq(QueueItems(Messages)) /\ DistinctIds(ck.pending)
    BY Fields DEF Good, QueueInv
  <2>2. QED BY <2>1, NextTurnProperties
<1>2. /\ new.pending = q /\ new.context = ck.context /\ new.tools = ck.tools
      /\ new.step = ck.step /\ new.approval = ck.approval /\ new.exec = ck.exec
      /\ new \in Checkpoints
  BY <1>1 DEF Good, Checkpoints, CheckpointsOf
<1> HIDE DEF new, q, m
<1>3. QueueInv(new)
  BY <1>1, <1>2 DEF Good, QueueInv, HasMessage
<1>4. ExecInv(new, n)
  BY <1>1, <1>2 DEF Good, ExecInv
<1>5. Good(new, n)
  BY <1>2, <1>3, <1>4, GoodQueued, SameContext
<1>6. \A x : HasMessage(new, x) <=> HasMessage(ck, x)
  BY <1>2 DEF HasMessage
<1>7. QED BY <1>1, <1>2, <1>5, <1>6 DEF new, q, m

(* start_message_turn.                                                     *)
LEMMA GoodStarted ==
    ASSUME NEW ck, NEW n \in Nat, Good(ck, n), ck.exec.turn = NoTurn, HasNextTurn(ck.pending),
           NEW t \in Nat \ {0}, t < n
    PROVE  LET new == TurnStartedBy(ck, t)
               m == NextTurn(ck.pending).id IN
           /\ Good(new, n) /\ Clear(new) /\ new.exec.turn = t /\ new.exec.phase = "model"
           /\ m \in IdsOf(ck.pending) /\ IdsOf(new.pending) = IdsOf(ck.pending) \ {m}
           /\ \A x : HasMessage(new, x) <=> HasMessage(ck, x) \/ x = m
           /\ \A c : HasCall(new, c) <=> HasCall(ck, c)
<1> DEFINE new == TurnStartedBy(ck, t)
           q == ConsumeNextTurn(ck.pending)
           m == NextTurn(ck.pending).id
           e == <<"message", m>>
<1>1. /\ q \in Seq(QueueItems(Messages)) /\ DistinctIds(q)
      /\ m \in IdsOf(ck.pending) /\ IdsOf(q) = IdsOf(ck.pending) \ {m}
      /\ \A k \in DOMAIN q : \E i \in DOMAIN ck.pending : q[k] = ck.pending[i]
      /\ NextTurn(ck.pending) \in QueueItems(Messages)
  <2>1. ck.pending \in Seq(QueueItems(Messages)) /\ DistinctIds(ck.pending)
    BY Fields DEF Good, QueueInv
  <2>2. QED BY <2>1, NextTurnProperties
<1>2. m \in Messages /\ e \in ContextItems(Messages \cup Calls) /\ ~HasMessage(ck, m)
  BY <1>1 DEF QueueItems, ContextItems, Good, QueueInv
<1>3. /\ Append(ck.context, e) \in Seq(ContextItems(Messages \cup Calls))
      /\ IsInjective(Append(ck.context, e)) /\ Ordered(Append(ck.context, e))
      /\ \A x : Contains(Append(ck.context, e), x) <=> Contains(ck.context, x) \/ x = e
  <2>1. /\ ck.context \in Seq(ContextItems(Messages \cup Calls)) /\ m \in Messages \cup Calls
        /\ IsInjective(ck.context) /\ Ordered(ck.context) /\ ~Contains(ck.context, <<"message", m>>)
    BY <1>2, Fields DEF Good, CallsInv, HasMessage
  <2>2. QED BY <2>1, AddMessage
<1>5. /\ new.pending = q /\ new.context = Append(ck.context, e) /\ new.tools = ck.tools
      /\ new.step = ck.step /\ new.approval = ck.approval /\ new.exec = Execution(t, FALSE)
      /\ new \in Checkpoints
  BY <1>1, <1>3 DEF Good, Checkpoints, CheckpointsOf, TurnStartedBy, Execution
<1>6. Clear(ck) /\ (\A i \in DOMAIN ck.pending : ck.pending[i].boundary # "steer")
      /\ new.exec.turn = t /\ new.exec.phase = "model" /\ t # NoTurn
  BY <1>5, IdleIsClear DEF Execution, NoTurn
<1> HIDE DEF new, q
<1>7. /\ \A x : HasMessage(new, x) <=> HasMessage(ck, x) \/ x = m
      /\ \A c : (HasCall(new, c) <=> HasCall(ck, c)) /\ (HasOutput(new, c) <=> HasOutput(ck, c))
  BY <1>3, <1>5 DEF HasMessage, HasCall, HasOutput
<1> HIDE DEF m, e
<1>8. QueueInv(new)
  BY <1>1, <1>5, <1>7 DEF Good, QueueInv
<1>9. ExecInv(new, n)
  BY <1>1, <1>5, <1>6 DEF Good, ExecInv
<1>10. Good(new, n)
  BY <1>3, <1>5, <1>6, <1>7, <1>8, <1>9, GoodQueued
<1>11. Clear(new)
  BY <1>5, <1>6 DEF Clear
<1>12. QED BY <1>1, <1>5, <1>6, <1>7, <1>10, <1>11 DEF new, q, m

(* An accepted message.                                                    *)
LEMMA GoodAccepted ==
    ASSUME NEW ck, NEW n \in Nat, Good(ck, n), NEW s, s.id \in Messages,
           s.id \notin IdsOf(ck.pending), ~HasMessage(ck, s.id)
    PROVE  LET new == WithMessage(ck, s) IN
           /\ Good(new, n) /\ new.exec = ck.exec /\ new.context = ck.context /\ new.tools = ck.tools
           /\ new.step = ck.step /\ new.approval = ck.approval
           /\ IdsOf(new.pending) = IdsOf(ck.pending) \cup {s.id}
           /\ \A x : HasMessage(new, x) <=> HasMessage(ck, x)
<1> DEFINE new == WithMessage(ck, s)
           e == BoundaryFor(s.id, s.delivery, ck.exec.turn)
           q == Append(ck.pending, e)
<1>1. /\ e \in QueueItems(Messages) /\ e.id = s.id
      /\ e.boundary = "steer" => ck.exec.turn # NoTurn /\ e.turn = ck.exec.turn
  <2>1. ck.exec.turn \in Nat
    BY Fields DEF Good
  <2>2. QED BY <2>1, NoValues DEF BoundaryFor, Item, QueueItems
<1> HIDE DEF e
<1>2. /\ q \in Seq(QueueItems(Messages)) /\ DistinctIds(q)
      /\ IdsOf(q) = IdsOf(ck.pending) \cup {s.id}
      /\ \A k \in DOMAIN q : q[k] = e \/ \E i \in DOMAIN ck.pending : q[k] = ck.pending[i]
  <2>1. ck.pending \in Seq(QueueItems(Messages)) /\ DistinctIds(ck.pending)
    BY Fields DEF Good, QueueInv
  <2>2. QED BY <1>1, <2>1, AppendToQueue
<1>3. /\ new.pending = q /\ new.context = ck.context /\ new.tools = ck.tools
      /\ new.step = ck.step /\ new.approval = ck.approval /\ new.exec = ck.exec
      /\ new \in Checkpoints
  BY <1>2 DEF Good, Checkpoints, CheckpointsOf, WithMessage, e
<1> HIDE DEF new, q
<1>4. QueueInv(new)
  BY <1>2, <1>3 DEF Good, QueueInv, HasMessage
<1>5. ExecInv(new, n)
  BY <1>1, <1>2, <1>3 DEF Good, ExecInv
<1>6. Good(new, n)
  BY <1>3, <1>4, <1>5, GoodQueued, SameContext
<1>7. QED BY <1>2, <1>3, <1>6 DEF new, q, HasMessage

(* An edit of a queued message.                                            *)
LEMMA GoodEdited ==
    ASSUME NEW ck, NEW n \in Nat, Good(ck, n), NEW old \in Messages, NEW id \in Messages,
           old \in IdsOf(ck.pending), id \notin IdsOf(ck.pending), ~HasMessage(ck, id)
    PROVE  LET new == [ck EXCEPT !.pending = Replaced(@, old, id)] IN
           /\ Good(new, n) /\ new.exec = ck.exec /\ new.context = ck.context /\ new.tools = ck.tools
           /\ new.step = ck.step /\ new.approval = ck.approval
           /\ IdsOf(new.pending) = (IdsOf(ck.pending) \ {old}) \cup {id}
           /\ \A x : HasMessage(new, x) <=> HasMessage(ck, x)
<1> DEFINE new == [ck EXCEPT !.pending = Replaced(@, old, id)]
           q == Replaced(ck.pending, old, id)
<1>1. /\ q \in Seq(QueueItems(Messages)) /\ DistinctIds(q)
      /\ IdsOf(q) = (IdsOf(ck.pending) \ {old}) \cup {id} /\ DOMAIN q = DOMAIN ck.pending
      /\ \A k \in DOMAIN ck.pending : q[k].boundary = ck.pending[k].boundary /\ q[k].turn = ck.pending[k].turn
  <2>1. ck.pending \in Seq(QueueItems(Messages)) /\ DistinctIds(ck.pending)
    BY Fields DEF Good, QueueInv
  <2>2. QED BY <2>1, ReplaceInQueue
<1>2. /\ new.pending = q /\ new.context = ck.context /\ new.tools = ck.tools
      /\ new.step = ck.step /\ new.approval = ck.approval /\ new.exec = ck.exec
      /\ new \in Checkpoints
  BY <1>1 DEF Good, Checkpoints, CheckpointsOf
<1> HIDE DEF new, q
<1>3. QueueInv(new)
  BY <1>1, <1>2 DEF Good, QueueInv, HasMessage
<1>4. ExecInv(new, n)
  BY <1>1, <1>2 DEF Good, ExecInv
<1>5. Good(new, n)
  BY <1>2, <1>3, <1>4, GoodQueued, SameContext
<1>6. QED BY <1>1, <1>2, <1>5 DEF new, q, HasMessage

(* stage_message_input: the steers of the turn leave the queue, the ones   *)
(* that are not rejected enter the history.                                *)
LEMMA GoodStaged ==
    ASSUME NEW ck, NEW n \in Nat, Good(ck, n), NEW rejected
    PROVE  LET new == WithStaged(ck, rejected)
               ids == IdsOf(StagedMessages(ck.pending, ck.exec.turn)) IN
           /\ Good(new, n) /\ new.tools = ck.tools /\ new.step = ck.step /\ new.approval = ck.approval
           /\ new.exec.turn = ck.exec.turn /\ new.exec.phase = ck.exec.phase
           /\ ids \subseteq IdsOf(ck.pending) /\ IdsOf(new.pending) = IdsOf(ck.pending) \ ids
           /\ \A x : HasMessage(new, x) <=> HasMessage(ck, x) \/ (x \in ids /\ x \notin rejected)
           /\ \A c : HasCall(new, c) <=> HasCall(ck, c)
<1> DEFINE turn == ck.exec.turn
           S == {i \in DOMAIN ck.pending : Steers(ck.pending[i], turn)}
           U == {i \in DOMAIN ck.pending : ~Steers(ck.pending[i], turn)}
           staged == Entries(ck.pending, S)
           A == {i \in DOMAIN staged : staged[i].id \notin rejected}
           accepted == Entries(staged, A)
           q == Entries(ck.pending, U)
           b == MessageItems(accepted)
           new == WithStaged(ck, rejected)
           X == Messages \cup Calls
<1>0. /\ S \in SUBSET (DOMAIN ck.pending) /\ U \in SUBSET (DOMAIN ck.pending)
      /\ \A i \in DOMAIN ck.pending : (i \in S <=> Steers(ck.pending[i], turn)) /\ (i \in U <=> i \notin S)
      /\ A \in SUBSET (DOMAIN staged) /\ \A i \in DOMAIN staged : i \in A <=> staged[i].id \notin rejected
  OBVIOUS
<1>1. ck.pending \in Seq(QueueItems(Messages)) /\ DistinctIds(ck.pending)
  BY Fields DEF Good, QueueInv
<1>2. /\ StagedMessages(ck.pending, turn) = staged /\ Unstaged(ck.pending, turn) = q
      /\ new = [ck EXCEPT !.pending = q, !.context = @ \o b, !.exec.idle = @ /\ accepted = <<>>]
  BY DEF StagedMessages, Unstaged, WithStaged
<1> HIDE DEF S, U
<1>3. /\ staged \in Seq(QueueItems(Messages)) /\ DistinctIds(staged)
      /\ \A x : x \in IdsOf(staged) <=> \E i \in S : ck.pending[i].id = x
  BY <1>0, <1>1, EntriesOfQueue
<1>4. /\ q \in Seq(QueueItems(Messages)) /\ DistinctIds(q)
      /\ \A x : x \in IdsOf(q) <=> \E i \in U : ck.pending[i].id = x
      /\ \A k \in DOMAIN q : \E i \in U : q[k] = ck.pending[i]
  BY <1>0, <1>1, EntriesOfQueue
<1> HIDE DEF staged, q, A
<1>5. /\ accepted \in Seq(QueueItems(Messages)) /\ DistinctIds(accepted)
      /\ \A x : x \in IdsOf(accepted) <=> \E i \in A : staged[i].id = x
  BY <1>0, <1>3, EntriesOfQueue
<1> HIDE DEF accepted
<1>6. \A x : x \in IdsOf(accepted) <=> x \in IdsOf(staged) /\ x \notin rejected
  BY <1>0, <1>5 DEF IdsOf
<1>7. \A x : x \in IdsOf(ck.pending) <=> \E i \in DOMAIN ck.pending : ck.pending[i].id = x
  BY DEF IdsOf
<1>8. \A x : x \in IdsOf(q) <=> x \in IdsOf(ck.pending) /\ x \notin IdsOf(staged)
  BY <1>0, <1>1, <1>3, <1>4, <1>7 DEF DistinctIds
<1>9. \A x : x \in IdsOf(staged) => x \in IdsOf(ck.pending)
  BY <1>0, <1>3, <1>7
<1>10. /\ b \in Seq(ContextItems(X)) /\ IsInjective(b)
       /\ \A k, x : Contains(b, <<k, x>>) <=> k = "message" /\ x \in IdsOf(accepted)
  <2>1. \A e \in QueueItems(Messages) : e.id \in X
    BY DEF QueueItems
  <2>2. \A i, j \in DOMAIN accepted : accepted[i].id = accepted[j].id => i = j
    BY <1>5 DEF DistinctIds
  <2> HIDE DEF X
  <2>3. QED BY <1>5, <2>1, <2>2, MessageItemsProperties
<1> HIDE DEF b
<1>11. /\ ck.context \in Seq(ContextItems(X)) /\ IsInjective(ck.context) /\ Ordered(ck.context)
       /\ \A m \in IdsOf(ck.pending) : ~Contains(ck.context, <<"message", m>>)
  BY Fields DEF Good, CallsInv, QueueInv, HasMessage
<1>12. /\ ck.context \o b \in Seq(ContextItems(X)) /\ IsInjective(ck.context \o b)
       /\ Ordered(ck.context \o b)
       /\ \A x : Contains(ck.context \o b, x) <=> Contains(ck.context, x) \/ Contains(b, x)
  <2>1. /\ \A k, x : Contains(b, <<k, x>>) => ~Contains(ck.context, <<k, x>>)
        /\ \A x : ~Contains(b, <<"output", x>>)
    BY <1>6, <1>9, <1>10, <1>11
  <2> HIDE DEF X
  <2>2. QED BY <1>10, <1>11, <2>1, AddItems
<1>13. /\ new.pending = q /\ new.context = ck.context \o b /\ new.tools = ck.tools
       /\ new.step = ck.step /\ new.approval = ck.approval
       /\ new.exec.turn = turn /\ new.exec.phase = ck.exec.phase /\ new \in Checkpoints
       /\ turn = NoTurn => new.exec = ck.exec
  <2>1. ck \in Checkpoints
    BY DEF Good
  <2>2. turn = NoTurn => ~ck.exec.idle
    BY DEF Good, ExecInv, NoExec
  <2>3. /\ new.pending = q /\ new.context = ck.context \o b /\ new.tools = ck.tools
        /\ new.step = ck.step /\ new.approval = ck.approval
        /\ new.exec = [ck.exec EXCEPT !.idle = @ /\ accepted = <<>>]
    BY <1>2, <2>1 DEF Checkpoints, CheckpointsOf
  <2>4. ck.exec \in [turn : Nat, phase : {"model", "completion"}, idle : BOOLEAN, steps : Nat]
    BY <2>1, Fields
  <2>5. /\ new.exec \in [turn : Nat, phase : {"model", "completion"}, idle : BOOLEAN, steps : Nat]
        /\ new.exec.turn = turn /\ new.exec.phase = ck.exec.phase
        /\ turn = NoTurn => new.exec = ck.exec
    <3> DEFINE i == ck.exec.idle /\ accepted = <<>>
    <3>1. i \in BOOLEAN /\ (turn = NoTurn => i = ck.exec.idle)
      BY <2>2, <2>4
    <3>2. new.exec = [ck.exec EXCEPT !.idle = i]
      BY <2>3
    <3> HIDE DEF new, i
    <3>3. QED BY <2>4, <3>1, <3>2
  <2>6. new = [ck EXCEPT !.pending = q, !.context = ck.context \o b, !.exec = new.exec]
    <3>1. \A e, i : e = [ck.exec EXCEPT !.idle = i] =>
             [ck EXCEPT !.pending = q, !.context = @ \o b, !.exec.idle = i]
               = [ck EXCEPT !.pending = q, !.context = ck.context \o b, !.exec = e]
      OBVIOUS
    <3>2. QED BY <1>2, <2>3, <3>1
  <2>7. ck.context \o b \in Seq(ContextItems(Messages \cup Calls))
    BY <1>12
  <2>8. new \in Checkpoints
    <3> HIDE DEF new, X
    <3>1. QED BY <1>4, <2>1, <2>5, <2>6, <2>7 DEF Checkpoints, CheckpointsOf
  <2>9. QED BY <2>3, <2>5, <2>8
<1> HIDE DEF new
<1>14. /\ \A x : HasMessage(new, x) <=> HasMessage(ck, x) \/ (x \in IdsOf(staged) /\ x \notin rejected)
       /\ \A c : (HasCall(new, c) <=> HasCall(ck, c)) /\ (HasOutput(new, c) <=> HasOutput(ck, c))
  BY <1>6, <1>10, <1>12, <1>13 DEF HasMessage, HasCall, HasOutput
<1>15. QueueInv(new)
  BY <1>4, <1>8, <1>13, <1>14 DEF Good, QueueInv
<1>16. ExecInv(new, n)
  BY <1>0, <1>4, <1>13 DEF Good, ExecInv
<1>17. Good(new, n)
  BY <1>12, <1>13, <1>14, <1>15, <1>16, GoodQueued
<1>18. IdsOf(new.pending) = IdsOf(ck.pending) \ IdsOf(staged) /\ IdsOf(staged) \subseteq IdsOf(ck.pending)
  BY <1>8, <1>9, <1>13
<1>19. QED BY <1>2, <1>13, <1>14, <1>17, <1>18 DEF new

-----------------------------------------------------------------------------
(* Changes of the model step, the pending calls and the approval.          *)

(* Opening a model step with no calls pending.                             *)
LEMMA GoodOpened ==
    ASSUME NEW ck, NEW n \in Nat, Good(ck, n), Clear(ck), ck.exec.turn # NoTurn, ck.exec.phase = "model"
    PROVE  LET new == [ck EXCEPT !.step = TRUE] IN
           /\ Good(new, n) /\ new.step /\ new.approval = NoApproval /\ new.tools = <<>>
           /\ new.exec = ck.exec /\ new.pending = ck.pending /\ new.context = ck.context
<1> DEFINE new == [ck EXCEPT !.step = TRUE]
<1>1. /\ new.pending = ck.pending /\ new.context = ck.context /\ new.tools = ck.tools
      /\ new.step = TRUE /\ new.approval = ck.approval /\ new.exec = ck.exec /\ new \in Checkpoints
  BY DEF Good, Checkpoints, CheckpointsOf
<1> HIDE DEF new
<1>2. \A c : ~Contains(ck.tools, c)
  BY DEF Clear, Contains
<1>3. QueueInv(new) /\ ExecInv(new, n) /\ PendingInv(new)
  BY <1>1 DEF Good, QueueInv, ExecInv, PendingInv, HasMessage, Clear
<1>4. CallsInv(new)
  BY <1>1, <1>2 DEF Good, CallsInv, HasCall, HasOutput, Clear
<1>5. QED BY <1>1, <1>3, <1>4 DEF Good, Clear, new

(* Closing a model step that has no calls pending.                         *)
LEMMA GoodClosed ==
    ASSUME NEW ck, NEW n \in Nat, Good(ck, n), ck.tools = <<>>, ck.step
    PROVE  LET new == [ck EXCEPT !.step = FALSE] IN
           /\ Good(new, n) /\ Clear(new)
           /\ new.exec = ck.exec /\ new.pending = ck.pending /\ new.context = ck.context
<1> DEFINE new == [ck EXCEPT !.step = FALSE]
<1>1. /\ new.pending = ck.pending /\ new.context = ck.context /\ new.tools = ck.tools
      /\ new.step = FALSE /\ new.approval = ck.approval /\ new.exec = ck.exec /\ new \in Checkpoints
  BY DEF Good, Checkpoints, CheckpointsOf
<1> HIDE DEF new
<1>2. (\A c : ~Contains(ck.tools, c)) /\ ck.approval = NoApproval
  BY DEF Contains, Good, PendingInv
<1>3. QueueInv(new) /\ ExecInv(new, n) /\ PendingInv(new)
  BY <1>1, <1>2 DEF Good, QueueInv, ExecInv, PendingInv, HasMessage
<1>4. CallsInv(new)
  BY <1>1, <1>2 DEF Good, CallsInv, HasCall, HasOutput
<1>5. QED BY <1>1, <1>2, <1>3, <1>4 DEF Good, Clear, new

(* A streamed call is saved as pending.                                    *)
LEMMA GoodStreamed ==
    ASSUME NEW ck, NEW n \in Nat, Good(ck, n), ck.step, NEW c \in Calls,
           ~Contains(ck.tools, c), ~HasCall(ck, c)
    PROVE  LET new == [ck EXCEPT !.tools = Append(@, c)] IN
           /\ Good(new, n) /\ new.step /\ new.approval = ck.approval
           /\ new.exec = ck.exec /\ new.pending = ck.pending /\ new.context = ck.context
<1> DEFINE new == [ck EXCEPT !.tools = Append(@, c)]
<1>1. /\ Append(ck.tools, c) \in Seq(Calls) /\ IsInjective(Append(ck.tools, c))
      /\ \A x : Contains(Append(ck.tools, c), x) <=> Contains(ck.tools, x) \/ x = c
  <2>1. ck.tools \in Seq(Calls) /\ IsInjective(ck.tools)
    BY Fields DEF Good, CallsInv
  <2>2. QED BY <2>1, AppendContains
<1>2. /\ new.pending = ck.pending /\ new.context = ck.context /\ new.tools = Append(ck.tools, c)
      /\ new.step = ck.step /\ new.approval = ck.approval /\ new.exec = ck.exec /\ new \in Checkpoints
  BY <1>1 DEF Good, Checkpoints, CheckpointsOf
<1> HIDE DEF new
<1>3. QueueInv(new) /\ ExecInv(new, n) /\ PendingInv(new)
  BY <1>2 DEF Good, QueueInv, ExecInv, PendingInv, HasMessage
<1>4. CallsInv(new)
  BY <1>1, <1>2 DEF Good, CallsInv, HasCall, HasOutput
<1>5. QED BY <1>2, <1>3, <1>4 DEF Good, new

(* normalize_and_persist_model_step.                                       *)
LEMMA GoodModelOutput ==
    ASSUME NEW ck, NEW n \in Nat, Good(ck, n), ck.step, NEW calls \in Seq(Calls), NEW endTurn \in BOOLEAN,
           IsInjective(calls), \A c : Contains(calls, c) => ~HasCall(ck, c),
           \A c : Contains(ck.tools, c) => Contains(calls, c)
    PROVE  LET new == WithModelOutput(ck, calls, endTurn) IN
           /\ Good(new, n) /\ ~new.step /\ new.approval = NoApproval /\ new.tools = calls
           /\ new.exec.turn = ck.exec.turn /\ new.pending = ck.pending
           /\ calls # <<>> => new.exec.phase = "model"
           /\ \A m : HasMessage(new, m) <=> HasMessage(ck, m)
           /\ \A c : HasCall(new, c) <=> HasCall(ck, c) \/ Contains(calls, c)
<1> DEFINE new == WithModelOutput(ck, calls, endTurn)
           b == CallItems(calls)
           X == Messages \cup Calls
           p == IF endTurn /\ calls = <<>> THEN "completion" ELSE "model"
           e == [ck.exec EXCEPT !.steps = @ + 1, !.phase = p]
<1>1. ck \in Checkpoints /\ ck.exec.turn # NoTurn /\ ck.approval = NoApproval
  BY Fields DEF Good, PendingInv
<1>2. /\ b \in Seq(ContextItems(X)) /\ IsInjective(b)
      /\ \A k, x : Contains(b, <<k, x>>) <=> k = "call" /\ Contains(calls, x)
  <2>1. calls \in Seq(X)
    OBVIOUS
  <2> HIDE DEF X
  <2>2. QED BY <2>1, ItemsProperties
<1>3. /\ ck.context \in Seq(ContextItems(X)) /\ IsInjective(ck.context) /\ Ordered(ck.context)
  BY <1>1, Fields DEF Good, CallsInv
<1> HIDE DEF b, X
<1>4. /\ ck.context \o b \in Seq(ContextItems(X)) /\ IsInjective(ck.context \o b)
      /\ Ordered(ck.context \o b)
      /\ \A x : Contains(ck.context \o b, x) <=> Contains(ck.context, x) \/ Contains(b, x)
  <2>1. /\ \A k, x : Contains(b, <<k, x>>) => ~Contains(ck.context, <<k, x>>)
        /\ \A x : ~Contains(b, <<"output", x>>)
    BY <1>2 DEF HasCall
  <2>2. QED BY <1>2, <1>3, <2>1, AddItems
<1>5. /\ e \in [turn : Nat, phase : {"model", "completion"}, idle : BOOLEAN, steps : Nat]
      /\ e.turn = ck.exec.turn /\ (calls # <<>> => e.phase = "model")
  <2>1. p \in {"model", "completion"} /\ (calls # <<>> => p = "model")
    OBVIOUS
  <2>2. ck.exec \in [turn : Nat, phase : {"model", "completion"}, idle : BOOLEAN, steps : Nat]
    BY <1>1, Fields
  <2> HIDE DEF p
  <2>3. ck.exec.steps + 1 \in Nat
    BY <2>2
  <2>4. QED BY <2>1, <2>2, <2>3, Executions
<1>6. new = [ck EXCEPT !.context = ck.context \o b, !.tools = calls, !.step = FALSE, !.exec = e]
  <2>1. \A r : r = [ck.exec EXCEPT !.steps = ck.exec.steps + 1, !.phase = p] =>
           [ck EXCEPT !.context = @ \o b, !.tools = calls, !.step = FALSE,
                      !.exec.steps = @ + 1, !.exec.phase = p]
             = [ck EXCEPT !.context = ck.context \o b, !.tools = calls, !.step = FALSE, !.exec = r]
    <3> HIDE DEF p
    <3>1. QED OBVIOUS
  <2>2. QED BY <2>1 DEF WithModelOutput, b
<1> HIDE DEF e
<1>7. /\ new.pending = ck.pending /\ new.context = ck.context \o b /\ new.tools = calls
      /\ new.step = FALSE /\ new.approval = ck.approval /\ new.exec = e /\ new \in Checkpoints
  <2> HIDE DEF new
  <2>1. QED BY <1>1, <1>4, <1>5, <1>6 DEF Checkpoints, CheckpointsOf, X
<1> HIDE DEF new
<1>8. /\ \A m : HasMessage(new, m) <=> HasMessage(ck, m)
      /\ \A c : HasOutput(new, c) <=> HasOutput(ck, c)
      /\ \A c : HasCall(new, c) <=> HasCall(ck, c) \/ Contains(calls, c)
  BY <1>2, <1>4, <1>7 DEF HasMessage, HasOutput, HasCall
<1>9. QueueInv(new) /\ ExecInv(new, n) /\ PendingInv(new)
  BY <1>1, <1>5, <1>7, <1>8 DEF Good, QueueInv, ExecInv, PendingInv
<1>10. \A c : HasOutput(ck, c) => HasCall(ck, c)
  BY <1>3, OutputHasCall DEF HasOutput, HasCall
<1>11. CallsInv(new)
  BY <1>1, <1>4, <1>7, <1>8, <1>10 DEF Good, CallsInv
<1>12. QED BY <1>1, <1>5, <1>7, <1>8, <1>9, <1>11 DEF Good, new

(* What complete_tool_step saves.                                          *)
Recorded(ck, calls) == [WithResults(ck, calls) EXCEPT !.approval = NoApproval]

(* The pending calls without those that got their result.                  *)
Outstanding(tools, calls) == CallsIn(tools, ToSet(tools) \ ToSet(calls))

(* append_tool_results and the end of the approval.                        *)
LEMMA GoodResults ==
    ASSUME NEW ck, NEW n \in Nat, Good(ck, n), ~ck.step, NEW calls \in Seq(Calls), IsInjective(calls),
           \A c : Contains(calls, c) => Contains(ck.tools, c),
           NEW new, new = Recorded(ck, calls)
    PROVE  /\ Good(new, n) /\ ~new.step /\ new.approval = NoApproval
           /\ new.exec = ck.exec /\ new.pending = ck.pending
           /\ new.tools = Outstanding(ck.tools, calls)
           /\ \A m : HasMessage(new, m) <=> HasMessage(ck, m)
           /\ \A c : HasCall(new, c) <=> HasCall(ck, c)
           /\ \A c : Contains(new.tools, c) <=> Contains(ck.tools, c) /\ ~Contains(calls, c)
<1> DEFINE X == Messages \cup Calls
           I == {i \in DOMAIN ck.tools : ck.tools[i] \in ToSet(ck.tools) \ ToSet(calls)}
           tools == Entries(ck.tools, I)
           context == ck.context \o OutputItems(calls)
<1>1. /\ ck \in Checkpoints /\ ck.tools \in Seq(Calls) /\ IsInjective(ck.tools)
      /\ ck.context \in Seq(ContextItems(X)) /\ IsInjective(ck.context) /\ Ordered(ck.context)
      /\ \A c \in Calls : Contains(ck.tools, c) <=> HasCall(ck, c) /\ ~HasOutput(ck, c)
  BY Fields DEF Good, CallsInv
<1>2. \A c : Contains(ck.tools, c) => c \in Calls
  BY <1>1, ContainsIsToSet
<1>3. /\ tools \in Seq(Calls) /\ IsInjective(tools)
      /\ \A c : Contains(tools, c) <=> Contains(ck.tools, c) /\ ~Contains(calls, c)
  <2>1. I \in SUBSET (DOMAIN ck.tools)
    OBVIOUS
  <2>2. \A c : Contains(tools, c) <=> \E i \in I : ck.tools[i] = c
    <3> HIDE DEF I
    <3>1. QED BY <1>1, <2>1, EntriesProperties
  <2>3. tools \in Seq(Calls) /\ IsInjective(tools)
    <3> HIDE DEF I
    <3>1. QED BY <1>1, <2>1, EntriesProperties
  <2>4. \A c : (c \in ToSet(ck.tools) <=> Contains(ck.tools, c)) /\ (c \in ToSet(calls) <=> Contains(calls, c))
    BY <1>1, ContainsIsToSet
  <2>5. \A c : (\E i \in I : ck.tools[i] = c) <=> Contains(ck.tools, c) /\ ~Contains(calls, c)
    <3>1. ASSUME NEW c, NEW i \in I, ck.tools[i] = c
          PROVE  Contains(ck.tools, c) /\ ~Contains(calls, c)
      BY <2>4, <3>1
    <3>2. ASSUME NEW c, Contains(ck.tools, c), ~Contains(calls, c)
          PROVE  \E i \in I : ck.tools[i] = c
      <4>1. PICK i \in DOMAIN ck.tools : ck.tools[i] = c
        BY <1>1, <3>2 DEF Contains
      <4>2. c \in ToSet(ck.tools) \ ToSet(calls)
        BY <2>4, <3>2
      <4>3. i \in I
        BY <4>1, <4>2
      <4>4. QED BY <4>1, <4>3
    <3>3. QED BY <3>1, <3>2
  <2>6. QED BY <2>2, <2>3, <2>5
<1>4. /\ context \in Seq(ContextItems(X)) /\ IsInjective(context) /\ Ordered(context)
      /\ \A k, x : Contains(context, <<k, x>>) <=>
            Contains(ck.context, <<k, x>>) \/ (k = "output" /\ Contains(calls, x))
  <2>1. calls \in Seq(X)
    OBVIOUS
  <2>2. \A c : Contains(calls, c) => Contains(ck.context, <<"call", c>>) /\ ~Contains(ck.context, <<"output", c>>)
    BY <1>1, <1>2 DEF HasCall, HasOutput
  <2> HIDE DEF X
  <2>3. QED BY <1>1, <2>1, <2>2, AddOutputs
<1>5. tools = Outstanding(ck.tools, calls)
  BY DEF CallsIn, Outstanding
<1>6. new = [ck EXCEPT !.context = context, !.tools = tools, !.approval = NoApproval]
  BY <1>5 DEF WithResults, Recorded, Outstanding
<1> HIDE DEF I, tools, context
<1>7. /\ new.pending = ck.pending /\ new.context = context /\ new.tools = tools
      /\ new.step = ck.step /\ new.approval = NoApproval /\ new.exec = ck.exec /\ new \in Checkpoints
  <2>1. context \in Seq(ContextItems(Messages \cup Calls))
    BY <1>4
  <2>2. /\ new.pending = ck.pending /\ new.context = context /\ new.tools = tools
        /\ new.step = ck.step /\ new.approval = NoApproval /\ new.exec = ck.exec
    BY <1>1, <1>6 DEF Checkpoints, CheckpointsOf
  <2>3. new \in Checkpoints
    <3>1. tools \in Seq(Calls) /\ NoApproval \in [calls : Seq(Calls), decided : BOOLEAN]
      BY <1>3, NoValues
    <3>2. QED BY <1>1, <1>6, <2>1, <3>1 DEF Checkpoints, CheckpointsOf
  <2>4. QED BY <2>2, <2>3
<1>8. /\ \A m : HasMessage(new, m) <=> HasMessage(ck, m)
      /\ \A c : HasCall(new, c) <=> HasCall(ck, c)
      /\ \A c : HasOutput(new, c) <=> HasOutput(ck, c) \/ Contains(calls, c)
  BY <1>4, <1>7 DEF HasMessage, HasOutput, HasCall
<1>9. QueueInv(new) /\ ExecInv(new, n)
  BY <1>7, <1>8 DEF Good, QueueInv, ExecInv
<1>10. tools # <<>> => ck.tools # <<>>
  BY <1>1, <1>3, ContainsNothing
<1>11. PendingInv(new)
  BY <1>7, <1>10 DEF Good, PendingInv
<1>12. CallsInv(new)
  BY <1>1, <1>2, <1>3, <1>4, <1>7, <1>8 DEF CallsInv
<1>13. QED BY <1>3, <1>5, <1>7, <1>8, <1>9, <1>11, <1>12 DEF Good

(* The request for approval that the runner saves.                         *)
Asked(ck) == [ck EXCEPT !.approval = [calls |-> ck.tools, decided |-> FALSE]]

(* The user is asked, and a decision was received.                         *)
LEMMA GoodAsked ==
    ASSUME NEW ck, NEW n \in Nat, Good(ck, n), ~ck.step, ck.tools # <<>>
    PROVE  LET new == Asked(ck) IN
           /\ Good(new, n) /\ new.approval # NoApproval /\ ~new.approval.decided
           /\ new.step = ck.step /\ new.tools = ck.tools /\ new.exec = ck.exec
           /\ new.pending = ck.pending /\ new.context = ck.context
<1> DEFINE new == Asked(ck)
<1>1. ck \in Checkpoints /\ ck.tools \in Seq(Calls)
  BY Fields DEF Good
<1>2. /\ new.pending = ck.pending /\ new.context = ck.context /\ new.tools = ck.tools
      /\ new.step = ck.step /\ new.exec = ck.exec /\ new \in Checkpoints
      /\ new.approval.calls = ck.tools /\ ~new.approval.decided
  BY <1>1 DEF Checkpoints, CheckpointsOf, Asked
<1> HIDE DEF new
<1>3. new.approval # NoApproval
  BY <1>2, NoValues
<1>4. QueueInv(new) /\ ExecInv(new, n) /\ CallsInv(new) /\ PendingInv(new)
  BY <1>2 DEF Good, QueueInv, ExecInv, CallsInv, PendingInv, HasMessage, HasCall, HasOutput
<1>5. QED BY <1>2, <1>3, <1>4 DEF Good, new

(* Recording the decision of an approval.                                  *)
LEMMA GoodDecided ==
    ASSUME NEW ck, NEW n \in Nat, Good(ck, n), ck.approval # NoApproval
    PROVE  LET new == [ck EXCEPT !.approval.decided = TRUE] IN
           /\ Good(new, n) /\ new.approval # NoApproval /\ new.approval.decided
           /\ new.step = ck.step /\ new.tools = ck.tools /\ new.exec = ck.exec
           /\ new.pending = ck.pending /\ new.context = ck.context
<1>1. /\ ck \in Checkpoints /\ ck.approval \in [calls : Seq(Calls), decided : BOOLEAN]
      /\ ck.approval.calls = ck.tools /\ ~ck.step /\ ck.tools # <<>>
  BY Fields DEF Good, PendingInv
<1> DEFINE new == [ck EXCEPT !.approval.decided = TRUE]
           a == [ck.approval EXCEPT !.decided = TRUE]
<1>2. a \in [calls : Seq(Calls), decided : BOOLEAN] /\ a.calls = ck.tools /\ a.decided = TRUE
  BY <1>1
<1>3. new = [ck EXCEPT !.approval = a]
  OBVIOUS
<1> HIDE DEF new, a
<1>4. /\ new.pending = ck.pending /\ new.context = ck.context /\ new.tools = ck.tools
      /\ new.step = ck.step /\ new.exec = ck.exec /\ new.approval = a /\ new \in Checkpoints
  BY <1>1, <1>2, <1>3 DEF Checkpoints, CheckpointsOf
<1>5. new.approval # NoApproval
  BY <1>1, <1>2, <1>4, NoValues
<1>6. QueueInv(new) /\ ExecInv(new, n) /\ CallsInv(new) /\ PendingInv(new)
  BY <1>1, <1>2, <1>4 DEF Good, QueueInv, ExecInv, CallsInv, PendingInv, HasMessage, HasCall, HasOutput
<1>7. QED BY <1>2, <1>4, <1>5, <1>6 DEF Good, new

(* The turn goes back to the model.                                        *)
LEMMA GoodPhase ==
    ASSUME NEW ck, NEW n \in Nat, Good(ck, n), ck.exec.turn # NoTurn
    PROVE  LET new == [ck EXCEPT !.exec.phase = "model"] IN
           /\ Good(new, n) /\ new.exec.turn = ck.exec.turn /\ new.exec.phase = "model"
           /\ new.step = ck.step /\ new.tools = ck.tools /\ new.approval = ck.approval
           /\ new.pending = ck.pending /\ new.context = ck.context
<1> DEFINE new == [ck EXCEPT !.exec.phase = "model"]
           e == [ck.exec EXCEPT !.phase = "model"]
<1>1. /\ ck \in Checkpoints
      /\ ck.exec \in [turn : Nat, phase : {"model", "completion"}, idle : BOOLEAN, steps : Nat]
  BY Fields DEF Good
<1>2. /\ e \in [turn : Nat, phase : {"model", "completion"}, idle : BOOLEAN, steps : Nat]
      /\ e.turn = ck.exec.turn /\ e.phase = "model"
  BY <1>1
<1>3. new = [ck EXCEPT !.exec = e]
  OBVIOUS
<1> HIDE DEF e, new
<1>4. /\ new.pending = ck.pending /\ new.context = ck.context /\ new.tools = ck.tools
      /\ new.step = ck.step /\ new.exec = e /\ new.approval = ck.approval /\ new \in Checkpoints
  BY <1>1, <1>2, <1>3 DEF Checkpoints, CheckpointsOf
<1>5. QueueInv(new) /\ ExecInv(new, n) /\ CallsInv(new) /\ PendingInv(new)
  BY <1>2, <1>4 DEF Good, QueueInv, ExecInv, CallsInv, PendingInv, HasMessage, HasCall, HasOutput
<1>6. QED BY <1>2, <1>4, <1>5 DEF Good, new

(* abort_with_events: every pending call gets its interrupted result, and  *)
(* the steers of the turn start turns of their own.                        *)
LEMMA GoodAborted ==
    ASSUME NEW ck, NEW n \in Nat \ {0}, Good(ck, n)
    PROVE  LET new == Aborted(ck) IN
           /\ Good(new, n) /\ Clear(new) /\ new.exec = NoExec
           /\ SameMessages(new, ck)
           /\ \A c : HasCall(new, c) <=> Known(ck, c)
<1> DEFINE new == Aborted(ck)
           X == Messages \cup Calls
           mid == ck.context \o (IF ck.step THEN CallItems(ck.tools) ELSE <<>>)
           context == mid \o OutputItems(ck.tools)
           q == PromoteFailedTurn(ck.pending, ck.exec.turn)
<1>1. /\ ck \in Checkpoints /\ ck.tools \in Seq(Calls) /\ IsInjective(ck.tools)
      /\ ck.context \in Seq(ContextItems(X)) /\ IsInjective(ck.context) /\ Ordered(ck.context)
      /\ ck.pending \in Seq(QueueItems(Messages)) /\ DistinctIds(ck.pending) /\ ck.step \in BOOLEAN
      /\ ck.step => \A c \in Calls : HasCall(ck, c) => HasOutput(ck, c) /\ ~Contains(ck.tools, c)
      /\ ~ck.step => \A c \in Calls : Contains(ck.tools, c) <=> HasCall(ck, c) /\ ~HasOutput(ck, c)
  BY Fields DEF Good, CallsInv, QueueInv
<1>2. ck.tools \in Seq(X) /\ \A c : Contains(ck.tools, c) => c \in Calls
  BY <1>1, ContainsIsToSet
<1>3. /\ q \in Seq(QueueItems(Messages)) /\ DistinctIds(q) /\ IdsOf(q) = IdsOf(ck.pending)
      /\ \A i \in DOMAIN q : q[i].boundary # "steer"
  <2>1. /\ q \in Seq(QueueItems(Messages)) /\ DistinctIds(q) /\ IdsOf(q) = IdsOf(ck.pending)
        /\ DOMAIN q = DOMAIN ck.pending
        /\ \A i \in DOMAIN ck.pending : q[i].boundary = "steer" =>
              ck.pending[i].boundary = "steer" /\ ck.pending[i].turn # ck.exec.turn
    BY <1>1, PromoteInQueue
  <2> HIDE DEF q
  <2>2. QED BY <2>1 DEF Good, ExecInv
<1>4. \A c : HasOutput(ck, c) => HasCall(ck, c)
  <2> HIDE DEF X
  <2>1. QED BY <1>1, OutputHasCall DEF HasOutput, HasCall
<1> HIDE DEF X, q
<1>5. /\ mid \in Seq(ContextItems(X)) /\ IsInjective(mid) /\ Ordered(mid)
      /\ \A k, x : Contains(mid, <<k, x>>) <=>
            Contains(ck.context, <<k, x>>) \/ (k = "call" /\ Contains(ck.tools, x))
  <2>1. CASE ck.step
    <3> DEFINE b == CallItems(ck.tools)
    <3>1. /\ b \in Seq(ContextItems(X)) /\ IsInjective(b)
          /\ \A k, x : Contains(b, <<k, x>>) <=> k = "call" /\ Contains(ck.tools, x)
      BY <1>1, <1>2, ItemsProperties
    <3>2. mid = ck.context \o b
      BY <2>1
    <3> HIDE DEF b, mid
    <3>3. /\ \A k, x : Contains(b, <<k, x>>) => ~Contains(ck.context, <<k, x>>)
          /\ \A x : ~Contains(b, <<"output", x>>)
      BY <1>1, <1>2, <2>1, <3>1 DEF HasCall
    <3>4. /\ ck.context \o b \in Seq(ContextItems(X)) /\ IsInjective(ck.context \o b)
          /\ Ordered(ck.context \o b)
          /\ \A x : Contains(ck.context \o b, x) <=> Contains(ck.context, x) \/ Contains(b, x)
      BY <1>1, <3>1, <3>3, AddItems
    <3>5. QED BY <3>1, <3>2, <3>4
  <2>2. CASE ~ck.step
    <3>1. mid = ck.context
      <4>1. ck.context \o <<>> = ck.context
        BY <1>1
      <4>2. QED BY <2>2, <4>1
    <3> HIDE DEF mid
    <3>2. \A x : Contains(ck.tools, x) => Contains(ck.context, <<"call", x>>)
      BY <1>1, <1>2, <2>2 DEF HasCall
    <3>3. QED BY <1>1, <3>1, <3>2
  <2>3. QED BY <2>1, <2>2
<1> HIDE DEF mid
<1>6. /\ context \in Seq(ContextItems(X)) /\ IsInjective(context) /\ Ordered(context)
      /\ \A k, x : Contains(context, <<k, x>>) <=>
            Contains(mid, <<k, x>>) \/ (k = "output" /\ Contains(ck.tools, x))
  <2>1. \A c : Contains(ck.tools, c) => Contains(mid, <<"call", c>>)
    BY <1>5
  <2>2. \A c : Contains(ck.tools, c) => ~Contains(mid, <<"output", c>>)
    <3>1. \A c : Contains(mid, <<"output", c>>) => HasOutput(ck, c)
      BY <1>5 DEF HasOutput
    <3>2. \A c : Contains(ck.tools, c) => ~HasOutput(ck, c)
      BY <1>1, <1>2, <1>4
    <3>3. QED BY <3>1, <3>2
  <2>3. QED BY <1>1, <1>2, <1>5, <2>1, <2>2, AddOutputs
<1>7. new = [ck EXCEPT !.context = context, !.tools = <<>>, !.step = FALSE, !.approval = NoApproval,
                       !.pending = q, !.exec = NoExec]
  BY DEF Aborted, WithInterruptedTools, context, mid, q
<1> HIDE DEF context, new
<1>8. /\ new.pending = q /\ new.context = context /\ new.tools = <<>>
      /\ new.step = FALSE /\ new.approval = NoApproval /\ new.exec = NoExec /\ new \in Checkpoints
  BY <1>1, <1>3, <1>6, <1>7, NoValues DEF Checkpoints, CheckpointsOf, X
<1>9. /\ \A m : HasMessage(new, m) <=> HasMessage(ck, m)
      /\ \A c : HasCall(new, c) <=> Known(ck, c)
      /\ \A c : HasOutput(new, c) <=> HasOutput(ck, c) \/ Contains(ck.tools, c)
  BY <1>5, <1>6, <1>8 DEF HasMessage, HasOutput, HasCall, Known
<1>10. QueueInv(new) /\ ExecInv(new, n) /\ PendingInv(new) /\ Clear(new)
  BY <1>3, <1>8, <1>9, NoValues DEF Good, QueueInv, ExecInv, PendingInv, Clear, NoTurn
<1>11. CallsInv(new)
  <2>1. (\A c : ~Contains(<<>>, c)) /\ IsInjective(<<>>)
    BY DEF Contains, IsInjective
  <2>2. QED BY <1>1, <1>6, <1>8, <1>9, <2>1 DEF CallsInv, Known
<1>12. QED BY <1>3, <1>8, <1>9, <1>10, <1>11 DEF Good, SameMessages, new

(* complete_turn promotes nothing: no steer may wait.                      *)
LEMMA GoodCompleted ==
    ASSUME NEW ck, NEW n \in Nat \ {0}, Good(ck, n), Clear(ck), ~MessagesReady(ck.pending, ck.exec.turn)
    PROVE  LET new == Completed(ck) IN
           /\ Good(new, n) /\ Clear(new) /\ new.exec = NoExec
           /\ new.pending = ck.pending /\ new.context = ck.context
<1> DEFINE new == Completed(ck)
<1>1. /\ new.pending = ck.pending /\ new.context = ck.context /\ new.tools = ck.tools
      /\ new.step = ck.step /\ new.exec = NoExec /\ new.approval = ck.approval /\ new \in Checkpoints
  BY NoValues DEF Good, Checkpoints, CheckpointsOf, Completed
<1> HIDE DEF new
<1>2. \A i \in DOMAIN ck.pending : ck.pending[i].boundary # "steer"
  BY DEF Good, ExecInv, MessagesReady, Steers
<1>3. QueueInv(new) /\ ExecInv(new, n) /\ CallsInv(new) /\ PendingInv(new) /\ Clear(new)
  BY <1>1, <1>2, NoValues
  DEF Good, QueueInv, ExecInv, CallsInv, PendingInv, HasMessage, HasCall, HasOutput, Clear, NoTurn
<1>4. QED BY <1>1, <1>3 DEF Good, new

(* create_agent ends an interrupted execution as an abort does.            *)
LEMMA RecoveredIs ==
    ASSUME NEW ck, NEW n \in Nat, Good(ck, n)
    PROVE  /\ InterruptedExecution(ck) => Recovered(ck) = Aborted(ck) /\ ck.exec.turn # NoTurn
           /\ ~InterruptedExecution(ck) =>
                /\ Recovered(ck) = ck
                /\ Clear(ck) \/ (ck.approval # NoApproval /\ ~ck.approval.decided)
<1>1. ck \in Checkpoints /\ ck.context \in Seq(ContextItems(Messages \cup Calls)) /\ PendingInv(ck)
      /\ ck.step \in BOOLEAN
  BY Fields DEF Good
<1>2. InterruptedExecution(ck) => ck.exec.turn # NoTurn
  BY <1>1 DEF InterruptedExecution, UncertainTools, PendingInv
<1>3. ASSUME UncertainTools(ck)
      PROVE  Recovered(ck) = Aborted(ck)
  <2> DEFINE w == WithInterruptedTools(ck)
  <2>1. w.pending = ck.pending
    BY <1>1 DEF WithInterruptedTools, Checkpoints, CheckpointsOf
  <2>2. Recovered(ck) = [w EXCEPT !.approval = NoApproval, !.step = FALSE,
                                  !.pending = PromoteFailedTurn(ck.pending, ck.exec.turn), !.exec = NoExec]
    BY <1>3, <2>1 DEF Recovered, InterruptedExecution
  <2>3. Aborted(ck) = [w EXCEPT !.step = FALSE, !.approval = NoApproval,
                                !.pending = PromoteFailedTurn(ck.pending, ck.exec.turn), !.exec = NoExec]
    BY <2>1 DEF Aborted
  <2> HIDE DEF w
  <2>4. QED BY <2>2, <2>3
<1>4. ASSUME ~UncertainTools(ck), ck.step
      PROVE  Recovered(ck) = Aborted(ck)
  <2>1. ck.tools = <<>> /\ ck.approval = NoApproval
    BY <1>1, <1>4 DEF UncertainTools, PendingInv
  <2>2. CallItems(ck.tools) = <<>> /\ OutputItems(ck.tools) = <<>>
    BY <2>1 DEF CallItems, OutputItems
  <2>3. ck.context \o (IF ck.step THEN CallItems(ck.tools) ELSE <<>>) \o OutputItems(ck.tools) = ck.context
    BY <1>1, <1>4, <2>2
  <2>4. WithInterruptedTools(ck) = ck
    BY <1>1, <2>1, <2>3 DEF WithInterruptedTools, Checkpoints, CheckpointsOf
  <2>5. Recovered(ck) = [ck EXCEPT !.step = FALSE,
                                   !.pending = PromoteFailedTurn(ck.pending, ck.exec.turn), !.exec = NoExec]
    BY <1>4 DEF Recovered, InterruptedExecution
  <2>6. Aborted(ck) = [ck EXCEPT !.step = FALSE, !.approval = NoApproval,
                                 !.pending = PromoteFailedTurn(ck.pending, ck.exec.turn), !.exec = NoExec]
    BY <2>4 DEF Aborted
  <2> DEFINE p == PromoteFailedTurn(ck.pending, ck.exec.turn)
  <2> HIDE DEF p
  <2>7. [ck EXCEPT !.approval = NoApproval] = ck
    BY <1>1, <2>1 DEF Checkpoints, CheckpointsOf
  <2>8. [ck EXCEPT !.step = FALSE, !.approval = NoApproval, !.pending = p, !.exec = NoExec]
          = [[ck EXCEPT !.approval = NoApproval] EXCEPT !.step = FALSE, !.pending = p, !.exec = NoExec]
    BY <1>1 DEF Checkpoints, CheckpointsOf
  <2>9. QED BY <2>5, <2>6, <2>7, <2>8 DEF p
<1>5. ~InterruptedExecution(ck) => Clear(ck) \/ (ck.approval # NoApproval /\ ~ck.approval.decided)
  BY <1>1 DEF InterruptedExecution, UncertainTools, PendingInv, Clear
<1>6. QED BY <1>2, <1>3, <1>4, <1>5 DEF Recovered, InterruptedExecution

-----------------------------------------------------------------------------
(* The inductive invariant.                                                *)

(* Where the runner goes on once it has drained the inbox.                 *)
Place == IF pc = "drain" THEN goto ELSE pc

ControlOK ==
    IF pc = "drain" THEN goto \in DrainedFirst /\ left \in 1..Len(inbox)
                    ELSE pc \in Places /\ goto = "none" /\ left = 0

(* Memory and disk: the queue and the delivered messages never differ.     *)
(* Only a turn that fails has more in memory than a phase that was turned  *)
(* back to the model for a steer that waits.                               *)
Agree(place, l, d) ==
    /\ l.pending = d.pending
    /\ \A m : HasMessage(l, m) <=> HasMessage(d, m)
    /\ \A c : Known(d, c) => Known(l, c)
    /\ place # "failing" => l = [d EXCEPT !.exec.phase = l.exec.phase]
    /\ place \notin {"failing", "prepare", "abort"} => l = d
    /\ place = "prepare" => l = d \/ MessagesReady(l.pending, l.exec.turn)
    /\ l.exec.turn = d.exec.turn \/ (place = "failing" /\ d.exec.turn = NoTurn)

(* Places where nothing of a model step is open, and places of a batch.    *)
Settled ==
    {"loop", "prepare", "hooks", "hooked", "prepared", "backoff", "again", "completion", "afterStop"}
Streaming == {"respond", "retry", "normalize"}
Batching  == {"begin", "execute", "executing", "record", "recorded"}

(* What the runner knows of its checkpoint and its work at a place.        *)
At(place, ck, w) ==
    /\ place \notin {"loop", "down"} => ck.exec.turn # NoTurn
    /\ place = "loop" => ck.exec.turn = NoTurn
    /\ place \notin {"completion", "afterStop", "abort", "failing", "stopResumed", "down"}
         => ck.exec.phase = "model"
    /\ place \in Settled => Clear(ck)
    /\ place \in Streaming => ck.step
    /\ place \in {"respond", "retry", "finish", "collect"} => ck.tools = w.calls
    /\ place \in {"respond", "normalize"} =>
         /\ \A c : Contains(ck.tools, c) => Contains(w.calls, c)
         /\ IsInjective(w.calls) /\ \A c : Contains(w.calls, c) => ~HasCall(ck, c)
    /\ place \in {"finish", "collect"} => ~ck.step /\ ck.approval = NoApproval /\ w.calls # <<>>
    /\ place = "authorize" =>
         ~ck.step /\ ck.approval = NoApproval /\ ck.tools = w.batch /\ w.batch # <<>> /\ w.refused = <<>>
    /\ place = "approval" => ck.approval # NoApproval /\ ~ck.approval.decided
    /\ place \in Batching =>
         /\ ~ck.step /\ \A c : Contains(ck.tools, c) <=> Contains(w.batch, c) \/ Contains(w.refused, c)
         /\ ck.approval = NoApproval \/ ck.approval.decided

(* The calls in `running' may still take effect; d is the saved checkpoint.*)
EffectsAt(place, w, d) ==
    /\ w.running # {} => place \in {"respond", "normalize", "finish", "executing"}
    /\ \A c \in Calls : effects[c] > 0 => effects[c] = 1 /\ Known(d, c) /\ (c \in Guarded => c \in approved)
    /\ \A c \in w.running : effects[c] = 0 /\ Contains(d.tools, c) /\ (c \in Guarded => c \in approved)
    /\ place \in {"respond", "normalize", "finish", "collect"} =>
         \A c : Contains(w.calls, c) /\ c \notin w.ran \cup w.running => effects[c] = 0
    /\ place \in {"authorize", "begin", "execute"} => \A c : Contains(w.batch, c) => effects[c] = 0
    /\ place \in Batching => \A c \in Guarded : Contains(w.batch, c) => c \in approved
    /\ d.approval # NoApproval /\ ~d.approval.decided => \A c : Contains(d.tools, c) => effects[c] = 0

(* An accepted message is queued, delivered, dropped or replaced.          *)
MessagesInv ==
    /\ \A m \in Messages : m \in receipts <=>
          m \in IdsOf(disk.pending) \/ HasMessage(disk, m) \/ m \in dropped \/ m \in replaced
    /\ \A m \in Messages : m \in dropped \/ m \in replaced => m \notin IdsOf(disk.pending) /\ ~HasMessage(disk, m)
    /\ dropped \cap replaced = {}

(* The id of an edit that waits in the inbox is fresh.                     *)
InboxInv ==
    /\ \A i \in DOMAIN inbox : inbox[i].op = "edit" =>
          /\ inbox[i].id \notin receipts
          /\ \A j \in 1..(i - 1) : inbox[j].op \in {"message", "edit"} => inbox[j].id # inbox[i].id
    /\ acked \subseteq receipts

JournalInv ==
    /\ \A t \in Nat \ {0} :
          /\ Starts(t) <= 1 /\ Ends(t) <= 1
          /\ (Starts(t) = 1 /\ Ends(t) = 0) <=> disk.exec.turn = t
          /\ t >= nextTurn => Starts(t) = 0 /\ Ends(t) = 0
    /\ live.exec.turn # disk.exec.turn => Starts(live.exec.turn) = 0 /\ Ends(live.exec.turn) = 0

CoreInv ==
    /\ TypeOK
    /\ Good(live, nextTurn) /\ Good(disk, nextTurn)
    /\ Agree(Place, live, disk)
    /\ At(Place, live, work)

IInv == CoreInv /\ EffectsAt(Place, work, disk) /\ MessagesInv /\ InboxInv /\ JournalInv

-----------------------------------------------------------------------------
(* The parts of the type invariant.                                        *)

Events == {"started", "promoted", "completed", "aborted"} \X Nat

SavedOK == receipts \subseteq Messages /\ journal \in Seq(Events)

RestOK ==
    /\ acked \subseteq Messages /\ dropped \subseteq Messages /\ replaced \subseteq Messages
    /\ approved \subseteq Calls /\ effects \in [Calls -> Nat]
    /\ inbox \in Seq(Requests) /\ Len(inbox) <= InboxCapacity
    /\ closed \in BOOLEAN /\ fallback \in BOOLEAN /\ idleSpent \in BOOLEAN
    /\ nextTurn \in Nat \ {0} /\ sends \in Nat /\ crashes \in Nat /\ faults \in Nat

(* The type invariant, part by part, now and after a step.                 *)
LEMMA TypeParts ==
    /\ TypeOK <=> /\ live \in Checkpoints /\ disk \in Checkpoints
                  /\ ControlOK /\ work \in Works /\ SavedOK /\ RestOK
    /\ TypeOK' <=> /\ live' \in Checkpoints /\ disk' \in Checkpoints
                   /\ ControlOK' /\ work' \in Works /\ SavedOK' /\ RestOK'
BY DEF TypeOK, ControlOK, SavedOK, RestOK, Events

(* The ids of a queue are messages.                                        *)
LEMMA IdsAreMessages ==
    ASSUME NEW q \in Seq(QueueItems(Messages))
    PROVE  IdsOf(q) \subseteq Messages
<1>1. \A i \in DOMAIN q : q[i] \in QueueItems(Messages)
  OBVIOUS
<1>2. \A e \in QueueItems(Messages) : e.id \in Messages
  BY DEF QueueItems
<1>3. QED BY <1>1, <1>2 DEF IdsOf

(* A runner without work.                                                  *)
LEMMA NoWorkWorks == /\ NoWork \in Works /\ NoWork.running = {} /\ NoWork.calls = <<>>
                     /\ NoWork.batch = <<>> /\ NoWork.refused = <<>>
BY DEF NoWork, Works

(* A runner with a batch to authorise or to execute.                       *)
LEMMA WorkBatch ==
    ASSUME NEW b \in Seq(Calls), NEW f \in Seq(Calls)
    PROVE  /\ [NoWork EXCEPT !.batch = b] \in Works
           /\ [NoWork EXCEPT !.batch = b].batch = b /\ [NoWork EXCEPT !.batch = b].refused = <<>>
           /\ [NoWork EXCEPT !.batch = b].running = {} /\ [NoWork EXCEPT !.batch = b].calls = <<>>
           /\ [NoWork EXCEPT !.batch = b, !.refused = f] \in Works
           /\ [NoWork EXCEPT !.batch = b, !.refused = f].batch = b
           /\ [NoWork EXCEPT !.batch = b, !.refused = f].refused = f
           /\ [NoWork EXCEPT !.batch = b, !.refused = f].running = {}
           /\ [NoWork EXCEPT !.batch = b, !.refused = f].calls = <<>>
<1>1. ASSUME NEW x \in Works
      PROVE  LET w == [x EXCEPT !.batch = b] IN
             /\ w \in Works /\ w.calls = x.calls /\ w.running = x.running
             /\ w.batch = b /\ w.refused = x.refused
  BY DEF Works
<1>2. ASSUME NEW x \in Works
      PROVE  LET w == [x EXCEPT !.batch = b, !.refused = f] IN
             w \in Works /\ w.calls = x.calls /\ w.running = x.running /\ w.batch = b /\ w.refused = f
  BY DEF Works
<1>3. QED BY <1>1, <1>2, NoWorkWorks

(* A runner that has retried the model step n times.                       *)
LEMMA WorkWith ==
    ASSUME NEW n \in Nat
    PROVE  LET w == [NoWork EXCEPT !.retries = n] IN
           w \in Works /\ w.calls = <<>> /\ w.running = {} /\ w.batch = <<>>
<1>1. ASSUME NEW x \in Works
      PROVE  LET w == [x EXCEPT !.retries = n] IN
             w \in Works /\ w.calls = x.calls /\ w.running = x.running /\ w.batch = x.batch
  BY DEF Works
<1>2. QED BY <1>1, NoWorkWorks

(* Goto and Jump reach their place; routing a submission of a drain stays  *)
(* on the way to it.                                                       *)
LEMMA Jumps ==
    ASSUME NEW place \in Places, Jump(place)
    PROVE  Place' = place /\ ControlOK'
BY DEF Jump, Place, ControlOK, Places

(* Goto reaches its place, at once or after a drain of the inbox.          *)
LEMMA Gotos ==
    ASSUME NEW place \in Places, Goto(place), inbox \in Seq(Requests), inbox' = inbox
    PROVE  Place' = place /\ ControlOK'
<1>1. CASE place \in DrainedFirst /\ inbox # <<>>
  <2>1. pc' = "drain" /\ goto' = place /\ left' = Len(inbox)
    BY <1>1 DEF Goto
  <2>2. Len(inbox) \in Nat /\ Len(inbox) # 0
    BY <1>1
  <2>3. left' \in 1..Len(inbox)
    BY <2>1, <2>2
  <2>4. QED BY <1>1, <2>1, <2>3 DEF Place, ControlOK
<1>2. CASE ~(place \in DrainedFirst /\ inbox # <<>>)
  <2>1. Jump(place)
    BY <1>2 DEF Goto, Jump
  <2>2. QED BY <2>1, Jumps
<1>3. QED BY <1>1, <1>2

(* Routing one submission of a drain stays on the way to the place behind  *)
(* it.                                                                     *)
LEMMA Routes ==
    ASSUME ControlOK, inbox \in Seq(Requests), inbox # <<>>, Routed
    PROVE  Place' = Place /\ ControlOK' /\ inbox' = Tail(inbox)
<1>1. inbox' = Tail(inbox) /\ Len(inbox') = Len(inbox) - 1 /\ Len(inbox) \in Nat \ {0}
  BY DEF Routed
<1>2. CASE pc = "drain" /\ left = 1
  <2>1. pc' = goto /\ goto' = "none" /\ left' = 0 /\ goto \in DrainedFirst
    BY <1>2 DEF Routed, ControlOK
  <2>2. \A p \in DrainedFirst : p \in Places /\ p # "drain"
    BY DEF DrainedFirst, Places
  <2>3. QED BY <1>1, <1>2, <2>1, <2>2 DEF Place, ControlOK
<1>3. CASE pc = "drain" /\ left # 1
  <2>1. pc' = "drain" /\ goto' = goto /\ left' = left - 1 /\ goto \in DrainedFirst /\ left \in 1..Len(inbox)
    BY <1>3 DEF Routed, ControlOK
  <2>2. left' \in 1..Len(inbox')
    BY <1>1, <1>3, <2>1
  <2>3. QED BY <1>1, <1>3, <2>1, <2>2 DEF Place, ControlOK
<1>4. CASE pc # "drain"
  BY <1>1, <1>4 DEF Routed, Place, ControlOK, control
<1>5. QED BY <1>2, <1>3, <1>4

-----------------------------------------------------------------------------
(* The core of the invariant over the kinds of step.                       *)

(* Memory and disk agree when they are equal.                              *)
LEMMA Reflexive ==
    ASSUME NEW ck \in Checkpoints, NEW place
    PROVE  Agree(place, ck, ck)
<1>1. ck = [ck EXCEPT !.exec.phase = ck.exec.phase]
  BY DEF Checkpoints, CheckpointsOf
<1>2. QED BY <1>1 DEF Agree

(* A save that succeeds: memory and disk become the same good checkpoint.  *)
LEMMA Committed ==
    ASSUME CoreInv, NEW new, NEW events \in Seq(Events), Commit(new, events),
           Good(new, nextTurn'), At(Place', new, work'), ControlOK', work' \in Works, RestOK'
    PROVE  CoreInv'
<1>1. live' = new /\ disk' = new /\ receipts' = receipts \cup IdsOf(new.pending) /\ journal' = journal \o events
  BY DEF Commit
<1>2. new \in Checkpoints /\ SavedOK
  BY TypeParts DEF Good, CoreInv
<1>3. new.pending \in Seq(QueueItems(Messages))
  BY <1>2, Fields
<1>4. IdsOf(new.pending) \subseteq Messages
  BY <1>3, IdsAreMessages
<1>5. SavedOK'
  <2>1. journal \o events \in Seq(Events)
    BY <1>2, ConcatProperties DEF SavedOK
  <2>2. QED BY <1>1, <1>2, <1>4, <2>1 DEF SavedOK
<1>6. TypeOK'
  BY <1>1, <1>2, <1>5, TypeParts
<1>7. Agree(Place, live, disk)'
  BY <1>1, <1>2, Reflexive
<1>8. QED BY <1>1, <1>6, <1>7 DEF CoreInv

(* A step that fails the turn: memory may be ahead of the disk until       *)
(* fail_turn.                                                              *)
LEMMA Failed ==
    ASSUME CoreInv, NEW kept, Fails(kept), UNCHANGED saved, RestOK', nextTurn' >= nextTurn,
           Good(kept, nextTurn'), kept.exec.turn # NoTurn,
           kept.exec.turn = disk.exec.turn \/ disk.exec.turn = NoTurn,
           kept.pending = disk.pending,
           \A m : HasMessage(kept, m) <=> HasMessage(disk, m),
           \A c : Known(disk, c) => Known(kept, c)
    PROVE  CoreInv' /\ Place' = "failing" /\ work' = NoWork /\ live' = kept
<1>1. live' = kept /\ disk' = disk /\ receipts' = receipts /\ journal' = journal /\ work' = NoWork
  BY DEF Fails, saved
<1>2. Place' = "failing" /\ ControlOK'
  <2>1. "failing" \in Places /\ Jump("failing")
    BY DEF Places, Fails
  <2>2. QED BY <2>1, Jumps
<1>3. SavedOK' /\ Good(disk', nextTurn')
  <2>1. nextTurn \in Nat /\ nextTurn' \in Nat /\ SavedOK
    BY TypeParts DEF CoreInv, RestOK
  <2>2. Good(disk, nextTurn')
    BY <2>1, GoodLater DEF CoreInv
  <2>3. QED BY <1>1, <2>1, <2>2 DEF SavedOK
<1>4. TypeOK'
  BY <1>1, <1>2, <1>3, NoWorkWorks, TypeParts DEF Good
<1>5. Agree(Place, live, disk)'
  BY <1>1, <1>2 DEF Agree
<1>6. At(Place, live, work)'
  BY <1>1, <1>2 DEF At, Settled, Streaming, Batching
<1>7. QED BY <1>1, <1>2, <1>3, <1>4, <1>5, <1>6 DEF CoreInv

(* A step that changes neither memory nor disk.                            *)
LEMMA Moved ==
    ASSUME CoreInv, UNCHANGED live, UNCHANGED saved, RestOK', nextTurn' = nextTurn,
           Agree(Place', live, disk), At(Place', live, work'), ControlOK', work' \in Works
    PROVE  CoreInv'
<1>1. live' = live /\ disk' = disk /\ receipts' = receipts /\ journal' = journal
  BY DEF saved
<1>2. TypeOK'
  BY <1>1, TypeParts DEF CoreInv, SavedOK
<1>3. QED BY <1>1, <1>2 DEF CoreInv

(* The runner ends: what it had in memory is gone.                         *)
LEMMA Died ==
    ASSUME CoreInv, Die, RestOK', nextTurn' >= nextTurn
    PROVE  CoreInv' /\ Place' = "down" /\ work' = NoWork /\ live' = disk /\ disk' = disk
<1>1. live' = disk /\ disk' = disk /\ receipts' = receipts /\ journal' = journal /\ work' = NoWork
  BY DEF Die, saved
<1>2. Place' = "down" /\ ControlOK'
  <2>1. "down" \in Places /\ Jump("down")
    BY DEF Places, Die
  <2>2. QED BY <2>1, Jumps
<1>3. SavedOK' /\ Good(disk, nextTurn')
  <2>1. nextTurn \in Nat /\ nextTurn' \in Nat /\ SavedOK
    BY TypeParts DEF CoreInv, RestOK
  <2>2. Good(disk, nextTurn')
    BY <2>1, GoodLater DEF CoreInv
  <2>3. QED BY <1>1, <2>1, <2>2 DEF SavedOK
<1>4. TypeOK'
  BY <1>1, <1>2, <1>3, NoWorkWorks, TypeParts DEF Good
<1>5. Agree(Place, live, disk)'
  BY <1>1, <1>3, Reflexive DEF Good
<1>6. At(Place, live, work)'
  BY <1>1, <1>2 DEF At, Settled, Streaming, Batching
<1>7. QED BY <1>1, <1>2, <1>3, <1>4, <1>5, <1>6 DEF CoreInv

-----------------------------------------------------------------------------
(* What a step may do to the messages, the turns and the effects.          *)

Shrinks == inbox' = inbox \/ inbox' = <<>> \/ (inbox # <<>> /\ inbox' = Tail(inbox))

SameQueue ==
    /\ IdsOf(disk'.pending) = IdsOf(disk.pending)
    /\ \A m : HasMessage(disk', m) <=> HasMessage(disk, m)
    /\ receipts' = receipts /\ dropped' = dropped /\ replaced' = replaced

(* Nothing becomes of any message; a sender is told again.                 *)
QuietStep == SameQueue /\ Shrinks /\ (acked' = acked \/ \E m \in receipts : acked' = acked \cup {m})

(* A submission arrives; the id of an edit is fresh.                       *)
ArrivalStep ==
    /\ SameQueue /\ acked' = acked
    /\ \E s : inbox' = Append(inbox, s) /\ (s.op = "edit" => Fresh(s.id))

AcceptStep(m) ==
    /\ m \in Messages /\ m \notin receipts /\ receipts' = receipts \cup {m}
    /\ IdsOf(disk'.pending) = IdsOf(disk.pending) \cup {m}
    /\ \A x : HasMessage(disk', x) <=> HasMessage(disk, x)
    /\ dropped' = dropped /\ replaced' = replaced /\ Tell(m)
    /\ inbox # <<>> /\ inbox' = Tail(inbox) /\ Head(inbox).op = "message" /\ Head(inbox).id = m

SettleStep(delivered, rejected) ==
    /\ delivered \cup rejected \subseteq IdsOf(disk.pending) /\ delivered \cap rejected = {}
    /\ IdsOf(disk'.pending) = IdsOf(disk.pending) \ (delivered \cup rejected)
    /\ \A x : HasMessage(disk', x) <=> HasMessage(disk, x) \/ x \in delivered
    /\ dropped' = dropped \cup rejected
    /\ receipts' = receipts /\ replaced' = replaced /\ acked' = acked /\ inbox' = inbox

EditStep(old, new) ==
    /\ old \in IdsOf(disk.pending) /\ new \in Messages /\ new \notin receipts
    /\ receipts' = receipts \cup {new}
    /\ IdsOf(disk'.pending) = (IdsOf(disk.pending) \ {old}) \cup {new}
    /\ \A x : HasMessage(disk', x) <=> HasMessage(disk, x)
    /\ replaced' = replaced \cup {old} /\ dropped' = dropped /\ acked' = acked
    /\ inbox # <<>> /\ inbox' = Tail(inbox) /\ Head(inbox).op = "edit" /\ Head(inbox).id = new

MessageStep ==
    \/ QuietStep \/ ArrivalStep
    \/ \E m : AcceptStep(m)
    \/ \E delivered, rejected : SettleStep(delivered, rejected)
    \/ \E old, new : EditStep(old, new)

(* The turn goes on, starts, is rejected, begins in memory only, or ends.  *)
SameTurn ==
    /\ nextTurn' = nextTurn /\ disk'.exec.turn = disk.exec.turn
    /\ live'.exec.turn \in {live.exec.turn, disk.exec.turn}
    /\ journal' = journal \/ \E t : journal' = journal \o <<<<"promoted", t>>>>

NewTurn ==
    /\ nextTurn' = nextTurn + 1 /\ disk.exec.turn = NoTurn
    /\ \/ /\ disk'.exec.turn = nextTurn /\ live'.exec.turn = nextTurn
          /\ journal' = journal \o <<<<"started", nextTurn>>>>
       \/ /\ disk'.exec.turn = NoTurn /\ live'.exec.turn = NoTurn
          /\ journal' = journal \o <<<<"started", nextTurn>>, <<"aborted", nextTurn>>>>
       \/ /\ disk'.exec.turn = NoTurn /\ live'.exec.turn \in {NoTurn, nextTurn}
          /\ journal' = journal

EndOfATurn ==
    /\ nextTurn' = nextTurn /\ live.exec.turn # NoTurn
    /\ disk'.exec.turn = NoTurn /\ live'.exec.turn = NoTurn
    /\ \E k \in {"completed", "aborted"} : journal' = journal \o <<<<k, live.exec.turn>>>>

TurnStep == SameTurn \/ NewTurn \/ EndOfATurn

(* All that is to be shown of a step.                                      *)
Step == CoreInv' /\ EffectsAt(Place, work, disk)' /\ MessageStep /\ TurnStep

(* What stays of the effects when the work is dropped.                     *)
LEMMA EffectsDropped ==
    ASSUME NEW place, NEW w, NEW d, NEW e, EffectsAt(place, w, d),
           \A c \in Calls : Known(d, c) => Known(e, c),
           e.approval # NoApproval /\ ~e.approval.decided =>
             \A c : Contains(e.tools, c) => effects[c] = 0,
           NEW p
    PROVE  EffectsAt(p, NoWork, e)
<1>1. \A c : ~Contains(NoWork.calls, c) /\ ~Contains(NoWork.batch, c) /\ NoWork.running = {}
  BY DEF Contains, NoWork
<1>2. QED BY <1>1 DEF EffectsAt

(* A step that fails the turn.                                             *)
LEMMA FailedStep ==
    ASSUME IInv, NEW kept, Fails(kept), UNCHANGED saved, RestOK', nextTurn' = nextTurn,
           Good(kept, nextTurn), kept.exec.turn = live.exec.turn, live.exec.turn # NoTurn,
           kept.pending = live.pending,
           \A m : HasMessage(kept, m) <=> HasMessage(live, m),
           \A c : Known(live, c) => Known(kept, c),
           Shrinks, UNCHANGED history
    PROVE  Step
<1>1. /\ CoreInv /\ Agree(Place, live, disk) /\ EffectsAt(Place, work, disk) /\ nextTurn \in Nat
  BY TypeParts DEF IInv, CoreInv, RestOK
<1>2. CoreInv' /\ Place' = "failing" /\ work' = NoWork /\ live' = kept
  BY <1>1, Failed DEF Agree
<1>3. disk' = disk /\ receipts' = receipts /\ journal' = journal
  BY DEF saved
<1>4. effects' = effects /\ approved' = approved /\ acked' = acked /\ dropped' = dropped /\ replaced' = replaced
  BY DEF history
<1>5. EffectsAt("failing", NoWork, disk)
  <2>1. disk.approval # NoApproval /\ ~disk.approval.decided =>
             \A c : Contains(disk.tools, c) => effects[c] = 0
    BY <1>1 DEF EffectsAt
  <2>2. QED BY <1>1, <2>1, EffectsDropped
<1>6. EffectsAt(Place, work, disk)'
  BY <1>2, <1>3, <1>4, <1>5 DEF EffectsAt
<1>7. QuietStep /\ SameTurn
  BY <1>2, <1>3, <1>4 DEF QuietStep, SameQueue, SameTurn
<1>8. QED BY <1>2, <1>6, <1>7 DEF Step, MessageStep, TurnStep

(* A step that keeps the checkpoint.                                       *)
LEMMA MovedStep ==
    ASSUME IInv, UNCHANGED live, UNCHANGED saved, RestOK', nextTurn' = nextTurn,
           Agree(Place', live, disk), At(Place', live, work'), ControlOK', work' \in Works,
           EffectsAt(Place, work, disk)',
           Shrinks, UNCHANGED <<dropped, replaced>>,
           acked' = acked \/ \E m \in receipts : acked' = acked \cup {m}
    PROVE  Step
<1>1. CoreInv'
  BY Moved DEF IInv
<1>2. live' = live /\ disk' = disk /\ receipts' = receipts /\ journal' = journal
  BY DEF saved
<1>3. QuietStep /\ SameTurn
  BY <1>2 DEF QuietStep, SameQueue, SameTurn
<1>4. QED BY <1>1, <1>3 DEF Step, MessageStep, TurnStep

(* A save that changes nothing about the messages.                         *)
LEMMA SavedStep ==
    ASSUME IInv, NEW new, NEW events \in Seq(Events), Commit(new, events), RestOK', nextTurn' = nextTurn,
           Good(new, nextTurn), At(Place', new, work'), ControlOK', work' \in Works,
           EffectsAt(Place, work, disk)',
           Place # "failing" \/ new.exec.turn = NoTurn,
           \/ new.exec.turn = live.exec.turn /\ (events = <<>> \/ \E t : events = <<<<"promoted", t>>>>)
           \/ /\ new.exec.turn = NoTurn /\ live.exec.turn # NoTurn
              /\ \E k \in {"completed", "aborted"} : events = <<<<k, live.exec.turn>>>>,
           SameMessages(new, live), Shrinks, UNCHANGED <<acked, dropped, replaced>>
    PROVE  Step
<1>1. /\ CoreInv /\ Agree(Place, live, disk) /\ MessagesInv /\ nextTurn \in Nat /\ SavedOK
      /\ disk \in Checkpoints
  BY TypeParts DEF IInv, CoreInv, RestOK
<1>2. CoreInv'
  BY <1>1, Committed
<1>3. live' = new /\ disk' = new /\ receipts' = receipts \cup IdsOf(new.pending) /\ journal' = journal \o events
  BY DEF Commit
<1>4. IdsOf(new.pending) = IdsOf(disk.pending) /\ \A m : HasMessage(new, m) <=> HasMessage(disk, m)
  BY <1>1 DEF Agree, SameMessages
<1>5. IdsOf(disk.pending) \subseteq receipts
  <2>1. disk.pending \in Seq(QueueItems(Messages))
    BY <1>1, Fields
  <2>2. IdsOf(disk.pending) \subseteq Messages
    BY <2>1, IdsAreMessages
  <2>3. QED BY <1>1, <2>2 DEF MessagesInv
<1>6. QuietStep
  BY <1>3, <1>4, <1>5 DEF QuietStep, SameQueue
<1>7. CASE new.exec.turn = live.exec.turn /\ (events = <<>> \/ \E t : events = <<<<"promoted", t>>>>)
  <2>1. new.exec.turn = disk.exec.turn
    BY <1>1, <1>7 DEF Agree
  <2>2. journal \o <<>> = journal
    BY <1>1 DEF SavedOK
  <2>3. SameTurn
    BY <1>3, <1>7, <2>1, <2>2 DEF SameTurn
  <2>4. QED BY <1>2, <1>6, <2>3 DEF Step, MessageStep, TurnStep
<1>8. CASE /\ new.exec.turn = NoTurn /\ live.exec.turn # NoTurn
           /\ \E k \in {"completed", "aborted"} : events = <<<<k, live.exec.turn>>>>
  <2>1. EndOfATurn
    BY <1>3, <1>8 DEF EndOfATurn
  <2>2. QED BY <1>2, <1>6, <2>1 DEF Step, MessageStep, TurnStep
<1>9. QED BY <1>7, <1>8

(* The invariant, part by part.                                            *)
LEMMA Parts ==
    ASSUME IInv
    PROVE  /\ live \in Checkpoints /\ disk \in Checkpoints /\ ControlOK /\ work \in Works /\ SavedOK /\ RestOK
           /\ Good(live, nextTurn) /\ Good(disk, nextTurn) /\ nextTurn \in Nat \ {0}
           /\ Agree(Place, live, disk) /\ At(Place, live, work) /\ EffectsAt(Place, work, disk)
           /\ MessagesInv /\ InboxInv /\ inbox \in Seq(Requests) /\ effects \in [Calls -> Nat]
           /\ live.exec.turn \in Nat
<1>1. TypeOK
  BY DEF IInv, CoreInv
<1>2. RestOK /\ live \in Checkpoints
  BY <1>1, TypeParts
<1>3. live.exec.turn \in Nat
  BY <1>2, Fields
<1>4. QED BY <1>1, <1>2, <1>3, TypeParts DEF IInv, CoreInv, RestOK

(* The rest of the state keeps its types in a step that fails or retries.  *)
LEMMA RestKept ==
    ASSUME RestOK, UNCHANGED <<client, idleSpent, nextTurn, history>>, fallback' \in BOOLEAN,
           UNCHANGED faults \/ Fault
    PROVE  /\ RestOK' /\ Shrinks /\ inbox' = inbox /\ nextTurn' = nextTurn
           /\ acked' = acked /\ dropped' = dropped /\ replaced' = replaced
           /\ approved' = approved /\ effects' = effects
BY DEF RestOK, client, history, Fault, Shrinks

(* The rest of the state keeps its types when it is unchanged.             *)
LEMMA UnchangedRest ==
    ASSUME RestOK, UNCHANGED Unchanged
    PROVE  UNCHANGED <<client, idleSpent, nextTurn, history>> /\ fallback' \in BOOLEAN
BY DEF RestOK, Unchanged, client, history

(* The runner goes to another place of the turn with the work it has.      *)
LEMMA GoesOn ==
    ASSUME IInv, UNCHANGED <<live, saved, faults, Unchanged>>, NEW place \in Places,
           Goto(place) \/ Jump(place), work' \in Works,
           Agree(place, live, disk), At(place, live, work'), EffectsAt(place, work', disk)
    PROVE  Step
<1>1. RestOK /\ inbox \in Seq(Requests)
  BY Parts
<1>2. /\ RestOK' /\ Shrinks /\ inbox' = inbox /\ nextTurn' = nextTurn
      /\ acked' = acked /\ dropped' = dropped /\ replaced' = replaced
      /\ approved' = approved /\ effects' = effects
  BY <1>1, UnchangedRest, RestKept
<1>3. Place' = place /\ ControlOK'
  BY <1>1, <1>2, Gotos, Jumps
<1>4. disk' = disk /\ UNCHANGED live /\ UNCHANGED saved
  BY DEF saved
<1>5. EffectsAt(Place, work, disk)'
  BY <1>2, <1>3, <1>4 DEF EffectsAt
<1>6. QED BY <1>2, <1>3, <1>4, <1>5, MovedStep

(* A save of the turn, or its failure.                                     *)
LEMMA SaveStep ==
    ASSUME IInv, NEW new, NEW kept, NEW events \in Seq(Events), NEW place \in Places, NEW w \in Works,
           Save(new, kept, events, place, w),
           UNCHANGED <<client, idleSpent, nextTurn, history>>, fallback' \in BOOLEAN,
           Good(new, nextTurn), At(place, new, w), EffectsAt(place, w, new),
           Place # "failing", SameMessages(new, live),
           \/ new.exec.turn = live.exec.turn /\ (events = <<>> \/ \E t : events = <<<<"promoted", t>>>>)
           \/ /\ new.exec.turn = NoTurn
              /\ \E k \in {"completed", "aborted"} : events = <<<<k, live.exec.turn>>>>,
           Good(kept, nextTurn), kept.exec.turn = live.exec.turn, live.exec.turn # NoTurn,
           kept.pending = live.pending,
           \A m : HasMessage(kept, m) <=> HasMessage(live, m),
           \A c : Known(live, c) => Known(kept, c)
    PROVE  Step
<1>1. RestOK /\ inbox \in Seq(Requests)
  BY Parts
<1>2. CASE Commit(new, events) /\ Goto(place) /\ work' = w /\ UNCHANGED faults
  <2>1. /\ RestOK' /\ Shrinks /\ inbox' = inbox /\ nextTurn' = nextTurn
        /\ acked' = acked /\ dropped' = dropped /\ replaced' = replaced
        /\ approved' = approved /\ effects' = effects
    BY <1>1, <1>2, RestKept
  <2>2. Place' = place /\ ControlOK'
    BY <1>1, <1>2, <2>1, Gotos
  <2>3. disk' = new
    BY <1>2 DEF Commit
  <2>4. EffectsAt(Place, work, disk)'
    BY <1>2, <2>1, <2>2, <2>3 DEF EffectsAt
  <2>5. QED BY <1>2, <2>1, <2>2, <2>3, <2>4, SavedStep
<1>3. CASE Fails(kept) /\ UNCHANGED saved
  <2>1. Fault
    BY <1>3 DEF Fails
  <2>2. RestOK' /\ Shrinks /\ nextTurn' = nextTurn
    BY <1>1, <2>1, RestKept
  <2>3. QED BY <1>3, <2>2, FailedStep
<1>4. QED BY <1>2, <1>3 DEF Save

(* A refused save or a failed hook that leaves the memory as it was.       *)
LEMMA FailsLive ==
    ASSUME IInv, Fails(live), UNCHANGED saved, live.exec.turn # NoTurn,
           UNCHANGED <<client, idleSpent, nextTurn, history>>, fallback' \in BOOLEAN
    PROVE  Step
<1>1. RestOK /\ Good(live, nextTurn) /\ Fault
  BY Parts DEF Fails
<1>2. RestOK' /\ Shrinks /\ nextTurn' = nextTurn
  BY <1>1, RestKept
<1>3. UNCHANGED history
  OBVIOUS
<1>4. QED BY <1>1, <1>2, <1>3, FailedStep

-----------------------------------------------------------------------------
(* The preparation of a model step.                                        *)

(* Too many model steps fail the turn.                                     *)
LEMMA StepLimitStep == ASSUME IInv, StepLimit PROVE Step
<1>1. Place = "prepare"
  BY DEF StepLimit, Place
<1>2. At(Place, live, work) /\ Agree(Place, live, disk) /\ EffectsAt(Place, work, disk) /\ work \in Works
  BY Parts
<1>3. Agree("failing", live, disk) /\ At("failing", live, work) /\ EffectsAt("failing", work, disk)
  BY <1>1, <1>2 DEF Agree, At, EffectsAt, Settled, Streaming, Batching
<1>4. "failing" \in Places
  BY DEF Places
<1>5. QED BY <1>2, <1>3, <1>4, GoesOn DEF StepLimit

(* The hooks of a model step end.                                          *)
LEMMA HooksDoneStep == ASSUME IInv, HooksDone PROVE Step
<1>1. Place = "hooks"
  BY DEF HooksDone, Place
<1>2. At(Place, live, work) /\ Agree(Place, live, disk) /\ EffectsAt(Place, work, disk) /\ work \in Works
  BY Parts
<1>3. Agree("hooked", live, disk) /\ At("hooked", live, work) /\ EffectsAt("hooked", work, disk)
  BY <1>1, <1>2 DEF Agree, At, EffectsAt, Settled, Streaming, Batching
<1>4. "hooked" \in Places
  BY DEF Places
<1>5. QED BY <1>2, <1>3, <1>4, GoesOn DEF HooksDone

(* The effects of the hooks are saved.                                     *)
LEMMA PersistHooksStep == ASSUME IInv, PersistHooks PROVE Step
<1>1. Place = "hooked"
  BY DEF PersistHooks, Place
<1>2. /\ At(Place, live, work) /\ Agree(Place, live, disk) /\ EffectsAt(Place, work, disk) /\ work \in Works
      /\ Good(live, nextTurn) /\ RestOK
  BY Parts
<1>3. /\ Agree("prepared", live, disk) /\ At("prepared", live, work) /\ EffectsAt("prepared", work, disk)
      /\ live = disk
  BY <1>1, <1>2 DEF Agree, At, EffectsAt, Settled, Streaming, Batching
<1>4. "prepared" \in Places /\ <<>> \in Seq(Events)
  BY DEF Places
<1>5. CASE Jump("prepared") /\ UNCHANGED <<live, saved, work, faults>>
  BY <1>2, <1>3, <1>4, <1>5, GoesOn DEF PersistHooks
<1>6. CASE Save(live, live, <<>>, "prepared", work)
  <2>1. live.exec.turn # NoTurn /\ SameMessages(live, live) /\ EffectsAt("prepared", work, live)
    BY <1>1, <1>2, <1>3 DEF At, SameMessages
  <2>2. UNCHANGED <<client, idleSpent, nextTurn, history>> /\ fallback' \in BOOLEAN
    BY <1>2, UnchangedRest DEF PersistHooks
  <2>3. QED BY <1>1, <1>2, <1>3, <1>4, <1>6, <2>1, <2>2, SaveStep
<1>7. QED BY <1>5, <1>6 DEF PersistHooks

(* A steer that arrived meanwhile is staged first.                         *)
LEMMA RepeatStep == ASSUME IInv, Repeat PROVE Step
<1>1. Place = "prepared"
  BY DEF Repeat, Place
<1>2. At(Place, live, work) /\ Agree(Place, live, disk) /\ EffectsAt(Place, work, disk) /\ work \in Works
  BY Parts
<1>3. Agree("prepare", live, disk) /\ At("prepare", live, work) /\ EffectsAt("prepare", work, disk)
  BY <1>1, <1>2 DEF Agree, At, EffectsAt, Settled, Streaming, Batching
<1>4. "prepare" \in Places
  BY DEF Places
<1>5. QED BY <1>2, <1>3, <1>4, GoesOn DEF Repeat

(* complete_turn, from a place where nothing is open and no steer waits.   *)
LEMMA CompleteStep ==
    ASSUME IInv, CompleteTurn, UNCHANGED Unchanged, Place \in {"prepared", "afterStop"}, ~Ready
    PROVE  Step
<1> DEFINE new == Completed(live)
           events == <<<<"completed", live.exec.turn>>>>
<1>1. /\ At(Place, live, work) /\ Agree(Place, live, disk) /\ EffectsAt(Place, work, disk)
      /\ Good(live, nextTurn) /\ RestOK /\ nextTurn \in Nat \ {0} /\ live.exec.turn \in Nat
  BY Parts
<1>2. Clear(live) /\ live.exec.turn # NoTurn /\ live = disk
  BY <1>1 DEF At, Agree, Settled
<1>3. /\ Good(new, nextTurn) /\ Clear(new) /\ new.exec = NoExec
      /\ new.pending = live.pending /\ new.context = live.context
  BY <1>1, <1>2, GoodCompleted DEF Ready
<1>4. events \in Seq(Events) /\ "loop" \in Places
  BY <1>1 DEF Events, Places
<1>5. CompleteTurn <=> Save(new, live, events, "loop", NoWork)
  BY DEF CompleteTurn
<1> HIDE DEF new
<1>6. SameMessages(new, live) /\ new.exec.turn = NoTurn /\ At("loop", new, NoWork)
  BY <1>3, NoValues DEF SameMessages, HasMessage, At, Settled, Streaming, Batching
<1>7. EffectsAt("loop", NoWork, new)
  <2>1. /\ \A c \in Calls : Known(disk, c) => Known(new, c)
        /\ new.approval = NoApproval
    BY <1>2, <1>3 DEF Known, HasCall, Clear
  <2>2. QED BY <1>1, <2>1, EffectsDropped
<1>8. \E k \in {"completed", "aborted"} : events = <<<<k, live.exec.turn>>>>
  OBVIOUS
<1>9. UNCHANGED <<client, idleSpent, nextTurn, history>> /\ fallback' \in BOOLEAN
  BY <1>1, UnchangedRest
<1> HIDE DEF events
<1>10. QED BY <1>1, <1>2, <1>3, <1>4, <1>5, <1>6, <1>7, <1>8, <1>9, NoWorkWorks, SaveStep

(* An idle turn, or one that a hook stops, ends before the model is asked. *)
LEMMA StopPreparedStep == ASSUME IInv, StopPrepared PROVE Step
BY CompleteStep DEF StopPrepared, Place

(* A model step is opened from a place where nothing is open.              *)
LEMMA OpenStepStep ==
    ASSUME IInv, OpenStep, UNCHANGED Unchanged, Place \in {"prepared", "again"}
    PROVE  Step
<1> DEFINE new == [live EXCEPT !.step = TRUE]
           w == [NoWork EXCEPT !.retries = work.retries]
<1>1. /\ At(Place, live, work) /\ Agree(Place, live, disk) /\ EffectsAt(Place, work, disk)
      /\ Good(live, nextTurn) /\ RestOK /\ nextTurn \in Nat \ {0} /\ work \in Works
  BY Parts
<1>2. Clear(live) /\ live.exec.turn # NoTurn /\ live = disk /\ live.exec.phase = "model"
  BY <1>1 DEF At, Agree, Settled
<1>3. /\ Good(new, nextTurn) /\ new.step /\ new.approval = NoApproval /\ new.tools = <<>>
      /\ new.exec = live.exec /\ new.pending = live.pending /\ new.context = live.context
  BY <1>1, <1>2, GoodOpened
<1>4. w \in Works /\ w.calls = <<>> /\ w.running = {} /\ w.batch = <<>>
  <2>1. work.retries \in Nat
    BY <1>1 DEF Works
  <2>2. QED BY <2>1, WorkWith
<1>5. OpenStep <=> Save(new, new, <<>>, "respond", w)
  BY DEF OpenStep
<1>6. "respond" \in Places /\ <<>> \in Seq(Events) /\ IsInjective(<<>>) /\ \A c : ~Contains(<<>>, c)
  BY DEF Places, IsInjective, Contains
<1> HIDE DEF new, w
<1>7. At("respond", new, w)
  BY <1>2, <1>3, <1>4, <1>6 DEF At, Settled, Streaming, Batching
<1>8. /\ \A c : Known(live, c) <=> Known(new, c)
      /\ SameMessages(new, live) /\ \A m : HasMessage(new, m) <=> HasMessage(live, m)
  BY <1>2, <1>3 DEF Known, HasCall, Clear, SameMessages, HasMessage
<1>9. EffectsAt("respond", w, new)
  BY <1>1, <1>2, <1>3, <1>4, <1>6, <1>8 DEF EffectsAt, Batching
<1>10. UNCHANGED <<client, idleSpent, nextTurn, history>> /\ fallback' \in BOOLEAN
  BY <1>1, UnchangedRest
<1>11. QED BY <1>1, <1>2, <1>3, <1>4, <1>5, <1>6, <1>7, <1>8, <1>9, <1>10, SaveStep

(* The model step is opened on disk before the provider is asked.          *)
LEMMA StartStepStep == ASSUME IInv, StartStep PROVE Step
BY OpenStepStep DEF StartStep, Place

(* The ids of the saved queue are those of the queue in memory.            *)
LEMMA QueuedAreAccepted ==
    ASSUME IInv
    PROVE  /\ IdsOf(live.pending) = IdsOf(disk.pending)
           /\ IdsOf(live.pending) \subseteq receipts /\ IdsOf(live.pending) \subseteq Messages
           /\ \A m : HasMessage(live, m) <=> HasMessage(disk, m)
           /\ \A c : Known(disk, c) => Known(live, c)
<1>1. Agree(Place, live, disk) /\ MessagesInv /\ live \in Checkpoints
  BY Parts
<1>2. live.pending \in Seq(QueueItems(Messages))
  BY <1>1, Fields
<1>3. IdsOf(live.pending) \subseteq Messages
  BY <1>2, IdsAreMessages
<1>4. QED BY <1>1, <1>3 DEF Agree, MessagesInv

(* The waiting steers enter the context.                                   *)
LEMMA StageStep == ASSUME IInv, Stage PROVE Step
<1>1. Place = "prepare"
  BY DEF Stage, Place
<1>2. /\ At(Place, live, work) /\ Agree(Place, live, disk) /\ EffectsAt(Place, work, disk)
      /\ Good(live, nextTurn) /\ RestOK /\ nextTurn \in Nat \ {0} /\ work \in Works /\ SavedOK
  BY Parts
<1>3. "hooks" \in Places /\ Clear(live) /\ live.exec.turn # NoTurn /\ live.exec.phase = "model"
  BY <1>1, <1>2 DEF Places, At, Settled
<1>4. CASE /\ ~Ready /\ Jump("hooks")
           /\ UNCHANGED <<live, saved, work, faults, idleSpent, dropped>>
  <2>1. Agree("hooks", live, disk) /\ At("hooks", live, work) /\ EffectsAt("hooks", work, disk)
    BY <1>1, <1>2, <1>4 DEF Agree, At, EffectsAt, Settled, Streaming, Batching, Ready
  <2>2. UNCHANGED <<live, saved, faults, Unchanged>>
    BY <1>4 DEF Stage, Unchanged, history
  <2>3. QED BY <1>2, <1>3, <1>4, <2>1, <2>2, GoesOn
<1>5. CASE Fails(live) /\ UNCHANGED <<saved, idleSpent, dropped>>
  <2>1. UNCHANGED <<client, idleSpent, nextTurn, history>> /\ fallback' \in BOOLEAN
    BY <1>2, <1>5 DEF Stage, history, RestOK
  <2>2. QED BY <1>3, <1>5, <2>1, FailsLive
<1>6. ASSUME NEW rejected \in SUBSET IdsOf(StagedMessages(live.pending, live.exec.turn)),
             Commit(WithStaged(live, rejected),
                    IF live.exec.idle /\ ~WithStaged(live, rejected).exec.idle
                      THEN <<<<"promoted", live.exec.turn>>>> ELSE <<>>),
             Jump("hooks"),
             idleSpent' = IF live.exec.idle /\ ~WithStaged(live, rejected).exec.idle THEN FALSE ELSE idleSpent,
             dropped' = dropped \cup rejected,
             UNCHANGED <<work, faults>>
      PROVE  Step
  <2> DEFINE new == WithStaged(live, rejected)
             ids == IdsOf(StagedMessages(live.pending, live.exec.turn))
             events == IF live.exec.idle /\ ~new.exec.idle THEN <<<<"promoted", live.exec.turn>>>> ELSE <<>>
  <2>1. /\ Good(new, nextTurn) /\ new.tools = live.tools /\ new.step = live.step /\ new.approval = live.approval
        /\ new.exec.turn = live.exec.turn /\ new.exec.phase = live.exec.phase
        /\ ids \subseteq IdsOf(live.pending) /\ IdsOf(new.pending) = IdsOf(live.pending) \ ids
        /\ \A x : HasMessage(new, x) <=> HasMessage(live, x) \/ (x \in ids /\ x \notin rejected)
        /\ \A c : HasCall(new, c) <=> HasCall(live, c)
    BY <1>2, GoodStaged
  <2>2. Commit(new, events) /\ rejected \subseteq ids
    BY <1>6
  <2>3. events \in Seq(Events) /\ (events = <<>> \/ \E t : events = <<<<"promoted", t>>>>)
    <3>1. <<<<"promoted", live.exec.turn>>>> \in Seq(Events) /\ <<>> \in Seq(Events)
      BY Parts DEF Events
    <3>2. events = <<>> \/ events = <<<<"promoted", live.exec.turn>>>>
      OBVIOUS
    <3> HIDE DEF events
    <3>3. QED BY <3>1, <3>2
  <2> HIDE DEF new, ids, events
  <2>4. IdsOf(live.pending) = IdsOf(disk.pending) /\ IdsOf(live.pending) \subseteq receipts
        /\ IdsOf(live.pending) \subseteq Messages /\ \A m : HasMessage(live, m) <=> HasMessage(disk, m)
    BY QueuedAreAccepted
  <2>5. RestOK' /\ nextTurn' = nextTurn /\ inbox' = inbox
    BY <1>2, <1>6, <2>1, <2>2, <2>4 DEF RestOK, Stage, client
  <2>6. Place' = "hooks" /\ ControlOK'
    BY <1>3, <1>6, Jumps
  <2>7. At("hooks", new, work) /\ Clear(new)
    BY <1>3, <2>1 DEF At, Settled, Streaming, Batching, Clear
  <2>8. CoreInv'
    BY <1>2, <1>6, <2>1, <2>2, <2>3, <2>5, <2>6, <2>7, Committed DEF IInv
  <2>9. /\ live' = new /\ disk' = new /\ receipts' = receipts \cup IdsOf(new.pending)
        /\ journal' = journal \o events /\ effects' = effects /\ approved' = approved /\ work' = work
        /\ acked' = acked /\ replaced' = replaced
    BY <1>6, <2>2 DEF Commit, Stage
  <2>10. EffectsAt(Place, work, disk)'
    <3>1. \A c : Known(disk, c) => Known(new, c)
      BY <2>1, QueuedAreAccepted DEF Known
    <3>2. work.running = {} /\ new.approval = NoApproval
      BY <1>1, <1>2, <2>7 DEF EffectsAt, Clear
    <3>3. EffectsAt("hooks", work, new)
      BY <1>2, <3>1, <3>2 DEF EffectsAt, Batching
    <3>4. QED BY <2>6, <2>9, <3>3 DEF EffectsAt
  <2>11. SettleStep(ids \ rejected, rejected)
    BY <1>6, <2>1, <2>2, <2>4, <2>5, <2>9 DEF SettleStep
  <2>12. SameTurn
    <3>1. new.exec.turn = disk.exec.turn
      BY <1>1, <1>2, <2>1 DEF Agree
    <3>2. journal \o <<>> = journal
      BY <1>2 DEF SavedOK
    <3>3. QED BY <2>3, <2>5, <2>9, <3>1, <3>2 DEF SameTurn
  <2>13. QED BY <2>8, <2>10, <2>11, <2>12 DEF Step, MessageStep, TurnStep
<1>7. QED BY <1>4, <1>5, <1>6 DEF Stage

-----------------------------------------------------------------------------
(* The model's response.                                                   *)

(* A streamed call is saved as pending before it runs.                     *)
LEMMA StartStreamedToolStep == ASSUME IInv, NEW c \in Calls, StartStreamedTool(c) PROVE Step
<1> DEFINE new == [live EXCEPT !.tools = Append(@, c)]
           w == [work EXCEPT !.calls = Append(@, c), !.running = @ \cup {c}]
<1>1. Place = "respond"
  BY DEF StartStreamedTool, Place
<1>2. /\ At(Place, live, work) /\ Agree(Place, live, disk) /\ EffectsAt(Place, work, disk)
      /\ Good(live, nextTurn) /\ RestOK /\ nextTurn \in Nat \ {0} /\ work \in Works /\ live \in Checkpoints
      /\ effects \in [Calls -> Nat]
  BY Parts
<1>3. /\ live = disk /\ live.exec.turn # NoTurn /\ live.exec.phase = "model" /\ live.step
      /\ live.tools = work.calls /\ IsInjective(work.calls)
      /\ \A x : Contains(work.calls, x) => ~HasCall(live, x)
  BY <1>1, <1>2 DEF Agree, At, Streaming
<1>4. live.tools \in Seq(Calls) /\ live.context \in Seq(ContextItems(Messages \cup Calls))
  BY <1>2, Fields
<1>5. ~Contains(live.tools, c) /\ ~HasCall(live, c)
  <2>1. c \notin ToSet(work.calls) /\ <<"call", c>> \notin ToSet(live.context)
    BY DEF StartStreamedTool, Unused
  <2>2. QED BY <1>3, <1>4, <2>1, ContainsIsToSet DEF HasCall
<1>6. /\ Good(new, nextTurn) /\ new.step /\ new.approval = live.approval
      /\ new.exec = live.exec /\ new.pending = live.pending /\ new.context = live.context
  BY <1>2, <1>3, <1>5, GoodStreamed
<1>7. new.tools = Append(live.tools, c)
  BY <1>2 DEF Checkpoints, CheckpointsOf
<1>8. /\ Append(live.tools, c) \in Seq(Calls) /\ IsInjective(Append(live.tools, c))
      /\ \A x : Contains(Append(live.tools, c), x) <=> Contains(live.tools, x) \/ x = c
  BY <1>3, <1>4, <1>5, AppendContains
<1>9. /\ w \in Works /\ w.calls = Append(work.calls, c) /\ w.running = work.running \cup {c} /\ w.ran = work.ran
  <2>1. Append(work.calls, c) \in Seq(Calls)
    BY <1>3, <1>8
  <2>2. QED BY <1>2, <2>1 DEF Works
<1>10. StartStreamedTool(c) => Save(new, live, <<>>, "respond", w) /\ UNCHANGED Unchanged
  BY DEF StartStreamedTool
<1>11. "respond" \in Places /\ <<>> \in Seq(Events) /\ c \notin Guarded
  BY DEF Places, StartStreamedTool
<1> HIDE DEF new, w
<1>12. At("respond", new, w)
  BY <1>3, <1>5, <1>6, <1>7, <1>8, <1>9 DEF At, Settled, Streaming, Batching, HasCall
<1>13. /\ SameMessages(new, live) /\ \A x : Known(live, x) => Known(new, x)
  BY <1>6, <1>7, <1>8 DEF Known, HasCall, SameMessages, HasMessage
<1>14. EffectsAt("respond", w, new)
  <2>1. effects[c] = 0
    <3>1. ~Known(disk, c)
      BY <1>3, <1>5 DEF Known
    <3>2. ~(effects[c] > 0) /\ effects[c] \in Nat
      BY <1>2, <3>1 DEF EffectsAt
    <3>3. QED BY <3>2
  <2>2. new.approval = NoApproval
    BY <1>6 DEF Good, PendingInv
  <2>3. \A x \in w.running : effects[x] = 0 /\ Contains(new.tools, x) /\ (x \in Guarded => x \in approved)
    BY <1>2, <1>3, <1>7, <1>8, <1>9, <1>11, <2>1 DEF EffectsAt
  <2>4. \A x : Contains(w.calls, x) /\ x \notin w.ran \cup w.running => effects[x] = 0
    BY <1>1, <1>2, <1>3, <1>8, <1>9 DEF EffectsAt
  <2>5. \A x \in Calls : effects[x] > 0 => effects[x] = 1 /\ Known(new, x) /\ (x \in Guarded => x \in approved)
    BY <1>2, <1>3, <1>13 DEF EffectsAt
  <2>6. QED BY <2>2, <2>3, <2>4, <2>5 DEF EffectsAt, Batching
<1>15. UNCHANGED <<client, idleSpent, nextTurn, history>> /\ fallback' \in BOOLEAN
  BY <1>2, <1>10, UnchangedRest
<1>16. QED BY <1>1, <1>2, <1>3, <1>6, <1>9, <1>10, <1>11, <1>12, <1>13, <1>14, <1>15, SaveStep

(* Streamed calls no longer start early.                                   *)
LEMMA DeferStreamedToolStep == ASSUME IInv, DeferStreamedTool PROVE Step
<1>1. Place = "respond" /\ pc = "respond"
  BY DEF DeferStreamedTool, Place
<1>2. /\ At(Place, live, work) /\ Agree(Place, live, disk) /\ EffectsAt(Place, work, disk) /\ work \in Works
      /\ ControlOK
  BY Parts
<1>3. PICK how \in {"unhooked", "hooked"} : work' = [work EXCEPT !.deferred = how]
  BY DEF DeferStreamedTool
<1>4. /\ work' \in Works /\ work'.calls = work.calls /\ work'.running = work.running
      /\ work'.ran = work.ran /\ work'.batch = work.batch /\ work'.refused = work.refused
  BY <1>2, <1>3 DEF Works
<1>5. Agree("respond", live, disk) /\ At("respond", live, work') /\ EffectsAt("respond", work', disk)
  BY <1>1, <1>2, <1>4 DEF At, EffectsAt, Batching, Settled, Streaming
<1>6. "respond" \in Places /\ Jump("respond")
  BY <1>1, <1>2 DEF Places, Jump, ControlOK, DeferStreamedTool, control
<1>7. QED BY <1>4, <1>5, <1>6, GoesOn DEF DeferStreamedTool

(* An order of some unused calls is an injective sequence of them.         *)
LEMMA SomeOrder ==
    ASSUME NEW S \in SUBSET Calls, NEW more \in SetToAllKPermutations(S)
    PROVE  more \in Seq(Calls) /\ IsInjective(more) /\ \A c : Contains(more, c) => c \in S
<1>1. PICK T \in SUBSET S : more \in SetToSeqs(T)
  BY DEF SetToAllKPermutations
<1>2. IsFiniteSet(T)
  BY RuntimeAssumptions, FS_Subset
<1>3. Cardinality(T) \in Nat
  BY <1>2, FS_CardinalityType
<1>4. /\ more \in [1..Cardinality(T) -> T]
      /\ \A i, j \in 1..Cardinality(T) : i # j => more[i] # more[j]
  BY <1>1 DEF SetToSeqs
<1>5. more \in Seq(T) /\ DOMAIN more = 1..Cardinality(T) /\ Len(more) = Cardinality(T)
  BY <1>3, <1>4
<1>6. IsInjective(more)
  BY <1>4, <1>5 DEF IsInjective
<1>7. \A i \in 1..Len(more) : more[i] \in S /\ more[i] \in Calls
  BY <1>4, <1>5
<1>8. more \in Seq(Calls)
  BY <1>3, <1>5, <1>7
<1>9. QED BY <1>6, <1>7, <1>8 DEF Contains

(* The provider's response ends with some more calls.                      *)
LEMMA RespondStep ==
    ASSUME IInv, NEW more \in SetToAllKPermutations({c \in Calls : Unused(c)}),
           NEW endTurn \in BOOLEAN, NEW denied \in SUBSET ToSet(more), Respond(more, denied, endTurn)
    PROVE  Step
<1> DEFINE S == {c \in Calls : Unused(c)}
           calls == work.calls \o more
<1>1. Place = "respond"
  BY DEF Respond, Place
<1>2. /\ At(Place, live, work) /\ Agree(Place, live, disk) /\ EffectsAt(Place, work, disk)
      /\ Good(live, nextTurn) /\ work \in Works /\ live \in Checkpoints
      /\ effects \in [Calls -> Nat]
  BY Parts
<1>3. /\ live = disk /\ live.exec.turn # NoTurn /\ live.exec.phase = "model" /\ live.step
      /\ live.tools = work.calls /\ IsInjective(work.calls)
      /\ \A x : Contains(work.calls, x) => ~HasCall(live, x)
  BY <1>1, <1>2 DEF Agree, At, Streaming
<1>4. live.tools \in Seq(Calls) /\ live.context \in Seq(ContextItems(Messages \cup Calls))
  BY <1>2, Fields
<1>5. more \in Seq(Calls) /\ IsInjective(more) /\ \A c : Contains(more, c) => c \in S
  <2>1. S \in SUBSET Calls
    OBVIOUS
  <2> HIDE DEF S
  <2>2. QED BY <2>1, SomeOrder DEF S
<1>6. \A c : Contains(more, c) => c \in Calls /\ ~Contains(work.calls, c) /\ ~HasCall(live, c)
  <2>1. ASSUME NEW c, Contains(more, c)
        PROVE  c \in Calls /\ ~Contains(work.calls, c) /\ ~HasCall(live, c)
    <3>1. c \in Calls /\ c \notin ToSet(work.calls) /\ <<"call", c>> \notin ToSet(live.context)
      BY <1>5, <2>1 DEF Unused
    <3>2. QED BY <1>3, <1>4, <3>1, ContainsIsToSet DEF HasCall
  <2>2. QED BY <2>1
<1>7. /\ calls \in Seq(Calls) /\ IsInjective(calls)
      /\ \A x : Contains(calls, x) <=> Contains(work.calls, x) \/ Contains(more, x)
  BY <1>3, <1>4, <1>5, <1>6, ConcatContains
<1>8. denied \in SUBSET Calls
  BY <1>5, <1>6, ContainsIsToSet
<1>9. work' = [work EXCEPT !.calls = calls, !.denied = denied, !.endTurn = endTurn]
  BY DEF Respond
<1> HIDE DEF calls, S
<1>10. /\ work' \in Works /\ work'.calls = calls /\ work'.running = work.running /\ work'.ran = work.ran
  BY <1>2, <1>7, <1>8, <1>9 DEF Works
<1>11. Agree("normalize", live, disk) /\ At("normalize", live, work')
  BY <1>1, <1>2, <1>3, <1>6, <1>7, <1>10 DEF Agree, At, Settled, Streaming, Batching
<1>12. EffectsAt("normalize", work', disk)
  <2>1. \A c : Contains(more, c) => effects[c] = 0
    <3>1. ASSUME NEW c, Contains(more, c)
          PROVE  effects[c] = 0
      <4>1. c \in Calls /\ ~Known(disk, c)
        BY <1>3, <1>6, <3>1 DEF Known
      <4>2. ~(effects[c] > 0) /\ effects[c] \in Nat
        BY <1>2, <4>1 DEF EffectsAt
      <4>3. QED BY <4>2
    <3>2. QED BY <3>1
  <2>2. QED BY <1>1, <1>2, <1>7, <1>10, <2>1 DEF EffectsAt, Batching
<1>13. "normalize" \in Places
  BY DEF Places
<1>14. QED BY <1>10, <1>11, <1>12, <1>13, GoesOn DEF Respond

(* The provider fails.                                                     *)
LEMMA ResponseFailsStep == ASSUME IInv, ResponseFails PROVE Step
<1>1. Place = "respond"
  BY DEF ResponseFails, Place
<1>2. /\ At(Place, live, work) /\ Agree(Place, live, disk) /\ EffectsAt(Place, work, disk) /\ work \in Works
  BY Parts
<1>3. "failing" \in Places /\ "retry" \in Places
  BY DEF Places
<1>4. CASE Jump("failing") /\ work' = NoWork
  <2>1. Agree("failing", live, disk) /\ At("failing", live, NoWork)
    BY <1>1, <1>2 DEF Agree, At, Settled, Streaming, Batching
  <2>2. disk.approval # NoApproval /\ ~disk.approval.decided =>
             \A c : Contains(disk.tools, c) => effects[c] = 0
    BY <1>2 DEF EffectsAt
  <2>3. EffectsAt("failing", NoWork, disk)
    BY <1>2, <2>2, EffectsDropped
  <2>4. QED BY <1>3, <1>4, <2>1, <2>3, NoWorkWorks, GoesOn DEF ResponseFails
<1>5. CASE Goto("retry") /\ work' = [work EXCEPT !.running = {}]
  <2>1. /\ work' \in Works /\ work'.calls = work.calls /\ work'.running = {}
    BY <1>2, <1>5 DEF Works
  <2>2. Agree("retry", live, disk) /\ At("retry", live, work') /\ EffectsAt("retry", work', disk)
    BY <1>1, <1>2, <2>1 DEF Agree, At, EffectsAt, Settled, Streaming, Batching
  <2>3. QED BY <1>3, <1>5, <2>1, <2>2, GoesOn DEF ResponseFails
<1>6. QED BY <1>4, <1>5 DEF ResponseFails

(* The model step is retried, or the turn fails.                           *)
LEMMA RetryStep == ASSUME IInv, Retry PROVE Step
<1> DEFINE new == [live EXCEPT !.step = FALSE]
<1>1. Place = "retry"
  BY DEF Retry, Place
<1>2. /\ At(Place, live, work) /\ Agree(Place, live, disk) /\ EffectsAt(Place, work, disk) /\ work \in Works
      /\ Good(live, nextTurn) /\ RestOK /\ nextTurn \in Nat \ {0}
  BY Parts
<1>3. /\ live = disk /\ live.exec.turn # NoTurn /\ live.exec.phase = "model" /\ live.step
      /\ live.tools = work.calls
  BY <1>1, <1>2 DEF Agree, At, Streaming
<1>4. CASE ~CanRetry /\ Jump("failing") /\ work' = NoWork /\ UNCHANGED <<live, saved, faults, fallback>>
  <2>1. Agree("failing", live, disk) /\ At("failing", live, NoWork)
    BY <1>1, <1>2 DEF Agree, At, Settled, Streaming, Batching
  <2>2. disk.approval # NoApproval /\ ~disk.approval.decided =>
             \A c : Contains(disk.tools, c) => effects[c] = 0
    BY <1>2 DEF EffectsAt
  <2>3. EffectsAt("failing", NoWork, disk)
    BY <1>2, <2>2, EffectsDropped
  <2>4. "failing" \in Places /\ UNCHANGED <<live, saved, faults, Unchanged>>
    BY <1>4 DEF Places, Retry, Unchanged
  <2>5. QED BY <1>4, <2>1, <2>3, <2>4, NoWorkWorks, GoesOn
<1>5. ASSUME CanRetry, NEW place \in {"prepare", "backoff"}, NEW w \in Works, NEW f \in BOOLEAN,
             w.running = {}, fallback' = f, Save(new, live, <<>>, place, w)
      PROVE  Step
  <2>1. live.tools = <<>>
    BY <1>3, <1>5 DEF CanRetry
  <2>2. /\ Good(new, nextTurn) /\ Clear(new)
        /\ new.exec = live.exec /\ new.pending = live.pending /\ new.context = live.context
    BY <1>2, <1>3, <2>1, GoodClosed
  <2> HIDE DEF new
  <2>3. place \in Places /\ <<>> \in Seq(Events)
    BY <1>5 DEF Places
  <2>4. At(place, new, w)
    BY <1>3, <1>5, <2>2 DEF At, Settled, Streaming, Batching
  <2>5. SameMessages(new, live) /\ \A c : Known(live, c) <=> Known(new, c)
    BY <2>1, <2>2 DEF SameMessages, HasMessage, Known, HasCall, Clear
  <2>6. EffectsAt(place, w, new)
    BY <1>2, <1>3, <1>5, <2>2, <2>5 DEF EffectsAt, Batching, Clear
  <2>7. UNCHANGED <<client, idleSpent, nextTurn, history>> /\ fallback' \in BOOLEAN
    BY <1>5 DEF Retry
  <2>8. QED BY <1>1, <1>2, <1>3, <1>5, <2>2, <2>3, <2>4, <2>5, <2>6, <2>7, SaveStep
<1>6. CASE CanRetry /\ LET again == work.retries < RetryLimit IN
               /\ fallback' = (again /\ fallback)
               /\ Save([live EXCEPT !.step = FALSE], live, <<>>,
                       IF Ready THEN "prepare" ELSE "backoff",
                       IF Ready THEN NoWork
                                ELSE [NoWork EXCEPT !.retries = IF again THEN work.retries + 1 ELSE 0])
  <2> DEFINE n == IF work.retries < RetryLimit THEN work.retries + 1 ELSE 0
             v == [NoWork EXCEPT !.retries = n]
             f == work.retries < RetryLimit /\ fallback
  <2>1. n \in Nat /\ f \in BOOLEAN
    BY <1>2 DEF Works
  <2>2. v \in Works /\ v.running = {}
    <3> HIDE DEF n
    <3>1. QED BY <2>1, WorkWith
  <2>3. CanRetry /\ fallback' = f /\ (Ready => Save(new, live, <<>>, "prepare", NoWork))
        /\ (~Ready => Save(new, live, <<>>, "backoff", v))
    BY <1>6
  <2> HIDE DEF n, v, f, new
  <2>4. CASE Ready
    BY <1>5, <2>1, <2>3, <2>4, NoWorkWorks
  <2>5. CASE ~Ready
    BY <1>5, <2>1, <2>2, <2>3, <2>5
  <2>6. QED BY <2>4, <2>5
<1>7. QED BY <1>4, <1>6 DEF Retry

(* The delay before a retry ends.                                          *)
LEMMA BackedOffStep == ASSUME IInv, BackedOff PROVE Step
<1>1. Place = "backoff"
  BY DEF BackedOff, Place
<1>2. At(Place, live, work) /\ Agree(Place, live, disk) /\ EffectsAt(Place, work, disk) /\ work \in Works
  BY Parts
<1>3. Agree("again", live, disk) /\ At("again", live, work) /\ EffectsAt("again", work, disk)
  BY <1>1, <1>2 DEF Agree, At, EffectsAt, Settled, Streaming, Batching
<1>4. "again" \in Places
  BY DEF Places
<1>5. QED BY <1>2, <1>3, <1>4, GoesOn DEF BackedOff

(* The step is opened again.                                               *)
LEMMA ReopenStep == ASSUME IInv, Reopen PROVE Step
<1>1. Place = "again"
  BY DEF Reopen, Place
<1>2. At(Place, live, work) /\ Agree(Place, live, disk) /\ EffectsAt(Place, work, disk) /\ work \in Works
  BY Parts
<1>3. CASE Ready /\ Goto("prepare") /\ work' = NoWork /\ UNCHANGED <<live, saved, faults>>
  <2>1. Agree("prepare", live, disk) /\ At("prepare", live, NoWork)
    BY <1>1, <1>2 DEF Agree, At, Settled, Streaming, Batching
  <2>2. disk.approval # NoApproval /\ ~disk.approval.decided =>
             \A c : Contains(disk.tools, c) => effects[c] = 0
    BY <1>2 DEF EffectsAt
  <2>3. EffectsAt("prepare", NoWork, disk)
    BY <1>2, <2>2, EffectsDropped
  <2>4. "prepare" \in Places
    BY DEF Places
  <2>5. QED BY <1>3, <2>1, <2>3, <2>4, NoWorkWorks, GoesOn DEF Reopen
<1>4. CASE ~Ready /\ OpenStep
  BY <1>1, <1>4, OpenStepStep DEF Reopen
<1>5. QED BY <1>3, <1>4 DEF Reopen

(* The provider's output becomes history.                                  *)
LEMMA NormalizeStep == ASSUME IInv, Normalize PROVE Step
<1> DEFINE new == WithModelOutput(live, work.calls, work.endTurn)
           place == IF work.calls = <<>> THEN TurnLoop(new) ELSE "finish"
           w == IF work.calls = <<>> THEN NoWork ELSE work
<1>1. Place = "normalize"
  BY DEF Normalize, Place
<1>2. /\ At(Place, live, work) /\ Agree(Place, live, disk) /\ EffectsAt(Place, work, disk) /\ work \in Works
      /\ Good(live, nextTurn) /\ RestOK /\ nextTurn \in Nat \ {0}
  BY Parts
<1>3. /\ live = disk /\ live.exec.turn # NoTurn /\ live.exec.phase = "model" /\ live.step
      /\ IsInjective(work.calls) /\ work.calls \in Seq(Calls) /\ work.endTurn \in BOOLEAN
      /\ \A x : Contains(work.calls, x) => ~HasCall(live, x)
      /\ \A c : Contains(live.tools, c) => Contains(work.calls, c)
  BY <1>1, <1>2 DEF Agree, At, Streaming, Works
<1>4. /\ Good(new, nextTurn) /\ ~new.step /\ new.approval = NoApproval /\ new.tools = work.calls
      /\ new.exec.turn = live.exec.turn /\ new.pending = live.pending
      /\ work.calls # <<>> => new.exec.phase = "model"
      /\ \A m : HasMessage(new, m) <=> HasMessage(live, m)
      /\ \A c : HasCall(new, c) <=> HasCall(live, c) \/ Contains(work.calls, c)
  BY <1>2, <1>3, GoodModelOutput
<1>5. Normalize => (Save(new, new, <<>>, place, w) \/ (Fails(live) /\ UNCHANGED saved)) /\ UNCHANGED Unchanged
  BY DEF Normalize
<1> HIDE DEF new
<1>6. /\ place \in {"completion", "prepare", "finish"} /\ place \in Places /\ <<>> \in Seq(Events) /\ w \in Works
      /\ place = "finish" => work.calls # <<>> /\ w = work
      /\ place # "finish" => work.calls = <<>> /\ w = NoWork
      /\ place = "prepare" => new.exec.phase = "model"
  <2>1. new.exec.phase \in {"model", "completion"}
    BY <1>4, Fields DEF Good
  <2>2. QED BY <1>2, <2>1, NoWorkWorks DEF TurnLoop, Places
<1> HIDE DEF place, w
<1>7. At(place, new, w)
  BY <1>3, <1>4, <1>6 DEF At, Settled, Streaming, Batching, Clear
<1>8. SameMessages(new, live) /\ \A c : Known(live, c) => Known(new, c)
  BY <1>3, <1>4 DEF SameMessages, Known
<1>9. EffectsAt(place, w, new)
  <2>1. CASE place = "finish"
    BY <1>1, <1>2, <1>3, <1>4, <1>6, <1>8, <2>1 DEF EffectsAt, Batching
  <2>2. CASE place # "finish"
    BY <1>2, <1>3, <1>4, <1>6, <1>8, <2>2, EffectsDropped
  <2>3. QED BY <2>1, <2>2
<1>10. UNCHANGED <<client, idleSpent, nextTurn, history>> /\ fallback' \in BOOLEAN
  BY <1>2, <1>5, UnchangedRest
<1>11. CASE Save(new, new, <<>>, place, w)
  BY <1>1, <1>3, <1>4, <1>6, <1>7, <1>8, <1>9, <1>10, <1>11, SaveStep
<1>12. CASE Fails(live) /\ UNCHANGED saved
  BY <1>3, <1>10, <1>12, FailsLive
<1>13. QED BY <1>5, <1>11, <1>12

-----------------------------------------------------------------------------
(* Tool calls.                                                             *)

(* The streamed tools have ended.                                          *)
LEMMA StreamedDoneStep == ASSUME IInv, StreamedDone PROVE Step
<1>1. Place = "finish"
  BY DEF StreamedDone, Place
<1>2. At(Place, live, work) /\ Agree(Place, live, disk) /\ EffectsAt(Place, work, disk) /\ work \in Works
  BY Parts
<1>3. Agree("collect", live, disk) /\ At("collect", live, work) /\ EffectsAt("collect", work, disk)
  BY <1>1, <1>2 DEF Agree, At, EffectsAt, Settled, Streaming, Batching, StreamedDone
<1>4. "collect" \in Places
  BY DEF Places
<1>5. QED BY <1>2, <1>3, <1>4, GoesOn DEF StreamedDone

(* The results of the streamed tools are saved.                            *)
LEMMA CollectStep == ASSUME IInv, Collect PROVE Step
<1> DEFINE out  == work.ran \cup work.denied
           done == CallsIn(work.calls, out)
           rest == CallsIn(work.calls, Calls \ out)
           next == IF rest = <<>> THEN TurnLoop(live) ELSE "authorize"
           w    == [NoWork EXCEPT !.batch = rest]
<1>1. Place = "collect"
  BY DEF Collect, Place
<1>2. /\ At(Place, live, work) /\ Agree(Place, live, disk) /\ EffectsAt(Place, work, disk) /\ work \in Works
      /\ Good(live, nextTurn) /\ RestOK /\ nextTurn \in Nat \ {0} /\ live \in Checkpoints
  BY Parts
<1>3. /\ live = disk /\ live.exec.turn # NoTurn /\ live.exec.phase = "model" /\ ~live.step
      /\ live.tools = work.calls /\ work.calls # <<>> /\ live.approval = NoApproval
      /\ work.calls \in Seq(Calls)
  BY <1>1, <1>2 DEF Agree, At, Works
<1>4. IsInjective(work.calls) /\ \A c \in Calls : Contains(work.calls, c) => HasCall(live, c)
  BY <1>2, <1>3 DEF Good, CallsInv
<1>5. \A c : Contains(work.calls, c) => c \in Calls
  BY <1>3, ContainsIsToSet
<1>6. /\ done \in Seq(Calls) /\ IsInjective(done)
      /\ \A c : Contains(done, c) <=> Contains(work.calls, c) /\ c \in out
  BY <1>3, <1>4, CallsInProperties
<1>7. /\ rest \in Seq(Calls)
      /\ \A c : Contains(rest, c) <=> Contains(work.calls, c) /\ c \in Calls \ out
      /\ (\A c : Contains(work.calls, c) => c \in Calls \ out) => rest = work.calls
  BY <1>3, CallsInProperties
<1>8. Collect => /\ UNCHANGED Unchanged
                 /\ IF done = <<>>
                      THEN Jump("authorize") /\ work' = w /\ UNCHANGED <<live, saved, faults>>
                      ELSE Save(WithResults(live, done), live, <<>>, next, w)
  BY DEF Collect
<1> HIDE DEF done, rest
<1>9. w \in Works /\ w.batch = rest /\ w.refused = <<>> /\ w.running = {} /\ w.calls = <<>>
  BY <1>7, WorkBatch
<1>10. \A c : Contains(rest, c) => effects[c] = 0
  BY <1>1, <1>2, <1>7 DEF EffectsAt
<1> HIDE DEF w
<1>11. CASE done = <<>>
  <2>1. rest = work.calls
    BY <1>5, <1>6, <1>7, <1>11, ContainsNothing
  <2>2. Agree("authorize", live, disk) /\ At("authorize", live, w)
    BY <1>1, <1>2, <1>3, <1>9, <2>1 DEF Agree, At, Settled, Streaming, Batching
  <2>3. EffectsAt("authorize", w, disk)
    BY <1>2, <1>9, <1>10 DEF EffectsAt, Batching
  <2>4. "authorize" \in Places /\ Jump("authorize") /\ work' = w /\ UNCHANGED <<live, saved, faults, Unchanged>>
    BY <1>8, <1>11 DEF Places
  <2>5. QED BY <1>9, <2>2, <2>3, <2>4, GoesOn
<1>12. CASE done # <<>>
  <2> DEFINE new == Recorded(live, done)
  <2>1. /\ Good(new, nextTurn) /\ ~new.step /\ new.approval = NoApproval
        /\ new.exec = live.exec /\ new.pending = live.pending
        /\ new.tools = Outstanding(live.tools, done)
        /\ \A m : HasMessage(new, m) <=> HasMessage(live, m)
        /\ \A c : HasCall(new, c) <=> HasCall(live, c)
        /\ \A c : Contains(new.tools, c) <=> Contains(live.tools, c) /\ ~Contains(done, c)
    <3>1. /\ nextTurn \in Nat /\ done \in Seq(Calls) /\ IsInjective(done)
          /\ \A c : Contains(done, c) => Contains(live.tools, c)
      BY <1>2, <1>3, <1>6
    <3>2. new = Recorded(live, done)
      OBVIOUS
    <3> HIDE DEF new
    <3>3. QED BY <1>2, <1>3, <3>1, <3>2, GoodResults
  <2>2. WithResults(live, done) = new
    <3>1. \A x, y : LET r == [live EXCEPT !.context = x, !.tools = y] IN [r EXCEPT !.approval = NoApproval] = r
      BY <1>2, <1>3 DEF Checkpoints, CheckpointsOf
    <3>2. QED BY <3>1 DEF WithResults, Recorded
  <2>3. new.tools = rest
    <3>1. \A c : Contains(work.calls, c) => (c \in ToSet(live.tools) \ ToSet(done) <=> c \in Calls \ out)
      BY <1>3, <1>5, <1>6, ContainsIsToSet
    <3> HIDE DEF out
    <3>2. CallsIn(work.calls, ToSet(live.tools) \ ToSet(done)) = CallsIn(work.calls, Calls \ out)
      BY <1>3, <3>1, CallsInSame
    <3>3. QED BY <1>3, <2>1, <3>2 DEF rest, Outstanding
  <2> HIDE DEF new
  <2>4. next \in {"prepare", "authorize"} /\ next \in Places /\ (next = "prepare" <=> rest = <<>>)
        /\ <<>> \in Seq(Events)
    BY <1>3 DEF TurnLoop, Places
  <2>5. At(next, new, w)
    BY <1>3, <1>9, <2>1, <2>3, <2>4 DEF At, Settled, Streaming, Batching, Clear
  <2>6. SameMessages(new, live) /\ \A c \in Calls : Known(live, c) => Known(new, c)
    BY <1>3, <1>4, <2>1 DEF SameMessages, Known
  <2>7. EffectsAt(next, w, new)
    BY <1>2, <1>3, <1>9, <1>10, <2>1, <2>4, <2>6 DEF EffectsAt, Batching
  <2>8. UNCHANGED <<client, idleSpent, nextTurn, history>> /\ fallback' \in BOOLEAN
    BY <1>2, <1>8, UnchangedRest
  <2>9. Save(new, live, <<>>, next, w) /\ new.exec.turn = live.exec.turn
    BY <1>8, <1>12, <2>1, <2>2
  <2> HIDE DEF next
  <2>10. QED BY <1>1, <1>2, <1>3, <1>9, <2>1, <2>4, <2>5, <2>6, <2>7, <2>8, <2>9, SaveStep
<1>13. QED BY <1>11, <1>12

(* What a decision about a batch leaves to do.                             *)
LEMMA Decisions ==
    ASSUME NEW calls \in Seq(Calls), NEW decision \in {"approved", "denied", "abort"}
    PROVE  LET w == DecidedWork(calls, decision) IN
           /\ w \in Works /\ w.running = {} /\ w.calls = <<>>
           /\ \A c : Contains(calls, c) <=> Contains(w.batch, c) \/ Contains(w.refused, c)
           /\ \A c \in Guarded : Contains(w.batch, c) => c \in ApprovedBy(calls, decision)
           /\ ApprovedBy(calls, decision) \subseteq Calls
           /\ AfterDecision(calls, decision) \in {"abort", "recorded", "begin"}
           /\ AfterDecision(calls, decision) = "abort" <=> decision = "abort"
<1>0. \A c : Contains(calls, c) => c \in Calls
  BY ContainsIsToSet
<1>1. /\ AfterDecision(calls, decision) \in {"abort", "recorded", "begin"}
      /\ AfterDecision(calls, decision) = "abort" <=> decision = "abort"
  BY DEF AfterDecision
<1>2. CASE decision = "approved"
  <2>1. DecidedWork(calls, decision) = [NoWork EXCEPT !.batch = calls] /\ ApprovedBy(calls, decision) = ToSet(calls)
    BY <1>2 DEF DecidedWork, ApprovedBy
  <2>2. \A c : (c \in ToSet(calls) <=> Contains(calls, c)) /\ ~Contains(<<>>, c)
    BY ContainsIsToSet DEF Contains
  <2> DEFINE w == [NoWork EXCEPT !.batch = calls]
  <2>3. w \in Works /\ w.batch = calls /\ w.refused = <<>> /\ w.running = {} /\ w.calls = <<>>
    BY WorkBatch
  <2> HIDE DEF w
  <2>4. QED BY <1>0, <1>1, <2>1, <2>2, <2>3 DEF w
<1>3. CASE decision # "approved"
  <2> DEFINE b == UnguardedOf(calls)
             f == GuardedOf(calls)
  <2>1. DecidedWork(calls, decision) = [NoWork EXCEPT !.batch = b, !.refused = f] /\ ApprovedBy(calls, decision) = {}
    BY <1>3 DEF DecidedWork, ApprovedBy
  <2>2. /\ b \in Seq(Calls) /\ f \in Seq(Calls)
        /\ \A c : Contains(b, c) <=> Contains(calls, c) /\ c \in Calls \ Guarded
        /\ \A c : Contains(f, c) <=> Contains(calls, c) /\ c \in Guarded
    BY CallsInProperties DEF UnguardedOf, GuardedOf
  <2> HIDE DEF b, f
  <2> DEFINE w == [NoWork EXCEPT !.batch = b, !.refused = f]
  <2>3. w \in Works /\ w.batch = b /\ w.refused = f /\ w.running = {} /\ w.calls = <<>>
    <3>1. b \in Seq(Calls) /\ f \in Seq(Calls)
      BY <2>2
    <3>2. ASSUME NEW x \in Works
          PROVE  LET y == [x EXCEPT !.batch = b, !.refused = f] IN
                 y \in Works /\ y.calls = x.calls /\ y.running = x.running /\ y.batch = b /\ y.refused = f
      BY <3>1 DEF Works
    <3>3. QED BY <3>2, NoWorkWorks
  <2> HIDE DEF w
  <2>4. QED BY <1>0, <1>1, <2>1, <2>2, <2>3 DEF w
<1>4. QED BY <1>2, <1>3

(* The parts of RestOK that the steps with other variables keep.           *)
LEMMA ClientRest ==
    ASSUME RestOK,
           inbox' = inbox \/ inbox' = <<>> \/ (inbox # <<>> /\ inbox' = Tail(inbox)),
           UNCHANGED faults \/ Fault, nextTurn' \in {nextTurn, nextTurn + 1},
           sends' \in Nat, crashes' \in Nat,
           closed' \in BOOLEAN, fallback' \in BOOLEAN, idleSpent' \in BOOLEAN,
           acked' \subseteq Messages, dropped' \subseteq Messages, replaced' \subseteq Messages,
           approved' \subseteq Calls, effects' \in [Calls -> Nat]
    PROVE  RestOK' /\ Shrinks
<1>1. inbox' \in Seq(Requests) /\ Len(inbox') <= InboxCapacity
  <2>1. InboxCapacity \in Nat
    BY RuntimeAssumptions
  <2>2. inbox \in Seq(Requests) /\ Len(inbox) <= InboxCapacity
    BY DEF RestOK
  <2>3. CASE inbox' = <<>>
    BY <2>1, <2>3
  <2>4. CASE inbox # <<>> /\ inbox' = Tail(inbox)
    <3>1. inbox' \in Seq(Requests) /\ Len(inbox') = Len(inbox) - 1 /\ Len(inbox) \in Nat
      BY <2>2, <2>4
    <3>2. QED BY <2>1, <2>2, <3>1
  <2>5. QED BY <2>2, <2>3, <2>4
<1>2. faults' \in Nat /\ nextTurn' \in Nat \ {0}
  BY DEF RestOK, Fault
<1>3. QED BY <1>1, <1>2 DEF RestOK, Shrinks

(* The batch is authorised or waits for an approval.                       *)
LEMMA AuthorizeStep == ASSUME IInv, Authorize PROVE Step
<1> DEFINE calls == work.batch
           asked == [live EXCEPT !.approval = [calls |-> calls, decided |-> FALSE]]
<1>1. Place = "authorize"
  BY DEF Authorize, Place
<1>2. /\ At(Place, live, work) /\ Agree(Place, live, disk) /\ EffectsAt(Place, work, disk) /\ work \in Works
      /\ Good(live, nextTurn) /\ RestOK /\ nextTurn \in Nat \ {0} /\ live \in Checkpoints
  BY Parts
<1>3. /\ live = disk /\ live.exec.turn # NoTurn /\ live.exec.phase = "model" /\ ~live.step
      /\ live.tools = calls /\ calls # <<>> /\ live.approval = NoApproval /\ work.refused = <<>>
      /\ calls \in Seq(Calls) /\ work.running = {}
  BY <1>1, <1>2 DEF Agree, At, Works, EffectsAt
<1>4. \A c : Contains(calls, c) => c \in Calls /\ effects[c] = 0
  BY <1>1, <1>2, <1>3, ContainsIsToSet DEF EffectsAt
<1>5. CASE GuardedOf(calls) = <<>> /\ Jump("begin") /\ UNCHANGED <<live, saved, work, faults, approved>>
  <2>1. \A c : ~Contains(<<>>, c)
    BY DEF Contains
  <2>2. \A c \in Guarded : ~Contains(calls, c)
    BY <1>3, <1>5, <2>1, CallsInProperties DEF GuardedOf
  <2>3. Agree("begin", live, disk) /\ At("begin", live, work) /\ EffectsAt("begin", work, disk)
    BY <1>1, <1>2, <1>3, <2>1, <2>2 DEF Agree, At, EffectsAt, Settled, Streaming, Batching
  <2>4. "begin" \in Places /\ UNCHANGED <<live, saved, faults, Unchanged>>
    BY <1>5 DEF Authorize, Places, Unchanged, history
  <2>5. work' \in Works /\ work' = work
    BY <1>2, <1>5
  <2>6. QED BY <1>5, <2>3, <2>4, <2>5, GoesOn
<1>6. ASSUME NEW decision \in {"approved", "denied"},
             Jump(AfterDecision(calls, decision)), work' = DecidedWork(calls, decision),
             approved' = approved \cup ApprovedBy(calls, decision), UNCHANGED <<live, saved, faults>>
      PROVE  Step
  <2> DEFINE w == DecidedWork(calls, decision)
             place == AfterDecision(calls, decision)
  <2>1. /\ w \in Works /\ w.running = {} /\ w.calls = <<>>
        /\ \A c : Contains(calls, c) <=> Contains(w.batch, c) \/ Contains(w.refused, c)
        /\ \A c \in Guarded : Contains(w.batch, c) => c \in ApprovedBy(calls, decision)
        /\ ApprovedBy(calls, decision) \subseteq Calls
        /\ place \in {"recorded", "begin"}
    BY <1>3, <1>6, Decisions
  <2> HIDE DEF w, place
  <2>2. place \in Places /\ Jump(place) /\ work' = w
    BY <1>6, <2>1 DEF Places, place, w
  <2>3. Place' = place /\ ControlOK'
    BY <2>2, Jumps
  <2>4. /\ disk' = disk /\ effects' = effects /\ acked' = acked /\ dropped' = dropped /\ replaced' = replaced
        /\ inbox' = inbox /\ sends' = sends /\ crashes' = crashes /\ closed' = closed /\ idleSpent' = idleSpent
        /\ fallback' = fallback /\ nextTurn' = nextTurn /\ faults' = faults
        /\ UNCHANGED live /\ UNCHANGED saved
    BY <1>6 DEF Authorize, saved, client
  <2>5. approved' \subseteq Calls /\ approved \subseteq approved'
    BY <1>2, <1>6, <2>1 DEF RestOK
  <2>6. RestOK' /\ Shrinks
    BY <1>2, <2>4, <2>5 DEF RestOK, Shrinks
  <2>7. Agree(place, live, disk) /\ At(place, live, w)
    BY <1>1, <1>2, <1>3, <2>1 DEF Agree, At, Settled, Streaming, Batching
  <2>8. EffectsAt(Place, work, disk)'
    <3>1. \A c : ~Contains(<<>>, c)
      BY DEF Contains
    <3>2. \A c \in Guarded : Contains(w.batch, c) => c \in approved'
      BY <1>6, <2>1
    <3>3. \A c : Contains(w.batch, c) => effects[c] = 0
      BY <1>4, <2>1
    <3>4. QED BY <1>1, <1>2, <1>3, <2>1, <2>2, <2>3, <2>4, <2>5, <3>1, <3>2, <3>3 DEF EffectsAt, Batching
  <2>9. QED BY <2>1, <2>2, <2>3, <2>4, <2>6, <2>7, <2>8, MovedStep
<1>7. CASE Save(asked, asked, <<>>, "approval", NoWork) /\ UNCHANGED approved
  <2>1. /\ Good(asked, nextTurn) /\ asked.approval # NoApproval /\ ~asked.approval.decided
        /\ asked.step = live.step /\ asked.tools = live.tools /\ asked.exec = live.exec
        /\ asked.pending = live.pending /\ asked.context = live.context
    <3>1. asked = Asked(live)
      BY <1>3 DEF Asked
    <3> HIDE DEF asked
    <3>2. QED BY <1>2, <1>3, <3>1, GoodAsked
  <2> HIDE DEF asked
  <2>2. /\ SameMessages(asked, live) /\ \A c : Known(live, c) => Known(asked, c)
        /\ \A m : HasMessage(asked, m) <=> HasMessage(live, m)
    BY <2>1 DEF SameMessages, Known, HasMessage, HasCall
  <2>3. At("approval", asked, NoWork)
    <3>1. asked.exec.turn # NoTurn /\ asked.exec.phase = "model"
      BY <1>3, <2>1
    <3>2. "approval" \notin Settled \cup Streaming \cup Batching
      BY DEF Settled, Streaming, Batching
    <3>3. QED BY <2>1, <3>1, <3>2 DEF At
  <2>4. EffectsAt("approval", NoWork, asked)
    <3>1. EffectsAt(Place, work, disk) /\ \A c \in Calls : Known(disk, c) => Known(asked, c)
      BY <1>2, <1>3, <2>2
    <3>2. \A c : Contains(asked.tools, c) => effects[c] = 0
      BY <1>3, <1>4, <2>1
    <3>3. QED BY <3>1, <3>2, EffectsDropped
  <2>5. "approval" \in Places /\ <<>> \in Seq(Events)
    BY DEF Places
  <2>6. UNCHANGED <<client, idleSpent, nextTurn, history>> /\ fallback' \in BOOLEAN
    BY <1>2, <1>7 DEF Authorize, RestOK, history
  <2>7. QED BY <1>1, <1>2, <1>3, <1>7, <2>1, <2>2, <2>3, <2>4, <2>5, <2>6, NoWorkWorks, SaveStep
<1>8. QED BY <1>5, <1>6, <1>7 DEF Authorize

(* The tools of the batch are bound and announced.                         *)
LEMMA BeginToolsStep == ASSUME IInv, BeginTools PROVE Step
<1>1. Place = "begin"
  BY DEF BeginTools, Place
<1>2. /\ At(Place, live, work) /\ Agree(Place, live, disk) /\ EffectsAt(Place, work, disk) /\ work \in Works
      /\ RestOK
  BY Parts
<1>3. /\ Agree("execute", live, disk) /\ At("execute", live, work) /\ EffectsAt("execute", work, disk)
      /\ live.exec.turn # NoTurn
  BY <1>1, <1>2 DEF Agree, At, EffectsAt, Settled, Streaming, Batching
<1>4. "execute" \in Places
  BY DEF Places
<1>5. CASE Goto("execute") /\ UNCHANGED <<live, work, faults>>
  BY <1>2, <1>3, <1>4, <1>5, GoesOn DEF BeginTools
<1>6. CASE Fails(live)
  <2>1. UNCHANGED <<client, idleSpent, nextTurn, history>> /\ fallback' \in BOOLEAN
    BY <1>2, UnchangedRest DEF BeginTools
  <2>2. QED BY <1>3, <1>6, <2>1, FailsLive DEF BeginTools
<1>7. QED BY <1>5, <1>6 DEF BeginTools

(* The work with other running calls.                                      *)
LEMMA WorkRunning ==
    ASSUME NEW x \in Works, NEW R \in SUBSET Calls
    PROVE  LET w == [x EXCEPT !.running = R] IN
           /\ w \in Works /\ w.running = R /\ w.calls = x.calls /\ w.batch = x.batch
           /\ w.refused = x.refused /\ w.ran = x.ran
BY DEF Works

(* The tools of the batch start, unless input that waits keeps them from   *)
(* it.                                                                     *)
LEMMA ExecuteStep == ASSUME IInv, Execute PROVE Step
<1>1. Place = "execute"
  BY DEF Execute, Place
<1>2. /\ At(Place, live, work) /\ Agree(Place, live, disk) /\ EffectsAt(Place, work, disk) /\ work \in Works
      /\ RestOK
  BY Parts
<1>3. Agree("recorded", live, disk) /\ At("recorded", live, work) /\ EffectsAt("recorded", work, disk)
  BY <1>1, <1>2 DEF Agree, At, EffectsAt, Settled, Streaming, Batching
<1>4. "recorded" \in Places /\ "executing" \in Places
  BY DEF Places
<1>5. UNCHANGED <<live, saved, faults, Unchanged>>
  BY DEF Execute
<1>6. CASE Jump("recorded") /\ UNCHANGED work
  BY <1>2, <1>3, <1>4, <1>5, <1>6, GoesOn
<1>7. CASE Jump("executing") /\ work' = [work EXCEPT !.running = ToSet(work.batch)]
  <2> DEFINE w == [work EXCEPT !.running = ToSet(work.batch)]
  <2>1. work.batch \in Seq(Calls)
    BY <1>2 DEF Works
  <2>2. ToSet(work.batch) \in SUBSET Calls /\ \A c \in ToSet(work.batch) : Contains(work.batch, c)
    BY <2>1, ContainsIsToSet
  <2>3. /\ w \in Works /\ w.running = ToSet(work.batch) /\ w.calls = work.calls /\ w.batch = work.batch
        /\ w.refused = work.refused /\ w.ran = work.ran
    BY <1>2, <2>2, WorkRunning
  <2> HIDE DEF w
  <2>4. live = disk /\ \A c : Contains(work.batch, c) => Contains(disk.tools, c)
    BY <1>1, <1>2 DEF Agree, At, Batching
  <2>5. Agree("executing", live, disk) /\ At("executing", live, w)
    BY <1>1, <1>2, <2>3 DEF Agree, At, Settled, Streaming, Batching
  <2>6. EffectsAt("executing", w, disk)
    BY <1>1, <1>2, <2>2, <2>3, <2>4 DEF EffectsAt, Batching
  <2>7. work' = w
    BY <1>7 DEF w
  <2>8. QED BY <1>4, <1>5, <1>7, <2>3, <2>5, <2>6, <2>7, GoesOn
<1>8. QED BY <1>6, <1>7 DEF Execute

(* The tools of the batch have ended.                                      *)
LEMMA ExecutedStep == ASSUME IInv, Executed PROVE Step
<1>1. Place = "executing"
  BY DEF Executed, Place
<1>2. At(Place, live, work) /\ Agree(Place, live, disk) /\ EffectsAt(Place, work, disk) /\ work \in Works
  BY Parts
<1>3. Agree("record", live, disk) /\ At("record", live, work) /\ EffectsAt("record", work, disk)
  BY <1>1, <1>2 DEF Agree, At, EffectsAt, Settled, Streaming, Batching, Executed
<1>4. "record" \in Places
  BY DEF Places
<1>5. QED BY <1>2, <1>3, <1>4, GoesOn DEF Executed

(* The results of the batch are saved.                                     *)
LEMMA RecordStep == ASSUME IInv, Record PROVE Step
<1> DEFINE both == work.batch \o work.refused
           done == CallsIn(live.tools, ToSet(both))
           new == Recorded(live, done)
<1>1. Place \in {"record", "recorded"}
  BY DEF Record, Place
<1>2. /\ At(Place, live, work) /\ Agree(Place, live, disk) /\ EffectsAt(Place, work, disk) /\ work \in Works
      /\ Good(live, nextTurn) /\ RestOK /\ nextTurn \in Nat \ {0} /\ live \in Checkpoints
  BY Parts
<1>3. /\ live = disk /\ live.exec.turn # NoTurn /\ live.exec.phase = "model" /\ ~live.step
      /\ work.batch \in Seq(Calls) /\ work.refused \in Seq(Calls)
      /\ \A c : Contains(live.tools, c) <=> Contains(work.batch, c) \/ Contains(work.refused, c)
  BY <1>1, <1>2 DEF Agree, At, Works, Batching
<1>4. live.tools \in Seq(Calls) /\ IsInjective(live.tools)
  BY <1>2, Fields DEF Good, CallsInv
<1>5. \A c : Contains(live.tools, c) => c \in ToSet(both)
  <2>1. both \in Seq(Calls) /\ \A c : Contains(both, c) <=> Contains(work.batch, c) \/ Contains(work.refused, c)
    BY <1>3, ConcatContains
  <2> HIDE DEF both
  <2>2. QED BY <1>3, <2>1, ContainsIsToSet
<1>6. done = live.tools
  <2> HIDE DEF both
  <2>1. QED BY <1>4, <1>5, CallsInProperties
<1>7. Save(new, live, <<>>, TurnLoop(live), NoWork) /\ UNCHANGED Unchanged
  BY DEF Record, Recorded
<1> HIDE DEF done
<1>8. /\ Good(new, nextTurn) /\ ~new.step /\ new.approval = NoApproval
      /\ new.exec = live.exec /\ new.pending = live.pending
      /\ \A m : HasMessage(new, m) <=> HasMessage(live, m)
      /\ \A c : HasCall(new, c) <=> HasCall(live, c)
      /\ \A c : Contains(new.tools, c) <=> Contains(live.tools, c) /\ ~Contains(done, c)
  <2>1. nextTurn \in Nat /\ done \in Seq(Calls) /\ IsInjective(done) /\ \A c : Contains(done, c) => Contains(live.tools, c)
    BY <1>2, <1>4, <1>6
  <2>2. new = Recorded(live, done)
    OBVIOUS
  <2> HIDE DEF new
  <2>3. QED BY <1>2, <1>3, <2>1, <2>2, GoodResults
<1> HIDE DEF new
<1>9. Clear(new)
  <2>1. new.tools \in Seq(Calls)
    BY <1>8, Fields DEF Good
  <2>2. new.tools = <<>>
    BY <1>6, <1>8, <2>1, ContainsNothing
  <2>3. QED BY <1>8, <2>2 DEF Clear
<1>10. TurnLoop(live) = "prepare" /\ "prepare" \in Places /\ <<>> \in Seq(Events)
  BY <1>3 DEF TurnLoop, Places
<1>11. At("prepare", new, NoWork)
  BY <1>3, <1>8, <1>9 DEF At, Settled, Streaming, Batching
<1>12. SameMessages(new, live) /\ \A c \in Calls : Known(live, c) => Known(new, c)
  <2>1. \A c \in Calls : Contains(live.tools, c) => HasCall(live, c)
    BY <1>2, <1>3 DEF Good, CallsInv
  <2>2. QED BY <1>8, <2>1 DEF SameMessages, Known
<1>13. EffectsAt("prepare", NoWork, new)
  BY <1>2, <1>3, <1>8, <1>12, EffectsDropped
<1>14. UNCHANGED <<client, idleSpent, nextTurn, history>> /\ fallback' \in BOOLEAN
  BY <1>2, <1>7, UnchangedRest
<1>15. Place # "failing" /\ new.exec.turn = live.exec.turn
  BY <1>1, <1>8
<1>16. QED BY <1>2, <1>3, <1>7, <1>8, <1>10, <1>11, <1>12, <1>13, <1>14, <1>15, NoWorkWorks, SaveStep

-----------------------------------------------------------------------------
(* The end of a turn.                                                      *)

(* Waiting input takes a completing turn back to the model, in memory.     *)
LEMMA ResumedStep ==
    ASSUME IInv, Place \in {"completion", "afterStop"}, Ready,
           live' = [live EXCEPT !.exec.phase = "model"], Goto("prepare"),
           UNCHANGED <<saved, work, faults, Unchanged>>
    PROVE  Step
<1> DEFINE new == [live EXCEPT !.exec.phase = "model"]
<1>1. /\ At(Place, live, work) /\ Agree(Place, live, disk) /\ EffectsAt(Place, work, disk) /\ work \in Works
      /\ Good(live, nextTurn) /\ Good(disk, nextTurn) /\ RestOK /\ nextTurn \in Nat \ {0} /\ live \in Checkpoints
      /\ inbox \in Seq(Requests) /\ SavedOK /\ disk \in Checkpoints
  BY Parts
<1>2. live = disk /\ live.exec.turn # NoTurn /\ Clear(live) /\ work.running = {}
  BY <1>1 DEF Agree, At, Settled, EffectsAt
<1>3. /\ Good(new, nextTurn) /\ new.exec.turn = live.exec.turn /\ new.exec.phase = "model"
      /\ new.step = live.step /\ new.tools = live.tools /\ new.approval = live.approval
      /\ new.pending = live.pending /\ new.context = live.context
  BY <1>1, <1>2, GoodPhase
<1>4. new = [disk EXCEPT !.exec.phase = new.exec.phase] /\ live' = new
  BY <1>2, <1>3
<1>5. /\ RestOK' /\ Shrinks /\ inbox' = inbox /\ nextTurn' = nextTurn
      /\ acked' = acked /\ dropped' = dropped /\ replaced' = replaced
      /\ approved' = approved /\ effects' = effects
  BY <1>1, UnchangedRest, RestKept
<1>6. Place' = "prepare" /\ ControlOK'
  <2>1. "prepare" \in Places
    BY DEF Places
  <2>2. QED BY <1>1, <1>5, <2>1, Gotos
<1>7. disk' = disk /\ receipts' = receipts /\ journal' = journal /\ work' = work
  BY DEF saved
<1> HIDE DEF new
<1>8. Agree("prepare", new, disk)
  BY <1>2, <1>3, <1>4 DEF Agree, Ready, HasMessage, Known, HasCall
<1>9. At("prepare", new, work)
  BY <1>2, <1>3 DEF At, Settled, Streaming, Batching, Clear
<1>10. EffectsAt("prepare", work, disk)
  BY <1>1, <1>2 DEF EffectsAt, Batching
<1>11. CoreInv'
  <2>1. TypeOK'
    BY <1>1, <1>3, <1>4, <1>5, <1>6, <1>7, TypeParts DEF SavedOK, Good
  <2>2. QED BY <1>1, <1>3, <1>4, <1>5, <1>6, <1>7, <1>8, <1>9, <2>1 DEF CoreInv
<1>12. EffectsAt(Place, work, disk)'
  BY <1>5, <1>6, <1>7, <1>10 DEF EffectsAt
<1>13. QuietStep /\ SameTurn
  BY <1>2, <1>3, <1>4, <1>5, <1>7 DEF QuietStep, SameQueue, SameTurn
<1>14. QED BY <1>11, <1>12, <1>13 DEF Step, MessageStep, TurnStep

(* The stop hooks run, or a waiting steer keeps the turn going.            *)
LEMMA CompletionStep == ASSUME IInv, Completion PROVE Step
<1>1. Place = "completion"
  BY DEF Completion, Place
<1>2. /\ At(Place, live, work) /\ Agree(Place, live, disk) /\ EffectsAt(Place, work, disk) /\ work \in Works
      /\ RestOK
  BY Parts
<1>3. CASE /\ Ready /\ live' = [live EXCEPT !.exec.phase = "model"] /\ Goto("prepare")
           /\ UNCHANGED <<work, faults>>
  BY <1>1, <1>3, ResumedStep DEF Completion
<1>4. CASE Goto("afterStop") /\ UNCHANGED <<live, work, faults>>
  <2>1. Agree("afterStop", live, disk) /\ At("afterStop", live, work) /\ EffectsAt("afterStop", work, disk)
    BY <1>1, <1>2 DEF Agree, At, EffectsAt, Settled, Streaming, Batching
  <2>2. "afterStop" \in Places
    BY DEF Places
  <2>3. QED BY <1>2, <1>4, <2>1, <2>2, GoesOn DEF Completion
<1>5. CASE Fails(live)
  <2>1. UNCHANGED <<client, idleSpent, nextTurn, history>> /\ fallback' \in BOOLEAN
    BY <1>2, UnchangedRest DEF Completion
  <2>2. live.exec.turn # NoTurn
    BY <1>1, <1>2 DEF At
  <2>3. QED BY <1>5, <2>1, <2>2, FailsLive DEF Completion
<1>6. QED BY <1>3, <1>4, <1>5 DEF Completion

(* The turn completes, or goes on.                                         *)
LEMMA AfterStopStep == ASSUME IInv, AfterStop PROVE Step
<1> DEFINE new == [live EXCEPT !.exec.phase = "model"]
<1>1. Place = "afterStop" /\ UNCHANGED Unchanged
  BY DEF AfterStop, Place
<1>2. /\ At(Place, live, work) /\ Agree(Place, live, disk) /\ EffectsAt(Place, work, disk) /\ work \in Works
      /\ RestOK /\ Good(live, nextTurn) /\ nextTurn \in Nat \ {0}
  BY Parts
<1>3. CASE /\ Ready /\ live' = new /\ Goto("prepare") /\ UNCHANGED <<saved, work, faults>>
  BY <1>1, <1>3, ResumedStep
<1>4. CASE ~Ready /\ CompleteTurn
  BY <1>1, <1>4, CompleteStep
<1>5. CASE Save(new, new, <<>>, "prepare", NoWork)
  <2>1. live = disk /\ live.exec.turn # NoTurn /\ Clear(live)
    BY <1>1, <1>2 DEF Agree, At, Settled
  <2>2. /\ Good(new, nextTurn) /\ new.exec.turn = live.exec.turn /\ new.exec.phase = "model"
        /\ new.step = live.step /\ new.tools = live.tools /\ new.approval = live.approval
        /\ new.pending = live.pending /\ new.context = live.context
    BY <1>2, <2>1, GoodPhase
  <2> HIDE DEF new
  <2>3. /\ SameMessages(new, live) /\ \A c : Known(live, c) => Known(new, c)
        /\ \A m : HasMessage(new, m) <=> HasMessage(live, m)
    BY <2>2 DEF SameMessages, Known, HasMessage, HasCall
  <2>4. At("prepare", new, NoWork)
    BY <2>1, <2>2 DEF At, Settled, Streaming, Batching, Clear
  <2>5. EffectsAt("prepare", NoWork, new)
    BY <1>2, <2>1, <2>2, <2>3, EffectsDropped DEF Clear
  <2>6. "prepare" \in Places /\ <<>> \in Seq(Events)
    BY DEF Places
  <2>7. UNCHANGED <<client, idleSpent, nextTurn, history>> /\ fallback' \in BOOLEAN
    BY <1>1, <1>2, UnchangedRest
  <2>8. QED BY <1>1, <1>2, <1>5, <2>1, <2>2, <2>3, <2>4, <2>5, <2>6, <2>7, NoWorkWorks, SaveStep
<1>6. QED BY <1>3, <1>4, <1>5 DEF AfterStop

(* What an abort saves.                                                    *)
LEMMA AbortedIs ==
    ASSUME IInv, NEW w, w.running = {}
    PROVE  LET new == Aborted(live) IN
           /\ Good(new, nextTurn) /\ new.exec.turn = NoTurn /\ SameMessages(new, live)
           /\ At("loop", new, w) /\ EffectsAt("loop", w, new)
           /\ \A c : Known(live, c) => Known(new, c)
<1> DEFINE new == Aborted(live)
<1>1. /\ Good(live, nextTurn) /\ nextTurn \in Nat \ {0} /\ Agree(Place, live, disk)
      /\ EffectsAt(Place, work, disk)
  BY Parts
<1>2. /\ Good(new, nextTurn) /\ Clear(new) /\ new.exec = NoExec
      /\ SameMessages(new, live) /\ \A c : HasCall(new, c) <=> Known(live, c)
  BY <1>1, GoodAborted
<1> HIDE DEF new
<1>3. At("loop", new, w) /\ new.exec.turn = NoTurn
  BY <1>2, NoValues DEF At, Settled, Streaming, Batching
<1>4. \A c : Known(disk, c) => Known(new, c)
  BY <1>1, <1>2 DEF Agree, Known
<1>5. EffectsAt("loop", w, new)
  BY <1>1, <1>2, <1>4 DEF EffectsAt, Batching, Clear
<1>6. \A c : Known(live, c) => Known(new, c)
  BY <1>2 DEF Known
<1>7. QED BY <1>2, <1>3, <1>5, <1>6 DEF new

(* The turn is aborted.                                                    *)
LEMMA AbortStep == ASSUME IInv, Abort PROVE Step
<1> DEFINE new == Aborted(live)
           events == <<<<"aborted", live.exec.turn>>>>
<1>1. Place = "abort" /\ UNCHANGED Unchanged
  BY DEF Abort, Place
<1>2. /\ At(Place, live, work) /\ RestOK /\ Good(live, nextTurn) /\ nextTurn \in Nat \ {0} /\ live.exec.turn \in Nat
  BY Parts
<1>3. /\ Good(new, nextTurn) /\ new.exec.turn = NoTurn /\ SameMessages(new, live)
      /\ At("loop", new, NoWork) /\ EffectsAt("loop", NoWork, new)
  BY NoWorkWorks, AbortedIs
<1>4. Save(new, live, events, "loop", NoWork)
  BY DEF Abort
<1> HIDE DEF new
<1>5. events \in Seq(Events) /\ "loop" \in Places /\ live.exec.turn # NoTurn
  BY <1>1, <1>2 DEF Events, Places, At
<1>6. UNCHANGED <<client, idleSpent, nextTurn, history>> /\ fallback' \in BOOLEAN
  BY <1>1, <1>2, UnchangedRest
<1>7. QED BY <1>1, <1>2, <1>3, <1>4, <1>5, <1>6, NoWorkWorks, SaveStep

(* The runner returns an error or the process dies.                        *)
LEMMA DiedStep ==
    ASSUME IInv, Die, RestOK', UNCHANGED history,
           nextTurn' = nextTurn \/ (nextTurn' = nextTurn + 1 /\ disk.exec.turn = NoTurn)
    PROVE  Step
<1>1. CoreInv /\ EffectsAt(Place, work, disk) /\ nextTurn \in Nat
  BY Parts DEF IInv
<1>2. CoreInv' /\ Place' = "down" /\ work' = NoWork /\ live' = disk /\ disk' = disk
  BY <1>1, Died
<1>3. /\ receipts' = receipts /\ journal' = journal /\ inbox' = <<>>
      /\ effects' = effects /\ approved' = approved /\ acked' = acked /\ dropped' = dropped /\ replaced' = replaced
  BY DEF Die, saved, history
<1>4. EffectsAt("down", NoWork, disk)
  <2>1. disk.approval # NoApproval /\ ~disk.approval.decided =>
             \A c : Contains(disk.tools, c) => effects[c] = 0
    BY <1>1 DEF EffectsAt
  <2>2. QED BY <1>1, <2>1, EffectsDropped
<1>5. EffectsAt(Place, work, disk)'
  BY <1>2, <1>3, <1>4 DEF EffectsAt
<1>6. QuietStep
  BY <1>2, <1>3 DEF QuietStep, SameQueue, Shrinks
<1>7. SameTurn \/ NewTurn
  BY <1>2, <1>3 DEF SameTurn, NewTurn
<1>8. QED BY <1>2, <1>5, <1>6, <1>7 DEF Step, MessageStep, TurnStep

(* A failed turn ends on disk, or the runner dies.                         *)
LEMMA FailTurnStep == ASSUME IInv, FailTurn PROVE Step
<1> DEFINE new == Aborted(live)
           events == <<<<"aborted", live.exec.turn>>>>
<1>1. /\ Place \in {"failing", "stopResumed"} /\ UNCHANGED history
      /\ UNCHANGED <<closed, sends, crashes, fallback, idleSpent, nextTurn>>
  BY DEF FailTurn, Place
<1>2. /\ At(Place, live, work) /\ RestOK /\ Good(live, nextTurn) /\ nextTurn \in Nat \ {0} /\ live.exec.turn \in Nat
      /\ EffectsAt(Place, work, disk) /\ work \in Works
  BY Parts
<1>3. live.exec.turn # NoTurn /\ work.running = {}
  BY <1>1, <1>2 DEF At, EffectsAt
<1>4. CASE Commit(new, events) /\ Jump("loop") /\ UNCHANGED <<work, faults, inbox>>
  <2>1. /\ Good(new, nextTurn) /\ new.exec.turn = NoTurn /\ SameMessages(new, live)
        /\ At("loop", new, work) /\ EffectsAt("loop", work, new)
    BY <1>3, AbortedIs
  <2> HIDE DEF new
  <2>2. events \in Seq(Events) /\ "loop" \in Places
    BY <1>2 DEF Events, Places
  <2>3. /\ RestOK' /\ Shrinks /\ nextTurn' = nextTurn
        /\ acked' = acked /\ dropped' = dropped /\ replaced' = replaced
        /\ approved' = approved /\ effects' = effects
    <3>1. UNCHANGED <<client, idleSpent, nextTurn, history>> /\ fallback' \in BOOLEAN
      BY <1>1, <1>2, <1>4 DEF RestOK, client
    <3>2. QED BY <1>2, <1>4, <3>1, RestKept
  <2>4. Place' = "loop" /\ ControlOK'
    BY <1>4, <2>2, Jumps
  <2>5. disk' = new /\ work' = work
    BY <1>4 DEF Commit
  <2>6. EffectsAt(Place, work, disk)'
    BY <2>1, <2>3, <2>4, <2>5 DEF EffectsAt
  <2>7. QED BY <1>2, <1>3, <1>4, <2>1, <2>2, <2>3, <2>4, <2>5, <2>6, SavedStep
<1>5. CASE Fault /\ Die
  <2>1. RestOK'
    BY <1>1, <1>2, <1>5, ClientRest DEF Die, RestOK, history
  <2>2. QED BY <1>1, <1>5, <2>1, DiedStep
<1>6. QED BY <1>4, <1>5 DEF FailTurn

(* The process crashes.                                                    *)
LEMMA CrashStep == ASSUME IInv, Crash PROVE Step
<1>1. RestOK
  BY Parts
<1>2. RestOK'
  <2>1. crashes' \in Nat /\ crashes \in Nat
    BY <1>1 DEF Crash, RestOK
  <2>2. QED BY <1>1, <2>1, ClientRest DEF Crash, Die, RestOK, history
<1>3. QED BY <1>2, DiedStep DEF Crash

-----------------------------------------------------------------------------
(* Between turns.                                                          *)

(* A queued message starts a turn.                                         *)
LEMMA StartTurnStep == ASSUME IInv, StartTurn PROVE Step
<1> DEFINE t == nextTurn
           m == NextTurn(live.pending).id
           n == nextTurn + 1
<1>1. /\ Place = "loop" /\ HasNextTurn(live.pending) /\ nextTurn' = n /\ idleSpent' = FALSE
      /\ UNCHANGED <<closed, sends, crashes, fallback, acked, replaced, approved, effects>>
  BY DEF StartTurn, Place
<1>2. /\ At(Place, live, work) /\ Agree(Place, live, disk) /\ EffectsAt(Place, work, disk) /\ work \in Works
      /\ RestOK /\ Good(live, nextTurn) /\ nextTurn \in Nat \ {0} /\ CoreInv /\ inbox \in Seq(Requests)
  BY Parts DEF IInv
<1>3. live = disk /\ live.exec.turn = NoTurn /\ Clear(live) /\ live.exec = NoExec /\ work.running = {}
  BY <1>1, <1>2, IdleIsClear DEF Agree, At, EffectsAt
<1>4. Good(live, n) /\ n \in Nat /\ t \in Nat \ {0} /\ t < n /\ nextTurn' >= nextTurn
  BY <1>1, <1>2, GoodLater
<1>5. IdsOf(disk.pending) \subseteq receipts
  BY QueuedAreAccepted
<1>6. CASE /\ Commit(TurnStartedBy(live, t), <<<<"started", t>>>>) /\ Goto("prepare")
           /\ UNCHANGED <<work, inbox, faults, dropped>>
  <2> DEFINE new == TurnStartedBy(live, t)
             events == <<<<"started", t>>>>
  <2>1. /\ Good(new, n) /\ Clear(new) /\ new.exec.turn = t /\ new.exec.phase = "model"
        /\ m \in IdsOf(live.pending) /\ IdsOf(new.pending) = IdsOf(live.pending) \ {m}
        /\ \A x : HasMessage(new, x) <=> HasMessage(live, x) \/ x = m
        /\ \A c : HasCall(new, c) <=> HasCall(live, c)
    BY <1>1, <1>3, <1>4, GoodStarted
  <2> HIDE DEF new, m
  <2>2. live' = new /\ disk' = new /\ receipts' = receipts \cup IdsOf(new.pending) /\ journal' = journal \o events
    BY <1>6 DEF Commit, new
  <2>3. Place' = "prepare" /\ ControlOK' /\ events \in Seq(Events)
    <3>1. "prepare" \in Places /\ events \in Seq(Events)
      BY <1>4 DEF Places, Events
    <3>2. QED BY <1>2, <1>6, <3>1, Gotos
  <2>4. RestOK'
    BY <1>1, <1>2, <1>6, ClientRest DEF RestOK
  <2>5. At("prepare", new, work)
    BY <1>4, <2>1 DEF At, Settled, Streaming, Batching, NoTurn
  <2>6. CoreInv'
    <3>1. Commit(new, events)
      BY <1>6 DEF new
    <3>2. QED BY <1>1, <1>2, <1>6, <2>1, <2>3, <2>4, <2>5, <3>1, Committed
  <2>7. EffectsAt(Place, work, disk)'
    <3>1. \A c : Known(disk, c) => Known(new, c)
      BY <1>3, <2>1 DEF Known, Clear
    <3>2. EffectsAt("prepare", work, new)
      BY <1>2, <1>3, <2>1, <3>1 DEF EffectsAt, Batching, Clear
    <3>3. QED BY <1>1, <1>6, <2>2, <2>3, <3>2 DEF EffectsAt
  <2>8. SettleStep({m}, {})
    BY <1>1, <1>3, <1>5, <1>6, <2>1, <2>2 DEF SettleStep
  <2>9. NewTurn
    BY <1>1, <1>3, <2>1, <2>2 DEF NewTurn
  <2>10. QED BY <2>6, <2>7, <2>8, <2>9 DEF Step, MessageStep, TurnStep
<1>7. CASE /\ Commit([live EXCEPT !.pending = ConsumeNextTurn(@)], <<<<"started", t>>, <<"aborted", t>>>>)
           /\ Jump("loop") /\ dropped' = dropped \cup {m} /\ UNCHANGED <<work, inbox, faults>>
  <2> DEFINE new == [live EXCEPT !.pending = ConsumeNextTurn(@)]
             events == <<<<"started", t>>, <<"aborted", t>>>>
  <2>1. /\ Good(new, n) /\ new.exec = live.exec /\ new.context = live.context /\ new.tools = live.tools
        /\ m \in IdsOf(live.pending) /\ IdsOf(new.pending) = IdsOf(live.pending) \ {m}
        /\ \A x : HasMessage(new, x) <=> HasMessage(live, x)
    BY <1>1, <1>3, <1>4, GoodRejected
  <2>2. live' = new /\ disk' = new /\ receipts' = receipts \cup IdsOf(new.pending) /\ journal' = journal \o events
    BY <1>7 DEF Commit
  <2>3. Commit(new, events)
    BY <1>7
  <2> HIDE DEF new, m
  <2>4. Clear(new)
    BY <1>3, <1>4, <2>1, IdleIsClear
  <2>5. Place' = "loop" /\ ControlOK' /\ events \in Seq(Events)
    <3>1. "loop" \in Places /\ events \in Seq(Events)
      BY <1>4 DEF Places, Events
    <3>2. QED BY <1>7, <3>1, Jumps
  <2>6. RestOK'
    <3>1. m \in Messages
      <4>1. live.pending \in Seq(QueueItems(Messages))
        BY <1>2, Fields DEF Good
      <4>2. QED BY <2>1, <4>1, IdsAreMessages
    <3>2. QED BY <1>1, <1>2, <1>7, <3>1, ClientRest DEF RestOK
  <2>7. At("loop", new, work)
    BY <1>3, <2>1, <2>4, NoValues DEF At, Settled, Streaming, Batching
  <2>8. CoreInv'
    BY <1>1, <1>2, <1>7, <2>1, <2>3, <2>5, <2>6, <2>7, Committed
  <2>9. EffectsAt(Place, work, disk)'
    <3>1. \A c : Known(disk, c) => Known(new, c)
      BY <1>3, <2>1 DEF Known, HasCall
    <3>2. EffectsAt("loop", work, new)
      BY <1>2, <1>3, <2>4, <3>1 DEF EffectsAt, Batching, Clear
    <3>3. QED BY <1>1, <1>7, <2>2, <2>5, <3>2 DEF EffectsAt
  <2>10. SettleStep({}, {m})
    BY <1>1, <1>3, <1>5, <1>7, <2>1, <2>2 DEF SettleStep, m
  <2>11. NewTurn
    BY <1>1, <1>3, <2>1, <2>2, NoValues DEF NewTurn
  <2>12. QED BY <2>8, <2>9, <2>10, <2>11 DEF Step, MessageStep, TurnStep
<1>8. CASE Fails([live EXCEPT !.exec = Execution(t, FALSE)]) /\ UNCHANGED <<saved, inbox, dropped>>
  <2> DEFINE kept == Begun(live, t, FALSE)
  <2>1. /\ Good(kept, n) /\ kept.exec.turn = t /\ kept.pending = live.pending /\ kept.context = live.context
        /\ kept.tools = live.tools
    <3>1. live.exec.turn = NoTurn /\ FALSE \in BOOLEAN
      BY <1>3
    <3>2. QED BY <1>4, <3>1, GoodBegun, Zenon
  <2>2. Fails(kept) /\ UNCHANGED saved /\ Fault
    BY <1>8 DEF Fails, Begun
  <2> HIDE DEF kept
  <2>3. /\ \A x : HasMessage(kept, x) <=> HasMessage(disk, x)
        /\ \A c : Known(disk, c) => Known(kept, c)
    BY <1>3, <2>1 DEF HasMessage, Known, HasCall
  <2>4. RestOK' /\ Shrinks
    BY <1>1, <1>2, <1>8, <2>2, ClientRest DEF RestOK
  <2>5. CoreInv' /\ Place' = "failing" /\ work' = NoWork /\ live' = kept
    BY <1>1, <1>2, <1>3, <1>4, <2>1, <2>2, <2>3, <2>4, Failed DEF NoTurn
  <2>6. disk' = disk /\ receipts' = receipts /\ journal' = journal
    BY <2>2 DEF saved
  <2>7. EffectsAt(Place, work, disk)'
    <3>1. EffectsAt("failing", NoWork, disk)
      BY <1>2, <1>3, EffectsDropped DEF Clear
    <3>2. QED BY <1>1, <2>5, <2>6, <3>1 DEF EffectsAt
  <2>8. QuietStep
    BY <1>1, <1>8, <2>4, <2>6 DEF QuietStep, SameQueue
  <2>9. NewTurn
    BY <1>1, <1>3, <2>1, <2>5, <2>6 DEF NewTurn
  <2>10. QED BY <2>5, <2>7, <2>8, <2>9 DEF Step, MessageStep, TurnStep
<1>9. CASE Fault /\ Die /\ UNCHANGED dropped
  <2>1. UNCHANGED history
    BY <1>1, <1>9 DEF history
  <2>2. RestOK'
    BY <1>1, <1>2, <1>9, ClientRest DEF RestOK, Die
  <2>3. QED BY <1>1, <1>3, <1>9, <2>1, <2>2, DiedStep
<1>10. QED BY <1>6, <1>7, <1>8, <1>9 DEF StartTurn

(* An idle turn starts.                                                    *)
LEMMA StartIdleTurnStep == ASSUME IInv, StartIdleTurn PROVE Step
<1> DEFINE t == nextTurn
           n == nextTurn + 1
<1>1. /\ Place = "loop" /\ nextTurn' = n /\ idleSpent' = TRUE
      /\ UNCHANGED <<closed, sends, crashes, fallback, history>>
  BY DEF StartIdleTurn, Place
<1>2. /\ At(Place, live, work) /\ Agree(Place, live, disk) /\ EffectsAt(Place, work, disk) /\ work \in Works
      /\ RestOK /\ Good(live, nextTurn) /\ nextTurn \in Nat \ {0} /\ CoreInv /\ inbox \in Seq(Requests)
  BY Parts DEF IInv
<1>3. live = disk /\ live.exec.turn = NoTurn /\ Clear(live) /\ work.running = {}
  BY <1>1, <1>2, IdleIsClear DEF Agree, At, EffectsAt
<1>4. Good(live, n) /\ n \in Nat /\ t \in Nat \ {0} /\ t < n
  BY <1>2, GoodLater
<1>5. IdsOf(disk.pending) \subseteq receipts
  BY QueuedAreAccepted
<1>6. CASE /\ Commit([live EXCEPT !.exec = Execution(t, TRUE)], <<<<"started", t>>>>) /\ Goto("prepare")
           /\ UNCHANGED <<work, inbox, faults>>
  <2> DEFINE new == Begun(live, t, TRUE)
             events == <<<<"started", t>>>>
  <2>1. /\ Good(new, n) /\ Clear(new) /\ SameMessages(new, live)
        /\ new.exec.turn = t /\ new.exec.phase = "model" /\ new.context = live.context /\ new.tools = live.tools
    <3>1. live.exec.turn = NoTurn /\ TRUE \in BOOLEAN
      BY <1>3
    <3>2. QED BY <1>4, <3>1, GoodBegun, Zenon
  <2>2. Commit(new, events)
    BY <1>6 DEF Begun
  <2> HIDE DEF new
  <2>3. live' = new /\ disk' = new /\ receipts' = receipts \cup IdsOf(new.pending) /\ journal' = journal \o events
    BY <2>2 DEF Commit
  <2>4. Place' = "prepare" /\ ControlOK' /\ events \in Seq(Events)
    <3>1. "prepare" \in Places /\ events \in Seq(Events)
      BY <1>4 DEF Places, Events
    <3>2. QED BY <1>2, <1>6, <3>1, Gotos
  <2>5. RestOK' /\ Shrinks
    BY <1>1, <1>2, <1>6, ClientRest DEF RestOK, history
  <2>6. At("prepare", new, work)
    BY <1>4, <2>1 DEF At, Settled, Streaming, Batching, NoTurn
  <2>7. CoreInv'
    BY <1>1, <1>2, <1>6, <2>1, <2>2, <2>4, <2>5, <2>6, Committed
  <2>8. EffectsAt(Place, work, disk)'
    <3>1. \A c : Known(disk, c) => Known(new, c)
      BY <1>3, <2>1 DEF Known, HasCall
    <3>2. EffectsAt("prepare", work, new)
      BY <1>2, <1>3, <2>1, <3>1 DEF EffectsAt, Batching, Clear
    <3>3. QED BY <1>1, <1>6, <2>3, <2>4, <3>2 DEF EffectsAt, history
  <2>9. QuietStep
    BY <1>1, <1>3, <1>5, <2>1, <2>3, <2>5 DEF QuietStep, SameQueue, SameMessages, history
  <2>10. NewTurn
    BY <1>1, <1>3, <2>1, <2>3 DEF NewTurn
  <2>11. QED BY <2>7, <2>8, <2>9, <2>10 DEF Step, MessageStep, TurnStep
<1>7. CASE Fault /\ Die
  <2>1. RestOK'
    BY <1>1, <1>2, <1>7, ClientRest DEF RestOK, Die, history
  <2>2. QED BY <1>1, <1>3, <1>7, <2>1, DiedStep
<1>8. QED BY <1>6, <1>7 DEF StartIdleTurn

-----------------------------------------------------------------------------
(* Submissions.                                                            *)

(* The first submission of the inbox is a request.                         *)
LEMMA Heads ==
    ASSUME IInv, inbox # <<>>
    PROVE  LET s == Head(inbox) IN
           /\ s.op \in {"message", "edit"} => s.id \in Messages
           /\ s.op = "edit" => s.old \in Messages /\ s.id \notin receipts
           /\ s.op = "approval" => s.decision \in {"approved", "denied", "abort"}
           /\ Tail(inbox) \in Seq(Requests)
<1>1. inbox \in Seq(Requests) /\ InboxInv
  BY Parts
<1>2. Head(inbox) = inbox[1] /\ 1 \in DOMAIN inbox /\ Head(inbox) \in Requests /\ Tail(inbox) \in Seq(Requests)
  BY <1>1
<1>3. \A s \in Requests :
        /\ s.op \in {"message", "edit"} => s.id \in Messages
        /\ s.op = "edit" => s.old \in Messages
        /\ s.op = "approval" => s.decision \in {"approved", "denied", "abort"}
  BY DEF Requests
<1>4. Head(inbox).op = "edit" => Head(inbox).id \notin receipts
  BY <1>1, <1>2 DEF InboxInv
<1>5. QED BY <1>2, <1>3, <1>4

(* What is known at a place does not depend on the queue.                  *)
LEMMA SamePlace ==
    ASSUME NEW a, NEW b, NEW place, NEW w,
           a.tools = b.tools, a.approval = b.approval, a.context = b.context
    PROVE  /\ a.exec = b.exec /\ a.step = b.step /\ At(place, a, w) => At(place, b, w)
           /\ EffectsAt(place, w, a) => EffectsAt(place, w, b)
<1>1. \A c : (HasCall(a, c) <=> HasCall(b, c)) /\ (Known(a, c) <=> Known(b, c))
  BY DEF HasCall, Known
<1>2. a.exec = b.exec /\ a.step = b.step /\ At(place, a, w) => At(place, b, w)
  BY <1>1 DEF At, Clear
<1>3. EffectsAt(place, w, a) => EffectsAt(place, w, b)
  BY <1>1 DEF EffectsAt
<1>4. QED BY <1>2, <1>3

(* Memory and disk where no turn fails.                                    *)
LEMMA SameHistory ==
    ASSUME IInv, Place # "failing"
    PROVE  /\ live.tools = disk.tools /\ live.approval = disk.approval /\ live.context = disk.context
           /\ live.exec.turn = disk.exec.turn /\ live.step = disk.step
<1>1. Agree(Place, live, disk) /\ disk \in Checkpoints
  BY Parts
<1>2. live = [disk EXCEPT !.exec.phase = live.exec.phase]
  BY <1>1 DEF Agree
<1> DEFINE l == [disk EXCEPT !.exec.phase = live.exec.phase]
<1>3. /\ l.tools = disk.tools /\ l.approval = disk.approval /\ l.context = disk.context
      /\ l.step = disk.step
  BY <1>1 DEF Checkpoints, CheckpointsOf
<1>4. l.exec.turn = disk.exec.turn
  BY <1>1 DEF Checkpoints, CheckpointsOf
<1> HIDE DEF l
<1>5. live = l
  BY <1>2 DEF l
<1>6. QED BY <1>3, <1>4, <1>5

(* The first submission is a message that is saved into the queue.         *)
LEMMA AcceptedStep ==
    ASSUME IInv, Place # "failing", inbox # <<>>, Head(inbox).op = "message", Head(inbox).id \notin receipts,
           Commit(WithMessage(live, Head(inbox)), <<>>), Tell(Head(inbox).id), inbox' = Tail(inbox),
           ControlOK', work' \in Works, At(Place', live, work'), EffectsAt(Place', work', disk),
           UNCHANGED <<closed, sends, crashes, fallback, idleSpent, nextTurn, faults,
                       dropped, replaced, approved, effects>>
    PROVE  Step
<1> DEFINE s == Head(inbox)
           new == WithMessage(live, s)
<1>1. /\ Good(live, nextTurn) /\ nextTurn \in Nat \ {0} /\ RestOK /\ MessagesInv /\ CoreInv
      /\ Agree(Place, live, disk) /\ SavedOK
  BY Parts DEF IInv
<1>2. s.id \in Messages
  BY Heads
<1>3. /\ IdsOf(live.pending) = IdsOf(disk.pending) /\ IdsOf(live.pending) \subseteq receipts
      /\ \A m : HasMessage(live, m) <=> HasMessage(disk, m)
  BY QueuedAreAccepted
<1>4. s.id \notin IdsOf(live.pending) /\ ~HasMessage(live, s.id)
  BY <1>1, <1>2, <1>3 DEF MessagesInv
<1> HIDE DEF s
<1>5. /\ Good(new, nextTurn) /\ new.exec = live.exec /\ new.context = live.context /\ new.tools = live.tools
      /\ new.step = live.step /\ new.approval = live.approval
      /\ IdsOf(new.pending) = IdsOf(live.pending) \cup {s.id}
      /\ \A x : HasMessage(new, x) <=> HasMessage(live, x)
  BY <1>1, <1>2, <1>4, GoodAccepted
<1>6. Commit(new, <<>>) /\ Tell(s.id) /\ s.op = "message" /\ s.id \notin receipts
  BY DEF s
<1> HIDE DEF new
<1>7. live' = new /\ disk' = new /\ receipts' = receipts \cup IdsOf(new.pending) /\ journal' = journal
  <2>1. journal \o <<>> = journal
    BY <1>1 DEF SavedOK
  <2>2. QED BY <1>6, <2>1 DEF Commit
<1>8. RestOK' /\ Shrinks
  <2>1. acked' \subseteq Messages
    BY <1>1, <1>2, <1>6 DEF Tell, RestOK
  <2>2. QED BY <1>1, <2>1, ClientRest DEF RestOK
<1>9. At(Place', new, work')
  BY <1>5, SamePlace
<1>10. EffectsAt(Place, work, disk)'
  <2>1. EffectsAt(Place', work', new)
    BY <1>5, SameHistory, SamePlace
  <2>2. QED BY <1>7, <2>1 DEF EffectsAt
<1>11. CoreInv'
  <2>1. <<>> \in Seq(Events) /\ nextTurn' = nextTurn
    OBVIOUS
  <2>2. QED BY <1>1, <1>5, <1>6, <1>8, <1>9, <2>1, Committed
<1>12. AcceptStep(s.id)
  BY <1>2, <1>3, <1>5, <1>6, <1>7 DEF AcceptStep, s
<1>13. SameTurn
  BY <1>5, <1>7, SameHistory DEF SameTurn
<1>14. QED BY <1>10, <1>11, <1>12, <1>13 DEF Step, MessageStep, TurnStep

(* The first submission is an edit of a queued message.                    *)
LEMMA EditedStep ==
    ASSUME IInv, Place # "failing", inbox # <<>>, Head(inbox).op = "edit",
           CanReplace(live.pending, Head(inbox).old, Head(inbox).id),
           Commit([live EXCEPT !.pending = Replaced(@, Head(inbox).old, Head(inbox).id)], <<>>),
           replaced' = replaced \cup {Head(inbox).old}, inbox' = Tail(inbox),
           ControlOK', work' \in Works, At(Place', live, work'), EffectsAt(Place', work', disk),
           UNCHANGED <<closed, sends, crashes, fallback, idleSpent, nextTurn, faults,
                       acked, dropped, approved, effects>>
    PROVE  Step
<1> DEFINE s == Head(inbox)
           new == [live EXCEPT !.pending = Replaced(@, s.old, s.id)]
<1>1. /\ Good(live, nextTurn) /\ nextTurn \in Nat \ {0} /\ RestOK /\ MessagesInv /\ CoreInv
      /\ Agree(Place, live, disk) /\ SavedOK
  BY Parts DEF IInv
<1>2. s.id \in Messages /\ s.old \in Messages /\ s.id \notin receipts
  BY Heads
<1>3. /\ IdsOf(live.pending) = IdsOf(disk.pending) /\ IdsOf(live.pending) \subseteq receipts
      /\ \A m : HasMessage(live, m) <=> HasMessage(disk, m)
  BY QueuedAreAccepted
<1>4. s.old \in IdsOf(live.pending) /\ s.id \notin IdsOf(live.pending) /\ ~HasMessage(live, s.id)
  BY <1>1, <1>2, <1>3 DEF MessagesInv, CanReplace
<1>5. Commit(new, <<>>)
  OBVIOUS
<1>6. s.op = "edit" /\ replaced' = replaced \cup {s.old}
  OBVIOUS
<1> HIDE DEF s
<1>7. /\ Good(new, nextTurn) /\ new.exec = live.exec /\ new.context = live.context /\ new.tools = live.tools
      /\ new.step = live.step /\ new.approval = live.approval
      /\ IdsOf(new.pending) = (IdsOf(live.pending) \ {s.old}) \cup {s.id}
      /\ \A x : HasMessage(new, x) <=> HasMessage(live, x)
  BY <1>1, <1>2, <1>4, GoodEdited
<1> HIDE DEF new
<1>8. live' = new /\ disk' = new /\ receipts' = receipts \cup IdsOf(new.pending) /\ journal' = journal
  <2>1. journal \o <<>> = journal
    BY <1>1 DEF SavedOK
  <2>2. QED BY <1>5, <2>1 DEF Commit
<1>9. RestOK' /\ Shrinks
  BY <1>1, <1>2, <1>6, ClientRest DEF RestOK
<1>10. At(Place', new, work')
  BY <1>7, SamePlace
<1>11. EffectsAt(Place, work, disk)'
  <2>1. EffectsAt(Place', work', new)
    BY <1>7, SameHistory, SamePlace
  <2>2. QED BY <1>8, <2>1 DEF EffectsAt
<1>12. CoreInv'
  <2>1. <<>> \in Seq(Events) /\ nextTurn' = nextTurn
    OBVIOUS
  <2>2. QED BY <1>1, <1>5, <1>7, <1>9, <1>10, <2>1, Committed
<1>13. EditStep(s.old, s.id)
  BY <1>2, <1>3, <1>4, <1>6, <1>7, <1>8 DEF EditStep, s
<1>14. SameTurn
  BY <1>7, <1>8, SameHistory DEF SameTurn
<1>15. QED BY <1>11, <1>12, <1>13, <1>14 DEF Step, MessageStep, TurnStep

(* The runner stays where it is; a submission may leave the inbox.         *)
LEMMA StaysStep ==
    ASSUME IInv, UNCHANGED live, UNCHANGED saved, ControlOK', Place' = Place, UNCHANGED work,
           RestOK', nextTurn' = nextTurn, Shrinks,
           UNCHANGED <<dropped, replaced, approved, effects>>,
           acked' = acked \/ \E m \in receipts : acked' = acked \cup {m}
    PROVE  Step
<1>1. Agree(Place, live, disk) /\ At(Place, live, work) /\ EffectsAt(Place, work, disk) /\ work \in Works
  BY Parts
<1>2. EffectsAt(Place, work, disk)'
  BY <1>1 DEF EffectsAt, saved
<1>3. QED BY <1>1, <1>2, MovedStep

(* A submission is taken between turns.                                    *)
LEMMA AdmitIdleStep == ASSUME IInv, AdmitIdle PROVE Step
<1> DEFINE s == Head(inbox)
<1>1. /\ pc = "loop" /\ Place = "loop" /\ inbox # <<>>
      /\ UNCHANGED <<closed, sends, crashes, fallback, idleSpent, nextTurn,
                     dropped, replaced, approved, effects>>
  BY DEF AdmitIdle, Place
<1>2. /\ At(Place, live, work) /\ Agree(Place, live, disk) /\ EffectsAt(Place, work, disk) /\ work \in Works
      /\ RestOK /\ ControlOK
  BY Parts
<1>3. s.op \in {"message", "edit"} => s.id \in Messages
  BY <1>1, Heads
<1>4. UNCHANGED control => Place' = Place /\ ControlOK'
  BY <1>1, <1>2 DEF control, Place, ControlOK
<1>5. CASE /\ s.op = "message" /\ s.id \notin receipts
           /\ Commit(WithMessage(live, s), <<>>) /\ Tell(s.id) /\ inbox' = Tail(inbox)
           /\ UNCHANGED <<control, work, faults>>
  BY <1>1, <1>2, <1>4, <1>5, AcceptedStep
<1>6. CASE /\ s.op = "message" /\ s.id \in receipts /\ Tell(s.id) /\ inbox' = Tail(inbox)
           /\ UNCHANGED <<control, live, saved, work, faults>>
  <2>1. RestOK' /\ Shrinks
    BY <1>1, <1>2, <1>3, <1>6, ClientRest DEF RestOK, Tell
  <2>2. acked' = acked \/ \E m \in receipts : acked' = acked \cup {m}
    BY <1>6 DEF Tell
  <2>3. UNCHANGED saved /\ UNCHANGED live /\ UNCHANGED work
    BY <1>6
  <2>4. QED BY <1>1, <1>4, <1>6, <2>1, <2>2, <2>3, StaysStep
<1>7. CASE inbox' = Tail(inbox) /\ UNCHANGED <<control, live, saved, work, faults, acked>>
  <2>1. RestOK' /\ Shrinks
    BY <1>1, <1>2, <1>7, ClientRest DEF RestOK
  <2>2. UNCHANGED saved /\ UNCHANGED live /\ UNCHANGED work /\ acked' = acked
    BY <1>7
  <2>3. QED BY <1>1, <1>4, <1>7, <2>1, <2>2, StaysStep
<1>8. CASE Fault /\ Die /\ UNCHANGED acked
  <2>1. UNCHANGED history
    BY <1>1, <1>8 DEF history
  <2>2. RestOK'
    BY <1>1, <1>2, <1>8, ClientRest DEF RestOK, Die
  <2>3. QED BY <1>1, <1>8, <2>1, <2>2, DiedStep
<1>9. QED BY <1>5, <1>6, <1>7, <1>8 DEF AdmitIdle

(* The last frontend goes away.                                            *)
LEMMA FrontendGoneStep == ASSUME IInv, FrontendGone PROVE Step
<1>1. /\ inbox = <<>> /\ UNCHANGED history
      /\ UNCHANGED <<closed, sends, crashes, fallback, idleSpent, nextTurn, faults>>
  BY DEF FrontendGone
<1>2. /\ At(Place, live, work) /\ Agree(Place, live, disk) /\ EffectsAt(Place, work, disk) /\ work \in Works
      /\ RestOK
  BY Parts
<1>3. CASE Die
  <2>1. RestOK'
    BY <1>1, <1>2, <1>3, ClientRest DEF RestOK, Die, history
  <2>2. QED BY <1>1, <1>3, <2>1, DiedStep
<1>4. CASE Waiting /\ Jump("failing") /\ work' = NoWork /\ UNCHANGED <<live, saved, inbox>>
  <2>1. Place \in {"hooks", "respond", "backoff", "finish", "executing", "approval"}
    BY <1>4 DEF Waiting, Place
  <2>2. Agree("failing", live, disk) /\ At("failing", live, NoWork)
    BY <1>2, <2>1 DEF Agree, At, Settled, Streaming, Batching
  <2>3. EffectsAt("failing", NoWork, disk)
    <3>1. disk.approval # NoApproval /\ ~disk.approval.decided =>
               \A c : Contains(disk.tools, c) => effects[c] = 0
      BY <1>2 DEF EffectsAt
    <3>2. QED BY <1>2, <3>1, EffectsDropped
  <2>4. "failing" \in Places
    BY DEF Places
  <2>5. UNCHANGED <<live, saved, faults, Unchanged>>
    BY <1>1, <1>4 DEF Unchanged, client
  <2>6. QED BY <1>4, <2>2, <2>3, <2>4, <2>5, NoWorkWorks, GoesOn
<1>5. QED BY <1>3, <1>4 DEF FrontendGone

(* A submission is routed only during a turn that neither fails nor aborts.*)
LEMMA RoutingPlace ==
    ASSUME IInv, NEW op, Routing(op)
    PROVE  /\ inbox # <<>> /\ Head(inbox).op = op
           /\ Place \notin {"failing", "loop", "down"} /\ live.exec.turn # NoTurn
           /\ Routed => Place' = Place /\ ControlOK' /\ inbox' = Tail(inbox)
<1>1. inbox # <<>> /\ Head(inbox).op = op
  BY DEF Routing
<1>2. At(Place, live, work) /\ ControlOK /\ inbox \in Seq(Requests)
  BY Parts
<1>3. Place \in {"hooks", "respond", "backoff", "finish", "executing", "approval"} \cup DrainedFirst
  BY <1>2 DEF Routing, Waiting, Place, ControlOK
<1>4. Place \notin {"failing", "loop", "down"}
  BY <1>3 DEF DrainedFirst
<1>5. live.exec.turn # NoTurn
  BY <1>2, <1>4 DEF At
<1>6. QED BY <1>1, <1>2, <1>4, <1>5, Routes

(* Routed input leaves the batch to be recorded, or the runner in place.   *)
LEMMA RoutesInput ==
    ASSUME IInv, NEW op, Routing(op), NEW steer, RoutedInput(steer)
    PROVE  /\ inbox' = Tail(inbox) /\ ControlOK' /\ work' \in Works
           /\ At(Place', live, work') /\ EffectsAt(Place', work', disk)
<1>1. At(Place, live, work) /\ EffectsAt(Place, work, disk) /\ work \in Works
  BY Parts
<1>2. CASE Routed /\ UNCHANGED work
  BY <1>1, <1>2, RoutingPlace
<1>3. CASE /\ pc = "executing" /\ inbox' = Tail(inbox) /\ Jump("record")
           /\ work' = [work EXCEPT !.running = {}]
  <2> DEFINE w == [work EXCEPT !.running = {}]
  <2>1. /\ w \in Works /\ w.running = {} /\ w.calls = work.calls /\ w.batch = work.batch
        /\ w.refused = work.refused /\ w.ran = work.ran
    BY <1>1, WorkRunning
  <2>2. work' = w
    BY <1>3
  <2> HIDE DEF w
  <2>3. Place = "executing"
    BY <1>3 DEF Place
  <2>4. Place' = "record" /\ ControlOK'
    <3>1. "record" \in Places
      BY DEF Places
    <3>2. QED BY <1>3, <3>1, Jumps
  <2>5. At("record", live, w)
    BY <1>1, <2>1, <2>3 DEF At, Settled, Streaming, Batching
  <2>6. EffectsAt("record", w, disk)
    BY <1>1, <2>1, <2>3 DEF EffectsAt, Batching
  <2>7. QED BY <1>3, <2>1, <2>2, <2>4, <2>5, <2>6
<1>4. QED BY <1>2, <1>3 DEF RoutedInput

(* A message arrives during a turn.                                        *)
LEMMA RouteMessageStep == ASSUME IInv, RouteMessage PROVE Step
<1> DEFINE s == Head(inbox)
<1>1. /\ Routing("message")
      /\ UNCHANGED <<closed, sends, crashes, fallback, idleSpent, nextTurn, faults,
                     dropped, replaced, approved, effects>>
  BY DEF RouteMessage
<1>2. inbox # <<>> /\ s.op = "message" /\ Place # "failing" /\ s.id \in Messages /\ RestOK
  BY <1>1, RoutingPlace, Heads, Parts
<1>3. CASE /\ s.id \notin receipts /\ Commit(WithMessage(live, s), <<>>)
           /\ RoutedInput(s.delivery = "steer") /\ Tell(s.id)
  BY <1>1, <1>2, <1>3, RoutesInput, AcceptedStep
<1>4. CASE s.id \in receipts /\ Routed /\ Tell(s.id) /\ UNCHANGED <<live, saved, work>>
  <2>1. Place' = Place /\ ControlOK' /\ inbox' = Tail(inbox)
    BY <1>1, <1>4, RoutingPlace
  <2>2. RestOK' /\ Shrinks
    BY <1>1, <1>2, <1>4, <2>1, ClientRest DEF RestOK, Tell
  <2>3. acked' = acked \/ \E m \in receipts : acked' = acked \cup {m}
    BY <1>4 DEF Tell
  <2>4. UNCHANGED saved /\ UNCHANGED live /\ UNCHANGED work
    BY <1>4
  <2>5. QED BY <1>1, <2>1, <2>2, <2>3, <2>4, StaysStep
<1>5. CASE Routed /\ UNCHANGED <<live, saved, work, acked>>
  <2>1. Place' = Place /\ ControlOK' /\ inbox' = Tail(inbox)
    BY <1>1, <1>5, RoutingPlace
  <2>2. RestOK' /\ Shrinks
    BY <1>1, <1>2, <1>5, <2>1, ClientRest DEF RestOK
  <2>3. UNCHANGED saved /\ UNCHANGED live /\ UNCHANGED work /\ acked' = acked
    BY <1>5
  <2>4. QED BY <1>1, <2>1, <2>2, <2>3, StaysStep
<1>6. QED BY <1>3, <1>4, <1>5 DEF RouteMessage

(* A queued message is edited.                                             *)
LEMMA RouteEditStep == ASSUME IInv, RouteEdit PROVE Step
<1> DEFINE s == Head(inbox)
           steer == \E i \in DOMAIN live.pending :
                       live.pending[i].id = s.old /\ live.pending[i].boundary = "steer"
<1>1. /\ Routing("edit")
      /\ UNCHANGED <<closed, sends, crashes, fallback, idleSpent, nextTurn, faults,
                     acked, dropped, approved, effects>>
  BY DEF RouteEdit
<1>2. inbox # <<>> /\ s.op = "edit" /\ Place # "failing" /\ RestOK
  BY <1>1, RoutingPlace, Parts
<1>3. CASE /\ CanReplace(live.pending, s.old, s.id)
           /\ Commit([live EXCEPT !.pending = Replaced(@, s.old, s.id)], <<>>)
           /\ replaced' = replaced \cup {s.old} /\ RoutedInput(steer)
  <2>1. /\ inbox' = Tail(inbox) /\ ControlOK' /\ work' \in Works
        /\ At(Place', live, work') /\ EffectsAt(Place', work', disk)
    <3> HIDE DEF steer
    <3>1. QED BY <1>1, <1>3, RoutesInput
  <2>2. QED BY <1>1, <1>2, <1>3, <2>1, EditedStep
<1>4. CASE Routed /\ UNCHANGED <<live, saved, work, replaced>>
  <2>1. Place' = Place /\ ControlOK' /\ inbox' = Tail(inbox)
    BY <1>1, <1>4, RoutingPlace
  <2>2. RestOK' /\ Shrinks
    BY <1>1, <1>2, <1>4, <2>1, ClientRest DEF RestOK
  <2>3. UNCHANGED saved /\ UNCHANGED live /\ UNCHANGED work /\ acked' = acked
    BY <1>1, <1>4
  <2>4. QED BY <1>1, <1>4, <2>1, <2>2, <2>3, StaysStep
<1>5. QED BY <1>3, <1>4 DEF RouteEdit

(* An interrupt arrives.                                                   *)
LEMMA RouteInterruptStep == ASSUME IInv, RouteInterrupt PROVE Step
<1>1. /\ Routing("interrupt") /\ UNCHANGED history
      /\ UNCHANGED <<live, saved, closed, sends, crashes, fallback, idleSpent, nextTurn, faults>>
  BY DEF RouteInterrupt
<1>2. /\ At(Place, live, work) /\ Agree(Place, live, disk) /\ EffectsAt(Place, work, disk) /\ work \in Works
      /\ RestOK /\ inbox # <<>> /\ Place # "failing" /\ live.exec.turn # NoTurn
  BY <1>1, RoutingPlace, Parts
<1>3. inbox' = Tail(inbox) /\ UNCHANGED saved /\ UNCHANGED live /\ disk' = disk
      /\ acked' = acked /\ dropped' = dropped /\ replaced' = replaced /\ approved' = approved /\ effects' = effects
  BY <1>1 DEF RouteInterrupt, Routed, saved, history
<1>4. RestOK' /\ Shrinks
  BY <1>1, <1>2, <1>3, ClientRest DEF RestOK
<1>5. CASE Jump("abort") /\ work' = NoWork
  <2>1. Place' = "abort" /\ ControlOK'
    <3>1. "abort" \in Places
      BY DEF Places
    <3>2. QED BY <1>5, <3>1, Jumps
  <2>2. Agree("abort", live, disk) /\ At("abort", live, NoWork)
    BY <1>2 DEF Agree, At, Settled, Streaming, Batching
  <2>3. EffectsAt(Place, work, disk)'
    <3>1. disk.approval # NoApproval /\ ~disk.approval.decided =>
               \A c : Contains(disk.tools, c) => effects[c] = 0
      BY <1>2 DEF EffectsAt
    <3>2. EffectsAt("abort", NoWork, disk)
      BY <1>2, <3>1, EffectsDropped
    <3>3. QED BY <1>3, <1>5, <2>1, <3>2 DEF EffectsAt
  <2>4. QED BY <1>1, <1>3, <1>4, <1>5, <2>1, <2>2, <2>3, NoWorkWorks, MovedStep
<1>6. CASE Routed /\ UNCHANGED work
  <2>1. Place' = Place /\ ControlOK'
    BY <1>1, <1>6, RoutingPlace
  <2>2. QED BY <1>1, <1>3, <1>4, <1>6, <2>1, StaysStep
<1>7. QED BY <1>5, <1>6 DEF RouteInterrupt

(* Saving a routed message is refused.                                     *)
LEMMA RouteFailsStep == ASSUME IInv, RouteFails PROVE Step
<1>1. /\ inbox' = Tail(inbox) /\ Fails(live) /\ UNCHANGED saved /\ UNCHANGED history /\ Fault
      /\ UNCHANGED <<closed, sends, crashes, fallback, idleSpent, nextTurn>>
  BY DEF RouteFails, Fails
<1>2. inbox # <<>> /\ live.exec.turn # NoTurn /\ RestOK /\ Good(live, nextTurn)
  BY RoutingPlace, Parts DEF RouteFails
<1>3. RestOK' /\ Shrinks
  BY <1>1, <1>2, ClientRest DEF RestOK, history
<1>4. QED BY <1>1, <1>2, <1>3, FailedStep

(* A decision of the user arrives.                                         *)
LEMMA RouteApprovalStep == ASSUME IInv, RouteApproval PROVE Step
<1> DEFINE s == Head(inbox)
           new == [live EXCEPT !.approval.decided = TRUE]
           calls == live.approval.calls
<1>1. /\ Routing("approval")
      /\ UNCHANGED <<closed, sends, crashes, fallback, idleSpent, nextTurn,
                     acked, dropped, replaced, effects>>
  BY DEF RouteApproval
<1>2. /\ At(Place, live, work) /\ Agree(Place, live, disk) /\ EffectsAt(Place, work, disk) /\ work \in Works
      /\ RestOK /\ inbox # <<>> /\ s.op = "approval" /\ live.exec.turn # NoTurn
      /\ Good(live, nextTurn) /\ nextTurn \in Nat \ {0} /\ live \in Checkpoints
  BY <1>1, RoutingPlace, Parts
<1>3. s.decision \in {"approved", "denied", "abort"}
  BY <1>2, Heads
<1>4. CASE ~ExpectsApproval(s.call) /\ Routed /\ UNCHANGED <<live, saved, work, faults, approved>>
  <2>1. Place' = Place /\ ControlOK' /\ inbox' = Tail(inbox)
    BY <1>1, <1>4, RoutingPlace
  <2>2. RestOK' /\ Shrinks
    BY <1>1, <1>2, <1>4, <2>1, ClientRest DEF RestOK
  <2>3. UNCHANGED saved /\ UNCHANGED live /\ UNCHANGED work
    BY <1>4
  <2>4. QED BY <1>1, <1>4, <2>1, <2>2, <2>3, StaysStep
<1>5. ASSUME ExpectsApproval(s.call), inbox' = Tail(inbox)
      PROVE  /\ Place = "approval" /\ live = disk /\ live.approval # NoApproval /\ ~live.approval.decided
             /\ calls = live.tools /\ ~live.step /\ live.exec.phase = "model"
             /\ calls \in Seq(Calls) /\ \A c : Contains(calls, c) => c \in Calls /\ effects[c] = 0
             /\ Good(new, nextTurn) /\ new.approval # NoApproval /\ new.approval.decided
             /\ new.step = live.step /\ new.tools = live.tools /\ new.exec = live.exec
             /\ new.pending = live.pending /\ new.context = live.context
  <2>1. Place = "approval"
    BY <1>5 DEF ExpectsApproval, Place
  <2>2. live = disk /\ live.approval # NoApproval /\ ~live.approval.decided /\ live.exec.phase = "model"
    BY <1>2, <2>1 DEF Agree, At
  <2>3. calls = live.tools /\ ~live.step
    BY <1>2, <2>2 DEF Good, PendingInv
  <2>4. calls \in Seq(Calls)
    BY <1>2, <2>3, Fields
  <2>5. \A c : Contains(calls, c) => c \in Calls /\ effects[c] = 0
    BY <1>2, <2>2, <2>3, <2>4, ContainsIsToSet DEF EffectsAt
  <2>6. /\ Good(new, nextTurn) /\ new.approval # NoApproval /\ new.approval.decided
        /\ new.step = live.step /\ new.tools = live.tools /\ new.exec = live.exec
        /\ new.pending = live.pending /\ new.context = live.context
    BY <1>2, <2>2, GoodDecided
  <2>7. QED BY <2>1, <2>2, <2>3, <2>4, <2>5, <2>6
<1>6. CASE /\ ExpectsApproval(s.call) /\ inbox' = Tail(inbox)
           /\ Commit(new, <<>>) /\ Jump(AfterDecision(calls, s.decision))
           /\ work' = DecidedWork(calls, s.decision)
           /\ approved' = approved \cup ApprovedBy(calls, s.decision)
           /\ UNCHANGED faults
  <2> DEFINE w == DecidedWork(calls, s.decision)
             place == AfterDecision(calls, s.decision)
  <2>1. /\ Place = "approval" /\ live = disk
        /\ calls = live.tools /\ ~live.step /\ live.exec.phase = "model"
        /\ calls \in Seq(Calls) /\ \A c : Contains(calls, c) => c \in Calls /\ effects[c] = 0
        /\ Good(new, nextTurn) /\ new.approval # NoApproval /\ new.approval.decided
        /\ new.step = live.step /\ new.tools = live.tools /\ new.exec = live.exec
        /\ new.pending = live.pending /\ new.context = live.context
    BY <1>5, <1>6
  <2> HIDE DEF new, calls
  <2>2. /\ w \in Works /\ w.running = {} /\ w.calls = <<>>
        /\ \A c : Contains(calls, c) <=> Contains(w.batch, c) \/ Contains(w.refused, c)
        /\ \A c \in Guarded : Contains(w.batch, c) => c \in ApprovedBy(calls, s.decision)
        /\ ApprovedBy(calls, s.decision) \subseteq Calls
        /\ place \in {"recorded", "begin", "abort"}
    <3> HIDE DEF s
    <3>1. QED BY <1>3, <2>1, Decisions
  <2> HIDE DEF w, place
  <2>3. Place' = place /\ ControlOK' /\ work' = w
    <3>1. place \in Places
      BY <2>2 DEF Places
    <3>2. QED BY <1>6, <3>1, Jumps DEF place, w
  <2>4. live' = new /\ disk' = new /\ effects' = effects
    BY <1>1, <1>6 DEF Commit
  <2>5. approved' \subseteq Calls /\ approved \subseteq approved'
    BY <1>2, <1>6, <2>2 DEF RestOK
  <2>6. RestOK' /\ Shrinks
    BY <1>1, <1>2, <1>6, <2>5, ClientRest DEF RestOK
  <2>7. At(place, new, w)
    BY <1>2, <2>1, <2>2 DEF At, Settled, Streaming, Batching
  <2>8. EffectsAt(Place, work, disk)'
    <3>1. \A c : ~Contains(<<>>, c)
      BY DEF Contains
    <3>2. \A c \in Guarded : Contains(w.batch, c) => c \in approved'
      BY <1>6, <2>2
    <3>3. \A c : Contains(w.batch, c) => effects[c] = 0
      BY <2>1, <2>2
    <3>4. \A c : Known(disk, c) => Known(new, c)
      BY <2>1 DEF Known, HasCall
    <3>5. QED BY <1>2, <2>1, <2>2, <2>3, <2>4, <2>5, <3>1, <3>2, <3>3, <3>4 DEF EffectsAt, Batching
  <2>9. SameMessages(new, live)
    BY <2>1 DEF SameMessages, HasMessage
  <2>10. <<>> \in Seq(Events) /\ nextTurn' = nextTurn
    BY <1>1
  <2>11. QED BY <1>1, <1>2, <1>6, <2>1, <2>2, <2>3, <2>6, <2>7, <2>8, <2>9, <2>10, SavedStep
<1>7. CASE ExpectsApproval(s.call) /\ inbox' = Tail(inbox) /\ Fails(new) /\ UNCHANGED <<saved, approved>>
  <2>1. /\ Good(new, nextTurn) /\ new.tools = live.tools /\ new.exec = live.exec
        /\ new.pending = live.pending /\ new.context = live.context
    BY <1>5, <1>7
  <2> HIDE DEF new
  <2>2. Fault /\ UNCHANGED saved /\ UNCHANGED history
    BY <1>1, <1>7 DEF Fails, history
  <2>3. RestOK' /\ Shrinks
    BY <1>1, <1>2, <1>7, <2>2, ClientRest DEF RestOK
  <2>4. /\ \A m : HasMessage(new, m) <=> HasMessage(live, m)
        /\ \A c : Known(live, c) => Known(new, c)
    BY <2>1 DEF HasMessage, Known, HasCall
  <2>5. QED BY <1>1, <1>2, <1>7, <2>1, <2>2, <2>3, <2>4, FailedStep
<1>8. QED BY <1>4, <1>6, <1>7 DEF RouteApproval

-----------------------------------------------------------------------------
(* The environment.                                                        *)

(* A running tool takes effect and ends.                                   *)
LEMMA ToolRunsStep == ASSUME IInv, NEW c \in Calls, ToolRuns(c) PROVE Step
<1> DEFINE w == [work EXCEPT !.running = @ \ {c}, !.ran = @ \cup {c}]
<1>1. /\ At(Place, live, work) /\ Agree(Place, live, disk) /\ EffectsAt(Place, work, disk) /\ work \in Works
      /\ RestOK /\ Good(live, nextTurn) /\ ControlOK /\ effects \in [Calls -> Nat]
  BY Parts
<1>2. /\ c \in work.running /\ work' = w /\ effects' = [effects EXCEPT ![c] = @ + 1]
      /\ UNCHANGED <<control, live, saved, client, fallback, idleSpent, nextTurn, faults,
                     acked, dropped, replaced, approved>>
  BY DEF ToolRuns
<1>3. /\ w \in Works /\ w.running = work.running \ {c} /\ w.ran = work.ran \cup {c}
      /\ w.calls = work.calls /\ w.batch = work.batch /\ w.refused = work.refused
  BY <1>1 DEF Works
<1> HIDE DEF w
<1>4. Place \in {"respond", "normalize", "finish", "executing"} /\ live = disk
  BY <1>1, <1>2 DEF EffectsAt, Agree
<1>5. live.approval = NoApproval \/ live.approval.decided
  BY <1>1, <1>4 DEF At, Streaming, Batching, Good, PendingInv
<1>6. /\ effects' \in [Calls -> Nat] /\ effects'[c] = 1 /\ effects[c] = 0
      /\ \A x : x # c /\ x \in Calls => effects'[x] = effects[x]
  BY <1>1, <1>2 DEF EffectsAt
<1>7. /\ Contains(disk.tools, c) /\ Known(disk, c) /\ (c \in Guarded => c \in approved)
  BY <1>1, <1>2 DEF EffectsAt, Known
<1>8. /\ Place' = Place /\ ControlOK' /\ disk' = disk /\ approved' = approved
      /\ acked' = acked /\ UNCHANGED <<dropped, replaced>> /\ UNCHANGED saved /\ UNCHANGED live /\ nextTurn' = nextTurn
      /\ inbox' = inbox
  BY <1>1, <1>2 DEF control, Place, ControlOK, client, saved
<1>9. RestOK' /\ Shrinks
  BY <1>1, <1>2, <1>6, <1>8, ClientRest DEF RestOK, client
<1>10. At(Place, live, w)
  BY <1>1, <1>3 DEF At
<1>11. EffectsAt(Place, work, disk)'
  <2>1. w.running # {} => Place \in {"respond", "normalize", "finish", "executing"}
    BY <1>4
  <2>2. \A x \in Calls : effects'[x] > 0 => effects'[x] = 1 /\ Known(disk, x) /\ (x \in Guarded => x \in approved)
    BY <1>1, <1>6, <1>7 DEF EffectsAt
  <2>3. \A x \in w.running : effects'[x] = 0 /\ Contains(disk.tools, x) /\ (x \in Guarded => x \in approved)
    <3>1. \A x \in w.running : x \in work.running /\ x # c /\ x \in Calls
      BY <1>1, <1>3 DEF Works
    <3>2. QED BY <1>1, <1>6, <3>1 DEF EffectsAt
  <2>4. Place \in {"respond", "normalize", "finish", "collect"} =>
          \A x : Contains(w.calls, x) /\ x \notin w.ran \cup w.running => effects'[x] = 0
    <3>1. work.calls \in Seq(Calls)
      BY <1>1 DEF Works
    <3>2. \A x : Contains(w.calls, x) => x \in Calls
      BY <1>3, <3>1, ContainsIsToSet
    <3>3. QED BY <1>1, <1>3, <1>6, <3>2 DEF EffectsAt
  <2>5. Place \notin {"authorize", "begin", "execute"}
    BY <1>4
  <2>6. Place \in Batching => \A x \in Guarded : Contains(w.batch, x) => x \in approved
    BY <1>1, <1>3 DEF EffectsAt
  <2>7. ~(disk.approval # NoApproval /\ ~disk.approval.decided)
    BY <1>4, <1>5
  <2>8. QED BY <1>2, <1>8, <2>1, <2>2, <2>3, <2>4, <2>5, <2>6, <2>7 DEF EffectsAt
<1>12. QED BY <1>1, <1>2, <1>3, <1>8, <1>9, <1>10, <1>11, MovedStep

(* The clients disconnect.                                                 *)
LEMMA DisconnectStep == ASSUME IInv, Disconnect PROVE Step
<1>1. RestOK /\ ControlOK
  BY Parts
<1>2. /\ Place' = Place /\ ControlOK' /\ UNCHANGED live /\ UNCHANGED saved /\ UNCHANGED work
      /\ nextTurn' = nextTurn /\ UNCHANGED <<dropped, replaced, approved, effects>> /\ acked' = acked
      /\ inbox' = inbox
  BY <1>1 DEF Disconnect, control, Place, ControlOK, history
<1>3. RestOK' /\ Shrinks
  <2>1. crashes' \in Nat /\ closed' \in BOOLEAN
    BY <1>1 DEF Disconnect, RestOK
  <2>2. QED BY <1>1, <1>2, <2>1, ClientRest DEF RestOK, Disconnect
<1>4. QED BY <1>2, <1>3, StaysStep

(* A client submits.                                                       *)
LEMMA SubmitStep == ASSUME IInv, NEW s \in Submissions, Submit(s) PROVE Step
<1>1. /\ At(Place, live, work) /\ Agree(Place, live, disk) /\ EffectsAt(Place, work, disk) /\ work \in Works
      /\ RestOK /\ ControlOK /\ inbox \in Seq(Requests) /\ nextTurn \in Nat \ {0} /\ CoreInv /\ TypeOK
  BY Parts DEF IInv, CoreInv
<1>2. /\ inbox' = Append(inbox, s) /\ Len(inbox) < InboxCapacity /\ (s.op = "edit" => Fresh(s.id))
      /\ sends' = IF s.op = "approval" THEN sends ELSE sends + 1
      /\ UNCHANGED <<control, live, saved, closed, crashes, work, fallback, idleSpent, nextTurn,
                     faults, history>>
  BY DEF Submit
<1>3. s \in Requests
  BY <1>1 DEF Submissions, Requests
<1>4. inbox' \in Seq(Requests) /\ Len(inbox') = Len(inbox) + 1 /\ Len(inbox) \in Nat
  BY <1>1, <1>2, <1>3
<1>5. RestOK'
  <2>1. sends' \in Nat
    BY <1>1, <1>2 DEF RestOK
  <2>2. Len(inbox') <= InboxCapacity
    BY <1>2, <1>4, RuntimeAssumptions
  <2>3. QED BY <1>1, <1>2, <1>4, <2>1, <2>2 DEF RestOK, history
<1>6. Place' = Place /\ ControlOK'
  BY <1>1, <1>2, <1>4 DEF control, Place, ControlOK
<1>7. CoreInv'
  BY <1>1, <1>2, <1>5, <1>6, Moved
<1>8. EffectsAt(Place, work, disk)'
  BY <1>1, <1>2, <1>6 DEF EffectsAt, saved, history
<1>9. ArrivalStep /\ SameTurn
  BY <1>2 DEF ArrivalStep, SameQueue, SameTurn, saved, history
<1>10. QED BY <1>7, <1>8, <1>9 DEF Step, MessageStep, TurnStep

(* The session is opened again.                                            *)
LEMMA RestartStep == ASSUME IInv, Restart PROVE Step
<1> DEFINE ck == Recovered(disk)
           ended == IF Active(disk) /\ ~Active(ck) THEN <<<<"aborted", disk.exec.turn>>>> ELSE <<>>
<1>1. /\ Place = "down" /\ Commit(ck, ended) /\ UNCHANGED history
      /\ closed' = FALSE /\ fallback' = TRUE /\ idleSpent' = FALSE
      /\ UNCHANGED <<inbox, sends, crashes, nextTurn, faults>> /\ work' = work
      /\ \/ Active(ck) /\ Jump("stopResumed")
         \/ ck.approval # NoApproval /\ Jump("approval")
         \/ Active(ck) /\ ck.approval = NoApproval /\ Jump(TurnLoop(ck))
         \/ ~Active(ck) /\ Jump("loop")
  BY DEF Restart, Place, Up
<1>2. /\ At(Place, live, work) /\ Agree(Place, live, disk) /\ EffectsAt(Place, work, disk) /\ work \in Works
      /\ RestOK /\ Good(live, nextTurn) /\ nextTurn \in Nat \ {0} /\ disk \in Checkpoints
      /\ live.exec.turn \in Nat
  BY Parts
<1>3. live = disk /\ work.running = {}
  BY <1>1, <1>2 DEF Agree, EffectsAt
<1>4. RestOK' /\ Shrinks
  BY <1>1, <1>2, ClientRest DEF RestOK, history
<1>5. /\ acked' = acked /\ UNCHANGED <<acked, dropped, replaced>> /\ effects' = effects /\ approved' = approved
      /\ nextTurn' = nextTurn
  BY <1>1 DEF history
<1>6. ASSUME NEW new, NEW place \in Places, Jump(place), Commit(new, ended), At(place, new, work),
             EffectsAt(place, work, new)
      PROVE  Place' = place /\ ControlOK' /\ At(Place', new, work') /\ EffectsAt(Place, work, disk)' /\ work' \in Works
  <2>1. Place' = place /\ ControlOK' /\ disk' = new
    BY <1>6, Jumps DEF Commit
  <2>2. QED BY <1>1, <1>2, <1>5, <1>6, <2>1 DEF EffectsAt
<1>7. CASE InterruptedExecution(disk)
  <2>1. ck = Aborted(live) /\ disk.exec.turn # NoTurn
    BY <1>2, <1>3, <1>7, RecoveredIs
  <2>2. /\ Good(ck, nextTurn) /\ ck.exec.turn = NoTurn /\ SameMessages(ck, live)
        /\ At("loop", ck, work) /\ EffectsAt("loop", work, ck)
    BY <1>3, <2>1, AbortedIs
  <2>3. Active(disk) /\ ~Active(ck) /\ ck.approval = NoApproval
    <3>1. ck.exec = NoExec /\ Clear(ck)
      BY <1>2, <2>2, IdleIsClear
    <3>2. QED BY <2>1, <3>1, NoValues DEF Active, Clear
  <2>4. ended = <<<<"aborted", live.exec.turn>>>>
    BY <1>3, <2>3
  <2>5. ended \in Seq(Events) /\ "loop" \in Places /\ Jump("loop")
    BY <1>1, <1>2, <2>3, <2>4 DEF Events, Places
  <2> HIDE DEF ck, ended
  <2>6. Place' = "loop" /\ ControlOK' /\ At(Place', ck, work') /\ EffectsAt(Place, work, disk)' /\ work' \in Works
    BY <1>1, <1>6, <2>2, <2>5
  <2>7. QED BY <1>1, <1>3, <1>4, <1>5, <2>1, <2>2, <2>4, <2>5, <2>6, SavedStep
<1>8. CASE ~InterruptedExecution(disk)
  <2>1. ck = live /\ (Clear(live) \/ (live.approval # NoApproval /\ ~live.approval.decided))
    BY <1>2, <1>3, <1>8, RecoveredIs
  <2>2. ended = <<>> /\ <<>> \in Seq(Events)
    BY <1>3, <2>1
  <2>3. Active(live) <=> live.exec.turn # NoTurn
    BY <1>2, NoValues DEF Active, Good, ExecInv
  <2>4. SameMessages(live, live)
    BY DEF SameMessages
  <2>5. Commit(live, <<>>)
    BY <1>1, <2>1, <2>2
  <2>6. \A p : p \notin {"respond", "normalize", "finish", "collect", "authorize", "begin", "execute"} \cup Batching
          => EffectsAt(p, work, live)
    BY <1>2, <1>3 DEF EffectsAt
  <2>7. \E p \in Places : Jump(p) /\ At(p, live, work) /\ EffectsAt(p, work, live)
    <3>0. live.approval # NoApproval => live.exec.turn # NoTurn /\ live.exec.phase = "model" /\ ~live.approval.decided
      BY <1>2, <2>1 DEF Good, PendingInv, Clear
    <3>1. CASE Active(live) /\ Jump("stopResumed")
      <4>1. At("stopResumed", live, work)
        BY <2>3, <3>1 DEF At, Settled, Streaming, Batching
      <4>2. QED BY <2>6, <3>1, <4>1 DEF Places, Batching
    <3>2. CASE live.approval # NoApproval /\ Jump("approval")
      <4>1. At("approval", live, work)
        BY <3>0, <3>2 DEF At, Settled, Streaming, Batching
      <4>2. QED BY <2>6, <3>2, <4>1 DEF Places, Batching
    <3>3. CASE Active(live) /\ live.approval = NoApproval /\ Jump(TurnLoop(live))
      <4>1. TurnLoop(live) \in {"prepare", "completion"} /\ (TurnLoop(live) = "prepare" => live.exec.phase = "model")
        BY <1>2, <1>3, Fields DEF TurnLoop
      <4>2. At(TurnLoop(live), live, work)
        BY <2>1, <2>3, <3>3, <4>1 DEF At, Settled, Streaming, Batching
      <4>3. QED BY <2>6, <3>3, <4>1, <4>2 DEF Places, Batching
    <3>4. CASE ~Active(live) /\ Jump("loop")
      <4>1. Clear(live) /\ live.exec.phase = "model"
        BY <1>2, <2>3, <3>4, IdleIsClear, NoValues
      <4>2. At("loop", live, work)
        BY <2>3, <3>4, <4>1 DEF At, Settled, Streaming, Batching
      <4>3. QED BY <2>6, <3>4, <4>2 DEF Places, Batching
    <3>5. QED BY <1>1, <2>1, <3>1, <3>2, <3>3, <3>4
  <2>8. ControlOK' /\ At(Place', live, work') /\ EffectsAt(Place, work, disk)' /\ work' \in Works
    BY <1>6, <2>2, <2>5, <2>7
  <2>9. QED BY <1>1, <1>2, <1>4, <1>5, <2>2, <2>4, <2>5, <2>8, SavedStep
<1>9. QED BY <1>7, <1>8

(* Nothing happens.                                                        *)
LEMMA StutterStep == ASSUME IInv, UNCHANGED vars PROVE Step
<1>1. RestOK /\ ControlOK
  BY Parts
<1>2. /\ Place' = Place /\ ControlOK' /\ UNCHANGED live /\ UNCHANGED saved /\ UNCHANGED work
      /\ nextTurn' = nextTurn /\ UNCHANGED <<dropped, replaced, approved, effects>> /\ acked' = acked
      /\ RestOK' /\ Shrinks
  BY <1>1 DEF vars, control, client, history, Place, ControlOK, RestOK, Shrinks
<1>3. QED BY <1>2, StaysStep

(* Every step of the runner, of its tools and of its environment.          *)
LEMMA NextStep == ASSUME IInv, [Next]_vars PROVE Step
<1>1. CASE BetweenTurns
  BY <1>1, StartTurnStep, StartIdleTurnStep, AdmitIdleStep DEF BetweenTurns
<1>2. CASE FrontendGone
  BY <1>2, FrontendGoneStep
<1>3. CASE Route
  BY <1>3, RouteMessageStep, RouteEditStep, RouteInterruptStep, RouteApprovalStep, RouteFailsStep DEF Route
<1>4. CASE ModelStep
  <2>1. CASE \E more \in SetToAllKPermutations({c \in Calls : Unused(c)}), endTurn \in BOOLEAN :
                \E denied \in SUBSET ToSet(more) : Respond(more, denied, endTurn)
    BY <2>1, RespondStep
  <2>2. CASE \E c \in Calls : StartStreamedTool(c)
    BY <2>2, StartStreamedToolStep
  <2>3. QED BY <1>4, <2>1, <2>2, StepLimitStep, StageStep, HooksDoneStep, PersistHooksStep, RepeatStep,
               StopPreparedStep, StartStepStep, DeferStreamedToolStep, ResponseFailsStep, RetryStep,
               BackedOffStep, ReopenStep, NormalizeStep DEF ModelStep
<1>5. CASE ToolStep
  BY <1>5, StreamedDoneStep, CollectStep, AuthorizeStep, BeginToolsStep, ExecuteStep, ExecutedStep, RecordStep
     DEF ToolStep
<1>6. CASE EndOfTurn
  BY <1>6, CompletionStep, AfterStopStep, AbortStep, FailTurnStep DEF EndOfTurn
<1>7. CASE \E c \in Calls : ToolRuns(c)
  BY <1>7, ToolRunsStep
<1>8. CASE Restart
  BY <1>8, RestartStep
<1>9. CASE Environment
  BY <1>9, SubmitStep, DisconnectStep, CrashStep DEF Environment
<1>10. CASE UNCHANGED vars
  BY <1>10, StutterStep
<1>11. QED BY <1>1, <1>2, <1>3, <1>4, <1>5, <1>6, <1>7, <1>8, <1>9, <1>10 DEF Next, Runner

-----------------------------------------------------------------------------
(* The messages.                                                           *)

(* What a step may do to the messages keeps every message in one place.    *)
LEMMA MessagesKept ==
    ASSUME IInv, MessageStep
    PROVE  MessagesInv'
<1>1. MessagesInv /\ IdsOf(disk.pending) \subseteq receipts /\ IdsOf(disk.pending) \subseteq Messages
  BY Parts, QueuedAreAccepted
<1>2. \A m \in IdsOf(disk.pending) : ~HasMessage(disk, m)
  BY Parts DEF Good, QueueInv
<1>3. CASE QuietStep \/ ArrivalStep
  BY <1>1, <1>3 DEF QuietStep, ArrivalStep, SameQueue, MessagesInv
<1>4. ASSUME NEW m, AcceptStep(m) PROVE MessagesInv'
  BY <1>1, <1>4 DEF AcceptStep, MessagesInv
<1>5. ASSUME NEW delivered, NEW rejected, SettleStep(delivered, rejected) PROVE MessagesInv'
  <2>1. \A m \in Messages : m \in receipts' <=>
          m \in IdsOf(disk'.pending) \/ HasMessage(disk', m) \/ m \in dropped' \/ m \in replaced'
    BY <1>1, <1>5 DEF SettleStep, MessagesInv
  <2>2. \A m \in Messages : m \in dropped' \/ m \in replaced' =>
          m \notin IdsOf(disk'.pending) /\ ~HasMessage(disk', m)
    BY <1>1, <1>2, <1>5 DEF SettleStep, MessagesInv
  <2>3. dropped' \cap replaced' = {}
    BY <1>1, <1>5 DEF SettleStep, MessagesInv
  <2>4. QED BY <2>1, <2>2, <2>3 DEF MessagesInv
<1>6. ASSUME NEW old, NEW new, EditStep(old, new) PROVE MessagesInv'
  <2>1. old \in receipts /\ old \in Messages /\ ~HasMessage(disk, old) /\ old \notin dropped /\ old # new
    BY <1>1, <1>2, <1>6 DEF EditStep, MessagesInv
  <2>2. QED BY <1>1, <1>6, <2>1 DEF EditStep, MessagesInv
<1>7. QED BY <1>3, <1>4, <1>5, <1>6 DEF MessageStep

(* The edits that wait behind the first submission.                        *)
LEMMA InboxTail ==
    ASSUME IInv, inbox # <<>>
    PROVE  LET rest == Tail(inbox) IN
           \A i \in DOMAIN rest : rest[i].op = "edit" =>
             /\ rest[i].id \notin receipts
             /\ Head(inbox).op \in {"message", "edit"} => Head(inbox).id # rest[i].id
             /\ \A j \in 1..(i - 1) : rest[j].op \in {"message", "edit"} => rest[j].id # rest[i].id
<1> DEFINE rest == Tail(inbox)
<1>1. inbox \in Seq(Requests) /\ InboxInv
  BY Parts
<1>2. /\ Len(inbox) \in Nat \ {0} /\ DOMAIN inbox = 1..Len(inbox) /\ DOMAIN rest = 1..(Len(inbox) - 1)
      /\ \A i \in DOMAIN rest : rest[i] = inbox[i + 1]
      /\ Head(inbox) = inbox[1]
  BY <1>1
<1> HIDE DEF rest
<1>3. ASSUME NEW i \in DOMAIN rest, rest[i].op = "edit"
      PROVE  /\ rest[i].id \notin receipts
             /\ Head(inbox).op \in {"message", "edit"} => Head(inbox).id # rest[i].id
             /\ \A j \in 1..(i - 1) : rest[j].op \in {"message", "edit"} => rest[j].id # rest[i].id
  <2>1. i + 1 \in DOMAIN inbox /\ rest[i] = inbox[i + 1] /\ 1 \in 1..((i + 1) - 1) /\ i \in Nat
    BY <1>2
  <2>2. /\ inbox[i + 1].id \notin receipts
        /\ \A j \in 1..((i + 1) - 1) : inbox[j].op \in {"message", "edit"} => inbox[j].id # inbox[i + 1].id
    BY <1>1, <1>3, <2>1 DEF InboxInv
  <2>3. \A j \in 1..(i - 1) : j + 1 \in 1..((i + 1) - 1) /\ rest[j] = inbox[j + 1]
    BY <1>2, <2>1
  <2>4. QED BY <1>2, <2>1, <2>2, <2>3
<1>4. QED BY <1>3 DEF rest

(* What a step may do to the messages keeps the ids of waiting edits       *)
(* fresh.                                                                  *)
LEMMA InboxKept ==
    ASSUME IInv, MessageStep
    PROVE  InboxInv'
<1>1. inbox \in Seq(Requests) /\ InboxInv
  BY Parts
<1>2. CASE QuietStep
  <2>1. receipts' = receipts /\ acked' \subseteq receipts'
    BY <1>1, <1>2 DEF QuietStep, SameQueue, InboxInv
  <2>2. CASE inbox' = inbox
    BY <1>1, <2>1, <2>2 DEF InboxInv
  <2>3. CASE inbox' = <<>>
    BY <2>1, <2>3 DEF InboxInv
  <2>4. CASE inbox # <<>> /\ inbox' = Tail(inbox)
    BY <2>1, <2>4, InboxTail DEF InboxInv
  <2>5. QED BY <1>2, <2>2, <2>3, <2>4 DEF QuietStep, Shrinks
<1>3. CASE ArrivalStep
  <2>1. PICK s : inbox' = Append(inbox, s) /\ (s.op = "edit" => Fresh(s.id))
    BY <1>3 DEF ArrivalStep
  <2>2. receipts' = receipts /\ acked' = acked
    BY <1>3 DEF ArrivalStep, SameQueue
  <2>3. /\ Len(inbox) \in Nat /\ DOMAIN inbox = 1..Len(inbox) /\ DOMAIN inbox' = 1..(Len(inbox) + 1)
        /\ \A i \in 1..Len(inbox) : inbox'[i] = inbox[i]
        /\ inbox'[Len(inbox) + 1] = s
    BY <1>1, <2>1
  <2>4. ASSUME NEW i \in DOMAIN inbox', inbox'[i].op = "edit"
        PROVE  /\ inbox'[i].id \notin receipts
               /\ \A j \in 1..(i - 1) : inbox'[j].op \in {"message", "edit"} => inbox'[j].id # inbox'[i].id
    <3>1. CASE i \in DOMAIN inbox
      <4>1. \A j \in 1..(i - 1) : inbox'[j] = inbox[j]
        BY <2>3, <3>1
      <4>2. QED BY <1>1, <2>3, <2>4, <3>1, <4>1 DEF InboxInv
    <3>2. CASE i = Len(inbox) + 1
      <4>1. \A j \in 1..(i - 1) : j \in DOMAIN inbox /\ inbox'[j] = inbox[j]
        BY <2>3, <3>2
      <4>2. QED BY <2>1, <2>3, <2>4, <3>2, <4>1 DEF Fresh
    <3>3. QED BY <2>3, <3>1, <3>2
  <2>5. QED BY <1>1, <2>2, <2>4 DEF InboxInv
<1>4. ASSUME NEW m, AcceptStep(m) PROVE InboxInv'
  <2>1. acked' \subseteq receipts'
    BY <1>1, <1>4 DEF AcceptStep, Tell, InboxInv
  <2>2. /\ inbox # <<>> /\ inbox' = Tail(inbox) /\ Head(inbox).op = "message" /\ Head(inbox).id = m
        /\ receipts' = receipts \cup {m}
    BY <1>4 DEF AcceptStep
  <2>3. QED BY <2>1, <2>2, InboxTail DEF InboxInv
<1>5. ASSUME NEW delivered, NEW rejected, SettleStep(delivered, rejected) PROVE InboxInv'
  BY <1>1, <1>5 DEF SettleStep, InboxInv
<1>6. ASSUME NEW old, NEW new, EditStep(old, new) PROVE InboxInv'
  <2>1. acked' \subseteq receipts'
    BY <1>1, <1>6 DEF EditStep, InboxInv
  <2>2. /\ inbox # <<>> /\ inbox' = Tail(inbox) /\ Head(inbox).op = "edit" /\ Head(inbox).id = new
        /\ receipts' = receipts \cup {new}
    BY <1>6 DEF EditStep
  <2>3. QED BY <2>1, <2>2, InboxTail DEF InboxInv
<1>7. QED BY <1>2, <1>3, <1>4, <1>5, <1>6 DEF MessageStep

-----------------------------------------------------------------------------
(* The turn events.                                                        *)

Count(s, K) == Cardinality({i \in DOMAIN s : s[i] \in K})

(* One more entry counts one more, or none.                                *)
LEMMA CountAppended ==
    ASSUME NEW T, NEW s \in Seq(T), NEW e \in T, NEW K
    PROVE  /\ s \o <<e>> \in Seq(T) /\ Count(s, K) \in Nat
           /\ e \in K => Count(s \o <<e>>, K) = Count(s, K) + 1
           /\ e \notin K => Count(s \o <<e>>, K) = Count(s, K)
<1> DEFINE t == s \o <<e>>
           S == {i \in DOMAIN s : s[i] \in K}
           n == Len(s) + 1
<1>1. /\ t \in Seq(T) /\ Len(s) \in Nat /\ DOMAIN s = 1..Len(s) /\ DOMAIN t = 1..n
      /\ \A i \in 1..Len(s) : t[i] = s[i]
      /\ t[n] = e
  OBVIOUS
<1>2. IsFiniteSet(S)
  <2>1. IsFiniteSet(1..Len(s))
    BY <1>1, FS_Interval
  <2>2. QED BY <1>1, <2>1, FS_Subset
<1>3. {i \in DOMAIN t : t[i] \in K} = IF e \in K THEN S \cup {n} ELSE S
  BY <1>1
<1>4. n \notin S
  BY <1>1
<1>5. Cardinality(S) \in Nat /\ Cardinality(S \cup {n}) = Cardinality(S) + 1
  BY <1>2, <1>4, FS_CardinalityType, FS_AddElement
<1>6. Count(s, K) = Cardinality(S) /\ Count(t, K) = Cardinality({i \in DOMAIN t : t[i] \in K})
  BY DEF Count
<1> HIDE DEF S, t, n
<1>7. e \in K => Count(t, K) = Count(s, K) + 1
  BY <1>3, <1>5, <1>6
<1>8. e \notin K => Count(t, K) = Count(s, K)
  BY <1>3, <1>6
<1>9. QED BY <1>1, <1>5, <1>6, <1>7, <1>8 DEF t

(* A journal with one more event.                                          *)
With(j, k, u) == j \o <<<<k, u>>>>

(* Two events at once are one event after the other.                       *)
LEMMA TwoAppended ==
    ASSUME NEW T, NEW s \in Seq(T), NEW a \in T, NEW b \in T
    PROVE  s \o <<a, b>> = (s \o <<a>>) \o <<b>>
<1> DEFINE l == s \o <<a, b>>
           r == (s \o <<a>>) \o <<b>>
           h == s \o <<a>>
<1>1. /\ l \in Seq(T) /\ Len(l) = Len(s) + 2 /\ Len(s) \in Nat
      /\ \A i \in 1..Len(s) : l[i] = s[i]
      /\ l[Len(s) + 1] = a /\ l[Len(s) + 2] = b
  OBVIOUS
<1>2. /\ h \in Seq(T) /\ Len(h) = Len(s) + 1
      /\ \A i \in 1..Len(s) : h[i] = s[i]
      /\ h[Len(s) + 1] = a
  OBVIOUS
<1>3. r = h \o <<b>>
  OBVIOUS
<1> HIDE DEF h, r, l
<1>4. /\ r \in Seq(T) /\ Len(r) = Len(h) + 1
      /\ \A i \in 1..Len(h) : r[i] = h[i]
      /\ r[Len(h) + 1] = b
  BY <1>2, <1>3
<1>5. Len(r) = Len(l) /\ \A i \in 1..Len(l) : l[i] = r[i]
  BY <1>1, <1>2, <1>4
<1>6. l = r
  BY <1>1, <1>4, <1>5, SeqEqual
<1>7. QED BY <1>6 DEF l, r

(* One story of turns: dt is the turn on disk, lt the one in memory, n the *)
(* next fresh one.                                                         *)
StartsIn(j, t) == Count(j, {<<"started", t>>})
EndsIn(j, t)   == Count(j, {<<"completed", t>>, <<"aborted", t>>})

Story(j, dt, lt, n) ==
    /\ \A t \in Nat \ {0} :
          /\ StartsIn(j, t) <= 1 /\ EndsIn(j, t) <= 1
          /\ (StartsIn(j, t) = 1 /\ EndsIn(j, t) = 0) <=> dt = t
          /\ t >= n => StartsIn(j, t) = 0 /\ EndsIn(j, t) = 0
    /\ lt # dt => StartsIn(j, lt) = 0 /\ EndsIn(j, lt) = 0

(* The journal's part of the invariant, of the values it depends on.       *)
LEMMA JournalIsStory ==
    /\ JournalInv <=> Story(journal, disk.exec.turn, live.exec.turn, nextTurn)
    /\ JournalInv' <=> Story(journal', disk'.exec.turn, live'.exec.turn, nextTurn')
<1>1. \A t : Starts(t) = StartsIn(journal, t) /\ Ends(t) = EndsIn(journal, t)
  BY DEF Starts, Ends, StartsIn, EndsIn, Times, Count
<1>2. \A t : Starts(t)' = StartsIn(journal', t) /\ Ends(t)' = EndsIn(journal', t)
  BY DEF Starts, Ends, StartsIn, EndsIn, Times, Count
<1>3. JournalInv <=> Story(journal, disk.exec.turn, live.exec.turn, nextTurn)
  BY <1>1 DEF JournalInv, Story
<1>4. JournalInv' <=> Story(journal', disk'.exec.turn, live'.exec.turn, nextTurn')
  BY <1>2 DEF JournalInv, Story
<1>5. QED BY <1>3, <1>4

(* Turn numbers.                                                           *)
IsTurn(t) == t \in Nat

(* What one more event does to the starts and ends of each turn.           *)
LEMMA EventCounts ==
    ASSUME NEW j \in Seq(Events), NEW k \in {"started", "promoted", "completed", "aborted"}, NEW u, IsTurn(u)
    PROVE  /\ With(j, k, u) \in Seq(Events)
           /\ \A t : IsTurn(t) =>
                /\ StartsIn(j, t) \in Nat /\ EndsIn(j, t) \in Nat
                /\ k # "started" \/ u # t => StartsIn(With(j, k, u), t) = StartsIn(j, t)
                /\ k \notin {"completed", "aborted"} \/ u # t => EndsIn(With(j, k, u), t) = EndsIn(j, t)
           /\ k = "started" => StartsIn(With(j, k, u), u) = StartsIn(j, u) + 1
           /\ k \in {"completed", "aborted"} => EndsIn(With(j, k, u), u) = EndsIn(j, u) + 1
<1> DEFINE e == <<k, u>>
<1>1. e \in Events
  BY DEF Events, IsTurn
<1>2. ASSUME NEW t
      PROVE  /\ e \in {<<"started", t>>} <=> k = "started" /\ u = t
             /\ e \in {<<"completed", t>>, <<"aborted", t>>} <=> k \in {"completed", "aborted"} /\ u = t
  OBVIOUS
<1>3. With(j, k, u) = j \o <<e>>
  BY DEF With
<1> HIDE DEF e
<1>4. ASSUME NEW K
      PROVE  /\ With(j, k, u) \in Seq(Events) /\ Count(j, K) \in Nat
             /\ e \in K => Count(With(j, k, u), K) = Count(j, K) + 1
             /\ e \notin K => Count(With(j, k, u), K) = Count(j, K)
  BY <1>1, <1>3, CountAppended
<1>5. QED BY <1>2, <1>4 DEF StartsIn, EndsIn

(* What a step may do to the turn keeps the journal one story.             *)
LEMMA JournalKept ==
    ASSUME IInv, CoreInv', TurnStep
    PROVE  JournalInv'
<1> DEFINE dt == disk.exec.turn
           lt == live.exec.turn
<1>1. /\ journal \in Seq(Events) /\ nextTurn \in Nat \ {0} /\ lt \in Nat /\ dt \in Nat
      /\ lt < nextTurn /\ dt < nextTurn /\ (lt = dt \/ dt = NoTurn)
  <2>1. /\ SavedOK /\ Good(live, nextTurn) /\ Good(disk, nextTurn) /\ live \in Checkpoints /\ disk \in Checkpoints
        /\ Agree(Place, live, disk) /\ nextTurn \in Nat \ {0}
    BY Parts
  <2>2. lt \in Nat /\ dt \in Nat
    BY <2>1, Fields
  <2>3. QED BY <2>1, <2>2 DEF SavedOK, Good, ExecInv, Agree
<1>2. Story(journal, dt, lt, nextTurn)
  BY JournalIsStory DEF IInv
<1>3. NoTurn = 0
  BY DEF NoTurn
<1>4. journal' \in Seq(Events)
  BY TypeParts DEF CoreInv, SavedOK
<1> SUFFICES Story(journal', disk'.exec.turn, live'.exec.turn, nextTurn')
  BY JournalIsStory
<1> HIDE DEF dt, lt
<1>5. CASE SameTurn
  <2>1. nextTurn' = nextTurn /\ disk'.exec.turn = dt /\ live'.exec.turn \in {lt, dt}
    BY <1>5 DEF SameTurn, dt, lt
  <2>2. CASE journal' = journal
    BY <1>2, <2>1, <2>2 DEF Story
  <2>3. ASSUME NEW t, journal' = journal \o <<<<"promoted", t>>>>
        PROVE  Story(journal', disk'.exec.turn, live'.exec.turn, nextTurn')
    <3>1. t \in Nat
      <4>1. journal'[Len(journal) + 1] = <<"promoted", t>> /\ Len(journal) + 1 \in DOMAIN journal'
        BY <1>1, <2>3
      <4>2. <<"promoted", t>> \in Events
        BY <1>4, <4>1
      <4>3. QED BY <4>2 DEF Events
    <3>0. journal' = With(journal, "promoted", t)
      BY <2>3 DEF With
    <3>2. \A u : IsTurn(u) =>
             StartsIn(journal', u) = StartsIn(journal, u) /\ EndsIn(journal', u) = EndsIn(journal, u)
      <4>1. "promoted" \in {"started", "promoted", "completed", "aborted"} /\ "promoted" # "started"
            /\ "promoted" \notin {"completed", "aborted"}
        OBVIOUS
      <4>2. IsTurn(t)
        BY <3>1 DEF IsTurn
      <4>3. QED BY <1>1, <3>0, <4>1, <4>2, EventCounts
    <3>3. \A u \in Nat : StartsIn(journal', u) = StartsIn(journal, u) /\ EndsIn(journal', u) = EndsIn(journal, u)
      BY <3>2 DEF IsTurn
    <3>4. QED BY <1>1, <1>2, <2>1, <3>3 DEF Story
  <2>4. QED BY <1>5, <2>2, <2>3 DEF SameTurn
<1>6. CASE NewTurn
  <2> DEFINE j == With(journal, "started", nextTurn)
  <2>1. nextTurn' = nextTurn + 1 /\ dt = 0
    BY <1>3, <1>6 DEF NewTurn, dt
  <2>2. StartsIn(journal, nextTurn) = 0 /\ EndsIn(journal, nextTurn) = 0
    BY <1>1, <1>2 DEF Story
  <2>3. /\ j \in Seq(Events)
        /\ StartsIn(j, nextTurn) = StartsIn(journal, nextTurn) + 1
        /\ \A t : IsTurn(t) =>
              /\ t # nextTurn => StartsIn(j, t) = StartsIn(journal, t)
              /\ EndsIn(j, t) = EndsIn(journal, t)
    <3>1. "started" \notin {"completed", "aborted"} /\ "started" \in {"started", "promoted", "completed", "aborted"}
      OBVIOUS
    <3>2. IsTurn(nextTurn)
      BY <1>1 DEF IsTurn
    <3>3. QED BY <1>1, <3>1, <3>2, EventCounts
  <2> HIDE DEF j
  <2>4. ASSUME disk'.exec.turn = nextTurn, live'.exec.turn = nextTurn, journal' = j
        PROVE  Story(journal', disk'.exec.turn, live'.exec.turn, nextTurn')
    <3>1. ASSUME NEW t \in Nat \ {0}
          PROVE  /\ StartsIn(j, t) <= 1 /\ EndsIn(j, t) <= 1
                 /\ (StartsIn(j, t) = 1 /\ EndsIn(j, t) = 0) <=> nextTurn = t
                 /\ t >= nextTurn + 1 => StartsIn(j, t) = 0 /\ EndsIn(j, t) = 0
      <4>1. /\ t # nextTurn => StartsIn(j, t) = StartsIn(journal, t)
            /\ EndsIn(j, t) = EndsIn(journal, t)
        BY <2>3 DEF IsTurn
      <4>2. /\ StartsIn(journal, t) <= 1 /\ EndsIn(journal, t) <= 1
            /\ (StartsIn(journal, t) = 1 /\ EndsIn(journal, t) = 0) <=> dt = t
            /\ t >= nextTurn => StartsIn(journal, t) = 0 /\ EndsIn(journal, t) = 0
        BY <1>2 DEF Story
      <4>3. CASE t = nextTurn
        BY <1>1, <2>2, <2>3, <4>1, <4>3
      <4>4. CASE t # nextTurn
        BY <1>1, <2>1, <4>1, <4>2, <4>4
      <4>5. QED BY <4>3, <4>4
    <3>2. QED BY <2>1, <2>4, <3>1 DEF Story
  <2>5. ASSUME disk'.exec.turn = NoTurn, live'.exec.turn = NoTurn, journal' = With(j, "aborted", nextTurn)
        PROVE  Story(journal', disk'.exec.turn, live'.exec.turn, nextTurn')
    <3>1. /\ EndsIn(journal', nextTurn) = EndsIn(j, nextTurn) + 1
          /\ \A t : IsTurn(t) =>
                /\ StartsIn(journal', t) = StartsIn(j, t)
                /\ t # nextTurn => EndsIn(journal', t) = EndsIn(j, t)
      <4>1. "aborted" # "started" /\ "aborted" \in {"completed", "aborted"}
            /\ "aborted" \in {"started", "promoted", "completed", "aborted"}
        OBVIOUS
      <4>2. IsTurn(nextTurn)
        BY <1>1 DEF IsTurn
      <4>3. QED BY <2>3, <2>5, <4>1, <4>2, EventCounts
    <3>2. ASSUME NEW t \in Nat \ {0}
          PROVE  /\ StartsIn(journal', t) <= 1 /\ EndsIn(journal', t) <= 1
                 /\ ~(StartsIn(journal', t) = 1 /\ EndsIn(journal', t) = 0)
                 /\ t >= nextTurn + 1 => StartsIn(journal', t) = 0 /\ EndsIn(journal', t) = 0
      <4>1. /\ t # nextTurn => StartsIn(journal', t) = StartsIn(journal, t) /\ EndsIn(journal', t) = EndsIn(journal, t)
            /\ EndsIn(j, t) = EndsIn(journal, t) /\ StartsIn(journal', t) = StartsIn(j, t)
        BY <2>3, <3>1 DEF IsTurn
      <4>2. /\ StartsIn(journal, t) <= 1 /\ EndsIn(journal, t) <= 1
            /\ (StartsIn(journal, t) = 1 /\ EndsIn(journal, t) = 0) <=> dt = t
            /\ t >= nextTurn => StartsIn(journal, t) = 0 /\ EndsIn(journal, t) = 0
        BY <1>2 DEF Story
      <4>3. CASE t = nextTurn
        BY <1>1, <2>2, <2>3, <3>1, <4>1, <4>3
      <4>4. CASE t # nextTurn
        BY <1>1, <2>1, <4>1, <4>2, <4>4
      <4>5. QED BY <4>3, <4>4
    <3>3. QED BY <1>3, <2>1, <2>5, <3>2 DEF Story
  <2>6. CASE disk'.exec.turn = NoTurn /\ live'.exec.turn \in {NoTurn, nextTurn} /\ journal' = journal
    BY <1>1, <1>2, <1>3, <2>1, <2>2, <2>6 DEF Story
  <2>7. /\ journal \o <<<<"started", nextTurn>>>> = j
        /\ journal \o <<<<"started", nextTurn>>, <<"aborted", nextTurn>>>> = With(j, "aborted", nextTurn)
    <3>1. <<"started", nextTurn>> \in Events /\ <<"aborted", nextTurn>> \in Events
      BY <1>1 DEF Events
    <3> DEFINE a == <<"started", nextTurn>>
               b == <<"aborted", nextTurn>>
    <3>2. a \in Events /\ b \in Events
      BY <3>1
    <3>3. j = journal \o <<a>> /\ With(j, "aborted", nextTurn) = j \o <<b>>
      BY DEF With, j
    <3> HIDE DEF a, b
    <3>4. journal \o <<a, b>> = j \o <<b>>
      BY <1>1, <3>2, <3>3, TwoAppended
    <3>5. QED BY <3>3, <3>4 DEF a, b
  <2>8. QED BY <1>6, <2>4, <2>5, <2>6, <2>7 DEF NewTurn
<1>7. CASE EndOfATurn
  <2>1. nextTurn' = nextTurn /\ lt # NoTurn /\ disk'.exec.turn = NoTurn /\ live'.exec.turn = NoTurn
    BY <1>7 DEF EndOfATurn, lt
  <2>2. PICK k \in {"completed", "aborted"} : journal' = With(journal, k, lt)
    BY <1>7 DEF EndOfATurn, lt, With
  <2>3. /\ EndsIn(journal', lt) = EndsIn(journal, lt) + 1
        /\ \A t : IsTurn(t) =>
              /\ StartsIn(journal', t) = StartsIn(journal, t)
              /\ t # lt => EndsIn(journal', t) = EndsIn(journal, t)
              /\ StartsIn(journal, t) \in Nat /\ EndsIn(journal, t) \in Nat
    <3>1. IsTurn(lt)
      BY <1>1 DEF IsTurn
    <3>2. CASE k = "completed"
      <4>1. "completed" # "started" /\ "completed" \in {"completed", "aborted"}
            /\ "completed" \in {"started", "promoted", "completed", "aborted"}
        OBVIOUS
      <4>2. QED BY <1>1, <2>2, <3>1, <3>2, <4>1, EventCounts
    <3>3. CASE k = "aborted"
      <4>1. "aborted" # "started" /\ "aborted" \in {"completed", "aborted"}
            /\ "aborted" \in {"started", "promoted", "completed", "aborted"}
        OBVIOUS
      <4>2. QED BY <1>1, <2>2, <3>1, <3>3, <4>1, EventCounts
    <3>4. QED BY <3>2, <3>3
  <2>4. EndsIn(journal, lt) = 0
    BY <1>1, <1>2, <1>3, <2>1 DEF Story
  <2>5. ASSUME NEW t \in Nat \ {0}
        PROVE  /\ StartsIn(journal', t) <= 1 /\ EndsIn(journal', t) <= 1
               /\ ~(StartsIn(journal', t) = 1 /\ EndsIn(journal', t) = 0)
               /\ t >= nextTurn => StartsIn(journal', t) = 0 /\ EndsIn(journal', t) = 0
    <3>1. /\ StartsIn(journal', t) = StartsIn(journal, t)
          /\ t # lt => EndsIn(journal', t) = EndsIn(journal, t)
          /\ StartsIn(journal, t) \in Nat /\ EndsIn(journal, t) \in Nat
      BY <2>3 DEF IsTurn
    <3>2. /\ StartsIn(journal, t) <= 1 /\ EndsIn(journal, t) <= 1
          /\ (StartsIn(journal, t) = 1 /\ EndsIn(journal, t) = 0) <=> dt = t
          /\ t >= nextTurn => StartsIn(journal, t) = 0 /\ EndsIn(journal, t) = 0
      BY <1>2 DEF Story
    <3>3. CASE t = lt
      BY <1>1, <2>3, <2>4, <3>1, <3>2, <3>3
    <3>4. CASE t # lt
      BY <1>1, <1>3, <2>1, <3>1, <3>2, <3>4
    <3>5. QED BY <3>3, <3>4
  <2>6. QED BY <1>3, <2>1, <2>5 DEF Story
<1>8. QED BY <1>5, <1>6, <1>7 DEF TurnStep

-----------------------------------------------------------------------------
(* The theorems.                                                           *)

(* A new session satisfies the invariant.                                  *)
LEMMA InitialIInv == Init => IInv
<1> SUFFICES ASSUME Init PROVE IInv
  OBVIOUS
<1> DEFINE ck == EmptyCheckpoint
<1>1. /\ pc = "loop" /\ goto = "none" /\ left = 0 /\ live = ck /\ disk = ck /\ receipts = {}
      /\ journal = <<>> /\ inbox = <<>> /\ work = NoWork /\ nextTurn = 1
      /\ acked = {} /\ dropped = {} /\ replaced = {} /\ effects = [c \in Calls |-> 0]
  BY DEF Init
<1>2. Good(ck, 1) /\ Clear(ck) /\ ck \in Checkpoints
  BY GoodEmpty DEF Good
<1>3. /\ ck.exec.turn = NoTurn /\ ck.exec.phase = "model" /\ ck.approval = NoApproval
      /\ IdsOf(ck.pending) = {} /\ \A m : ~HasMessage(ck, m)
  BY DEF EmptyCheckpoint, NoExec, IdsOf, HasMessage, Contains
<1> HIDE DEF ck
<1>4. Place = "loop"
  BY <1>1 DEF Place
<1>5. TypeOK
  <2>1. RestOK
    <3>1. inbox \in Seq(Requests) /\ Len(inbox) <= InboxCapacity
      <4>1. InboxCapacity \in Nat
        BY RuntimeAssumptions
      <4>2. QED BY <1>1, <4>1
    <3>2. effects \in [Calls -> Nat]
      BY <1>1
    <3>3. /\ acked \subseteq Messages /\ dropped \subseteq Messages /\ replaced \subseteq Messages
          /\ approved \subseteq Calls
          /\ nextTurn \in Nat \ {0} /\ sends \in Nat /\ crashes \in Nat /\ faults \in Nat
      BY DEF Init
    <3>4. closed \in BOOLEAN /\ fallback \in BOOLEAN /\ idleSpent \in BOOLEAN
      BY DEF Init
    <3>5. QED BY <3>1, <3>2, <3>3, <3>4 DEF RestOK
  <2>2. ControlOK /\ SavedOK /\ work \in Works
    BY <1>1, NoWorkWorks DEF ControlOK, Places, SavedOK
  <2>3. QED BY <1>1, <1>2, <2>1, <2>2, TypeParts
<1>6. CoreInv
  <2>1. Agree("loop", ck, ck)
    BY <1>2, Reflexive
  <2>2. At("loop", ck, NoWork)
    BY <1>2, <1>3 DEF At, Settled, Streaming, Batching
  <2>3. QED BY <1>1, <1>2, <1>4, <1>5, <2>1, <2>2 DEF CoreInv
<1>7. EffectsAt(Place, work, disk)
  BY <1>1, <1>3, <1>4, NoWorkWorks DEF EffectsAt, Batching
<1>8. MessagesInv /\ InboxInv
  BY <1>1, <1>3 DEF MessagesInv, InboxInv
<1>9. JournalInv
  <2>1. \A t : Starts(t) = 0 /\ Ends(t) = 0
    BY <1>1, FS_EmptySet DEF Starts, Ends, Times
  <2>2. QED BY <1>1, <1>3, <2>1 DEF JournalInv, NoTurn
<1>10. QED BY <1>6, <1>7, <1>8, <1>9 DEF IInv

(* Every step keeps the invariant.                                         *)
LEMMA StepKeepsIInv == ASSUME IInv, [Next]_vars PROVE IInv'
<1>1. Step
  BY NextStep
<1>2. CoreInv' /\ EffectsAt(Place, work, disk)' /\ MessageStep /\ TurnStep
  BY <1>1 DEF Step
<1>3. MessagesInv' /\ InboxInv' /\ JournalInv'
  BY <1>2, MessagesKept, InboxKept, JournalKept
<1>4. QED BY <1>2, <1>3 DEF IInv

(* The inductive invariant holds in every behaviour of the runner: through *)
(* turns, steers, retries, approvals, refused saves, failures, crashes and *)
(* restarts (Agent in src/src/agent/runner).                               *)
THEOREM Inductive == Spec => []IInv
<1>1. IInv /\ [Next]_vars => IInv'
  BY StepKeepsIInv
<1>2. QED BY <1>1, InitialIInv, PTL DEF Spec

(* The variables keep their types.                                         *)
THEOREM TypeCorrect == Spec => []TypeOK
<1>1. IInv => TypeOK
  BY DEF IInv, CoreInv
<1>2. QED BY <1>1, Inductive, PTL

(* A sender is told `accepted' only about a message that is saved: the     *)
(* acknowledgement follows the save also when the message is sent again,   *)
(* when the save is refused and when the runner dies in between.           *)
THEOREM AckSafety == Spec => []AckedDurable
<1>1. IInv => AckedDurable
  BY DEF IInv, InboxInv, AckedDurable
<1>2. QED BY <1>1, Inductive, PTL

(* Between turns and while an approval is waited for, memory and disk are  *)
(* equal: a refused save or a phase turned back to the model never         *)
(* survives the turn in memory only.                                       *)
THEOREM QuiescenceSafety == Spec => []QuiescentIsDurable
<1>1. IInv => QuiescentIsDurable
  BY DEF IInv, CoreInv, Agree, Place, QuiescentIsDurable
<1>2. QED BY <1>1, Inductive, PTL

(* A checkpoint whose execution has a turn is active.                      *)
LEMMA ActiveTurn == ASSUME NEW ck, ck.exec.turn # NoTurn PROVE Active(ck)
BY NoValues DEF Active

(* A steer that waits, in memory or on disk, waits for the turn that is    *)
(* active there: neither completion nor failure nor a restart leaves one   *)
(* that no turn would pick up.                                             *)
THEOREM SteerSafety == Spec => []SteersHaveTheirTurn
<1>1. ASSUME IInv PROVE SteersHaveTheirTurn
  <2>1. ExecInv(live, nextTurn) /\ ExecInv(disk, nextTurn)
    BY <1>1, Parts DEF Good
  <2>2. QED BY <2>1, ActiveTurn DEF ExecInv, SteersHaveTheirTurn
<1>2. QED BY <1>1, Inductive, PTL

(* The saved turn events tell one story: each turn starts and ends at most *)
(* once, and the turn without an end is the one active on disk, after      *)
(* every crash between two saves as well.                                  *)
THEOREM TurnSafety == Spec => []TurnEvents
<1>1. ASSUME IInv PROVE TurnEvents
  <2>1. nextTurn \in Nat /\ JournalInv
    BY <1>1, Parts DEF IInv
  <2>2. \A t \in 1..(nextTurn - 1) : t \in Nat \ {0}
    BY <2>1
  <2>3. QED BY <2>1, <2>2 DEF JournalInv, TurnEvents
<1>2. QED BY <1>1, Inductive, PTL

(* What the invariant says of the effects and of the calls on disk.        *)
LEMMA EffectsAreKnown ==
    ASSUME IInv
    PROVE  /\ \A c \in Calls : effects[c] \in Nat /\
                 (effects[c] > 0 => effects[c] = 1 /\ Known(disk, c) /\ (c \in Guarded => c \in approved))
           /\ \A c \in Calls : Known(disk, c) => Contains(disk.tools, c) \/ HasOutput(disk, c)
<1>1. EffectsAt(Place, work, disk) /\ effects \in [Calls -> Nat] /\ CallsInv(disk) /\ disk.step \in BOOLEAN
  <2>1. disk \in Checkpoints /\ Good(disk, nextTurn)
    BY Parts
  <2>2. QED BY <2>1, Parts, Fields DEF Good
<1>2. \A c \in Calls : effects[c] \in Nat /\
         (effects[c] > 0 => effects[c] = 1 /\ Known(disk, c) /\ (c \in Guarded => c \in approved))
  BY <1>1 DEF EffectsAt
<1>3. \A c \in Calls : Known(disk, c) => Contains(disk.tools, c) \/ HasOutput(disk, c)
  BY <1>1 DEF CallsInv, Known
<1>4. QED BY <1>2, <1>3

(* No tool call takes effect twice: neither streamed and then run with the *)
(* batch, nor after a retry of the model step, nor after a restart.        *)
THEOREM EffectOnceSafety == Spec => []EffectAtMostOnce
<1>1. IInv => EffectAtMostOnce
  BY EffectsAreKnown DEF EffectAtMostOnce
<1>2. QED BY <1>1, Inductive, PTL

(* A call that took effect is pending on disk or has its result in the     *)
(* saved history: it is recorded before it may run.                        *)
THEOREM EffectRecordSafety == Spec => []EffectOnRecord
<1>1. IInv => EffectOnRecord
  BY EffectsAreKnown DEF EffectOnRecord, HasOutput
<1>2. QED BY <1>1, Inductive, PTL

(* A guarded call takes effect only after an approval, also one restored   *)
(* by a restart.                                                           *)
THEOREM ApprovalSafety == Spec => []GuardedNeedsApproval
<1>1. IInv => GuardedNeedsApproval
  BY EffectsAreKnown, RuntimeAssumptions DEF GuardedNeedsApproval
<1>2. QED BY <1>1, Inductive, PTL

-----------------------------------------------------------------------------
(* Counting.                                                               *)

(* A set with at most one member is empty or counts one.                   *)
LEMMA AtMostOne ==
    ASSUME NEW S, \A x, y \in S : x = y
    PROVE  /\ S = {} => Cardinality(S) = 0
           /\ S # {} => Cardinality(S) = 1
<1>1. S = {} => Cardinality(S) = 0
  BY FS_EmptySet
<1>2. ASSUME S # {} PROVE Cardinality(S) = 1
  <2>1. PICK x : S = {x}
    BY <1>2
  <2>2. QED BY <2>1, FS_Singleton
<1>3. QED BY <1>1, <1>2

(* An injective sequence has what it contains once.                        *)
LEMMA TimesInjective ==
    ASSUME NEW T, NEW s \in Seq(T), IsInjective(s), NEW x
    PROVE  /\ Contains(s, x) => Times(s, x) = 1
           /\ ~Contains(s, x) => Times(s, x) = 0
<1> DEFINE S == {i \in DOMAIN s : s[i] = x}
<1>1. \A i, j \in S : i = j
  BY DEF IsInjective
<1>2. Contains(s, x) <=> S # {}
  BY DEF Contains
<1>3. Times(s, x) = Cardinality(S)
  BY DEF Times
<1> HIDE DEF S
<1>4. QED BY <1>1, <1>2, <1>3, AtMostOne

(* A queue with distinct ids has each of them once.                        *)
LEMMA TimesQueuedOnce ==
    ASSUME DistinctIds(disk.pending), NEW m
    PROVE  /\ m \in IdsOf(disk.pending) => TimesQueued(m) = 1
           /\ m \notin IdsOf(disk.pending) => TimesQueued(m) = 0
<1> DEFINE S == {i \in DOMAIN disk.pending : disk.pending[i].id = m}
<1>1. \A i, j \in S : i = j
  BY DEF DistinctIds
<1>2. m \in IdsOf(disk.pending) <=> S # {}
  BY DEF IdsOf
<1>3. TimesQueued(m) = Cardinality(S)
  BY DEF TimesQueued
<1> HIDE DEF S
<1>4. QED BY <1>1, <1>2, <1>3, AtMostOne

(* Every accepted message is in exactly one place exactly once: queued,    *)
(* delivered, dropped by a hook or replaced by an edit, whatever is        *)
(* resent, promoted, refused or lost.                                      *)
THEOREM OnceSafety == Spec => []ExactlyOnce
<1>1. ASSUME IInv PROVE ExactlyOnce
  <2>1. /\ MessagesInv /\ DistinctIds(disk.pending) /\ IsInjective(disk.context)
        /\ \A m \in IdsOf(disk.pending) : ~HasMessage(disk, m)
    BY <1>1, Parts DEF Good, QueueInv, CallsInv
  <2>2. disk.context \in Seq(ContextItems(Messages \cup Calls))
    BY <1>1, Parts, Fields
  <2>3. ASSUME NEW m \in Messages PROVE Fates(m) = IF m \in receipts THEN 1 ELSE 0
    <3> DEFINE x == <<"message", m>>
               q == TimesQueued(m)
               d == Times(disk.context, x)
    <3>1. Fates(m) = q + d + (IF m \in dropped THEN 1 ELSE 0) + (IF m \in replaced THEN 1 ELSE 0)
      BY DEF Fates
    <3>2. HasMessage(disk, m) <=> Contains(disk.context, x)
      BY DEF HasMessage
    <3>3. (m \in IdsOf(disk.pending) => q = 1) /\ (m \notin IdsOf(disk.pending) => q = 0)
      BY <2>1, TimesQueuedOnce
    <3> HIDE DEF x
    <3>4. (HasMessage(disk, m) => d = 1) /\ (~HasMessage(disk, m) => d = 0)
      BY <2>1, <2>2, <3>2, TimesInjective
    <3> HIDE DEF q, d
    <3>5. /\ m \in receipts <=>
                m \in IdsOf(disk.pending) \/ HasMessage(disk, m) \/ m \in dropped \/ m \in replaced
          /\ m \in dropped \/ m \in replaced => m \notin IdsOf(disk.pending) /\ ~HasMessage(disk, m)
          /\ ~(m \in dropped /\ m \in replaced)
          /\ m \in IdsOf(disk.pending) => ~HasMessage(disk, m)
      BY <2>1 DEF MessagesInv
    <3>6. QED BY <3>1, <3>3, <3>4, <3>5
  <2>4. QED BY <2>3 DEF ExactlyOnce
<1>2. QED BY <1>1, Inductive, PTL

(* A queue with distinct ids has as many ids as entries.                   *)
LEMMA DistinctCount ==
    ASSUME NEW T, NEW q \in Seq(T), DistinctIds(q)
    PROVE  Cardinality(IdsOf(q)) = Len(q)
<1> DEFINE S == 1..Len(q)
           I == IdsOf(q)
           f == [i \in S |-> q[i].id]
<1>1. Len(q) \in Nat /\ DOMAIN q = S
  OBVIOUS
<1>2. IsFiniteSet(S) /\ Cardinality(S) = Len(q)
  BY <1>1, FS_Interval
<1>3. f \in Bijection(S, I)
  <2>1. f \in [S -> I]
    BY <1>1 DEF IdsOf
  <2>2. \A a, b \in S : f[a] = f[b] => a = b
    BY <1>1 DEF DistinctIds
  <2>3. \A m \in I : \E a \in S : f[a] = m
    BY <1>1 DEF IdsOf
  <2>4. IsInjective(f)
    BY <2>2 DEF IsInjective
  <2> HIDE DEF f
  <2>5. QED BY <2>1, <2>3, <2>4 DEF Bijection, Injection, Surjection
<1>4. ExistsBijection(S, I)
  BY <1>3 DEF ExistsBijection
<1> HIDE DEF S, I
<1>5. Cardinality(I) = Cardinality(S)
  BY <1>2, <1>4, FS_Bijection
<1>6. QED BY <1>2, <1>5 DEF I

(* Every saved checkpoint passes validate_checkpoint and has a history a   *)
(* provider accepts: calls and outputs once and in order, open calls       *)
(* pending.                                                                *)
THEOREM HistorySafety == Spec => []HistoryWellFormed
<1>1. ASSUME IInv PROVE HistoryWellFormed
  <2>1. /\ DistinctIds(disk.pending) /\ IsInjective(disk.context) /\ Ordered(disk.context)
        /\ CallsInv(disk) /\ PendingInv(disk) /\ disk \in Checkpoints
    BY <1>1, Parts DEF Good, QueueInv, CallsInv
  <2>2. /\ disk.context \in Seq(ContextItems(Messages \cup Calls))
        /\ disk.pending \in Seq(QueueItems(Messages)) /\ disk.step \in BOOLEAN
    BY <2>1, Fields
  <2>3. Validated(disk)
    <3>1. Cardinality(IdsOf(disk.pending)) = Len(disk.pending)
      BY <2>1, <2>2, DistinctCount
    <3>2. QED BY <2>1, <3>1, ActiveTurn DEF Validated, PendingInv
  <2>4. ASSUME NEW c \in Calls
        PROVE  LET calls == {i \in DOMAIN disk.context : disk.context[i] = <<"call", c>>}
                   outs  == {i \in DOMAIN disk.context : disk.context[i] = <<"output", c>>}
               IN  /\ Cardinality(calls) <= 1 /\ Cardinality(outs) <= Cardinality(calls)
                   /\ \A i \in calls, j \in outs : i < j
                   /\ calls # {} /\ outs = {} => Contains(disk.tools, c) /\ Active(disk)
    <3> DEFINE calls == {i \in DOMAIN disk.context : disk.context[i] = <<"call", c>>}
               outs  == {i \in DOMAIN disk.context : disk.context[i] = <<"output", c>>}
    <3>1. (\A i, j \in calls : i = j) /\ (\A i, j \in outs : i = j)
      BY <2>1 DEF IsInjective
    <3>2. (calls # {} <=> HasCall(disk, c)) /\ (outs # {} <=> HasOutput(disk, c))
      BY <2>2 DEF HasCall, HasOutput, Contains
    <3>3. \A j \in outs : \E i \in calls : i < j
      <4>1. ASSUME NEW j \in outs PROVE \E i \in calls : i < j
        <5>1. PICK i \in 1..(j - 1) : disk.context[i] = <<"call", c>>
          BY <2>1, Zenon DEF Ordered
        <5>2. j \in 1..Len(disk.context) /\ Len(disk.context) \in Nat /\ DOMAIN disk.context = 1..Len(disk.context)
          BY <2>2
        <5>3. i \in DOMAIN disk.context /\ i < j
          BY <5>1, <5>2
        <5>4. QED BY <5>1, <5>3
      <4>2. QED BY <4>1
    <3>4. HasCall(disk, c) /\ ~HasOutput(disk, c) => Contains(disk.tools, c)
      BY <2>1, <2>2 DEF CallsInv
    <3>5. Contains(disk.tools, c) => disk.tools # <<>>
      BY DEF Contains
    <3>6. disk.tools # <<>> => Active(disk)
      BY <2>1, ActiveTurn DEF PendingInv
    <3> HIDE DEF calls, outs
    <3>7. /\ calls = {} => Cardinality(calls) = 0
          /\ calls # {} => Cardinality(calls) = 1
          /\ outs = {} => Cardinality(outs) = 0
          /\ outs # {} => Cardinality(outs) = 1
      BY <3>1, AtMostOne
    <3>8. Cardinality(calls) <= 1 /\ Cardinality(outs) <= Cardinality(calls)
      BY <3>3, <3>7
    <3>9. \A i \in calls, j \in outs : i < j
      BY <3>1, <3>3
    <3>10. calls # {} /\ outs = {} => Contains(disk.tools, c) /\ Active(disk)
      BY <3>2, <3>4, <3>5, <3>6
    <3>11. QED BY <3>8, <3>9, <3>10 DEF calls, outs
  <2>5. QED BY <2>3, <2>4 DEF HistoryWellFormed
<1>2. QED BY <1>1, Inductive, PTL

-----------------------------------------------------------------------------
(* The promise to the senders.                                             *)

(* What became of a message, of the values that tell it.                   *)
Became(m, gone, edited, ck) ==
    CASE m \in gone -> "dropped"
      [] m \in edited -> "replaced"
      [] HasMessage(ck, m) -> "delivered"
      [] m \in IdsOf(ck.pending) -> "queued"
      [] OTHER -> "new"

(* StatusOf, now and after a step, of the values it depends on.            *)
LEMMA StatusIs ==
    ASSUME IInv, IInv', NEW m
    PROVE  StatusOf(m) = Became(m, dropped, replaced, disk) /\ StatusOf(m)' = Became(m, dropped', replaced', disk')
<1>1. ASSUME NEW ck \in Checkpoints PROVE <<"message", m>> \in ToSet(ck.context) <=> HasMessage(ck, m)
  <2> DEFINE x == <<"message", m>>
  <2>1. ck.context \in Seq(ContextItems(Messages \cup Calls))
    BY Fields
  <2>2. HasMessage(ck, m) <=> Contains(ck.context, x)
    BY DEF HasMessage
  <2> HIDE DEF x
  <2>3. x \in ToSet(ck.context) <=> Contains(ck.context, x)
    BY <2>1, ContainsIsToSet
  <2>4. QED BY <2>2, <2>3 DEF x
<1>2. disk \in Checkpoints /\ disk' \in Checkpoints
  BY TypeParts DEF IInv, CoreInv
<1>3. /\ <<"message", m>> \in ToSet(disk.context) <=> HasMessage(disk, m)
      /\ <<"message", m>> \in ToSet(disk'.context) <=> HasMessage(disk', m)
  BY <1>1, <1>2
<1>4. QED BY <1>3 DEF StatusOf, Became

(* The fates exclude each other.                                           *)
LEMMA FateIs ==
    ASSUME NEW ck, NEW gone, NEW edited, NEW m, gone \cap edited = {},
           m \in gone \/ m \in edited => m \notin IdsOf(ck.pending) /\ ~HasMessage(ck, m),
           m \in IdsOf(ck.pending) => ~HasMessage(ck, m)
    PROVE  LET b == Became(m, gone, edited, ck) IN
           /\ b = "dropped" <=> m \in gone
           /\ b = "replaced" <=> m \in edited
           /\ b = "delivered" <=> HasMessage(ck, m)
           /\ b = "queued" <=> m \in IdsOf(ck.pending)
           /\ b = "new" <=> ~(m \in gone \/ m \in edited \/ HasMessage(ck, m) \/ m \in IdsOf(ck.pending))
BY DEF Became

Status == [m \in Messages |-> StatusOf(m)]

(* What each status says of the saved state, now and after a step.         *)
LEMMA StatusFacts ==
    ASSUME IInv, IInv'
    PROVE  /\ \A m \in Messages :
                /\ Status[m] = "dropped" <=> m \in dropped
                /\ Status[m] = "replaced" <=> m \in replaced
                /\ Status[m] = "delivered" <=> HasMessage(disk, m)
                /\ Status[m] = "queued" <=> m \in IdsOf(disk.pending)
                /\ Status[m] = "new" <=> m \notin receipts
                /\ Status[m] \in {"new", "queued", "delivered", "dropped", "replaced"}
           /\ \A m \in Messages :
                /\ Status'[m] = "dropped" <=> m \in dropped'
                /\ Status'[m] = "replaced" <=> m \in replaced'
                /\ Status'[m] = "delivered" <=> HasMessage(disk', m)
                /\ Status'[m] = "queued" <=> m \in IdsOf(disk'.pending)
                /\ Status'[m] = "new" <=> m \notin receipts'
                /\ Status'[m] \in {"new", "queued", "delivered", "dropped", "replaced"}
           /\ DOMAIN Status = Messages /\ DOMAIN Status' = Messages
<1>1. /\ MessagesInv /\ \A m \in IdsOf(disk.pending) : ~HasMessage(disk, m)
      /\ MessagesInv' /\ \A m \in IdsOf(disk'.pending) : ~HasMessage(disk', m)
  <2>1. QueueInv(disk) /\ QueueInv(disk')
    BY DEF IInv, CoreInv, Good
  <2>2. QED BY <2>1 DEF IInv, QueueInv
<1>2. \A m \in Messages : Status[m] = Became(m, dropped, replaced, disk) /\ Status'[m] = Became(m, dropped', replaced', disk')
  BY StatusIs DEF Status
<1>3. \A m, gone, edited, ck : Became(m, gone, edited, ck) \in {"new", "queued", "delivered", "dropped", "replaced"}
  BY DEF Became
<1>4. ASSUME NEW m \in Messages
      PROVE  /\ Status[m] = "dropped" <=> m \in dropped
             /\ Status[m] = "replaced" <=> m \in replaced
             /\ Status[m] = "delivered" <=> HasMessage(disk, m)
             /\ Status[m] = "queued" <=> m \in IdsOf(disk.pending)
             /\ Status[m] = "new" <=> m \notin receipts
  BY <1>1, <1>2, FateIs DEF MessagesInv
<1>5. ASSUME NEW m \in Messages
      PROVE  /\ Status'[m] = "dropped" <=> m \in dropped'
             /\ Status'[m] = "replaced" <=> m \in replaced'
             /\ Status'[m] = "delivered" <=> HasMessage(disk', m)
             /\ Status'[m] = "queued" <=> m \in IdsOf(disk'.pending)
             /\ Status'[m] = "new" <=> m \notin receipts'
  BY <1>1, <1>2, FateIs DEF MessagesInv
<1>6. DOMAIN Status = Messages /\ DOMAIN Status' = Messages
  BY DEF Status
<1>7. QED BY <1>2, <1>3, <1>4, <1>5, <1>6

(* The steps of the messages are steps of MessageDelivery.                 *)
LEMMA StepRefines ==
    ASSUME IInv, IInv', MessageStep
    PROVE  Delivery!Next \/ (Status' = Status /\ acked' = acked)
<1>1. MessagesInv /\ MessagesInv' /\ receipts \subseteq Messages /\ IdsOf(disk.pending) \subseteq receipts
  BY Parts, QueuedAreAccepted DEF IInv, SavedOK
<1>2. Status = [m \in Messages |-> Status[m]] /\ Status' = [m \in Messages |-> Status'[m]]
  BY DEF Status
<1>3. CASE QuietStep \/ ArrivalStep
  <2>1. \A m \in Messages : Status'[m] = Status[m]
    BY <1>3, StatusFacts DEF SameQueue, QuietStep, ArrivalStep
  <2>2. Status' = Status
    BY <1>2, <2>1
  <2>3. ASSUME NEW m \in receipts, acked' = acked \cup {m} PROVE Delivery!Next
    <3>1. Status[m] # "new" /\ m \in Messages
      BY <1>1, <2>3, StatusFacts
    <3>2. Delivery!AcceptAgain(m)
      BY <2>2, <2>3, <3>1 DEF Delivery!AcceptAgain, Delivery!Tells, Status
    <3>3. QED BY <3>1, <3>2 DEF Delivery!Next
  <2>4. CASE acked' = acked
    BY <2>2, <2>4
  <2>5. QED BY <1>3, <2>3, <2>4 DEF QuietStep, ArrivalStep
<1>4. ASSUME NEW m, AcceptStep(m) PROVE Delivery!Next
  <2>1. m \in Messages /\ Status[m] = "new" /\ Status'[m] = "queued"
    BY <1>4, StatusFacts DEF AcceptStep
  <2>2. \A x \in Messages : x # m => Status'[x] = Status[x]
    BY <1>4, StatusFacts DEF AcceptStep
  <2>3. Status' = [Status EXCEPT ![m] = "queued"]
    BY <1>2, <2>1, <2>2
  <2>4. Delivery!Accept(m)
    BY <1>4, <2>1, <2>3 DEF AcceptStep, Tell, Delivery!Accept, Delivery!Tells, Status
  <2>5. QED BY <2>1, <2>4 DEF Delivery!Next
<1>5. ASSUME NEW delivered, NEW rejected, SettleStep(delivered, rejected) PROVE Delivery!Next
  <2>1. /\ delivered \subseteq Messages /\ rejected \subseteq Messages \ delivered
        /\ \A m \in delivered \cup rejected : Status[m] = "queued"
    BY <1>1, <1>5, StatusFacts DEF SettleStep
  <2>2. \A m \in Messages :
           /\ m \in rejected => Status'[m] = "dropped"
           /\ m \in delivered => Status'[m] = "delivered"
           /\ m \notin rejected /\ m \notin delivered => Status'[m] = Status[m]
    BY <1>1, <1>5, <2>1, StatusFacts DEF SettleStep
  <2>3. Status' = [m \in Messages |-> CASE m \in rejected -> "dropped"
                                        [] m \in delivered -> "delivered"
                                        [] OTHER -> Status[m]]
    BY <1>2, <2>1, <2>2
  <2>4. Delivery!Settle(delivered, rejected)
    BY <1>5, <2>1, <2>3 DEF SettleStep, Delivery!Settle, Status
  <2>5. QED BY <2>1, <2>4 DEF Delivery!Next
<1>6. ASSUME NEW old, NEW new, EditStep(old, new) PROVE Delivery!Next
  <2>1. /\ old \in Messages /\ new \in Messages /\ old # new
        /\ Status[old] = "queued" /\ Status[new] = "new"
        /\ Status'[old] = "replaced" /\ Status'[new] = "queued"
    BY <1>1, <1>6, StatusFacts DEF EditStep
  <2>2. \A x \in Messages : x # old /\ x # new => Status'[x] = Status[x]
    BY <1>6, StatusFacts DEF EditStep
  <2>3. Status' = [Status EXCEPT ![old] = "replaced", ![new] = "queued"]
    BY <1>2, <2>1, <2>2
  <2>4. Delivery!Edit(old, new)
    BY <1>6, <2>1, <2>3 DEF EditStep, Delivery!Edit, Status
  <2>5. QED BY <2>1, <2>4 DEF Delivery!Next
<1>7. QED BY <1>3, <1>4, <1>5, <1>6 DEF MessageStep

(* The runner implements MessageDelivery: every step of it accepts a       *)
(* message, acknowledges one again, settles or edits queued ones, or       *)
(* changes nothing a sender can see.                                       *)
THEOREM Refinement == Spec => DeliveryRefined
<1>1. Init => Delivery!Init
  <2> SUFFICES ASSUME Init PROVE Delivery!Init
    OBVIOUS
  <2>1. \A m \in Messages : StatusOf(m) = "new"
    BY DEF Init, StatusOf, EmptyCheckpoint, ToSet, IdsOf
  <2>2. QED BY <2>1 DEF Init, Delivery!Init
<1>2. IInv /\ IInv' /\ [Next]_vars => [Delivery!Next]_(Delivery!vars)
  <2> SUFFICES ASSUME IInv, IInv', [Next]_vars PROVE [Delivery!Next]_(Delivery!vars)
    OBVIOUS
  <2>1. MessageStep
    BY NextStep DEF Step
  <2>2. QED BY <2>1, StepRefines DEF Delivery!vars, Status
<1>3. QED BY <1>1, <1>2, Inductive, PTL DEF Spec, DeliveryRefined, Delivery!Spec

=============================================================================
