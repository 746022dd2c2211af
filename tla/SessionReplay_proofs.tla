------------------------ MODULE SessionReplay_proofs ------------------------
(***************************************************************************)
(* What a client is shown, for any number of clients and events, and any   *)
(* capacity of the window, the pages, the broadcast queue and the agent's  *)
(* channel.                                                                *)
(*                                                                         *)
(* ClientCaughtUp is about what clients have got; the invariant behind it  *)
(* is about what they are still to get.  The journal holds what is owed    *)
(* (StoredInv); the pages a start reads leave no hole above the oldest     *)
(* event read (LoadInv); the window has none from its head to the actor's  *)
(* sequence (WindowInv).  So the frames of a snapshot lead a client from   *)
(* its position to that sequence (AnswerInv), and behind it the broadcast  *)
(* queue goes on with every frame, but those of a replacement that is not  *)
(* over or was rolled back (QueueInv).                                     *)
(***************************************************************************)
EXTENDS SessionReplay, FiniteSetTheorems, SequenceTheorems, WellFoundedInduction, TLAPS

FrameType == [sequence : Nat, appends : BOOLEAN]
SnapshotType == [base : Nat, frames : {<<>>}]
ConnType == [phase : {"closed", "subscribed", "opening", "open"}, queue : Seq(FrameType),
             lagged : BOOLEAN, delivered : Nat, out : Seq(FrameType \cup SnapshotType)]
ViewType == [base : Nat, frames : Seq(Nat)]
LoadType == [before : Nat \cup {None}, latest : Nat, events : SUBSET Nat]

Types ==
    /\ log \in Seq(Kinds) /\ stored \subseteq 1..Latest
    /\ fed \in 0..Latest /\ sequence \in 0..Latest
    /\ actor \in {"down", "loading", "starting", "up", "replacing"}
    /\ load \in LoadType
    /\ window \in Seq(FrameType) /\ pending \in Seq(FrameType)
    /\ conn \in [Clients -> ConnType] /\ view \in [Clients -> ViewType]

(* Frames in the order of their events.                                    *)
Seqs(fs) == {fs[i].sequence : i \in DOMAIN fs}
Rising(fs) == \A i, j \in DOMAIN fs : i < j => fs[i].sequence < fs[j].sequence

(* The journal holds every event that is owed.                             *)
StoredInv == \A n \in 1..Latest : Owed(n) => n \in stored

(* The events read so far are all there are above the oldest of them.      *)
LoadInv ==
    actor = "loading" =>
        /\ IsFiniteSet(load.events) /\ Cardinality(load.events) < ReplayCapacity
        /\ load.before = None => load.events = {}
        /\ load.before # None =>
             /\ load.before \in 1..load.latest /\ load.latest \in fed..Latest
             /\ load.events \subseteq load.before..load.latest
             /\ \A n \in stored : n \in load.before..load.latest => n \in load.events

(* The window misses nothing owed from its oldest frame to the sequence.   *)
Unbroken(S, p) == \A h \in S : \A n \in h..p : Owed(n) => n \in S

WindowInv ==
    /\ Rising(window) /\ Seqs(window) \subseteq 1..sequence
    /\ Unbroken(Seqs(window), sequence)

ActorInv ==
    /\ actor \in {"down", "loading"} => sequence = 0 /\ window = <<>> /\ pending = <<>>
    /\ actor = "starting" => fed <= sequence /\ pending = <<>>
    /\ actor \in {"up", "replacing"} => fed = sequence
    /\ Rising(pending) /\ Seqs(pending) \subseteq 1..sequence
    /\ \A c \in Clients : conn[c].phase # "closed" => actor \in {"up", "replacing"}

(* What the broadcasts leave out: the start-up of an agent that replaces   *)
(* another, until it is over, or for good if it was rolled back.           *)
Withheld == rolledBack \cup (IF actor = "replacing" THEN Seqs(pending) ELSE {})

(* The queue behind a snapshot has every later frame, each behind the ones *)
(* before it.                                                              *)
QueueInv(c) ==
    LET k == conn[c]
    IN  k.phase # "closed" /\ ~k.lagged =>
          /\ Seqs(k.queue) \subseteq 1..sequence
          /\ k.phase # "subscribed" =>
               /\ \A n \in (k.delivered + 1)..sequence : n \in Seqs(k.queue) \cup Withheld
               /\ \A i \in DOMAIN k.queue, n \in (k.delivered + 1)..sequence :
                    n < k.queue[i].sequence /\ n \notin rolledBack =>
                      \E j \in DOMAIN k.queue : j < i /\ k.queue[j].sequence = n

(* An answer that is being written leads to the sequence it was given at:  *)
(* it is the whole transcript, or every frame from the client's position.  *)
IsWhole(k) == k.out # <<>> /\ "base" \in DOMAIN k.out[1]

AnswerInv(c) ==
    LET k == conn[c]
    IN  k.phase \in {"opening", "open"} =>
          /\ k.delivered <= sequence
          /\ k.phase = "open" <=> k.out = <<>>
          /\ IsWhole(k) => Len(k.out) = 1 /\ k.out[1].base = k.delivered
          /\ ~IsWhole(k) =>
               /\ k.out \in Seq(FrameType) /\ Rising(k.out)
               /\ Position(c) <= k.delivered
               /\ Seqs(k.out) \subseteq (Position(c) + 1)..k.delivered
               /\ \A n \in (Position(c) + 1)..k.delivered :
                    Owed(n) => n \in Seqs(k.out) \cup rolledBack

(* What a client has got.                                                  *)
ViewInv(c) ==
    /\ Position(c) <= Latest
    /\ \A i \in 1..(Len(view[c].frames) - 1) : view[c].frames[i] < view[c].frames[i + 1]
    /\ \A n \in (view[c].base + 1)..Position(c) :
         Owed(n) => n \in Range(view[c].frames) \cup rolledBack

HostInv == StoredInv /\ LoadInv /\ WindowInv /\ ActorInv

IInv == Types /\ HostInv /\ \A c \in Clients : QueueInv(c) /\ AnswerInv(c) /\ ViewInv(c)

-----------------------------------------------------------------------------
(* Sequences of the entries of another.                                    *)

(* A set of naturals that is not empty has a least member.                 *)
LEMMA LeastMember ==
    ASSUME NEW T \in SUBSET Nat, T # {}
    PROVE  \E i \in T : \A j \in T : i <= j
<1>1. PICK i \in T : \A j \in T : <<j, i>> \notin OpToRel(<, Nat)
  BY NatLessThanWellFounded, WFMin, Zenon
<1>2. \A j \in T : j \in Nat /\ i \in Nat /\ ~(j < i)
  BY <1>1, Zenon DEF OpToRel
<1>3. QED BY <1>2

(* Each number up to the size of a set of positions is the rank of exactly *)
(* one of them.                                                            *)
LEMMA Ranks ==
    ASSUME NEW n \in Nat, NEW I \in SUBSET (1..n)
    PROVE  /\ IsFiniteSet(I) /\ Cardinality(I) \in Nat
           /\ \A i \in I : Cardinality({j \in I : j <= i}) \in 1..Cardinality(I)
           /\ \A k \in 1..Cardinality(I) : \E i \in I : Cardinality({j \in I : j <= i}) = k
           /\ \A i, h \in I : i < h => Cardinality({j \in I : j <= i}) < Cardinality({j \in I : j <= h})
<1> DEFINE Upto(i) == {j \in I : j <= i}
           Rank(i) == Cardinality(Upto(i))
<1>0. \A j \in I : j \in Nat /\ j >= 1 /\ j <= n
  OBVIOUS
<1>1. IsFiniteSet(I) /\ Cardinality(I) \in Nat
  <2>1. IsFiniteSet(1..n)
    BY FS_Interval
  <2>2. QED BY <2>1, FS_Subset, FS_CardinalityType
<1>2. \A i \in 0..n : IsFiniteSet(Upto(i)) /\ Rank(i) \in Nat /\ Rank(i) <= Cardinality(I)
  <2>1. \A i \in 0..n : Upto(i) \in SUBSET I
    OBVIOUS
  <2>2. QED BY <1>1, <2>1, FS_Subset, FS_CardinalityType
<1>3. Rank(0) = 0
  <2>1. \A j \in I : ~(j <= 0)
    BY <1>0
  <2>2. Upto(0) = {}
    BY <2>1, Zenon
  <2>3. QED BY <2>2, FS_EmptySet
<1>4. Rank(n) = Cardinality(I)
  <2>1. \A j \in I : j <= n
    BY <1>0
  <2>2. Upto(n) = I
    BY <2>1, Zenon
  <2>3. QED BY <2>2
<1>5. ASSUME NEW i \in 0..n, i + 1 \in 0..n
      PROVE  Rank(i + 1) = IF i + 1 \in I THEN Rank(i) + 1 ELSE Rank(i)
  <2>1. CASE i + 1 \in I
    <3>1. (\A j \in I : j <= i + 1 <=> j <= i \/ j = i + 1) /\ ~(i + 1 <= i)
      BY <1>0
    <3>4. Upto(i + 1) = Upto(i) \cup {i + 1}
      BY <2>1, <3>1, Zenon
    <3>2. i + 1 \notin Upto(i)
      BY <3>1, Zenon
    <3>3. QED BY <1>2, <2>1, <3>4, <3>2, FS_AddElement
  <2>2. CASE i + 1 \notin I
    <3>1. \A j \in I : j <= i + 1 <=> j <= i
      BY <1>0, <2>2
    <3>2. Upto(i + 1) = Upto(i)
      BY <3>1, Zenon
    <3>3. QED BY <2>2, <3>2
  <2>3. QED BY <2>1, <2>2
<1>6. ASSUME NEW i \in I, NEW h \in I, i < h
      PROVE  Rank(i) < Rank(h)
  <2>1. /\ \A j \in I : j <= i => j <= h
        /\ h <= h /\ ~(h <= i) /\ h \in 0..n /\ i \in 0..n
    BY <1>0, <1>6
  <2>2. /\ Upto(i) \in SUBSET Upto(h)
        /\ h \in Upto(h) /\ h \notin Upto(i)
    BY <2>1, Zenon
  <2>3. /\ IsFiniteSet(Upto(h)) /\ Rank(h) \in Nat /\ Rank(i) \in Nat
    BY <1>2, <2>1
  <2> HIDE DEF Upto
  <2>4. Rank(i) <= Rank(h) /\ (Rank(i) = Rank(h) => Upto(i) = Upto(h))
    BY <2>2, <2>3, FS_Subset
  <2>5. QED BY <2>2, <2>3, <2>4
<1>7. ASSUME NEW i \in I PROVE Rank(i) >= 1
  <2>1. i \in 0..n /\ i - 1 \in 0..n /\ (i - 1) + 1 = i
    OBVIOUS
  <2>2. Rank(i) = Rank(i - 1) + 1
    BY <1>5, <2>1
  <2>3. Rank(i - 1) \in Nat
    BY <1>2, <2>1
  <2>4. QED BY <2>2, <2>3
<1>8. ASSUME NEW k \in 1..Cardinality(I)
      PROVE  \E i \in I : Rank(i) = k
  <2> DEFINE T == {i \in 0..n : Rank(i) >= k}
  <2>1. n \in T
    BY <1>4, <1>1
  <2>2. PICK i \in T : \A j \in T : i <= j
    <3> HIDE DEF Rank
    <3>1. T \in SUBSET Nat /\ T # {}
      BY <2>1
    <3> HIDE DEF T
    <3>2. QED BY <3>1, LeastMember
  <2>3. i \in 0..n /\ Rank(i) >= k /\ i # 0
    <3> HIDE DEF Rank
    <3>1. QED BY <1>3, <2>2
  <2>4. i - 1 \in 0..n /\ (i - 1) + 1 = i /\ i - 1 \notin T
    <3> HIDE DEF Rank
    <3>1. i - 1 \in 0..n /\ (i - 1) + 1 = i /\ ~(i <= i - 1)
      BY <2>3
    <3>2. QED BY <2>2, <3>1
  <2>5. Rank(i - 1) < k /\ Rank(i - 1) \in Nat /\ Rank(i) \in Nat
    <3>1. Rank(i - 1) \in Nat /\ Rank(i) \in Nat
      BY <1>2, <2>3, <2>4
    <3> HIDE DEF Rank
    <3>2. QED BY <2>4, <3>1
  <2>6. Rank(i) = IF i \in I THEN Rank(i - 1) + 1 ELSE Rank(i - 1)
    BY <1>5, <2>4
  <2> HIDE DEF Rank
  <2>7. i \in I /\ Rank(i) = k
    BY <2>3, <2>5, <2>6
  <2>8. QED BY <2>7
<1>9. QED BY <1>1, <1>2, <1>6, <1>7, <1>8

(* Entries(s, I) is a sequence of the entries at I, in their order: P maps *)
(* its positions to those of I.                                            *)
LEMMA EntriesInOrder ==
    ASSUME NEW T, NEW s \in Seq(T), NEW I \in SUBSET (DOMAIN s)
    PROVE  /\ Entries(s, I) \in Seq(T)
           /\ \E P \in [DOMAIN Entries(s, I) -> I] :
                /\ \A k \in DOMAIN Entries(s, I) : Entries(s, I)[k] = s[P[k]]
                /\ \A i \in I : \E k \in DOMAIN Entries(s, I) : P[k] = i
                /\ \A k, h \in DOMAIN Entries(s, I) : k < h => P[k] < P[h]
<1> DEFINE Rank(i) == Cardinality({j \in I : j <= i})
           P == [k \in 1..Cardinality(I) |-> CHOOSE i \in I : Rank(i) = k]
           t == Entries(s, I)
<1>1. /\ DOMAIN s = 1..Len(s) /\ Len(s) \in Nat /\ I \in SUBSET (1..Len(s))
      /\ \A i \in I : s[i] \in T /\ i \in Nat
  OBVIOUS
<1>2. /\ IsFiniteSet(I) /\ Cardinality(I) \in Nat
      /\ \A i \in I : Rank(i) \in 1..Cardinality(I)
      /\ \A k \in 1..Cardinality(I) : \E i \in I : Rank(i) = k
      /\ \A i, h \in I : i < h => Rank(i) < Rank(h)
  BY <1>1, Ranks
<1>3. t = [k \in 1..Cardinality(I) |-> s[P[k]]]
  BY DEF Entries
<1> HIDE DEF Rank, t
<1>4. P \in [1..Cardinality(I) -> I] /\ \A k \in 1..Cardinality(I) : Rank(P[k]) = k
  BY <1>2
<1> HIDE DEF P
<1>5. ASSUME NEW k \in 1..Cardinality(I), NEW h \in 1..Cardinality(I), k < h
      PROVE  P[k] < P[h]
  <2>1. P[k] \in I /\ P[h] \in I /\ Rank(P[k]) = k /\ Rank(P[h]) = h /\ k \in Nat /\ h \in Nat
    BY <1>4
  <2>2. P[k] \in Nat /\ P[h] \in Nat /\ ~(P[h] < P[k]) /\ P[h] # P[k]
    BY <1>1, <1>2, <1>5, <2>1
  <2>3. QED BY <2>2
<1>6. ASSUME NEW i \in I PROVE \E k \in 1..Cardinality(I) : P[k] = i
  <2>1. Rank(i) \in 1..Cardinality(I)
    BY <1>2
  <2>2. P[Rank(i)] \in I /\ Rank(P[Rank(i)]) = Rank(i)
    BY <1>4, <2>1
  <2>3. ~(P[Rank(i)] < i) /\ ~(i < P[Rank(i)]) /\ i \in Nat /\ P[Rank(i)] \in Nat
    BY <1>1, <1>2, <2>1, <2>2
  <2>4. QED BY <2>1, <2>3
<1>7. t \in Seq(T) /\ DOMAIN t = 1..Cardinality(I) /\ \A k \in DOMAIN t : t[k] = s[P[k]]
  <2>1. \A k \in 1..Cardinality(I) : s[P[k]] \in T
    BY <1>1, <1>4
  <2>2. t \in [1..Cardinality(I) -> T]
    BY <1>3, <2>1
  <2>3. QED BY <1>2, <1>3, <2>2
<1>8. QED BY <1>4, <1>5, <1>6, <1>7 DEF t

-----------------------------------------------------------------------------
(* Sequences of frames, and the events they are of.                        *)

(* Frames picked from rising ones rise, and are of the events picked.      *)
LEMMA SelectedFrames ==
    ASSUME NEW fs \in Seq(FrameType), Rising(fs), NEW I \in SUBSET (DOMAIN fs)
    PROVE  /\ Entries(fs, I) \in Seq(FrameType) /\ Rising(Entries(fs, I))
           /\ Seqs(Entries(fs, I)) = {fs[i].sequence : i \in I}
<1> DEFINE t == Entries(fs, I)
<1>1. /\ t \in Seq(FrameType)
      /\ \E P \in [DOMAIN t -> I] :
           /\ \A k \in DOMAIN t : t[k] = fs[P[k]]
           /\ \A i \in I : \E k \in DOMAIN t : P[k] = i
           /\ \A k, h \in DOMAIN t : k < h => P[k] < P[h]
  BY EntriesInOrder
<1> HIDE DEF t
<1>2. PICK P \in [DOMAIN t -> I] :
           /\ \A k \in DOMAIN t : t[k] = fs[P[k]]
           /\ \A i \in I : \E k \in DOMAIN t : P[k] = i
           /\ \A k, h \in DOMAIN t : k < h => P[k] < P[h]
  BY <1>1
<1>3. Rising(t)
  BY <1>2 DEF Rising
<1>4. Seqs(t) = {fs[i].sequence : i \in I}
  BY <1>2 DEF Seqs
<1>5. QED BY <1>1, <1>3, <1>4 DEF t

(* No frames.                                                              *)
LEMMA NoFrames == <<>> \in Seq(FrameType) /\ Rising(<<>>) /\ Seqs(<<>>) = {}
BY DEF Rising, Seqs

(* Membership in the events of frames.                                     *)
LEMMA SeqsAre ==
    ASSUME NEW fs \in Seq(FrameType)
    PROVE  /\ \A x : x \in Seqs(fs) <=> \E i \in 1..Len(fs) : fs[i].sequence = x
           /\ Seqs(fs) \subseteq Nat
           /\ Seqs(fs) = {} <=> fs = <<>>
<1>1. /\ DOMAIN fs = 1..Len(fs) /\ Len(fs) \in Nat
      /\ \A i \in DOMAIN fs : fs[i] \in FrameType
      /\ DOMAIN fs = {} <=> fs = <<>>
  <2>1. DOMAIN fs = 1..Len(fs) /\ Len(fs) \in Nat /\ \A i \in DOMAIN fs : fs[i] \in FrameType
    OBVIOUS
  <2>2. fs # <<>> => 1 \in DOMAIN fs
    OBVIOUS
  <2>3. fs = <<>> => DOMAIN fs = {}
    OBVIOUS
  <2>4. QED BY <2>1, <2>2, <2>3
<1>2. \A i \in DOMAIN fs : fs[i].sequence \in Nat
  BY <1>1 DEF FrameType
<1>3. Seqs(fs) = {} <=> DOMAIN fs = {}
  BY DEF Seqs
<1>4. Seqs(fs) \subseteq Nat
  BY <1>2 DEF Seqs
<1>5. \A x : x \in Seqs(fs) <=> \E i \in 1..Len(fs) : fs[i].sequence = x
  BY <1>1 DEF Seqs
<1>6. QED BY <1>1, <1>3, <1>4, <1>5

(* A later frame is added at the end.                                      *)
LEMMA FrameAppended ==
    ASSUME NEW fs \in Seq(FrameType), NEW f \in FrameType
    PROVE  /\ Append(fs, f) \in Seq(FrameType)
           /\ Seqs(Append(fs, f)) = Seqs(fs) \cup {f.sequence}
           /\ Rising(fs) /\ (\A n \in Seqs(fs) : n < f.sequence) => Rising(Append(fs, f))
<1> DEFINE t == Append(fs, f)
<1>1. /\ t \in Seq(FrameType) /\ Len(t) = Len(fs) + 1 /\ Len(fs) \in Nat
      /\ \A i \in 1..Len(fs) : t[i] = fs[i]
      /\ t[Len(fs) + 1] = f
      /\ DOMAIN t = 1..(Len(fs) + 1) /\ DOMAIN fs = 1..Len(fs)
  OBVIOUS
<1> HIDE DEF t
<1>2. \A i \in DOMAIN t : i \in DOMAIN fs \/ i = Len(fs) + 1
  BY <1>1
<1>3. Seqs(t) = Seqs(fs) \cup {f.sequence}
  BY <1>1, <1>2 DEF Seqs
<1>4. ASSUME Rising(fs), \A n \in Seqs(fs) : n < f.sequence PROVE Rising(t)
  <2> SUFFICES ASSUME NEW i \in DOMAIN t, NEW j \in DOMAIN t, i < j
               PROVE  t[i].sequence < t[j].sequence
    BY DEF Rising
  <2>1. i \in DOMAIN fs /\ t[i] = fs[i]
    BY <1>1
  <2>2. CASE j = Len(fs) + 1
    BY <1>1, <1>4, <2>1, <2>2 DEF Seqs
  <2>3. CASE j \in DOMAIN fs
    BY <1>1, <1>4, <2>1, <2>3 DEF Rising
  <2>4. QED BY <1>2, <2>2, <2>3
<1>5. QED BY <1>1, <1>3, <1>4 DEF t

(* The first frame is taken: the rest is of the later events.              *)
LEMMA HeadTaken ==
    ASSUME NEW fs \in Seq(FrameType), Rising(fs), fs # <<>>
    PROVE  /\ Tail(fs) \in Seq(FrameType) /\ Rising(Tail(fs))
           /\ Head(fs) \in FrameType /\ Head(fs).sequence \in Seqs(fs)
           /\ \A n \in Seqs(fs) : Head(fs).sequence <= n
           /\ Seqs(Tail(fs)) = Seqs(fs) \ {Head(fs).sequence}
<1> DEFINE t == Tail(fs)
<1>1. /\ t \in Seq(FrameType) /\ Len(t) = Len(fs) - 1 /\ Len(fs) \in Nat \ {0}
      /\ \A i \in 1..Len(t) : t[i] = fs[i + 1]
      /\ DOMAIN t = 1..(Len(fs) - 1) /\ DOMAIN fs = 1..Len(fs)
      /\ Head(fs) = fs[1] /\ fs[1] \in FrameType
      /\ \A i \in DOMAIN fs : fs[i] \in FrameType
  OBVIOUS
<1> HIDE DEF t
<1>2. \A i \in DOMAIN fs : i = 1 \/ (i - 1 \in DOMAIN t /\ t[i - 1] = fs[i])
  BY <1>1
<1>3. \A i \in DOMAIN t : i + 1 \in DOMAIN fs /\ i + 1 # 1 /\ 1 < i + 1 /\ t[i] = fs[i + 1]
  BY <1>1
<1>4. Rising(t)
  <2> SUFFICES ASSUME NEW i \in DOMAIN t, NEW j \in DOMAIN t, i < j
               PROVE  t[i].sequence < t[j].sequence
    BY DEF Rising
  <2>1. i + 1 < j + 1
    BY <1>1
  <2>2. QED BY <1>3, <2>1 DEF Rising
<1>5. \A i \in DOMAIN fs : fs[i].sequence \in Nat
  BY <1>1 DEF FrameType
<1>6. \A i \in DOMAIN fs : i # 1 => fs[1].sequence < fs[i].sequence
  <2>1. \A i \in DOMAIN fs : i # 1 => 1 < i /\ 1 \in DOMAIN fs
    BY <1>1
  <2>2. QED BY <2>1 DEF Rising
<1>7. 1 \in DOMAIN fs
  BY <1>1
<1>8. \A n \in Seqs(fs) : fs[1].sequence <= n
  <2> SUFFICES ASSUME NEW i \in DOMAIN fs PROVE fs[1].sequence <= fs[i].sequence
    BY DEF Seqs
  <2>1. QED BY <1>5, <1>6, <1>7
<1>9. Seqs(t) \subseteq Seqs(fs) \ {fs[1].sequence}
  <2> SUFFICES ASSUME NEW i \in DOMAIN t
               PROVE  t[i].sequence \in Seqs(fs) /\ t[i].sequence # fs[1].sequence
    BY DEF Seqs
  <2>1. QED BY <1>3, <1>5, <1>6, <1>7 DEF Seqs
<1>10. Seqs(fs) \ {fs[1].sequence} \subseteq Seqs(t)
  BY <1>2 DEF Seqs
<1>11. QED BY <1>1, <1>4, <1>7, <1>8, <1>9, <1>10 DEF t, Seqs

-----------------------------------------------------------------------------
(* The journal grows.                                                      *)

(* What is owed depends on the journal alone.                              *)
LEMMA OwedStays ==
    ASSUME log' = log
    PROVE  Latest' = Latest /\ \A n : Owed(n)' <=> Owed(n)
BY DEF Owed, StepDeltas, Latest

(* A new event may settle earlier ones, but makes none of them owed again. *)
LEMMA LogGrows ==
    ASSUME Types, NEW kind \in Kinds, log' = Append(log, kind)
    PROVE  /\ log' \in Seq(Kinds) /\ Latest \in Nat /\ Latest' = Latest + 1
           /\ log'[Latest + 1] = kind
           /\ \A n \in 1..Latest : log'[n] = log[n]
           /\ \A n \in 1..Latest : Owed(n)' => Owed(n)
           /\ \A n \in 1..Latest : Owed(n)' /\ kind = "answer" => n \notin StepDeltas(Latest + 1)
<1>1. /\ log' \in Seq(Kinds) /\ Latest \in Nat /\ Latest' = Latest + 1
      /\ log'[Latest + 1] = kind
      /\ \A n \in 1..Latest : log'[n] = log[n]
  BY DEF Types, Latest
<1> DEFINE L == Latest
<1>2. L \in Nat /\ Latest' = L + 1 /\ Latest = L
  BY <1>1
<1> HIDE DEF L
<1>3. ASSUME NEW m \in 1..(L + 1) PROVE StepDeltas(m)' = StepDeltas(m)
  <2>1. \A d \in 1..(m - 1) : d \in 1..L /\ d..(m - 1) \subseteq 1..L
    BY <1>2
  <2>2. \A d \in 1..L : log'[d] = log[d]
    BY <1>1, <1>2
  <2>3. \A d \in 1..(m - 1) :
          /\ log'[d] = log[d]
          /\ \A k \in d..(m - 1) : log'[k] = log[k]
    BY <2>1, <2>2
  <2>4. QED BY <2>3 DEF StepDeltas
<1>4. ASSUME NEW n \in 1..L, Owed(n)'
      PROVE  Owed(n) /\ (kind = "answer" => n \notin StepDeltas(L + 1))
  <2>1. /\ ~IsTransient(log'[n])
        /\ \A m \in n..(L + 1) : log'[m] = "answer" => n \notin StepDeltas(m)'
    BY <1>2, <1>4 DEF Owed, IsTransient
  <2>2. \A m \in n..L : m \in n..(L + 1) /\ m \in 1..L /\ m \in 1..(L + 1)
    BY <1>2
  <2>3. L + 1 \in n..(L + 1) /\ L + 1 \in 1..(L + 1)
    BY <1>2
  <2>4. ~IsTransient(log[n]) /\ \A m \in n..L : log[m] = "answer" => n \notin StepDeltas(m)
    BY <1>1, <1>2, <1>3, <2>1, <2>2
  <2>5. kind = "answer" => n \notin StepDeltas(L + 1)
    BY <1>1, <1>2, <1>3, <2>1, <2>3
  <2>6. QED BY <1>2, <2>4, <2>5 DEF Owed
<1>5. QED BY <1>1, <1>2, <1>4

(* The deltas a completed message replaces are not owed.                   *)
LEMMA ReplacedNotOwed ==
    ASSUME Types, NEW n \in 1..Latest, log[n] = "answer"
    PROVE  \A d \in StepDeltas(n) : ~Owed(d)
<1>1. Latest \in Nat
  BY DEF Types, Latest
<1>2. \A d \in StepDeltas(n) : d \in 1..(n - 1)
  BY DEF StepDeltas
<1>3. \A d \in StepDeltas(n) : n \in d..Latest
  BY <1>1, <1>2
<1>4. QED BY <1>3 DEF Owed

(* store_event keeps every owed event, and adds only the new one.          *)
LEMMA EventStored ==
    ASSUME Types, StoredInv, NEW kind \in Kinds, StoreEvent(kind)
    PROVE  /\ log' \in Seq(Kinds) /\ Latest \in Nat /\ Latest' = Latest + 1
           /\ \A n \in 1..Latest : Owed(n)' => Owed(n)
           /\ StoredInv' /\ stored' \subseteq 1..Latest'
           /\ \A n \in stored' : n \in 1..Latest => n \in stored
<1>1. /\ log' \in Seq(Kinds) /\ Latest \in Nat /\ Latest' = Latest + 1
      /\ log'[Latest + 1] = kind
      /\ \A n \in 1..Latest : log'[n] = log[n]
      /\ \A n \in 1..Latest : Owed(n)' => Owed(n)
      /\ \A n \in 1..Latest : Owed(n)' /\ kind = "answer" => n \notin StepDeltas(Latest + 1)
  BY LogGrows DEF StoreEvent
<1>2. stored \subseteq 1..Latest
  BY DEF Types
<1>3. \A n : n = Latest + 1 /\ Owed(n)' => ~IsTransient(kind)
  BY <1>1 DEF Owed, IsTransient
<1>4. stored' = CASE kind = "answer" -> (stored \cup {Latest + 1}) \ StepDeltas(Latest + 1)
                  [] IsTransient(kind) -> stored
                  [] OTHER -> stored \cup {Latest + 1}
  BY DEF StoreEvent, Journalled
<1>5. Latest + 1 \notin StepDeltas(Latest + 1)
  <2>1. Latest + 1 \notin 1..((Latest + 1) - 1)
    BY <1>1
  <2>2. QED BY <2>1 DEF StepDeltas
<1>6. stored' \subseteq stored \cup {Latest + 1}
  BY <1>4
<1>7. stored' \subseteq 1..Latest'
  BY <1>1, <1>2, <1>6
<1>8. \A n \in stored' : n \in 1..Latest => n \in stored
  BY <1>1, <1>6
<1>9. ASSUME NEW n \in 1..Latest', Owed(n)' PROVE n \in stored'
  <2>1. CASE n = Latest + 1
    <3>1. ~IsTransient(kind)
      BY <1>3, <1>9, <2>1
    <3>2. QED BY <1>4, <1>5, <2>1, <3>1
  <2>2. CASE n \in 1..Latest
    <3>1. n \in stored
      BY <1>1, <1>9, <2>2 DEF StoredInv
    <3>2. kind = "answer" => n \notin StepDeltas(Latest + 1)
      BY <1>1, <1>9, <2>2
    <3>3. QED BY <1>4, <3>1, <3>2
  <2>3. QED BY <1>1, <2>1, <2>2
<1>10. StoredInv'
  BY <1>9 DEF StoredInv
<1>11. QED BY <1>1, <1>7, <1>8, <1>10

-----------------------------------------------------------------------------
(* What leaves a client's part of the invariant alone.                     *)

(* Frames and whole transcripts are told apart by their fields.            *)
LEMMA FrameOrWhole ==
    /\ \A f \in FrameType : "base" \notin DOMAIN f /\ f.sequence \in Nat
    /\ \A f \in SnapshotType : "base" \in DOMAIN f /\ f \in ViewType /\ f.base \in Nat /\ f.frames = <<>>
<1>1. ASSUME NEW f \in FrameType PROVE "base" \notin DOMAIN f /\ f.sequence \in Nat
  BY DEF FrameType
<1>2. ASSUME NEW f \in SnapshotType
      PROVE  "base" \in DOMAIN f /\ f \in ViewType /\ f.base \in Nat /\ f.frames = <<>>
  <2>1. f = [base |-> f.base, frames |-> f.frames] /\ f.base \in Nat /\ f.frames = <<>>
    BY DEF SnapshotType
  <2>2. <<>> \in Seq(Nat)
    OBVIOUS
  <2>3. f \in ViewType
    BY <2>1, <2>2 DEF ViewType
  <2>4. "base" \in DOMAIN f
    BY DEF SnapshotType
  <2>5. QED BY <2>1, <2>3, <2>4
<1>3. QED BY <1>1, <1>2

(* Where a client is.                                                      *)
LEMMA PositionIs ==
    ASSUME NEW c \in Clients, view[c] \in ViewType
    PROVE  /\ Position(c) \in Nat /\ view[c].base \in Nat /\ view[c].frames \in Seq(Nat)
           /\ view[c].frames = <<>> => Position(c) = view[c].base
           /\ view[c].frames # <<>> => Position(c) = view[c].frames[Len(view[c].frames)]
<1>1. view[c].base \in Nat /\ view[c].frames \in Seq(Nat)
  BY DEF ViewType
<1> DEFINE fs == view[c].frames
<1>2. fs # <<>> => Last(fs) = fs[Len(fs)] /\ Last(fs) \in Nat
  <2>1. fs # <<>> => Len(fs) \in 1..Len(fs)
    BY <1>1
  <2>2. QED BY <1>1, <2>1 DEF Last
<1>3. QED BY <1>1, <1>2 DEF Position

(* Nothing becomes owed again, and no start-up leaves rolledBack.          *)
Steady ==
    /\ Latest' \in Nat /\ Latest <= Latest'
    /\ \A n \in 1..Latest : Owed(n)' => Owed(n)
    /\ rolledBack \subseteq rolledBack'

(* Both hold while no event is committed.                                 *)
LEMMA SameJournal ==
    ASSUME Types, log' = log, rolledBack \subseteq rolledBack'
    PROVE  Steady
<1>1. Latest \in Nat
  BY DEF Types, Latest
<1>2. QED BY <1>1, OwedStays DEF Steady

(* A client that shows what it showed.                                     *)
LEMMA ViewStays ==
    ASSUME Types, Steady, NEW c \in Clients, ViewInv(c), view'[c] = view[c]
    PROVE  ViewInv(c)'
<1>1. /\ Latest \in Nat /\ Latest' \in Nat /\ Latest <= Latest'
      /\ Position(c) \in Nat /\ view[c].base \in Nat
  BY PositionIs DEF Types, Latest, Steady
<1>2. Position(c)' = Position(c)
  BY DEF Position
<1>3. \A n \in (view[c].base + 1)..Position(c) : n \in 1..Latest
  BY <1>1 DEF ViewInv
<1>4. Position(c) <= Latest'
  BY <1>1 DEF ViewInv
<1>5. \A n \in (view[c].base + 1)..Position(c) :
        Owed(n)' => n \in Range(view[c].frames) \cup rolledBack'
  BY <1>3 DEF ViewInv, Steady
<1>6. \A i \in 1..(Len(view[c].frames) - 1) : view[c].frames[i] < view[c].frames[i + 1]
  BY DEF ViewInv
<1>7. QED BY <1>2, <1>4, <1>5, <1>6 DEF ViewInv

(* A client whose answer is what it was.                                   *)
LEMMA AnswerStays ==
    ASSUME Types, Steady, NEW c \in Clients, AnswerInv(c), view'[c] = view[c],
           sequence' \in Nat, sequence <= sequence',
           conn'[c].phase = conn[c].phase, conn'[c].out = conn[c].out,
           conn'[c].delivered = conn[c].delivered
    PROVE  AnswerInv(c)'
<1> SUFFICES ASSUME conn[c].phase \in {"opening", "open"}
             PROVE  AnswerInv(c)'
  BY DEF AnswerInv
<1>1. /\ Latest \in Nat /\ sequence \in Nat /\ sequence <= Latest /\ conn[c].delivered \in Nat
      /\ Position(c) \in Nat
  BY PositionIs DEF Types, Latest, ConnType
<1>2. Position(c)' = Position(c)
  BY DEF Position
<1>3. conn[c].delivered <= sequence
  BY DEF AnswerInv
<1>4. \A n \in (Position(c) + 1)..conn[c].delivered : n \in 1..Latest
  BY <1>1, <1>3
<1>5. conn[c].delivered <= sequence'
  BY <1>1, <1>3
<1>6. /\ conn[c].phase = "open" <=> conn[c].out = <<>>
      /\ IsWhole(conn[c]) => Len(conn[c].out) = 1 /\ conn[c].out[1].base = conn[c].delivered
      /\ ~IsWhole(conn[c]) =>
           /\ conn[c].out \in Seq(FrameType) /\ Rising(conn[c].out)
           /\ Position(c) <= conn[c].delivered
           /\ Seqs(conn[c].out) \subseteq (Position(c) + 1)..conn[c].delivered
           /\ \A n \in (Position(c) + 1)..conn[c].delivered :
                Owed(n)' => n \in Seqs(conn[c].out) \cup rolledBack'
  BY <1>4 DEF AnswerInv, Steady
<1>7. IsWhole(conn[c])' <=> IsWhole(conn[c])
  BY DEF IsWhole
<1>8. QED BY <1>2, <1>5, <1>6, <1>7 DEF AnswerInv

(* A client whose queue is what it was, while no event is numbered and     *)
(* none leaves what is withheld.                                           *)
LEMMA QueueStays ==
    ASSUME NEW c \in Clients, QueueInv(c), conn'[c] = conn[c], sequence' = sequence,
           Withheld \subseteq Withheld', rolledBack \subseteq rolledBack'
    PROVE  QueueInv(c)'
<1> SUFFICES ASSUME conn[c].phase # "closed", ~conn[c].lagged
             PROVE  QueueInv(c)'
  BY DEF QueueInv
<1>1. /\ Seqs(conn[c].queue) \subseteq 1..sequence
      /\ conn[c].phase # "subscribed" =>
           /\ \A n \in (conn[c].delivered + 1)..sequence : n \in Seqs(conn[c].queue) \cup Withheld'
           /\ \A i \in DOMAIN conn[c].queue, n \in (conn[c].delivered + 1)..sequence :
                n < conn[c].queue[i].sequence /\ n \notin rolledBack' =>
                  \E j \in DOMAIN conn[c].queue : j < i /\ conn[c].queue[j].sequence = n
  BY DEF QueueInv
<1>2. QED BY <1>1 DEF QueueInv

(* A client without a connection.                                          *)
LEMMA ClosedType == Closed \in ConnType /\ Closed.phase = "closed"
BY NoFrames DEF Closed, ConnType

(* Nothing is said of what it is still to get.                             *)
LEMMA ClosedClient ==
    ASSUME NEW c \in Clients, conn'[c].phase = "closed"
    PROVE  QueueInv(c)' /\ AnswerInv(c)'
BY DEF QueueInv, AnswerInv

(* The broadcast queue takes frames, or the client has lost some.          *)
LEMMA BroadcastIs ==
    ASSUME NEW k \in ConnType, NEW fs \in Seq(FrameType)
    PROVE  LET b == Broadcast(k, fs) IN
           /\ b \in ConnType
           /\ b.phase = k.phase /\ b.out = k.out /\ b.delivered = k.delivered
           /\ k.phase # "closed" /\ ~b.lagged => ~k.lagged /\ b.queue = k.queue \o fs
<1> DEFINE q == k.queue \o fs
           e == Len(q) - BroadcastCapacity
           r == SubSeq(q, e + 1, Len(q))
<1>1. BroadcastCapacity \in Nat \ {0}
  BY CapacitiesArePositive
<1>2. q \in Seq(FrameType) /\ Len(q) \in Nat
  BY DEF ConnType
<1>3. ~(e <= 0) => r \in Seq(FrameType)
  <2>1. ~(e <= 0) => e + 1 \in 1..Len(q)
    BY <1>1, <1>2
  <2> HIDE DEF e, q
  <2>2. QED BY <1>2, <2>1, SubSeqProperties
<1>4. Broadcast(k, fs) = IF k.phase = "closed" THEN k
                         ELSE IF e <= 0 THEN [k EXCEPT !.queue = q]
                         ELSE [k EXCEPT !.queue = r, !.lagged = TRUE]
  BY DEF Broadcast, Enqueued
<1> HIDE DEF q, e, r
<1>5. CASE k.phase = "closed"
  BY <1>4, <1>5
<1>6. CASE k.phase # "closed" /\ e <= 0
  <2>1. Broadcast(k, fs) = [k EXCEPT !.queue = q]
    BY <1>4, <1>6
  <2>2. QED BY <1>2, <2>1 DEF ConnType, q
<1>7. CASE k.phase # "closed" /\ ~(e <= 0)
  <2>1. Broadcast(k, fs) = [k EXCEPT !.queue = r, !.lagged = TRUE] /\ r \in Seq(FrameType)
    BY <1>3, <1>4, <1>7
  <2>2. QED BY <2>1 DEF ConnType
<1>8. QED BY <1>5, <1>6, <1>7

-----------------------------------------------------------------------------
(* Steps of one connection.                                                *)

(* A step of client c keeps the invariant of the actor and of the others.  *)
LEMMA OneClient ==
    ASSUME IInv, NEW c \in Clients, NEW k \in ConnType, NEW v \in ViewType,
           UNCHANGED <<log, stored, fed, actor, load, sequence, window, pending, rolledBack>>,
           conn' = [conn EXCEPT ![c] = k], view' = [view EXCEPT ![c] = v],
           k.phase # "closed" => actor \in {"up", "replacing"}
    PROVE  /\ Types' /\ HostInv' /\ Steady
           /\ conn'[c] = k /\ view'[c] = v
           /\ QueueInv(c)' /\ AnswerInv(c)' /\ ViewInv(c)' => IInv'
<1>1. /\ Types /\ StoredInv /\ LoadInv /\ WindowInv /\ ActorInv
      /\ \A d \in Clients : QueueInv(d) /\ AnswerInv(d) /\ ViewInv(d)
  BY DEF IInv, HostInv
<1>2. conn \in [Clients -> ConnType] /\ view \in [Clients -> ViewType]
  BY <1>1 DEF Types
<1>3. /\ conn' \in [Clients -> ConnType] /\ view' \in [Clients -> ViewType]
      /\ conn'[c] = k /\ view'[c] = v
      /\ \A d \in Clients : d # c => conn'[d] = conn[d] /\ view'[d] = view[d]
  BY <1>2
<1>4. Types'
  BY <1>1, <1>3 DEF Types, Latest
<1>5. Latest' = Latest /\ \A n : Owed(n)' <=> Owed(n)
  BY OwedStays
<1>6. Steady
  BY <1>1, SameJournal
<1>7. HostInv'
  <2>1. StoredInv'
    BY <1>1, <1>5 DEF StoredInv
  <2>2. LoadInv'
    BY <1>1, <1>5 DEF LoadInv
  <2>3. WindowInv'
    BY <1>1, <1>5 DEF WindowInv, Unbroken, Seqs, Rising
  <2>4. \A d \in Clients : conn'[d].phase # "closed" => actor \in {"up", "replacing"}
    BY <1>1, <1>3 DEF ActorInv
  <2>5. ActorInv'
    BY <1>1, <2>4 DEF ActorInv, Seqs, Rising
  <2>6. QED BY <2>1, <2>2, <2>3, <2>5 DEF HostInv
<1>8. ASSUME NEW d \in Clients, d # c PROVE QueueInv(d)' /\ AnswerInv(d)' /\ ViewInv(d)'
  <2>1. Withheld' = Withheld
    BY DEF Withheld, Seqs
  <2>2. QueueInv(d)'
    BY <1>1, <1>3, <1>8, <2>1, QueueStays
  <2>3. sequence' \in Nat /\ sequence <= sequence'
    BY <1>1 DEF Types
  <2>4. AnswerInv(d)'
    BY <1>1, <1>3, <1>6, <1>8, <2>3, AnswerStays
  <2>5. ViewInv(d)'
    BY <1>1, <1>3, <1>6, <1>8, ViewStays
  <2>6. QED BY <2>2, <2>4, <2>5
<1>9. QueueInv(c)' /\ AnswerInv(c)' /\ ViewInv(c)' => IInv'
  BY <1>4, <1>7, <1>8 DEF IInv
<1>10. QED BY <1>3, <1>4, <1>6, <1>7, <1>9

(* A connection that ends.                                                 *)
LEMMA ClosingStep ==
    ASSUME IInv, NEW c \in Clients, Lagged(c) \/ Disconnect(c)
    PROVE  IInv'
<1>1. /\ UNCHANGED <<log, stored, fed, actor, load, sequence, window, pending, rolledBack, view>>
      /\ conn' = [conn EXCEPT ![c] = Closed]
  BY DEF Lagged, Disconnect, journal, host
<1>2. view \in [Clients -> ViewType] /\ Types /\ ViewInv(c)
  BY DEF IInv, Types
<1>3. view' = [view EXCEPT ![c] = view[c]] /\ view[c] \in ViewType
  BY <1>1, <1>2
<1>4. /\ Types' /\ HostInv' /\ Steady
      /\ conn'[c] = Closed /\ view'[c] = view[c]
      /\ QueueInv(c)' /\ AnswerInv(c)' /\ ViewInv(c)' => IInv'
  BY <1>1, <1>3, OneClient, ClosedType
<1>5. QueueInv(c)' /\ AnswerInv(c)'
  BY <1>4, ClosedType, ClosedClient
<1>6. ViewInv(c)'
  BY <1>2, <1>4, ViewStays
<1>7. QED BY <1>4, <1>5, <1>6

(* A subscription, which is not yet behind any snapshot.                   *)
LEMMA SubscribeStep ==
    ASSUME IInv, NEW c \in Clients, Subscribe(c)
    PROVE  IInv'
<1> DEFINE k == [Closed EXCEPT !.phase = "subscribed"]
<1>1. /\ UNCHANGED <<log, stored, fed, actor, load, sequence, window, pending, rolledBack, view>>
      /\ conn' = [conn EXCEPT ![c] = k] /\ actor \in {"up", "replacing"}
  BY DEF Subscribe, journal, host
<1>2. k \in ConnType /\ k.phase = "subscribed" /\ k.queue = <<>>
  <2>1. Closed \in ConnType /\ Closed.queue = <<>>
    BY ClosedType DEF Closed
  <2>2. \A x \in ConnType : LET y == [x EXCEPT !.phase = "subscribed"] IN
          y \in ConnType /\ y.phase = "subscribed" /\ y.queue = x.queue
    BY DEF ConnType
  <2>3. QED BY <2>1, <2>2
<1> HIDE DEF k
<1>3. view \in [Clients -> ViewType] /\ Types /\ ViewInv(c)
  BY DEF IInv, Types
<1>4. view' = [view EXCEPT ![c] = view[c]] /\ view[c] \in ViewType
  BY <1>1, <1>3
<1>5. /\ Types' /\ HostInv' /\ Steady
      /\ conn'[c] = k /\ view'[c] = view[c]
      /\ QueueInv(c)' /\ AnswerInv(c)' /\ ViewInv(c)' => IInv'
  BY <1>1, <1>2, <1>4, OneClient
<1>6. QueueInv(c)' /\ AnswerInv(c)'
  BY <1>2, <1>5, NoFrames DEF QueueInv, AnswerInv
<1>7. ViewInv(c)'
  BY <1>3, <1>5, ViewStays
<1>8. QED BY <1>5, <1>6, <1>7

(* replay_after: the window leads a client that it did not expire from its *)
(* position to the sequence.                                               *)
LEMMA WindowLeads ==
    ASSUME Types, WindowInv, NEW p \in Nat, InWindow(p)
    PROVE  /\ p <= sequence
           /\ ReplayAfter(p) \in Seq(FrameType) /\ Rising(ReplayAfter(p))
           /\ Seqs(ReplayAfter(p)) \subseteq (p + 1)..sequence
           /\ \A n \in (p + 1)..sequence : Owed(n) => n \in Seqs(ReplayAfter(p))
<1> DEFINE I == {i \in DOMAIN window : window[i].sequence > p}
<1>1. /\ window \in Seq(FrameType) /\ Rising(window) /\ sequence \in Nat
      /\ Seqs(window) \subseteq 1..sequence /\ Unbroken(Seqs(window), sequence)
      /\ p <= sequence /\ ~Expired(p)
  BY DEF Types, WindowInv, InWindow
<1>2. /\ ReplayAfter(p) \in Seq(FrameType) /\ Rising(ReplayAfter(p))
      /\ Seqs(ReplayAfter(p)) = {window[i].sequence : i \in I}
  BY <1>1, SelectedFrames DEF ReplayAfter
<1>3. \A n : n \in Seqs(ReplayAfter(p)) <=> n \in Seqs(window) /\ n > p
  BY <1>2 DEF Seqs
<1>4. Seqs(ReplayAfter(p)) \subseteq (p + 1)..sequence
  BY <1>1, <1>3
<1>5. ASSUME NEW n \in (p + 1)..sequence, Owed(n) PROVE n \in Seqs(ReplayAfter(p))
  <2>1. p < sequence
    BY <1>1
  <2>2. window # <<>> /\ ~(p + 1 < Head(window).sequence)
    BY <1>1, <2>1 DEF Expired
  <2>3. Head(window).sequence \in Seqs(window) /\ Head(window).sequence \in Nat
    BY <1>1, <2>2, HeadTaken, SeqsAre
  <2>4. n \in Head(window).sequence..sequence /\ n > p
    BY <1>1, <2>2, <2>3
  <2>5. n \in Seqs(window)
    BY <1>1, <1>5, <2>3, <2>4 DEF Unbroken
  <2>6. QED BY <1>3, <2>4, <2>5
<1>6. QED BY <1>1, <1>2, <1>4, <1>5

(* The answer to an opening: the whole transcript, or the frames that lead *)
(* on from what the client shows.                                          *)
LEMMA SnapshotStep ==
    ASSUME IInv, NEW c \in Clients, NEW last \in {None, Position(c)}, Snapshot(c, last)
    PROVE  IInv'
<1> DEFINE out == IF InWindow(last) THEN ReplayAfter(last) ELSE <<Whole>>
           k == [conn[c] EXCEPT !.phase = PhaseWith(out), !.delivered = sequence, !.out = out]
<1>1. /\ UNCHANGED <<log, stored, fed, actor, load, sequence, window, pending, rolledBack, view>>
      /\ conn' = [conn EXCEPT ![c] = k]
      /\ actor = "up"
  BY DEF Snapshot, journal, host
<1>2. /\ Types /\ WindowInv /\ ViewInv(c) /\ QueueInv(c)
      /\ view \in [Clients -> ViewType] /\ conn[c] \in ConnType /\ sequence \in Nat
      /\ Seqs(conn[c].queue) \subseteq 1..sequence \/ conn[c].lagged
  <2>1. Types /\ WindowInv /\ ViewInv(c) /\ QueueInv(c)
    BY DEF IInv, HostInv
  <2>2. conn[c].phase # "closed"
    BY DEF Snapshot
  <2>3. QED BY <2>1, <2>2 DEF Types, QueueInv
<1>3. view' = [view EXCEPT ![c] = view[c]] /\ view[c] \in ViewType
  BY <1>1, <1>2
<1>4. Position(c) \in Nat
  BY <1>3, PositionIs
<1>5. ASSUME InWindow(last)
      PROVE  /\ out \in Seq(FrameType) /\ Rising(out)
             /\ Position(c) <= sequence /\ Seqs(out) \subseteq (Position(c) + 1)..sequence
             /\ \A n \in (Position(c) + 1)..sequence : Owed(n) => n \in Seqs(out)
  <2>1. last = Position(c)
    BY <1>5 DEF InWindow
  <2>2. QED BY <1>2, <1>4, <1>5, <2>1, WindowLeads
<1>6. ASSUME ~InWindow(last)
      PROVE  out = <<Whole>> /\ Whole \in SnapshotType /\ Whole.base = sequence
  BY <1>2, <1>6 DEF Whole, SnapshotType
<1>7. out \in Seq(FrameType \cup SnapshotType)
  <2>1. CASE InWindow(last)
    BY <1>5, <2>1
  <2>2. CASE ~InWindow(last)
    <3>1. Whole \in FrameType \cup SnapshotType /\ out = <<Whole>>
      BY <1>6, <2>2
    <3> HIDE DEF out
    <3>2. QED BY <3>1
  <2>3. QED BY <2>1, <2>2
<1>8. InWindow(last) \/ out = <<Whole>>
  OBVIOUS
<1> HIDE DEF out
<1>9. PhaseWith(out) \in {"open", "opening"} /\ (PhaseWith(out) = "open" <=> out = <<>>)
  BY DEF PhaseWith
<1>10. /\ k \in ConnType /\ k.phase = PhaseWith(out) /\ k.delivered = sequence /\ k.out = out
       /\ k.queue = conn[c].queue /\ k.lagged = conn[c].lagged
  BY <1>2, <1>7, <1>9 DEF ConnType
<1> HIDE DEF k
<1>11. /\ Types' /\ HostInv' /\ Steady
       /\ conn'[c] = k /\ view'[c] = view[c]
       /\ QueueInv(c)' /\ AnswerInv(c)' /\ ViewInv(c)' => IInv'
  BY <1>1, <1>3, <1>10, OneClient
<1>12. ViewInv(c)'
  BY <1>2, <1>11, ViewStays
<1>13. \A n : n \notin (sequence + 1)..sequence
  BY <1>2
<1>14. QueueInv(c)'
  BY <1>1, <1>2, <1>10, <1>11, <1>13 DEF QueueInv
<1>15. Position(c)' = Position(c) /\ sequence' = sequence /\ \A n : Owed(n)' <=> Owed(n)
  BY <1>1, <1>11, OwedStays DEF Position
<1>16. AnswerInv(c)'
  <2>1. CASE InWindow(last)
    <3>1. ~IsWhole(k)
      <4>1. out # <<>> => out[1] \in FrameType
        BY <1>5, <2>1
      <4>2. QED BY <1>10, <4>1, FrameOrWhole DEF IsWhole
    <3>2. sequence <= sequence
      BY <1>2
    <3>3. QED BY <1>5, <1>9, <1>10, <1>11, <1>15, <2>1, <3>1, <3>2 DEF AnswerInv, IsWhole
  <2>2. CASE ~InWindow(last)
    <3>1. out = <<Whole>> /\ Whole \in SnapshotType /\ Whole.base = sequence
      BY <1>6, <2>2
    <3>2. out # <<>> /\ Len(out) = 1 /\ out[1] = Whole
      BY <3>1
    <3>3. IsWhole(k)
      BY <1>10, <3>1, <3>2, FrameOrWhole DEF IsWhole
    <3>4. sequence <= sequence
      BY <1>2
    <3>5. QED BY <1>9, <1>10, <1>11, <1>15, <3>1, <3>2, <3>3, <3>4 DEF AnswerInv, IsWhole
  <2>3. QED BY <2>1, <2>2
<1>17. QED BY <1>11, <1>12, <1>14, <1>16

(* A client shows one more frame: the next of what it is owed.             *)
LEMMA FrameShown ==
    ASSUME Types, NEW c \in Clients, ViewInv(c), NEW s \in Nat, Position(c) < s, s <= Latest,
           \A n \in (Position(c) + 1)..s : Owed(n) => n = s \/ n \in rolledBack,
           view'[c] = [view[c] EXCEPT !.frames = Append(view[c].frames, s)],
           UNCHANGED <<log, rolledBack>>
    PROVE  Position(c)' = s /\ ViewInv(c)'
<1> DEFINE fs == view[c].frames
           gs == Append(fs, s)
<1>1. /\ view[c] \in ViewType /\ view[c].base \in Nat /\ fs \in Seq(Nat) /\ Position(c) \in Nat
      /\ fs = <<>> => Position(c) = view[c].base
      /\ fs # <<>> => Position(c) = fs[Len(fs)]
  BY PositionIs DEF Types
<1>2. view'[c].frames = gs /\ view'[c].base = view[c].base
  BY <1>1 DEF ViewType
<1> HIDE DEF fs
<1>3. /\ gs \in Seq(Nat) /\ Len(gs) = Len(fs) + 1 /\ Len(fs) \in Nat /\ gs # <<>>
      /\ \A i \in 1..Len(fs) : gs[i] = fs[i] /\ fs[i] \in Nat
      /\ gs[Len(fs) + 1] = s /\ DOMAIN gs = 1..(Len(fs) + 1) /\ DOMAIN fs = 1..Len(fs)
      /\ fs # <<>> <=> Len(fs) # 0
  <2>1. fs \in Seq(Nat)
    BY <1>1
  <2>2. fs # <<>> <=> Len(fs) # 0
    BY <2>1
  <2>3. /\ gs \in Seq(Nat) /\ Len(gs) = Len(fs) + 1 /\ Len(fs) \in Nat
        /\ \A i \in 1..Len(fs) : gs[i] = fs[i] /\ fs[i] \in Nat
        /\ gs[Len(fs) + 1] = s /\ DOMAIN gs = 1..(Len(fs) + 1) /\ DOMAIN fs = 1..Len(fs)
    BY <2>1
  <2>4. gs # <<>>
    BY <2>1
  <2>5. QED BY <2>2, <2>3, <2>4
<1> HIDE DEF gs
<1>4. Position(c)' = s
  BY <1>2, <1>3 DEF Position, Last
<1>5. ASSUME NEW i \in 1..(Len(gs) - 1) PROVE gs[i] < gs[i + 1]
  <2>1. i \in 1..Len(fs) /\ i \in Nat
    BY <1>3
  <2>2. CASE i = Len(fs)
    <3>1. Position(c) = fs[i] /\ gs[i] = fs[i] /\ gs[i + 1] = s
      BY <1>1, <1>3, <2>1, <2>2
    <3>2. QED BY <3>1
  <2>3. CASE i # Len(fs)
    <3>1. i \in 1..(Len(fs) - 1) /\ i + 1 \in 1..Len(fs)
      BY <1>3, <2>1, <2>3
    <3>2. fs[i] < fs[i + 1]
      BY <3>1 DEF ViewInv, fs
    <3>3. QED BY <1>3, <2>1, <3>1, <3>2
  <2>4. QED BY <2>2, <2>3
<1>6. \A n : n \in Range(fs) \/ n = s => n \in Range(gs)
  <2>1. \A i \in DOMAIN fs : i \in DOMAIN gs /\ gs[i] = fs[i]
    BY <1>3
  <2>2. Len(fs) + 1 \in DOMAIN gs
    BY <1>3
  <2>3. QED BY <1>3, <2>1, <2>2 DEF Range
<1>7. ASSUME NEW n \in (view[c].base + 1)..s, Owed(n) PROVE n \in Range(gs) \cup rolledBack
  <2>1. CASE n <= Position(c)
    <3>1. n \in (view[c].base + 1)..Position(c)
      BY <1>1, <2>1
    <3>2. n \in Range(fs) \cup rolledBack
      BY <1>7, <3>1 DEF ViewInv, fs
    <3>3. QED BY <1>6, <3>2
  <2>2. CASE ~(n <= Position(c))
    <3>1. n \in (Position(c) + 1)..s
      BY <1>1, <2>2
    <3>2. QED BY <1>6, <1>7, <3>1
  <2>3. QED BY <2>1, <2>2
<1>8. Latest' = Latest /\ \A n : Owed(n)' <=> Owed(n)
  BY OwedStays
<1>9. ViewInv(c)'
  BY <1>2, <1>4, <1>5, <1>7, <1>8 DEF ViewInv
<1>10. QED BY <1>4, <1>9

(* One more frame of an answer that is written.                            *)
LEMMA WriteStep ==
    ASSUME IInv, NEW c \in Clients, Write(c)
    PROVE  IInv'
<1> DEFINE o == conn[c].out
           f == Head(o)
           k == [conn[c] EXCEPT !.out = Tail(o), !.phase = PhaseWith(Tail(o))]
           v == Shown(view[c], f)
<1>1. /\ Types /\ AnswerInv(c) /\ ViewInv(c) /\ QueueInv(c) /\ ActorInv
      /\ view \in [Clients -> ViewType] /\ conn \in [Clients -> ConnType]
      /\ view[c] \in ViewType /\ conn[c] \in ConnType /\ sequence \in Nat /\ sequence <= Latest
      /\ Latest \in Nat
  BY DEF IInv, HostInv, Types, Latest
<1>2. /\ UNCHANGED <<log, stored, fed, actor, load, sequence, window, pending, rolledBack>>
      /\ conn' = [conn EXCEPT ![c] = k] /\ view' = [view EXCEPT ![c] = v]
      /\ conn[c].phase = "opening"
  BY <1>1 DEF Write, journal, host, ConnType
<1>3. o # <<>> /\ o \in Seq(FrameType \cup SnapshotType) /\ conn[c].delivered \in Nat
      /\ conn[c].delivered <= sequence
  BY <1>1, <1>2 DEF AnswerInv, ConnType
<1>4. f = o[1] /\ f \in FrameType \cup SnapshotType /\ Tail(o) \in Seq(FrameType \cup SnapshotType)
  BY <1>3
<1>5. PhaseWith(Tail(o)) \in {"open", "opening"} /\ (PhaseWith(Tail(o)) = "open" <=> Tail(o) = <<>>)
  BY DEF PhaseWith
<1>6. actor \in {"up", "replacing"}
  BY <1>1, <1>2 DEF ActorInv
<1>7. Position(c) \in Nat /\ view[c].base \in Nat /\ view[c].frames \in Seq(Nat)
  BY <1>1, PositionIs
<1>8. v \in ViewType
  <2>1. CASE f \in FrameType
    <3>1. v = [view[c] EXCEPT !.frames = Append(view[c].frames, f.sequence)] /\ f.sequence \in Nat
      BY <1>1, <2>1, FrameOrWhole DEF Shown, ViewType
    <3> HIDE DEF v, f
    <3>2. Append(view[c].frames, f.sequence) \in Seq(Nat)
      BY <1>7, <3>1
    <3>3. QED BY <1>1, <3>1, <3>2 DEF ViewType
  <2>2. CASE f \in SnapshotType
    BY <2>2, FrameOrWhole DEF Shown
  <2>3. QED BY <1>4, <2>1, <2>2
<1> HIDE DEF v, f
<1>9. /\ k \in ConnType /\ k.phase = PhaseWith(Tail(o)) /\ k.out = Tail(o)
      /\ k.delivered = conn[c].delivered /\ k.queue = conn[c].queue /\ k.lagged = conn[c].lagged
  <2> HIDE DEF o
  <2>1. QED BY <1>1, <1>4, <1>5 DEF ConnType
<1> HIDE DEF k
<1>10. /\ Types' /\ HostInv' /\ Steady
       /\ conn'[c] = k /\ view'[c] = v
       /\ QueueInv(c)' /\ AnswerInv(c)' /\ ViewInv(c)' => IInv'
  BY <1>1, <1>2, <1>6, <1>8, <1>9, OneClient
<1>11. QueueInv(c)'
  <2>1. Withheld' = Withheld
    BY <1>2 DEF Withheld, Seqs
  <2>2. k.phase # "subscribed"
    BY <1>5, <1>9
  <2>3. conn[c].phase # "closed" /\ conn[c].phase # "subscribed"
    BY <1>2
  <2>4. QED BY <1>1, <1>2, <1>9, <1>10, <2>1, <2>2, <2>3 DEF QueueInv
<1>12. Latest' = Latest /\ sequence' = sequence /\ \A n : Owed(n)' <=> Owed(n)
  BY <1>2, OwedStays
<1>13. CASE IsWhole(conn[c])
  <2>1. Len(o) = 1 /\ o[1].base = conn[c].delivered /\ "base" \in DOMAIN o[1]
    BY <1>1, <1>2, <1>13 DEF AnswerInv, IsWhole
  <2>2. f \in SnapshotType /\ f.base = conn[c].delivered /\ v = f /\ f.frames = <<>>
    BY <1>4, <2>1, FrameOrWhole DEF v, Shown
  <2>3. Position(c)' = conn[c].delivered
    BY <1>10, <2>2 DEF Position
  <2>4. ViewInv(c)'
    <3>1. \A n : n \notin (conn[c].delivered + 1)..conn[c].delivered
      BY <1>3
    <3>2. conn[c].delivered <= Latest
      BY <1>1, <1>3
    <3>3. Len(<<>>) = 0 /\ \A i : i \notin 1..(0 - 1)
      OBVIOUS
    <3>4. QED BY <1>10, <1>12, <2>2, <2>3, <3>1, <3>2, <3>3 DEF ViewInv
  <2>5. Tail(o) = <<>>
    <3> HIDE DEF o
    <3> DEFINE t == Tail(o)
    <3>1. t \in Seq(FrameType \cup SnapshotType) /\ Len(t) = 0
      BY <1>3, <2>1
    <3> HIDE DEF t
    <3>2. t = <<>>
      BY <3>1
    <3>3. QED BY <3>2 DEF t
  <2>6. ~IsWhole(k) /\ k.phase = "open" /\ k.out = <<>>
    BY <1>5, <1>9, <2>5 DEF IsWhole
  <2>7. AnswerInv(c)'
    <3>1. \A n : n \notin (conn[c].delivered + 1)..conn[c].delivered
      BY <1>3
    <3>2. conn[c].delivered <= conn[c].delivered
      BY <1>3
    <3>3. QED BY <1>3, <1>9, <1>10, <1>12, <2>3, <2>6, <3>1, <3>2, NoFrames DEF AnswerInv, IsWhole
  <2>8. QED BY <1>10, <1>11, <2>4, <2>7
<1>14. CASE ~IsWhole(conn[c])
  <2>1. /\ o \in Seq(FrameType) /\ Rising(o)
        /\ Position(c) <= conn[c].delivered
        /\ Seqs(o) \subseteq (Position(c) + 1)..conn[c].delivered
        /\ \A n \in (Position(c) + 1)..conn[c].delivered : Owed(n) => n \in Seqs(o) \cup rolledBack
    BY <1>1, <1>2, <1>14 DEF AnswerInv
  <2>2. /\ Tail(o) \in Seq(FrameType) /\ Rising(Tail(o))
        /\ f \in FrameType /\ f.sequence \in Seqs(o)
        /\ \A n \in Seqs(o) : f.sequence <= n
        /\ Seqs(Tail(o)) = Seqs(o) \ {f.sequence}
    BY <1>3, <2>1, HeadTaken DEF f
  <2> DEFINE s == f.sequence
  <2>3. s \in Nat /\ Position(c) < s /\ s <= conn[c].delivered /\ s <= Latest
    BY <1>1, <1>3, <1>7, <2>1, <2>2
  <2>4. v = [view[c] EXCEPT !.frames = Append(view[c].frames, s)]
    BY <1>1, <2>2, FrameOrWhole DEF v, Shown, ViewType
  <2> HIDE DEF o, s
  <2>5. \A n \in (Position(c) + 1)..s : Owed(n) => n = s \/ n \in rolledBack
    <3> SUFFICES ASSUME NEW n \in (Position(c) + 1)..s, Owed(n), n \notin rolledBack
                 PROVE  n = s
      OBVIOUS
    <3>1. n \in (Position(c) + 1)..conn[c].delivered
      BY <1>3, <1>7, <2>3
    <3>2. n \in Seqs(o)
      BY <2>1, <3>1
    <3>3. s <= n
      BY <2>2, <3>2 DEF s
    <3>4. QED BY <1>7, <2>3, <3>3
  <2>6. Position(c)' = s /\ ViewInv(c)'
    BY <1>1, <1>2, <1>10, <2>3, <2>4, <2>5, FrameShown
  <2>7. ~IsWhole(k)
    <3>1. Tail(o) # <<>> => Tail(o)[1] \in FrameType
      <4> DEFINE t == Tail(o)
      <4>1. t \in Seq(FrameType)
        BY <2>2
      <4> HIDE DEF t
      <4>2. t # <<>> => t[1] \in FrameType
        BY <4>1
      <4>3. QED BY <4>2 DEF t
    <3>2. QED BY <1>9, <3>1, FrameOrWhole DEF IsWhole, o
  <2>8. /\ Seqs(Tail(o)) \subseteq (s + 1)..conn[c].delivered
        /\ \A n \in (s + 1)..conn[c].delivered : Owed(n) => n \in Seqs(Tail(o)) \cup rolledBack
    <3>1. \A n \in Seqs(o) : n \in Nat /\ s <= n /\ n <= conn[c].delivered
      BY <1>3, <1>7, <2>1, <2>2 DEF s
    <3>2. \A n \in Seqs(o) : n # s => n \in (s + 1)..conn[c].delivered
      BY <1>3, <2>3, <3>1
    <3>3. \A n \in (s + 1)..conn[c].delivered : n # s /\ n \in (Position(c) + 1)..conn[c].delivered
      BY <1>3, <1>7, <2>3
    <3>4. QED BY <2>1, <2>2, <3>2, <3>3 DEF s
  <2>9. AnswerInv(c)'
    BY <1>2, <1>3, <1>5, <1>9, <1>10, <1>12, <2>2, <2>3, <2>6, <2>7, <2>8 DEF AnswerInv, o, IsWhole
  <2>10. QED BY <1>10, <1>11, <2>6, <2>9
<1>15. QED BY <1>13, <1>14

(* A frame of the broadcast queue is forwarded, or passed over when the    *)
(* snapshot included it.                                                   *)
LEMMA ForwardStep ==
    ASSUME IInv, NEW c \in Clients, Forward(c)
    PROVE  IInv'
<1> DEFINE q == conn[c].queue
           f == Head(q)
           s == f.sequence
           d == conn[c].delivered
           new == s > d
           e == IF new THEN s ELSE d
           k == [conn[c] EXCEPT !.queue = Tail(q), !.delivered = e]
           v == IF new THEN Shown(view[c], f) ELSE view[c]
<1>1. /\ Types /\ AnswerInv(c) /\ ViewInv(c) /\ QueueInv(c) /\ ActorInv
      /\ view \in [Clients -> ViewType] /\ conn \in [Clients -> ConnType]
      /\ view[c] \in ViewType /\ conn[c] \in ConnType /\ sequence \in Nat /\ sequence <= Latest
      /\ Latest \in Nat
  BY DEF IInv, HostInv, Types, Latest
<1>2. /\ UNCHANGED <<log, stored, fed, actor, load, sequence, window, pending, rolledBack>>
      /\ conn' = [conn EXCEPT ![c] = k] /\ view' = [view EXCEPT ![c] = v]
      /\ conn[c].phase = "open" /\ q # <<>> /\ ~conn[c].lagged
  BY <1>1 DEF Forward, journal, host, ConnType
<1>3. /\ q \in Seq(FrameType) /\ d \in Nat
      /\ conn[c].out = <<>> /\ d <= sequence /\ Position(c) <= d
      /\ \A n \in (Position(c) + 1)..d : Owed(n) => n \in rolledBack
  <2>1. q \in Seq(FrameType) /\ d \in Nat
    BY <1>1 DEF ConnType
  <2>2. conn[c].out = <<>> /\ d <= sequence
    BY <1>1, <1>2 DEF AnswerInv
  <2>3. ~IsWhole(conn[c])
    BY <2>2 DEF IsWhole
  <2>4. QED BY <1>1, <1>2, <2>1, <2>2, <2>3, NoFrames DEF AnswerInv
<1>4. /\ Seqs(q) \subseteq 1..sequence
      /\ \A n \in (d + 1)..sequence : n \in Seqs(q) \cup Withheld
      /\ \A i \in DOMAIN q, n \in (d + 1)..sequence :
           n < q[i].sequence /\ n \notin rolledBack => \E j \in DOMAIN q : j < i /\ q[j].sequence = n
  BY <1>1, <1>2 DEF QueueInv
<1>5. Position(c) \in Nat /\ view[c].base \in Nat /\ view[c].frames \in Seq(Nat)
  BY <1>1, PositionIs
<1>6. actor \in {"up", "replacing"}
  BY <1>1, <1>2 DEF ActorInv
<1> HIDE DEF q, d
<1>7. /\ f = q[1] /\ f \in FrameType /\ s \in Nat /\ 1 \in DOMAIN q
      /\ Tail(q) \in Seq(FrameType) /\ s \in 1..sequence
  <2>1. f = q[1] /\ f \in FrameType /\ 1 \in DOMAIN q /\ Tail(q) \in Seq(FrameType)
    BY <1>2, <1>3
  <2>2. s \in Seqs(q)
    BY <2>1 DEF Seqs
  <2>3. QED BY <1>4, <2>1, <2>2
<1>8. /\ DOMAIN Tail(q) = 1..(Len(q) - 1) /\ DOMAIN q = 1..Len(q) /\ Len(q) \in Nat
      /\ \A i \in DOMAIN Tail(q) : i + 1 \in DOMAIN q /\ Tail(q)[i] = q[i + 1]
      /\ \A i \in DOMAIN q : i # 1 => i - 1 \in DOMAIN Tail(q) /\ Tail(q)[i - 1] = q[i]
  BY <1>2, <1>3
<1> HIDE DEF f
<1>9. new => v = [view[c] EXCEPT !.frames = Append(view[c].frames, s)]
  BY <1>7, FrameOrWhole DEF Shown
<1>10. ~new => v = view[c]
  OBVIOUS
<1>11. e \in Nat /\ d <= e /\ e <= sequence /\ s <= e
  BY <1>1, <1>3, <1>7
<1>12. v \in ViewType
  <2>1. Append(view[c].frames, s) \in Seq(Nat)
    BY <1>5, <1>7
  <2> HIDE DEF v
  <2>2. QED BY <1>1, <1>9, <1>10, <2>1 DEF ViewType
<1> HIDE DEF v, e
<1>13. /\ k \in ConnType /\ k.phase = "open" /\ k.out = <<>> /\ k.queue = Tail(q)
       /\ k.delivered = e /\ ~k.lagged
  BY <1>1, <1>2, <1>3, <1>7, <1>11 DEF ConnType
<1> HIDE DEF k
<1>14. /\ Types' /\ HostInv' /\ Steady
       /\ conn'[c] = k /\ view'[c] = v
       /\ QueueInv(c)' /\ AnswerInv(c)' /\ ViewInv(c)' => IInv'
  BY <1>1, <1>2, <1>6, <1>12, <1>13, OneClient
<1> HIDE DEF s
<1>15. QueueInv(c)'
  <2>1. Withheld' = Withheld
    BY <1>2 DEF Withheld, Seqs
  <2>2. \A n \in (e + 1)..sequence : n \in (d + 1)..sequence /\ n # s
    BY <1>1, <1>3, <1>7, <1>11
  <2>3. Seqs(Tail(q)) \subseteq Seqs(q)
    BY <1>8 DEF Seqs
  <2>4. \A n \in Seqs(q) : n # s => n \in Seqs(Tail(q))
    BY <1>7, <1>8 DEF Seqs, s
  <2>5. Seqs(Tail(q)) \subseteq 1..sequence
    BY <1>4, <2>3
  <2>6. \A n \in (e + 1)..sequence : n \in Seqs(Tail(q)) \cup Withheld
    BY <1>4, <2>2, <2>4
  <2>7. ASSUME NEW i \in DOMAIN Tail(q), NEW n \in (e + 1)..sequence,
               n < Tail(q)[i].sequence, n \notin rolledBack
        PROVE  \E j \in DOMAIN Tail(q) : j < i /\ Tail(q)[j].sequence = n
    <3>1. i + 1 \in DOMAIN q /\ n < q[i + 1].sequence /\ n \in (d + 1)..sequence /\ n # s
      BY <1>8, <2>2, <2>7
    <3>2. PICK j \in DOMAIN q : j < i + 1 /\ q[j].sequence = n
      BY <1>4, <2>7, <3>1
    <3>3. j # 1
      BY <1>7, <3>1, <3>2 DEF s
    <3>4. j - 1 \in DOMAIN Tail(q) /\ Tail(q)[j - 1] = q[j] /\ j - 1 < i
      BY <1>8, <3>2, <3>3
    <3>5. QED BY <3>2, <3>4
  <2>8. QED
    <3> DEFINE t == Tail(q)
    <3>1. /\ Seqs(t) \subseteq 1..sequence
          /\ \A n \in (e + 1)..sequence : n \in Seqs(t) \cup Withheld
          /\ \A i \in DOMAIN t, n \in (e + 1)..sequence :
               n < t[i].sequence /\ n \notin rolledBack => \E j \in DOMAIN t : j < i /\ t[j].sequence = n
      BY <2>5, <2>6, <2>7
    <3>2. conn'[c].queue = t /\ conn'[c].delivered = e
      BY <1>13, <1>14
    <3> HIDE DEF t
    <3>3. QED BY <1>2, <2>1, <3>1, <3>2 DEF QueueInv
<1>16. Latest' = Latest /\ sequence' = sequence /\ \A n : Owed(n)' <=> Owed(n)
  BY <1>2, OwedStays
<1>17. ~IsWhole(k)
  BY <1>13 DEF IsWhole
<1>18. CASE new
  <2>1. e = s /\ s > d
    BY <1>18 DEF e
  <2>2. \A n \in (Position(c) + 1)..s : Owed(n) => n = s \/ n \in rolledBack
    <3> SUFFICES ASSUME NEW n \in (Position(c) + 1)..s, Owed(n), n # s
                 PROVE  n \in rolledBack
      OBVIOUS
    <3>1. CASE n <= d
      <4>1. n \in (Position(c) + 1)..d
        BY <1>3, <1>5, <1>7, <3>1
      <4>2. QED BY <1>3, <4>1
    <3>2. CASE ~(n <= d)
      <4>1. n \in (d + 1)..sequence /\ n < q[1].sequence /\ 1 \in DOMAIN q
        BY <1>1, <1>3, <1>5, <1>7, <3>2 DEF s
      <4>2. \A j \in DOMAIN q : ~(j < 1)
        BY <1>8
      <4>3. QED BY <1>4, <4>1, <4>2
    <3>3. QED BY <3>1, <3>2
  <2>3. Position(c) < s /\ s <= Latest
    BY <1>1, <1>3, <1>5, <1>7, <2>1
  <2>4. view'[c] = [view[c] EXCEPT !.frames = Append(view[c].frames, s)] /\ s \in Nat
    BY <1>7, <1>9, <1>14, <1>18
  <2>5. Position(c)' = s /\ ViewInv(c)'
    BY <1>1, <1>2, <2>2, <2>3, <2>4, FrameShown
  <2>6. AnswerInv(c)'
    <3>1. s <= s /\ s <= sequence /\ \A n : n \notin (s + 1)..s
      BY <1>1, <1>7
    <3>2. QED BY <1>13, <1>14, <1>16, <1>17, <2>1, <2>5, <3>1, NoFrames DEF AnswerInv, IsWhole
  <2>7. QED BY <1>14, <1>15, <2>5, <2>6
<1>19. CASE ~new
  <2>1. e = d
    BY <1>19 DEF e
  <2>2. view'[c] = view[c]
    BY <1>10, <1>14, <1>19
  <2>3. ViewInv(c)'
    BY <1>1, <1>14, <2>2, ViewStays
  <2>4. sequence' \in Nat /\ sequence <= sequence'
    BY <1>1, <1>2
  <2>5. /\ conn'[c].phase = conn[c].phase /\ conn'[c].out = conn[c].out
        /\ conn'[c].delivered = conn[c].delivered
    BY <1>2, <1>3, <1>13, <1>14, <2>1 DEF d
  <2>6. AnswerInv(c)'
    BY <1>1, <1>14, <2>2, <2>4, <2>5, AnswerStays
  <2>7. QED BY <1>14, <1>15, <2>3, <2>6
<1>20. QED BY <1>18, <1>19

-----------------------------------------------------------------------------
(* Steps of the agent and the actor that leave the window alone.           *)

(* What clients have and are to get, while no event is projected.          *)
LEMMA ClientsStay ==
    ASSUME IInv, Steady, UNCHANGED <<conn, view, sequence>>, Withheld \subseteq Withheld'
    PROVE  \A c \in Clients : QueueInv(c)' /\ AnswerInv(c)' /\ ViewInv(c)'
<1> SUFFICES ASSUME NEW c \in Clients PROVE QueueInv(c)' /\ AnswerInv(c)' /\ ViewInv(c)'
  OBVIOUS
<1>1. Types /\ QueueInv(c) /\ AnswerInv(c) /\ ViewInv(c)
  BY DEF IInv
<1>2. /\ conn'[c] = conn[c] /\ view'[c] = view[c] /\ sequence' = sequence
      /\ rolledBack \subseteq rolledBack' /\ sequence' \in Nat /\ sequence <= sequence'
  BY <1>1 DEF Steady, Types
<1>3. QueueInv(c)'
  BY <1>1, <1>2, QueueStays
<1>4. AnswerInv(c)'
  BY <1>1, <1>2, AnswerStays
<1>5. ViewInv(c)'
  BY <1>1, <1>2, ViewStays
<1>6. QED BY <1>3, <1>4, <1>5

(* The window, while no event is projected and none is owed again.         *)
LEMMA WindowStays ==
    ASSUME Types, WindowInv, Steady, UNCHANGED <<sequence, window>>
    PROVE  WindowInv'
<1>1. /\ sequence \in Nat /\ sequence <= Latest /\ Latest \in Nat
      /\ Rising(window) /\ Seqs(window) \subseteq 1..sequence /\ Unbroken(Seqs(window), sequence)
  BY DEF Types, WindowInv, Latest
<1>2. ASSUME NEW h \in Seqs(window), NEW n \in h..sequence, Owed(n)' PROVE n \in Seqs(window)
  <2>1. n \in 1..Latest
    BY <1>1
  <2>2. Owed(n)
    BY <1>2, <2>1 DEF Steady
  <2>3. QED BY <1>1, <2>2 DEF Unbroken
<1>3. \A h \in Seqs(window) : \A n \in h..sequence : Owed(n)' => n \in Seqs(window)
  BY <1>2
<1>4. Seqs(window)' = Seqs(window) /\ Rising(window)' = Rising(window)
  BY DEF Seqs, Rising
<1>5. QED BY <1>1, <1>3, <1>4 DEF WindowInv, Unbroken

(* No page has been read yet.                                              *)
LEMMA NoLoadType == NoLoad \in LoadType /\ NoLoad.before = None /\ NoLoad.events = {}
BY DEF NoLoad, LoadType

(* The agent commits an event, at work, at its start or as a replacement.  *)
LEMMA CommitStep ==
    ASSUME IInv, (\E kind \in Kinds \ {"config"} : Emit(kind)) \/ Open \/ Replace
    PROVE  IInv'
<1>1. PICK kind \in Kinds : StoreEvent(kind)
  BY DEF Emit, Open, Replace, Kinds
<1>2. /\ UNCHANGED <<sequence, window, pending, conn, view, rolledBack>>
      /\ \/ actor \in {"loading", "starting", "up"} /\ UNCHANGED <<fed, actor, load>>
         \/ actor = "down" /\ actor' = "loading" /\ fed' = Latest /\ load' = NoLoad
         \/ actor = "up" /\ actor' = "replacing" /\ UNCHANGED <<fed, load>>
  BY DEF Emit, Open, Replace, host
<1>3. Types /\ StoredInv /\ LoadInv /\ WindowInv /\ ActorInv
  BY DEF IInv, HostInv
<1>4. /\ log' \in Seq(Kinds) /\ Latest \in Nat /\ Latest' = Latest + 1
      /\ \A n \in 1..Latest : Owed(n)' => Owed(n)
      /\ StoredInv' /\ stored' \subseteq 1..Latest'
      /\ \A n \in stored' : n \in 1..Latest => n \in stored
  BY <1>1, <1>3, EventStored
<1>5. Steady
  BY <1>2, <1>4 DEF Steady
<1>6. fed' \in 0..Latest /\ actor' \in {"down", "loading", "starting", "up", "replacing"} /\ load' \in LoadType
  BY <1>2, <1>3, <1>4, NoLoadType DEF Types
<1>7. Types'
  <2>1. 0..Latest \subseteq 0..Latest'
    BY <1>4
  <2>2. QED BY <1>2, <1>3, <1>4, <1>6, <2>1 DEF Types
<1>8. LoadInv'
  <2> SUFFICES ASSUME actor' = "loading" PROVE LoadInv'
    BY DEF LoadInv
  <2>1. CASE actor = "loading"
    <3>1. UNCHANGED <<fed, actor, load>>
      BY <1>2, <2>1
    <3>2. /\ IsFiniteSet(load.events) /\ Cardinality(load.events) < ReplayCapacity
          /\ load.before = None => load.events = {}
      BY <1>3, <2>1 DEF LoadInv
    <3>3. ASSUME load.before # None
          PROVE  /\ load.before \in 1..load.latest /\ load.latest \in fed..Latest'
                 /\ load.events \subseteq load.before..load.latest
                 /\ \A n \in stored' : n \in load.before..load.latest => n \in load.events
      <4>1. /\ load.before \in 1..load.latest /\ load.latest \in fed..Latest
            /\ load.events \subseteq load.before..load.latest
            /\ \A n \in stored : n \in load.before..load.latest => n \in load.events
        BY <1>3, <2>1, <3>3 DEF LoadInv
      <4>2. load.latest \in fed..Latest' /\ load.before..load.latest \subseteq 1..Latest
        <5>1. fed \in Nat
          BY <1>3 DEF Types
        <5>2. QED BY <1>4, <4>1, <5>1
      <4>3. QED BY <1>4, <4>1, <4>2
    <3>4. QED BY <3>1, <3>2, <3>3 DEF LoadInv
  <2>2. CASE actor # "loading"
    <3>1. load' = NoLoad
      BY <1>2, <2>2
    <3>2. IsFiniteSet({}) /\ Cardinality({}) < ReplayCapacity
      BY FS_EmptySet, CapacitiesArePositive
    <3>3. QED BY <3>1, <3>2, NoLoadType DEF LoadInv
  <2>3. QED BY <2>1, <2>2
<1>9. WindowInv'
  BY <1>2, <1>3, <1>5, WindowStays
<1>10. ActorInv'
  <2>1. Seqs(pending)' = Seqs(pending) /\ Rising(pending)' = Rising(pending)
    BY <1>2 DEF Seqs, Rising
  <2>2. QED BY <1>2, <1>3, <2>1 DEF ActorInv
<1>11. Withheld \subseteq Withheld'
  BY <1>2 DEF Withheld, Seqs
<1>12. \A c \in Clients : QueueInv(c)' /\ AnswerInv(c)' /\ ViewInv(c)'
  BY <1>2, <1>5, <1>11, ClientsStay
<1>13. QED BY <1>4, <1>7, <1>8, <1>9, <1>10, <1>12 DEF IInv, HostInv

(* The start-up is reconciled: the actor has projected all it loaded.  A   *)
(* rollback: the start-up of the agent that came back stays withheld.      *)
LEMMA ServeStep ==
    ASSUME IInv, Serve \/ RolledBack
    PROVE  IInv'
<1>1. Types /\ StoredInv /\ LoadInv /\ WindowInv /\ ActorInv
  BY DEF IInv, HostInv
<1>2. /\ UNCHANGED <<log, stored, fed, sequence, window, pending, conn, view>>
      /\ actor' = "up" /\ fed = Latest /\ load' \in {load, NoLoad} /\ actor \in {"starting", "replacing"}
      /\ \/ actor = "starting" /\ rolledBack' = rolledBack
         \/ actor = "replacing" /\ rolledBack' = rolledBack \cup {f.sequence : f \in Range(pending)}
  BY DEF Serve, RolledBack, journal, host
<1>3. Steady
  BY <1>1, <1>2, SameJournal
<1>4. Latest' = Latest /\ \A n : Owed(n)' <=> Owed(n)
  BY <1>2, OwedStays
<1>5. Types'
  BY <1>1, <1>2, NoLoadType DEF Types, Latest
<1>6. StoredInv' /\ LoadInv'
  BY <1>1, <1>2, <1>4 DEF StoredInv, LoadInv
<1>7. WindowInv'
  BY <1>1, <1>2, <1>3, WindowStays
<1>8. fed = sequence
  BY <1>1, <1>2 DEF ActorInv, Types
<1>9. ActorInv'
  <2>1. Seqs(pending)' = Seqs(pending) /\ Rising(pending)' = Rising(pending)
    BY <1>2 DEF Seqs, Rising
  <2>2. QED BY <1>1, <1>2, <1>8, <2>1 DEF ActorInv
<1>10. Withheld \subseteq Withheld'
  <2>1. {f.sequence : f \in Range(pending)} = Seqs(pending)
    BY DEF Range, Seqs
  <2>2. QED BY <1>2, <2>1 DEF Withheld
<1>11. \A c \in Clients : QueueInv(c)' /\ AnswerInv(c)' /\ ViewInv(c)'
  BY <1>2, <1>3, <1>10, ClientsStay
<1>12. QED BY <1>5, <1>6, <1>7, <1>9, <1>11 DEF IInv, HostInv

(* The gateway dies.                                                       *)
LEMMA CrashStep ==
    ASSUME IInv, Crash
    PROVE  IInv'
<1>1. Types /\ StoredInv /\ \A c \in Clients : ViewInv(c)
  BY DEF IInv, HostInv
<1>2. /\ UNCHANGED <<log, stored, view, rolledBack>> /\ actor' = "down" /\ fed' = Latest /\ load' = NoLoad
      /\ sequence' = 0 /\ window' = <<>> /\ pending' = <<>> /\ conn' = [c \in Clients |-> Closed]
  BY DEF Crash, journal
<1>3. Latest' = Latest /\ Latest \in Nat /\ \A n : Owed(n)' <=> Owed(n)
  BY <1>1, <1>2, OwedStays DEF Types, Latest
<1>4. Steady
  BY <1>1, <1>2, SameJournal
<1>5. conn' \in [Clients -> ConnType] /\ \A c \in Clients : conn'[c].phase = "closed"
  BY <1>2, ClosedType
<1>6. Types'
  BY <1>1, <1>2, <1>3, <1>5, NoLoadType, NoFrames DEF Types
<1>7. StoredInv' /\ LoadInv'
  BY <1>1, <1>2, <1>3 DEF StoredInv, LoadInv
<1>8. WindowInv'
  BY <1>2, NoFrames DEF WindowInv, Unbroken
<1>9. ActorInv'
  BY <1>2, <1>5, NoFrames DEF ActorInv
<1>10. ASSUME NEW c \in Clients PROVE QueueInv(c)' /\ AnswerInv(c)' /\ ViewInv(c)'
  <2>1. QueueInv(c)' /\ AnswerInv(c)'
    BY <1>5, ClosedClient
  <2>2. ViewInv(c)'
    BY <1>1, <1>2, <1>4, ViewStays
  <2>3. QED BY <2>1, <2>2
<1>11. QED BY <1>6, <1>7, <1>8, <1>9, <1>10 DEF IInv, HostInv

(* The replacement serves: its start-up frames follow the ones broadcast.  *)
LEMMA ReplacedStep ==
    ASSUME IInv, Replaced
    PROVE  IInv'
<1>1. Types /\ StoredInv /\ LoadInv /\ WindowInv /\ ActorInv
  BY DEF IInv, HostInv
<1>2. /\ UNCHANGED <<log, stored, fed, load, sequence, window, view, rolledBack>>
      /\ actor = "replacing" /\ actor' = "up" /\ pending' = <<>>
      /\ conn' = [c \in Clients |-> Broadcast(conn[c], pending)]
  BY DEF Replaced, journal, host
<1>3. Steady
  BY <1>1, <1>2, SameJournal
<1>4. Latest' = Latest /\ \A n : Owed(n)' <=> Owed(n)
  BY <1>2, OwedStays
<1>5. pending \in Seq(FrameType) /\ conn \in [Clients -> ConnType] /\ sequence \in Nat
  BY <1>1 DEF Types
<1>6. ASSUME NEW c \in Clients
      PROVE  /\ conn'[c] \in ConnType
             /\ conn'[c].phase = conn[c].phase /\ conn'[c].out = conn[c].out
             /\ conn'[c].delivered = conn[c].delivered
             /\ conn[c].phase # "closed" /\ ~conn'[c].lagged =>
                  ~conn[c].lagged /\ conn'[c].queue = conn[c].queue \o pending
  <2>1. conn'[c] = Broadcast(conn[c], pending) /\ conn[c] \in ConnType
    BY <1>2, <1>5
  <2>2. QED BY <1>5, <2>1, BroadcastIs
<1>7. Types'
  <2>1. conn' \in [Clients -> ConnType]
    BY <1>2, <1>6
  <2>2. QED BY <1>1, <1>2, <2>1, NoFrames DEF Types, Latest
<1>8. StoredInv' /\ LoadInv' /\ WindowInv'
  <2>1. StoredInv' /\ LoadInv'
    BY <1>1, <1>2, <1>4 DEF StoredInv, LoadInv
  <2>2. QED BY <1>1, <1>2, <1>3, <2>1, WindowStays
<1>9. ActorInv'
  BY <1>1, <1>2, NoFrames DEF ActorInv
<1>10. ASSUME NEW c \in Clients PROVE QueueInv(c)' /\ AnswerInv(c)' /\ ViewInv(c)'
  <2>1. QueueInv(c) /\ AnswerInv(c) /\ ViewInv(c)
    BY DEF IInv
  <2>2. ViewInv(c)'
    BY <1>1, <1>2, <1>3, <2>1, ViewStays
  <2>3. sequence' \in Nat /\ sequence <= sequence'
    BY <1>2, <1>5
  <2>4. AnswerInv(c)'
    BY <1>1, <1>2, <1>3, <1>6, <2>1, <2>3, AnswerStays
  <2>5. QueueInv(c)'
    <3> SUFFICES ASSUME conn[c].phase # "closed", ~conn'[c].lagged PROVE QueueInv(c)'
      BY <1>6 DEF QueueInv
    <3> DEFINE q == conn[c].queue
               r == q \o pending
               d == conn[c].delivered
    <3>1. /\ conn'[c].queue = r /\ conn'[c].delivered = d /\ conn'[c].phase = conn[c].phase
          /\ ~conn[c].lagged /\ q \in Seq(FrameType) /\ d \in Nat
      BY <1>5, <1>6 DEF ConnType
    <3>2. /\ Seqs(q) \subseteq 1..sequence
          /\ conn[c].phase # "subscribed" =>
               /\ \A n \in (d + 1)..sequence : n \in Seqs(q) \cup Withheld
               /\ \A i \in DOMAIN q, n \in (d + 1)..sequence :
                    n < q[i].sequence /\ n \notin rolledBack =>
                      \E j \in DOMAIN q : j < i /\ q[j].sequence = n
      BY <2>1, <3>1 DEF QueueInv
    <3> HIDE DEF q, d
    <3>3. Withheld = rolledBack \cup Seqs(pending) /\ Withheld' = rolledBack
      BY <1>2 DEF Withheld
    <3>4. /\ DOMAIN q = 1..Len(q) /\ DOMAIN pending = 1..Len(pending)
          /\ Len(q) \in Nat /\ Len(pending) \in Nat
          /\ DOMAIN r = 1..(Len(q) + Len(pending))
          /\ \A i \in 1..Len(q) : r[i] = q[i]
          /\ \A i \in 1..(Len(q) + Len(pending)) : i > Len(q) => r[i] = pending[i - Len(q)]
      BY <1>5, <3>1
    <3> HIDE DEF r
    <3>5. /\ \A i \in DOMAIN q : i \in DOMAIN r /\ r[i] = q[i]
          /\ \A i \in DOMAIN pending : i + Len(q) \in DOMAIN r /\ r[i + Len(q)] = pending[i]
          /\ \A i \in DOMAIN r : i \in DOMAIN q \/ (i > Len(q) /\ i - Len(q) \in DOMAIN pending /\ r[i] = pending[i - Len(q)])
      BY <3>4
    <3>6. Seqs(r) = Seqs(q) \cup Seqs(pending)
      BY <3>5 DEF Seqs
    <3>7. Seqs(r) \subseteq 1..sequence /\ Rising(pending)
      BY <1>1, <3>2, <3>6 DEF ActorInv
    <3>8. ASSUME conn[c].phase # "subscribed",
                 NEW i \in DOMAIN r, NEW n \in (d + 1)..sequence, n < r[i].sequence, n \notin rolledBack
          PROVE  \E j \in DOMAIN r : j < i /\ r[j].sequence = n
      <4>1. CASE i \in DOMAIN q
        <5>1. PICK j \in DOMAIN q : j < i /\ q[j].sequence = n
          BY <3>2, <3>5, <3>8, <4>1
        <5>2. QED BY <3>5, <5>1
      <4>2. CASE i > Len(q) /\ i - Len(q) \in DOMAIN pending /\ r[i] = pending[i - Len(q)]
        <5>1. n \in Seqs(q) \/ n \in Seqs(pending)
          BY <3>2, <3>3, <3>8
        <5>2. CASE n \in Seqs(q)
          <6>1. PICK j \in DOMAIN q : q[j].sequence = n
            BY <5>2 DEF Seqs
          <6>2. j < i
            BY <3>4, <4>2, <6>1
          <6>3. QED BY <3>5, <6>1, <6>2
        <5>3. CASE n \in Seqs(pending)
          <6>1. PICK j \in DOMAIN pending : pending[j].sequence = n
            BY <5>3 DEF Seqs
          <6>2. \A x \in DOMAIN pending : pending[x].sequence \in Nat /\ x \in Nat
            <7>1. \A x \in DOMAIN pending : pending[x] \in FrameType /\ x \in Nat
              BY <1>5
            <7>2. QED BY <7>1, FrameOrWhole
          <6>3. ~(i - Len(q) < j) /\ j # i - Len(q)
            <7>1. n < pending[i - Len(q)].sequence
              BY <3>8, <4>2
            <7>2. i - Len(q) < j => pending[i - Len(q)].sequence < pending[j].sequence
              BY <3>7, <4>2, <6>1 DEF Rising
            <7>3. pending[i - Len(q)].sequence \in Nat /\ n \in Nat
              BY <4>2, <6>1, <6>2
            <7>4. QED BY <6>1, <7>1, <7>2, <7>3
          <6>4. j + Len(q) < i
            BY <3>4, <4>2, <6>1, <6>3
          <6>5. QED BY <3>5, <6>1, <6>4
        <5>4. QED BY <5>1, <5>2, <5>3
      <4>3. QED BY <3>5, <4>1, <4>2
    <3>9. conn[c].phase # "subscribed" => \A n \in (d + 1)..sequence : n \in Seqs(r) \cup rolledBack
      BY <3>2, <3>3, <3>6
    <3>10. QED BY <1>2, <3>1, <3>3, <3>7, <3>8, <3>9 DEF QueueInv
  <2>6. QED BY <2>2, <2>4, <2>5
<1>11. QED BY <1>7, <1>8, <1>9, <1>10 DEF IInv, HostInv

-----------------------------------------------------------------------------
(* Projecting events.                                                      *)

(* compact_replay_deltas takes only deltas of a completed message out of   *)
(* the window.                                                             *)
LEMMA Compacted ==
    ASSUME Types, WindowInv, NEW n \in 1..Latest
    PROVE  LET w == CompactReplayDeltas(window, n) IN
           /\ w \in Seq(FrameType) /\ Rising(w)
           /\ Seqs(w) \subseteq 1..sequence /\ Unbroken(Seqs(w), sequence)
<1>1. /\ window \in Seq(FrameType) /\ Rising(window)
      /\ Seqs(window) \subseteq 1..sequence /\ Unbroken(Seqs(window), sequence)
  BY DEF Types, WindowInv
<1>2. CASE log[n] # "answer"
  BY <1>1, <1>2 DEF CompactReplayDeltas
<1>3. CASE log[n] = "answer"
  <2> DEFINE I == {i \in DOMAIN window : ~(window[i].appends /\ window[i].sequence \in StepDeltas(n))}
             w == Entries(window, I)
  <2>1. CompactReplayDeltas(window, n) = w
    BY <1>3 DEF CompactReplayDeltas
  <2>2. w \in Seq(FrameType) /\ Rising(w) /\ Seqs(w) = {window[i].sequence : i \in I}
    BY <1>1, SelectedFrames
  <2> HIDE DEF w
  <2>3. Seqs(w) \subseteq Seqs(window)
    BY <2>2 DEF Seqs
  <2>4. \A m \in Seqs(window) : m \in Seqs(w) \/ m \in StepDeltas(n)
    BY <2>2 DEF Seqs
  <2>5. \A m \in StepDeltas(n) : ~Owed(m)
    BY <1>3, ReplacedNotOwed
  <2>6. Unbroken(Seqs(w), sequence)
    BY <1>1, <2>3, <2>4, <2>5 DEF Unbroken
  <2>7. QED BY <1>1, <2>1, <2>2, <2>3, <2>6
<1>4. QED BY <1>2, <1>3

(* push_replay adds the frame of the next event, and lets go of the oldest *)
(* when the window is full.                                                *)
LEMMA Pushed ==
    ASSUME Types, NEW w \in Seq(FrameType), Rising(w), Seqs(w) \subseteq 1..sequence,
           Unbroken(Seqs(w), sequence), NEW f \in FrameType, f.sequence = sequence + 1
    PROVE  LET x == Recorded(w, f) IN
           /\ x \in Seq(FrameType) /\ Rising(x)
           /\ Seqs(x) \subseteq 1..(sequence + 1) /\ Unbroken(Seqs(x), sequence + 1)
<1> DEFINE n == sequence + 1
           u == IF Len(w) >= ReplayCapacity THEN Tail(w) ELSE w
<1>1. sequence \in Nat /\ n \in Nat /\ f.sequence = n
  BY DEF Types
<1>2. /\ u \in Seq(FrameType) /\ Rising(u) /\ Seqs(u) \subseteq Seqs(w)
      /\ \A m \in Seqs(w) \ Seqs(u) : \A h \in Seqs(u) : m < h
  <2>1. CASE Len(w) >= ReplayCapacity
    <3>1. w # <<>>
      BY <2>1, CapacitiesArePositive
    <3>2. /\ Tail(w) \in Seq(FrameType) /\ Rising(Tail(w))
          /\ Head(w).sequence \in Seqs(w)
          /\ \A m \in Seqs(w) : Head(w).sequence <= m
          /\ Seqs(Tail(w)) = Seqs(w) \ {Head(w).sequence}
      BY <3>1, HeadTaken
    <3>3. Seqs(w) \subseteq Nat
      BY SeqsAre
    <3>4. \A h \in Seqs(Tail(w)) : Head(w).sequence < h
      BY <3>2, <3>3
    <3>5. QED BY <2>1, <3>2, <3>4
  <2>2. CASE ~(Len(w) >= ReplayCapacity)
    BY <2>2
  <2>3. QED BY <2>1, <2>2
<1>3. Recorded(w, f) = IF log[n] = "widget" THEN w ELSE IF log[n] = "huge" THEN <<>> ELSE Append(u, f)
  BY <1>1 DEF Recorded, Replayable, PushReplay
<1> HIDE DEF u
<1>4. \A m : m \in 1..sequence \/ m = n => m \in 1..n
  BY <1>1
<1>5. CASE log[n] = "widget"
  <2>1. ~Owed(n)
    BY <1>5 DEF Owed, IsTransient
  <2>2. \A h \in Seqs(w) : \A m \in h..n : m \in h..sequence \/ m = n
    BY <1>1
  <2>3. Unbroken(Seqs(w), n)
    BY <2>1, <2>2 DEF Unbroken
  <2>4. QED BY <1>3, <1>4, <1>5, <2>3
<1>6. CASE log[n] = "huge"
  BY <1>3, <1>6, NoFrames DEF Unbroken
<1>7. CASE log[n] # "widget" /\ log[n] # "huge"
  <2> DEFINE x == Append(u, f)
  <2>1. Recorded(w, f) = x
    BY <1>3, <1>7
  <2>2. \A m \in Seqs(u) : m < f.sequence
    BY <1>1, <1>2
  <2>3. x \in Seq(FrameType) /\ Rising(x) /\ Seqs(x) = Seqs(u) \cup {n}
    BY <1>1, <1>2, <2>2, FrameAppended
  <2> HIDE DEF x
  <2>4. ASSUME NEW h \in Seqs(x), NEW m \in h..n, Owed(m) PROVE m \in Seqs(x)
    <3>1. CASE m = n
      BY <2>3, <3>1
    <3>2. CASE m # n
      <4>0. h \in Nat
        BY <2>3, SeqsAre
      <4>1. h \in Seqs(u) /\ m \in h..sequence /\ m \in Nat
        BY <1>1, <2>3, <3>2, <4>0
      <4>2. m \in Seqs(w)
        BY <1>2, <2>4, <4>1 DEF Unbroken
      <4>3. ~(m < h)
        BY <4>0, <4>1
      <4>4. m \in Seqs(u)
        BY <1>2, <4>1, <4>2, <4>3
      <4>5. QED BY <2>3, <4>4
    <3>3. QED BY <3>1, <3>2
  <2>5. Unbroken(Seqs(x), n)
    BY <2>4 DEF Unbroken
  <2>6. Seqs(x) \subseteq 1..n
    BY <1>2, <1>4, <2>3
  <2>7. QED BY <2>1, <2>3, <2>5, <2>6
<1>8. QED BY <1>5, <1>6, <1>7

(* The queue of a client takes the frame of the next event, or the frame   *)
(* is withheld.                                                            *)
LEMMA QueueGoesOn ==
    ASSUME Types, NEW c \in Clients, QueueInv(c), NEW f \in FrameType, f.sequence = sequence + 1,
           sequence' = sequence + 1, rolledBack' = rolledBack, conn[c].phase # "closed",
           \/ conn'[c] = Broadcast(conn[c], <<f>>) /\ Withheld = rolledBack
           \/ conn'[c] = conn[c] /\ Withheld \cup {f.sequence} \subseteq Withheld'
    PROVE  QueueInv(c)'
<1> DEFINE q == conn[c].queue
           d == conn[c].delivered
           n == sequence + 1
<1>1. conn[c] \in ConnType /\ q \in Seq(FrameType) /\ d \in Nat /\ sequence \in Nat
  BY DEF Types, ConnType
<1>2. /\ sequence' = n /\ n \in Nat /\ f.sequence = n /\ 1..sequence \subseteq 1..n /\ n \in 1..n
      /\ \A m \in (d + 1)..n : m = n \/ m \in (d + 1)..sequence
      /\ \A m \in 1..sequence : ~(n < m)
  BY <1>1
<1>3. CASE conn'[c] = conn[c] /\ Withheld \cup {n} \subseteq Withheld'
  <2> SUFFICES ASSUME ~conn[c].lagged PROVE QueueInv(c)'
    BY <1>3 DEF QueueInv
  <2>1. /\ Seqs(q) \subseteq 1..sequence
        /\ conn[c].phase # "subscribed" =>
             /\ \A m \in (d + 1)..sequence : m \in Seqs(q) \cup Withheld
             /\ \A i \in DOMAIN q, m \in (d + 1)..sequence :
                  m < q[i].sequence /\ m \notin rolledBack =>
                    \E j \in DOMAIN q : j < i /\ q[j].sequence = m
    BY DEF QueueInv
  <2> HIDE DEF n
  <2>2. \A i \in DOMAIN q : ~(n < q[i].sequence)
    <3>1. \A i \in DOMAIN q : q[i].sequence \in Seqs(q)
      BY DEF Seqs
    <3>2. QED BY <1>2, <2>1, <3>1, Zenon
  <2>3. /\ Seqs(q) \subseteq 1..n
        /\ conn[c].phase # "subscribed" =>
             /\ \A m \in (d + 1)..n : m \in Seqs(q) \cup Withheld'
             /\ \A i \in DOMAIN q, m \in (d + 1)..n :
                  m < q[i].sequence /\ m \notin rolledBack =>
                    \E j \in DOMAIN q : j < i /\ q[j].sequence = m
    <3>1. Seqs(q) \subseteq 1..n
      BY <1>2, <2>1
    <3>2. conn[c].phase # "subscribed" => \A m \in (d + 1)..n : m \in Seqs(q) \cup Withheld'
      BY <1>2, <1>3, <2>1
    <3>3. conn[c].phase # "subscribed" =>
             \A i \in DOMAIN q, m \in (d + 1)..n :
                  m < q[i].sequence /\ m \notin rolledBack =>
                    \E j \in DOMAIN q : j < i /\ q[j].sequence = m
      BY <1>2, <2>1, <2>2
    <3>4. QED BY <3>1, <3>2, <3>3
  <2>4. QED BY <1>2, <1>3, <2>3 DEF QueueInv
<1>4. CASE conn'[c] = Broadcast(conn[c], <<f>>) /\ Withheld = rolledBack
  <2> DEFINE g == <<f>>
  <2>1. g \in Seq(FrameType) /\ conn'[c] = Broadcast(conn[c], g)
    BY <1>4
  <2> HIDE DEF g
  <2>2. /\ conn'[c] \in ConnType
        /\ conn'[c].phase = conn[c].phase /\ conn'[c].delivered = d
        /\ ~conn'[c].lagged => ~conn[c].lagged /\ conn'[c].queue = q \o g
    <3> DEFINE k == conn[c]
               b == Broadcast(k, g)
    <3>1. /\ b \in ConnType /\ b.phase = k.phase /\ b.out = k.out /\ b.delivered = k.delivered
          /\ k.phase # "closed" /\ ~b.lagged => ~k.lagged /\ b.queue = k.queue \o g
      BY <1>1, <2>1, BroadcastIs, Zenon
    <3>2. conn'[c] = b /\ k.phase # "closed"
      BY <2>1
    <3> HIDE DEF b
    <3>3. QED BY <3>1, <3>2
  <2> SUFFICES ASSUME ~conn'[c].lagged PROVE QueueInv(c)'
    BY DEF QueueInv
  <2>3. /\ Seqs(q) \subseteq 1..sequence
        /\ conn[c].phase # "subscribed" =>
             /\ \A m \in (d + 1)..sequence : m \in Seqs(q) \cup rolledBack
             /\ \A i \in DOMAIN q, m \in (d + 1)..sequence :
                  m < q[i].sequence /\ m \notin rolledBack =>
                    \E j \in DOMAIN q : j < i /\ q[j].sequence = m
    BY <1>4, <2>2 DEF QueueInv
  <2> HIDE DEF q, d, n
  <2> DEFINE r == q \o g
  <2>4. /\ DOMAIN q = 1..Len(q) /\ Len(q) \in Nat /\ DOMAIN r = 1..(Len(q) + 1)
        /\ \A i \in 1..Len(q) : r[i] = q[i]
        /\ r[Len(q) + 1] = f
    BY <1>1 DEF g
  <2> HIDE DEF r
  <2>5. /\ \A i \in DOMAIN q : i \in DOMAIN r /\ r[i] = q[i] /\ i < Len(q) + 1
        /\ Len(q) + 1 \in DOMAIN r
        /\ \A i \in DOMAIN r : i \in DOMAIN q \/ i = Len(q) + 1
    BY <2>4
  <2>6. Seqs(r) = Seqs(q) \cup {n}
    BY <1>2, <2>4, <2>5 DEF Seqs
  <2>7. \A i \in DOMAIN q : ~(n < q[i].sequence)
    <3>1. \A i \in DOMAIN q : q[i].sequence \in Seqs(q)
      BY DEF Seqs
    <3>2. QED BY <1>2, <2>3, <3>1, Zenon
  <2>8. Seqs(r) \subseteq 1..n
    BY <1>2, <2>3, <2>6
  <2>9. conn[c].phase # "subscribed" => \A m \in (d + 1)..n : m \in Seqs(r) \cup rolledBack
    BY <1>2, <2>3, <2>6
  <2>10. ASSUME conn[c].phase # "subscribed",
                NEW i \in DOMAIN r, NEW m \in (d + 1)..n, m < r[i].sequence, m \notin rolledBack
         PROVE  \E j \in DOMAIN r : j < i /\ r[j].sequence = m
    <3>1. CASE i \in DOMAIN q
      <4>1. m < q[i].sequence /\ m # n
        BY <2>5, <2>7, <2>10, <3>1
      <4>2. PICK j \in DOMAIN q : j < i /\ q[j].sequence = m
        BY <1>2, <2>3, <2>10, <3>1, <4>1
      <4>3. QED BY <2>5, <4>2
    <3>2. CASE i = Len(q) + 1
      <4>1. m < n
        BY <1>2, <2>4, <2>10, <3>2
      <4>2. m # n
        BY <1>2, <4>1
      <4>3. m \in Seqs(q)
        BY <1>2, <2>3, <2>10, <4>2
      <4>4. PICK j \in DOMAIN q : q[j].sequence = m
        BY <4>3 DEF Seqs
      <4>5. QED BY <2>5, <3>2, <4>4
    <3>3. QED BY <2>5, <3>1, <3>2
  <2>11. conn'[c].queue = r
    BY <2>2 DEF r
  <2>12. Withheld' = rolledBack \/ rolledBack \subseteq Withheld'
    BY DEF Withheld
  <2>13. conn[c].phase # "subscribed" => \A m \in (d + 1)..n : m \in Seqs(r) \cup Withheld'
    BY <2>9, <2>12
  <2>14. QED BY <1>2, <2>2, <2>8, <2>10, <2>11, <2>13 DEF QueueInv
<1>5. QED BY <1>2, <1>3, <1>4

(* The next event of the agent's channel.                                  *)
LEMMA ProjectStep ==
    ASSUME IInv, Apply \/ Reconcile
    PROVE  IInv'
<1> DEFINE n == fed + 1
           f == FrameOf(transcript, n)
           w == CompactReplayDeltas(window, n)
           x == Recorded(w, f)
<1>1. Types /\ StoredInv /\ LoadInv /\ WindowInv /\ ActorInv
  BY DEF IInv, HostInv
<1>2. /\ fed < Latest /\ fed' = n /\ actor \in {"up", "starting", "replacing"}
      /\ UNCHANGED <<log, stored, actor, load, view, rolledBack>>
      /\ n <= sequence => window' = w /\ UNCHANGED <<sequence, pending, conn>>
      /\ ~(n <= sequence) =>
           /\ sequence' = n /\ window' = x
           /\ pending' = IF actor = "replacing" THEN Append(pending, f) ELSE pending
           /\ conn' = IF actor = "up" THEN [c \in Clients |-> Broadcast(conn[c], <<f>>)] ELSE conn
  BY DEF Apply, Reconcile, Project
<1>3. /\ fed \in Nat /\ Latest \in Nat /\ sequence \in Nat /\ n \in Nat /\ n \in 1..Latest
      /\ sequence <= Latest /\ n \in 0..Latest
      /\ conn \in [Clients -> ConnType] /\ pending \in Seq(FrameType)
  BY <1>1, <1>2 DEF Types, Latest
<1>4. f \in FrameType /\ f.sequence = n
  BY <1>3 DEF FrameOf, FrameType
<1> HIDE DEF f
<1>5. /\ w \in Seq(FrameType) /\ Rising(w)
      /\ Seqs(w) \subseteq 1..sequence /\ Unbroken(Seqs(w), sequence)
  BY <1>1, <1>3, Compacted
<1> HIDE DEF w
<1>6. Steady /\ Latest' = Latest /\ \A m : Owed(m)' <=> Owed(m)
  BY <1>1, <1>2, SameJournal, OwedStays
<1>7. StoredInv' /\ LoadInv'
  BY <1>1, <1>2, <1>6 DEF StoredInv, LoadInv
<1>8. CASE n <= sequence
  <2>1. window' = w /\ UNCHANGED <<sequence, pending, conn>>
    BY <1>2, <1>8
  <2>2. Types'
    BY <1>1, <1>2, <1>3, <1>5, <1>6, <2>1 DEF Types
  <2>3. WindowInv'
    <3>1. Rising(w) /\ Seqs(w) \subseteq 1..sequence
      BY <1>5
    <3>2. \A h \in Seqs(w) : \A m \in h..sequence : Owed(m)' => m \in Seqs(w)
      BY <1>5, <1>6 DEF Unbroken
    <3>3. QED BY <2>1, <3>1, <3>2 DEF WindowInv, Unbroken
  <2>4. actor = "starting"
    BY <1>1, <1>2, <1>3, <1>8 DEF ActorInv
  <2>5. ActorInv'
    BY <1>1, <1>2, <1>8, <2>1, <2>4 DEF ActorInv
  <2>6. Withheld' = Withheld
    BY <1>2, <2>1 DEF Withheld
  <2>7. \A c \in Clients : QueueInv(c)' /\ AnswerInv(c)' /\ ViewInv(c)'
    BY <1>2, <1>6, <2>1, <2>6, ClientsStay
  <2>8. QED BY <1>7, <2>2, <2>3, <2>5, <2>7 DEF IInv, HostInv
<1>9. CASE ~(n <= sequence)
  <2>1. n = sequence + 1 /\ fed = sequence
    BY <1>1, <1>2, <1>3, <1>9 DEF ActorInv
  <2>2. /\ sequence' = n /\ window' = x
        /\ pending' = IF actor = "replacing" THEN Append(pending, f) ELSE pending
        /\ conn' = IF actor = "up" THEN [c \in Clients |-> Broadcast(conn[c], <<f>>)] ELSE conn
    BY <1>2, <1>9
  <2>3. x \in Seq(FrameType) /\ Rising(x) /\ Seqs(x) \subseteq 1..n /\ Unbroken(Seqs(x), n)
    BY <1>1, <1>4, <1>5, <2>1, Pushed
  <2> HIDE DEF x, n
  <2>4. /\ Append(pending, f) \in Seq(FrameType)
        /\ Seqs(Append(pending, f)) = Seqs(pending) \cup {n}
        /\ Rising(Append(pending, f))
        /\ Rising(pending) /\ Seqs(pending) \subseteq 1..n
    <3>1. Rising(pending) /\ Seqs(pending) \subseteq 1..sequence
      BY <1>1 DEF ActorInv
    <3>2. \A m \in Seqs(pending) : m < f.sequence /\ m \in 1..n
      BY <1>3, <1>4, <2>1, <3>1
    <3>3. QED BY <1>3, <1>4, <3>1, <3>2, FrameAppended
  <2>5. pending' \in Seq(FrameType) /\ Rising(pending') /\ Seqs(pending') \subseteq 1..n
    <3>1. n \in 1..n
      BY <1>3
    <3>2. Seqs(Append(pending, f)) \subseteq 1..n
      BY <2>4, <3>1
    <3>3. QED BY <1>3, <2>2, <2>4, <3>2
  <2>6. \A c \in Clients :
          /\ conn'[c] \in ConnType /\ conn'[c].phase = conn[c].phase
          /\ conn'[c].out = conn[c].out /\ conn'[c].delivered = conn[c].delivered
    <3> SUFFICES ASSUME NEW c \in Clients
                 PROVE  /\ conn'[c] \in ConnType /\ conn'[c].phase = conn[c].phase
                        /\ conn'[c].out = conn[c].out /\ conn'[c].delivered = conn[c].delivered
      OBVIOUS
    <3>1. conn[c] \in ConnType /\ <<f>> \in Seq(FrameType)
      BY <1>3, <1>4
    <3>2. CASE actor = "up"
      <4>1. conn'[c] = Broadcast(conn[c], <<f>>)
        BY <2>2, <3>2
      <4> DEFINE g == <<f>>
                 b == Broadcast(conn[c], g)
      <4>2. g \in Seq(FrameType) /\ conn'[c] = b
        BY <3>1, <4>1
      <4> HIDE DEF g
      <4>3. b \in ConnType /\ b.phase = conn[c].phase /\ b.out = conn[c].out /\ b.delivered = conn[c].delivered
        BY <3>1, <4>2, BroadcastIs, Zenon
      <4> HIDE DEF b
      <4>4. QED BY <4>2, <4>3
    <3>3. CASE actor # "up"
      BY <2>2, <3>1, <3>3
    <3>4. QED BY <3>2, <3>3
  <2>7. Types'
    <3>1. conn' \in [Clients -> ConnType]
      <4>1. conn' = [c \in Clients |-> conn'[c]]
        BY <1>3, <2>2
      <4>2. QED BY <2>6, <4>1
    <3>2. window' \in Seq(FrameType) /\ sequence' \in 0..Latest /\ fed' \in 0..Latest
      BY <1>2, <1>3, <2>2, <2>3
    <3>3. QED BY <1>1, <1>2, <1>6, <2>5, <3>1, <3>2 DEF Types
  <2>8. WindowInv'
    <3>1. Rising(x) /\ Seqs(x) \subseteq 1..n
      BY <2>3
    <3>2. \A h \in Seqs(x) : \A m \in h..n : Owed(m)' => m \in Seqs(x)
      BY <1>6, <2>3 DEF Unbroken
    <3>3. QED BY <2>2, <3>1, <3>2 DEF WindowInv, Unbroken
  <2>9. ActorInv'
    <3>1. actor = "starting" => pending' = <<>>
      BY <1>1, <2>2 DEF ActorInv
    <3>2. fed' <= sequence' /\ fed' = sequence'
      BY <1>2, <1>3, <2>2
    <3>3. \A c \in Clients : conn'[c].phase # "closed" => actor \in {"up", "replacing"}
      BY <1>1, <2>6 DEF ActorInv
    <3>4. QED BY <1>2, <2>2, <2>5, <3>1, <3>2, <3>3 DEF ActorInv
  <2>10. ASSUME NEW c \in Clients PROVE QueueInv(c)' /\ AnswerInv(c)' /\ ViewInv(c)'
    <3>1. QueueInv(c) /\ AnswerInv(c) /\ ViewInv(c) /\ view'[c] = view[c]
      BY <1>2 DEF IInv
    <3>2. ViewInv(c)'
      BY <1>1, <1>6, <3>1, ViewStays
    <3>3. sequence' \in Nat /\ sequence <= sequence'
      BY <1>3, <2>1, <2>2
    <3>4. AnswerInv(c)'
      BY <1>1, <1>6, <2>6, <3>1, <3>3, AnswerStays
    <3>5. QueueInv(c)'
      <4>1. CASE conn[c].phase = "closed"
        BY <2>6, <4>1, ClosedClient
      <4>2. CASE conn[c].phase # "closed"
        <5>1. actor \in {"up", "replacing"}
          BY <1>1, <4>2 DEF ActorInv
        <5>2. actor = "up" => conn'[c] = Broadcast(conn[c], <<f>>) /\ Withheld = rolledBack
          BY <2>2 DEF Withheld
        <5>3. actor = "replacing" => conn'[c] = conn[c] /\ Withheld \cup {f.sequence} \subseteq Withheld'
          BY <1>2, <1>4, <2>2, <2>4 DEF Withheld
        <5>4. QED BY <1>1, <1>2, <1>4, <2>1, <2>2, <3>1, <4>2, <5>1, <5>2, <5>3, QueueGoesOn
      <4>3. QED BY <4>1, <4>2
    <3>6. QED BY <3>2, <3>4, <3>5
  <2>11. QED BY <1>7, <2>7, <2>8, <2>9, <2>10 DEF IInv, HostInv
<1>10. QED BY <1>8, <1>9

-----------------------------------------------------------------------------
(* Reading the journal at a start.                                         *)

(* Min is the least of some numbers.                                       *)
LEMMA MinIsLeast ==
    ASSUME NEW T \in SUBSET Nat, T # {}
    PROVE  Min(T) \in T /\ \A j \in T : Min(T) <= j
<1>1. \E i \in T : \A j \in T : i <= j
  BY LeastMember
<1>2. QED BY <1>1 DEF Min

(* Numbers up to p have a greatest one.                                    *)
LEMMA GreatestMember ==
    ASSUME NEW p \in Nat, NEW T \in SUBSET (1..p), T # {}
    PROVE  \E i \in T : \A j \in T : j <= i
<1> DEFINE U == {p - j : j \in T}
<1>1. U \in SUBSET Nat /\ U # {}
  <2>1. \A j \in T : p - j \in Nat
    OBVIOUS
  <2>2. QED BY <2>1
<1> HIDE DEF U
<1>2. PICK u \in U : \A x \in U : u <= x
  BY <1>1, LeastMember
<1>3. PICK i \in T : u = p - i
  BY <1>2 DEF U
<1>4. \A j \in T : j \in Nat /\ p - i <= p - j
  <2>1. \A j \in T : j \in Nat
    OBVIOUS
  <2>2. \A j \in T : p - j \in U
    BY DEF U
  <2>3. QED BY <1>2, <1>3, <2>1, <2>2
<1>5. \A j \in T : j <= i
  BY <1>3, <1>4
<1>6. QED BY <1>5

(* event_page reads the newest of the events before the cursor, as many as *)
(* the window has room for.                                                *)
LEMMA PageIsTop ==
    ASSUME Types, LoadInv, actor = "loading"
    PROVE  LET page == EventPage(load.before) IN
           /\ page.rows = {n \in stored : load.before = None \/ n < load.before}
           /\ page.events \subseteq page.rows
           /\ \A n \in page.events, m \in page.rows : n <= m => m \in page.events
           /\ page.rows # {} => page.events # {}
           /\ IsFiniteSet(page.events)
           /\ Cardinality(page.events) <= ReplayCapacity - Cardinality(load.events)
<1> DEFINE R == {n \in stored : load.before = None \/ n < load.before}
           limit == Min({PageSize, ReplayCapacity - Cardinality(load.events)})
           Above(n) == {m \in R : m >= n}
           P == {n \in R : Cardinality(Above(n)) <= limit}
<1>1. EventPage(load.before) = [rows |-> R, events |-> P]
  BY DEF EventPage
<1>2. limit \in Nat /\ limit >= 1 /\ limit <= ReplayCapacity - Cardinality(load.events)
  <2> DEFINE a == ReplayCapacity - Cardinality(load.events)
             T == {PageSize, a}
  <2>1. IsFiniteSet(load.events) /\ Cardinality(load.events) < ReplayCapacity
    BY DEF LoadInv
  <2>2. Cardinality(load.events) \in Nat
    BY <2>1, FS_CardinalityType
  <2>3. PageSize \in Nat \ {0} /\ ReplayCapacity \in Nat \ {0}
    BY CapacitiesArePositive
  <2>4. a \in Nat /\ a >= 1 /\ PageSize \in Nat /\ PageSize >= 1
    BY <2>1, <2>2, <2>3
  <2> HIDE DEF a
  <2>5. T \in SUBSET Nat /\ T # {}
    BY <2>4
  <2> HIDE DEF T
  <2>6. Min(T) \in T /\ \A j \in T : Min(T) <= j
    BY <2>5, MinIsLeast
  <2>7. QED BY <2>4, <2>6 DEF T, a
<1> HIDE DEF limit
<1>3. Latest \in Nat /\ R \in SUBSET (1..Latest) /\ IsFiniteSet(R)
  <2>1. Latest \in Nat /\ R \in SUBSET (1..Latest)
    <3>1. Latest \in Nat /\ stored \subseteq 1..Latest
      BY DEF Types, Latest
    <3>2. R \subseteq stored
      OBVIOUS
    <3>3. QED BY <3>1, <3>2
  <2>2. IsFiniteSet(1..Latest)
    BY <2>1, FS_Interval
  <2>3. QED BY <2>1, <2>2, FS_Subset
<1> HIDE DEF R
<1>4. \A n : IsFiniteSet(Above(n)) /\ Cardinality(Above(n)) \in Nat
  <2> SUFFICES ASSUME NEW n PROVE IsFiniteSet(Above(n)) /\ Cardinality(Above(n)) \in Nat
    OBVIOUS
  <2>1. Above(n) \in SUBSET R
    OBVIOUS
  <2> HIDE DEF Above
  <2>2. QED BY <1>3, <2>1, FS_Subset, FS_CardinalityType
<1>5. ASSUME NEW n \in P, NEW m \in R, n <= m PROVE m \in P
  <2>1. \A x \in R : x \in Nat
    BY <1>3
  <2>2. n \in R /\ Cardinality(Above(n)) <= limit
    OBVIOUS
  <2>3. \A x \in R : x >= m => x >= n
    BY <1>5, <2>1, <2>2
  <2>4. Above(m) \subseteq Above(n)
    BY <2>3
  <2> HIDE DEF Above
  <2>5. Cardinality(Above(m)) <= Cardinality(Above(n))
    <3>1. Above(m) \in SUBSET Above(n) /\ IsFiniteSet(Above(n))
      BY <1>4, <2>4
    <3>2. QED BY <3>1, FS_Subset
  <2>6. Cardinality(Above(m)) <= limit
    BY <1>2, <1>4, <2>2, <2>5
  <2>7. QED BY <2>6
<1>6. ASSUME R # {} PROVE P # {}
  <2>1. PICK t \in R : \A j \in R : j <= t
    BY <1>3, <1>6, GreatestMember
  <2>2. \A x \in R : x \in Nat
    BY <1>3
  <2>3. Above(t) = {t}
    BY <2>1, <2>2
  <2>4. Cardinality(Above(t)) = 1
    BY <2>3, FS_Singleton
  <2>5. t \in P
    BY <1>2, <2>4
  <2>6. QED BY <2>5
<1>7. P \subseteq R
  OBVIOUS
<1>8. IsFiniteSet(P) /\ Cardinality(P) \in Nat /\ Cardinality(P) <= limit
  <2>1. P \in SUBSET R
    BY <1>7
  <2>2. IsFiniteSet(P) /\ Cardinality(P) \in Nat
    <3> HIDE DEF P
    <3>1. QED BY <1>3, <2>1, FS_Subset, FS_CardinalityType
  <2>3. CASE P = {}
    <3> HIDE DEF P
    <3>1. QED BY <1>2, <2>2, <2>3, FS_EmptySet
  <2>4. CASE P # {}
    <3>1. P \in SUBSET Nat
      <4>1. \A x \in R : x \in Nat
        BY <1>3
      <4>2. QED BY <2>1, <4>1
    <3>2. Min(P) \in P /\ \A j \in P : Min(P) <= j
      <4> HIDE DEF P
      <4>1. QED BY <2>4, <3>1, MinIsLeast
    <3> DEFINE a == Min(P)
    <3>3. a \in P /\ \A j \in P : a <= j
      BY <3>2
    <3> HIDE DEF a
    <3>4. Cardinality(Above(a)) <= limit
      BY <3>3
    <3>5. \A j \in P : j \in R /\ j \in Nat /\ a \in Nat
      BY <2>1, <3>1, <3>3
    <3>6. \A j \in P : j \in R /\ j >= a
      BY <3>3, <3>5
    <3>7. P \in SUBSET Above(a)
      <4> HIDE DEF P
      <4>1. QED BY <3>6
    <3> HIDE DEF P, Above
    <3>8. Cardinality(P) <= Cardinality(Above(a))
      BY <1>4, <3>7, FS_Subset
    <3>9. QED BY <1>2, <1>4, <2>2, <3>4, <3>8
  <2>5. QED BY <2>3, <2>4
<1> HIDE DEF P
<1>9. Cardinality(P) <= ReplayCapacity - Cardinality(load.events)
  <2>1. Cardinality(load.events) \in Nat /\ ReplayCapacity \in Nat
    BY FS_CardinalityType, CapacitiesArePositive DEF LoadInv
  <2>2. QED BY <1>2, <1>8, <2>1
<1>10. QED BY <1>1, <1>5, <1>6, <1>7, <1>8, <1>9 DEF R

(* The pages read so far, with the next: everything above the oldest.      *)
LEMMA PagesAreTop ==
    ASSUME Types, LoadInv, actor = "loading"
    PROVE  LET page == EventPage(load.before)
               events == load.events \cup page.events
               latest == IF load.before = None THEN Latest ELSE load.latest
           IN  /\ latest \in fed..Latest /\ latest \in Nat
               /\ events \subseteq 1..latest /\ IsFiniteSet(events)
               /\ page.events \subseteq events
               /\ \A h \in events : \A n \in stored : n \in h..latest => n \in events
               /\ \A h \in page.events : \A n \in events : n < h => n \in page.events
<1> DEFINE page == EventPage(load.before)
           R == page.rows
           P == page.events
           old == load.events
           b == load.before
           latest == IF b = None THEN Latest ELSE load.latest
<1>1. /\ R = {n \in stored : b = None \/ n < b}
      /\ P \subseteq R
      /\ \A n \in P, m \in R : n <= m => m \in P
  BY PageIsTop
<1>2. /\ Latest \in Nat /\ fed \in Nat /\ fed <= Latest /\ stored \subseteq 1..Latest
      /\ IsFiniteSet(old) /\ load.latest \in Nat
  BY DEF Types, Latest, LoadInv, LoadType
<1>3. b = None => old = {}
  BY DEF LoadInv
<1>4. b # None =>
        /\ b \in 1..load.latest /\ load.latest \in fed..Latest /\ b \in Nat
        /\ old \subseteq b..load.latest
        /\ \A n \in stored : n \in b..load.latest => n \in old
  BY DEF LoadInv
<1> HIDE DEF R, P, old, b, page
<1>5. latest \in fed..Latest /\ latest \in Nat
  BY <1>2, <1>4
<1>6. CASE b = None
  <2>1. latest = Latest /\ old = {} /\ R = stored
    BY <1>1, <1>3, <1>6
  <2> HIDE DEF latest
  <2>2. old \cup P \subseteq 1..latest
    BY <1>1, <1>2, <2>1
  <2>3. \A h \in old \cup P : \A n \in stored : n \in h..latest => n \in old \cup P
    <3> SUFFICES ASSUME NEW h \in P, NEW n \in stored, n \in h..latest PROVE n \in P
      BY <2>1
    <3>1. h <= n
      BY <1>5, <2>2
    <3>2. QED BY <1>1, <2>1, <3>1
  <2>4. \A h \in P : \A n \in old \cup P : n < h => n \in P
    BY <2>1
  <2>5. IsFiniteSet(old \cup P)
    <3>1. IsFiniteSet(1..latest)
      BY <1>5, FS_Interval
    <3>2. QED BY <2>2, <3>1, FS_Subset
  <2>6. QED BY <1>5, <2>2, <2>3, <2>4, <2>5 DEF R, P, old, b, page, latest
<1>7. CASE b # None
  <2>1. latest = load.latest
    BY <1>7
  <2>2. /\ b \in 1..latest /\ latest \in fed..Latest /\ b \in Nat
        /\ old \subseteq b..latest
        /\ \A n \in stored : n \in b..latest => n \in old
    BY <1>4, <1>7, <2>1
  <2> HIDE DEF latest
  <2>3. \A n \in R : n \in stored /\ n < b /\ n \in 1..latest
    BY <1>1, <1>2, <1>5, <1>7, <2>2
  <2>4. \A n \in stored : n < b => n \in R
    BY <1>1
  <2>5. old \cup P \subseteq 1..latest
    <3>1. old \subseteq 1..latest
      BY <1>5, <2>2
    <3>2. QED BY <1>1, <2>3, <3>1
  <2>6. ASSUME NEW h \in old \cup P, NEW n \in stored, n \in h..latest PROVE n \in old \cup P
    <3>1. h \in Nat /\ n \in Nat /\ h <= n /\ n <= latest
      BY <1>5, <2>5, <2>6
    <3>2. CASE n < b
      <4>1. n \in R
        BY <2>4, <3>2
      <4>2. \A x \in old : x >= b
        BY <1>5, <2>2
      <4>3. h \in P
        BY <2>2, <3>1, <3>2, <4>2
      <4>4. QED BY <1>1, <3>1, <4>1, <4>3
    <3>3. CASE ~(n < b)
      <4>1. n \in b..latest
        BY <1>5, <2>2, <3>1, <3>3
      <4>2. QED BY <2>2, <4>1
    <3>4. QED BY <3>2, <3>3
  <2>7. ASSUME NEW h \in P, NEW n \in old \cup P, n < h PROVE n \in P
    <3>1. h \in Nat /\ h < b
      BY <1>1, <2>3
    <3>2. \A x \in old : x \in Nat /\ x >= b
      BY <1>5, <2>2
    <3>3. QED BY <2>2, <2>7, <3>1, <3>2
  <2>8. IsFiniteSet(old \cup P)
    <3>1. IsFiniteSet(1..latest)
      BY <1>5, FS_Interval
    <3>2. QED BY <2>5, <3>1, FS_Subset
  <2>9. QED BY <1>5, <2>5, <2>6, <2>7, <2>8 DEF R, P, old, b, page, latest
<1>8. QED BY <1>6, <1>7

(* load_replay keeps the newest of the events read, from a turn's start    *)
(* and from behind an event that is larger than the window.                *)
LEMMA LoadedFrames ==
    ASSUME NEW latest \in Nat, NEW events \in SUBSET (1..latest), NEW hasEarlier \in BOOLEAN
    PROVE  LET w == Loaded(events, latest, hasEarlier).frames IN
           /\ w \in Seq(FrameType) /\ Rising(w)
           /\ Seqs(w) \subseteq events
           /\ \A h \in Seqs(w) : \A n \in events : n >= h => n \in Seqs(w)
<1> DEFINE kept == Kept(events, hasEarlier)
           frame(n) == FrameOf({m \in kept : m < n}, n)
           fs == [n \in 1..latest |-> frame(n)]
           F == Fitting(kept)
<1>1. Loaded(events, latest, hasEarlier).frames = Entries(fs, F)
  BY DEF Loaded
<1>2. \A n \in Nat : frame(n) \in FrameType /\ frame(n).sequence = n
  BY DEF FrameOf, FrameType
<1>3. kept \subseteq events /\ \A h \in kept : \A n \in events : n >= h => n \in kept
  <2> DEFINE starts == {n \in events : log[n] = "start"}
  <2>1. CASE hasEarlier /\ starts # {}
    <3>1. kept = {n \in events : n >= Min(starts)}
      BY <2>1 DEF Kept
    <3>2. starts \in SUBSET Nat
      <4>1. \A n \in events : n \in Nat
        OBVIOUS
      <4>2. QED BY <4>1
    <3> HIDE DEF starts
    <3>3. Min(starts) \in Nat
      BY <2>1, <3>2, MinIsLeast
    <3>4. \A n \in events : n \in Nat
      OBVIOUS
    <3> HIDE DEF kept
    <3>5. QED BY <3>1, <3>3, <3>4
  <2>2. CASE ~(hasEarlier /\ starts # {})
    BY <2>2 DEF Kept
  <2>3. QED BY <2>1, <2>2
<1> HIDE DEF kept, frame
<1>4. F \subseteq events /\ \A h \in F : \A n \in events : n >= h => n \in F
  <2>1. F \subseteq kept
    BY DEF Fitting
  <2>2. ASSUME NEW h \in F, NEW n \in events, n >= h PROVE n \in F
    <3>1. n \in kept /\ h \in kept
      BY <1>3, <2>1, <2>2
    <3>2. \A m \in kept : m \in Nat
      BY <1>3
    <3>3. \A m \in kept : m >= n => m >= h
      BY <2>2, <3>1, <3>2
    <3>4. \A m \in kept : m >= h => log[m] # "huge"
      BY DEF Fitting
    <3>5. QED BY <3>1, <3>3, <3>4 DEF Fitting
  <2>3. QED BY <1>3, <2>1, <2>2
<1> HIDE DEF F
<1>5. /\ fs \in Seq(FrameType) /\ DOMAIN fs = 1..latest
      /\ \A n \in 1..latest : fs[n].sequence = n
  <2>1. \A n \in 1..latest : n \in Nat
    OBVIOUS
  <2>2. fs \in [1..latest -> FrameType] /\ \A n \in 1..latest : fs[n].sequence = n
    BY <1>2, <2>1
  <2> HIDE DEF fs
  <2>3. QED BY <2>2
<1> HIDE DEF fs
<1>6. Rising(fs)
  BY <1>5 DEF Rising
<1>7. F \in SUBSET (DOMAIN fs)
  BY <1>4, <1>5
<1>8. /\ Entries(fs, F) \in Seq(FrameType) /\ Rising(Entries(fs, F))
      /\ Seqs(Entries(fs, F)) = {fs[i].sequence : i \in F}
  BY <1>5, <1>6, <1>7, SelectedFrames
<1>9. Seqs(Entries(fs, F)) = F
  BY <1>5, <1>7, <1>8
<1>10. QED BY <1>1, <1>4, <1>8, <1>9

(* A page of the journal is read: one of several, or the last.             *)
LEMMA LoadStep ==
    ASSUME IInv, LoadPage
    PROVE  IInv'
<1> DEFINE page == EventPage(load.before)
           P == page.events
           events == load.events \cup P
           latest == IF load.before = None THEN Latest ELSE load.latest
           more == page.rows # P
           hasEarlier == more /\ Cardinality(events) >= ReplayCapacity
           w == Loaded(events, latest, hasEarlier).frames
<1>1. Types /\ StoredInv /\ LoadInv /\ ActorInv /\ WindowInv /\ actor = "loading"
  BY DEF IInv, HostInv, LoadPage
<1>2. /\ latest \in fed..Latest /\ latest \in Nat
      /\ events \subseteq 1..latest /\ IsFiniteSet(events)
      /\ \A h \in events : \A n \in stored : n \in h..latest => n \in events
      /\ \A h \in P : \A n \in events : n < h => n \in P
  BY <1>1, PagesAreTop
<1>3. P \subseteq page.rows /\ (page.rows # {} => P # {})
  BY <1>1, PageIsTop
<1>4. /\ UNCHANGED <<log, stored, fed, conn, view, rolledBack>> /\ pending' = <<>>
      /\ more /\ ~hasEarlier =>
           /\ load' = [before |-> Min(P), latest |-> latest, events |-> events]
           /\ UNCHANGED <<actor, sequence, window>>
      /\ ~(more /\ ~hasEarlier) =>
           /\ actor' = "starting" /\ load' = [NoLoad EXCEPT !.latest = latest]
           /\ sequence' = latest /\ window' = w
  BY DEF LoadPage, journal
<1>5. w \in Seq(FrameType) /\ Rising(w) /\ Seqs(w) \subseteq events
      /\ \A h \in Seqs(w) : \A n \in events : n >= h => n \in Seqs(w)
  <2> DEFINE e == hasEarlier
  <2>1. e \in BOOLEAN /\ events \in SUBSET (1..latest) /\ latest \in Nat
    BY <1>2
  <2> HIDE DEF e, events, latest
  <2>2. Loaded(events, latest, e).frames = w
    BY DEF e
  <2>3. QED BY <2>1, <2>2, LoadedFrames
<1> HIDE DEF w
<1>6. Steady /\ Latest' = Latest /\ \A n : Owed(n)' <=> Owed(n)
  BY <1>1, <1>4, SameJournal, OwedStays
<1>7. fed \in Nat /\ Latest \in Nat /\ fed <= Latest
  BY <1>1 DEF Types, Latest
<1>8. StoredInv'
  BY <1>1, <1>4, <1>6 DEF StoredInv
<1>9. \A c \in Clients : conn[c].phase = "closed"
  BY <1>1 DEF ActorInv
<1>10. \A c \in Clients : QueueInv(c)' /\ AnswerInv(c)' /\ ViewInv(c)'
  <2> SUFFICES ASSUME NEW c \in Clients PROVE QueueInv(c)' /\ AnswerInv(c)' /\ ViewInv(c)'
    OBVIOUS
  <2>1. QueueInv(c)' /\ AnswerInv(c)'
    BY <1>4, <1>9, ClosedClient
  <2>2. ViewInv(c) /\ view'[c] = view[c]
    BY <1>4 DEF IInv
  <2>3. QED BY <1>1, <1>6, <2>1, <2>2, ViewStays
<1>11. CASE more /\ ~hasEarlier
  <2>1. /\ load' = [before |-> Min(P), latest |-> latest, events |-> events]
        /\ UNCHANGED <<actor, sequence, window>> /\ Cardinality(events) < ReplayCapacity
    <3>1. Cardinality(events) \in Nat /\ ReplayCapacity \in Nat
      BY <1>2, FS_CardinalityType, CapacitiesArePositive
    <3>2. ~(Cardinality(events) >= ReplayCapacity)
      BY <1>11
    <3>3. QED BY <1>4, <1>11, <3>1, <3>2
  <2>2. P # {} /\ P \subseteq events
    BY <1>3, <1>11
  <2>3. P \in SUBSET Nat
    BY <1>2, <2>2
  <2> HIDE DEF P, events, latest
  <2>4. Min(P) \in P /\ \A j \in P : Min(P) <= j
    BY <2>2, <2>3, MinIsLeast
  <2> DEFINE a == Min(P)
  <2>5. a \in P /\ a \in events /\ a \in Nat /\ a \in 1..latest
    BY <1>2, <2>2, <2>3, <2>4
  <2>6. events \subseteq a..latest
    <3> SUFFICES ASSUME NEW n \in events PROVE n \in a..latest
      OBVIOUS
    <3>1. n \in Nat /\ n <= latest
      BY <1>2
    <3>2. ~(n < a)
      <4>1. n < a => n \in P
        BY <1>2, <2>4
      <4>2. n \in P => a <= n
        BY <2>4
      <4>3. QED BY <2>5, <3>1, <4>1, <4>2
    <3>3. QED BY <1>2, <2>5, <3>1, <3>2
  <2>7. \A n \in stored : n \in a..latest => n \in events
    BY <1>2, <2>5
  <2> HIDE DEF a
  <2>8. load'.before = a /\ load'.latest = latest /\ load'.events = events /\ load' \in LoadType
    <3>1. load' = [before |-> a, latest |-> latest, events |-> events]
      BY <2>1 DEF a
    <3>2. events \in SUBSET Nat
      BY <1>2
    <3>3. QED BY <1>2, <2>5, <3>1, <3>2 DEF LoadType
  <2>9. LoadInv'
    <3>1. a # None
      BY <2>5, NoneIsNoSequence
    <3>2. QED BY <1>2, <1>4, <1>6, <2>1, <2>5, <2>6, <2>7, <2>8, <3>1 DEF LoadInv
  <2>10. Types'
    BY <1>1, <1>4, <1>6, <2>1, <2>8, NoFrames DEF Types
  <2>11. WindowInv'
    BY <1>1, <1>6, <2>1, WindowStays
  <2>12. ActorInv'
    BY <1>1, <1>4, <2>1, NoFrames DEF ActorInv
  <2>13. QED BY <1>8, <1>10, <2>9, <2>10, <2>11, <2>12 DEF IInv, HostInv
<1>12. CASE ~(more /\ ~hasEarlier)
  <2>1. /\ actor' = "starting" /\ load' = [NoLoad EXCEPT !.latest = latest]
        /\ sequence' = latest /\ window' = w
    BY <1>4, <1>12
  <2> HIDE DEF events, latest
  <2>2. load' \in LoadType
    <3>1. \A x \in LoadType : [x EXCEPT !.latest = latest] \in LoadType
      BY <1>2 DEF LoadType
    <3>2. QED BY <2>1, <3>1, NoLoadType
  <2>3. latest \in 0..Latest /\ fed <= latest
    BY <1>2, <1>7
  <2>4. Types'
    BY <1>1, <1>4, <1>5, <1>6, <2>1, <2>2, <2>3, NoFrames DEF Types
  <2>5. ASSUME NEW h \in Seqs(w), NEW n \in h..latest, Owed(n) PROVE n \in Seqs(w)
    <3>1. h \in 1..latest /\ h \in events
      BY <1>2, <1>5
    <3>2. n \in 1..Latest /\ n >= h
      BY <1>7, <1>2, <3>1
    <3>3. n \in stored
      BY <1>1, <2>5, <3>2 DEF StoredInv
    <3>4. n \in events
      BY <1>2, <3>1, <3>3
    <3>5. QED BY <1>5, <3>2, <3>4
  <2>6. WindowInv'
    <3>1. Rising(w) /\ Seqs(w) \subseteq 1..latest
      BY <1>2, <1>5
    <3>2. \A h \in Seqs(w) : \A m \in h..latest : Owed(m)' => m \in Seqs(w)
      BY <1>6, <2>5
    <3>3. QED BY <2>1, <3>1, <3>2 DEF WindowInv, Unbroken
  <2>7. ActorInv'
    BY <1>4, <1>9, <2>1, <2>3, NoFrames DEF ActorInv
  <2>8. LoadInv'
    BY <2>1 DEF LoadInv
  <2>9. QED BY <1>8, <1>10, <2>4, <2>6, <2>7, <2>8 DEF IInv, HostInv
<1>13. QED BY <1>11, <1>12

-----------------------------------------------------------------------------
(* The invariant, and what it says of clients.                             *)

(* It holds before the first start of the chat.                            *)
LEMMA InitIInv == ASSUME Init PROVE IInv
<1>1. /\ log = <<>> /\ stored = {} /\ fed = 0 /\ actor = "down" /\ load = NoLoad
      /\ sequence = 0 /\ window = <<>> /\ pending = <<>> /\ rolledBack = {}
      /\ conn = [c \in Clients |-> Closed]
      /\ view = [c \in Clients |-> [base |-> 0, frames |-> <<>>]]
  BY DEF Init
<1>2. Latest = 0
  BY <1>1 DEF Latest
<1>3. \A c \in Clients : conn[c] = Closed /\ view[c] = [base |-> 0, frames |-> <<>>]
  BY <1>1
<1>4. conn \in [Clients -> ConnType]
  BY <1>1, ClosedType
<1>5. [base |-> 0, frames |-> <<>>] \in ViewType
  <2>1. <<>> \in Seq(Nat)
    OBVIOUS
  <2>2. QED BY <2>1 DEF ViewType
<1>6. view \in [Clients -> ViewType]
  BY <1>1, <1>5
<1>7. Types
  <2>1. log \in Seq(Kinds) /\ 0 \in 0..Latest
    BY <1>1, <1>2
  <2>2. QED BY <1>1, <1>4, <1>6, <2>1, NoLoadType, NoFrames DEF Types
<1>8. \A n : n \notin 1..0
  OBVIOUS
<1>9. StoredInv /\ LoadInv /\ WindowInv
  BY <1>1, <1>2, <1>8, NoFrames DEF StoredInv, LoadInv, WindowInv, Unbroken
<1>10. ActorInv
  BY <1>1, <1>3, ClosedType, NoFrames DEF ActorInv
<1>11. ASSUME NEW c \in Clients PROVE QueueInv(c) /\ AnswerInv(c) /\ ViewInv(c)
  <2>1. QueueInv(c) /\ AnswerInv(c)
    BY <1>3, ClosedType DEF QueueInv, AnswerInv
  <2>2. view[c].base = 0 /\ view[c].frames = <<>> /\ Position(c) = 0
    BY <1>3 DEF Position
  <2>3. Len(<<>>) = 0 /\ (\A i : i \notin 1..(0 - 1)) /\ \A n : n \notin (0 + 1)..0
    OBVIOUS
  <2>4. ViewInv(c)
    BY <1>2, <2>2, <2>3 DEF ViewInv
  <2>5. QED BY <2>1, <2>4
<1>12. QED BY <1>7, <1>9, <1>10, <1>11 DEF IInv, HostInv

(* A step of nothing keeps it.                                             *)
LEMMA StutterIInv == ASSUME IInv, UNCHANGED vars PROVE IInv'
<1>1. Types /\ HostInv /\ StoredInv /\ LoadInv /\ WindowInv /\ ActorInv
  BY DEF IInv, HostInv
<1>2. UNCHANGED <<log, stored, fed, actor, load, sequence, window, pending, conn, view, rolledBack>>
  BY DEF vars
<1>3. Steady /\ Latest' = Latest /\ \A n : Owed(n)' <=> Owed(n)
  BY <1>1, <1>2, SameJournal, OwedStays
<1>4. Withheld' = Withheld
  BY <1>2 DEF Withheld
<1>5. \A c \in Clients : QueueInv(c)' /\ AnswerInv(c)' /\ ViewInv(c)'
  BY <1>2, <1>3, <1>4, ClientsStay
<1>6. Types'
  BY <1>1, <1>2, <1>3 DEF Types
<1>7. StoredInv' /\ LoadInv'
  BY <1>1, <1>2, <1>3 DEF StoredInv, LoadInv
<1>8. WindowInv'
  BY <1>1, <1>2, <1>3, WindowStays
<1>9. ActorInv'
  BY <1>1, <1>2 DEF ActorInv
<1>10. QED BY <1>5, <1>6, <1>7, <1>8, <1>9 DEF IInv, HostInv

(* Every step keeps it: the pages, the window, the queues and the answers  *)
(* of every client lead on from what the client shows.                     *)
THEOREM Inductive == Spec => []IInv
<1>1. Init => IInv
  BY InitIInv
<1>2. IInv /\ [Next]_vars => IInv'
  <2> SUFFICES ASSUME IInv, [Next]_vars PROVE IInv'
    OBVIOUS
  <2>1. CASE (\E kind \in Kinds \ {"config"} : Emit(kind)) \/ Open \/ Replace
    BY <2>1, CommitStep
  <2>2. CASE LoadPage
    BY <2>2, LoadStep
  <2>3. CASE Apply \/ Reconcile
    BY <2>3, ProjectStep
  <2>4. CASE Serve \/ RolledBack
    BY <2>4, ServeStep
  <2>5. CASE Replaced
    BY <2>5, ReplacedStep
  <2>6. ASSUME NEW c \in Clients, Lagged(c) \/ Disconnect(c) PROVE IInv'
    BY <2>6, ClosingStep
  <2>7. ASSUME NEW c \in Clients, Subscribe(c) PROVE IInv'
    BY <2>7, SubscribeStep
  <2>8. ASSUME NEW c \in Clients, Write(c) PROVE IInv'
    BY <2>8, WriteStep
  <2>9. ASSUME NEW c \in Clients, Forward(c) PROVE IInv'
    BY <2>9, ForwardStep
  <2>10. ASSUME NEW c \in Clients, NEW last \in {None, Position(c)}, Snapshot(c, last) PROVE IInv'
    BY <2>10, SnapshotStep
  <2>11. CASE Crash
    BY <2>11, CrashStep
  <2>12. CASE UNCHANGED vars
    BY <2>12, StutterIInv
  <2>13. QED
    BY <2>1, <2>2, <2>3, <2>4, <2>5, <2>6, <2>7, <2>8, <2>9, <2>10, <2>11, <2>12, Zenon DEF Next
<1>3. QED BY <1>1, <1>2, PTL DEF Spec

(* A client that follows a chat over lost connections, a full queue, a     *)
(* compacted or truncated window, replaced agents and restarts is shown    *)
(* every event it is owed after its last transcript, once and in order     *)
(* (replay_after, selected_broadcast, load_replay).                        *)
THEOREM CatchUpSafety == Spec => []ClientCaughtUp
<1>1. IInv => ClientCaughtUp
  BY DEF IInv, ViewInv, ClientCaughtUp
<1>2. QED BY <1>1, Inductive, PTL

-----------------------------------------------------------------------------
(* Types and limits: what the invariant above does not need.               *)

Bounds ==
    /\ Latest <= MaxEvents
    /\ Len(window) <= ReplayCapacity
    /\ transcript \subseteq 1..Latest
    /\ cut \in 1..(MaxEvents + 1) \cup {None}
    /\ \A c \in Clients : Len(conn[c].queue) <= BroadcastCapacity /\ view[c].base <= Latest
    /\ losses \in 0..MaxLosses
    /\ rolledBack \subseteq 1..Latest

(* Some of the entries are no more than all.                               *)
LEMMA EntriesLength ==
    ASSUME NEW T, NEW s \in Seq(T), NEW I \in SUBSET (DOMAIN s)
    PROVE  /\ Len(Entries(s, I)) = Cardinality(I) /\ IsFiniteSet(I)
           /\ Cardinality(I) \in Nat /\ Cardinality(I) <= Len(s)
<1> DEFINE n == Len(s)
<1>1. n \in Nat /\ I \in SUBSET (1..n)
  OBVIOUS
<1> HIDE DEF n
<1>2. IsFiniteSet(I) /\ Cardinality(I) \in Nat
  BY <1>1, Ranks
<1>3. IsFiniteSet(1..n) /\ Cardinality(1..n) = n
  BY <1>1, FS_Interval
<1>4. Cardinality(I) <= n
  BY <1>1, <1>3, FS_Subset
<1>5. Len(Entries(s, I)) = Cardinality(I)
  <2> DEFINE t == Entries(s, I)
             m == Cardinality(I)
  <2>1. DOMAIN t = 1..m
    BY DEF Entries
  <2>2. t \in Seq(T)
    BY EntriesInOrder
  <2> HIDE DEF t, m
  <2>3. m \in Nat
    BY <1>2 DEF m
  <2>4. Len(t) = m
    BY <2>1, <2>2, <2>3
  <2>5. QED BY <2>4 DEF t, m
<1>6. QED BY <1>2, <1>4, <1>5 DEF n

(* The later of two cuts is one of them.                                   *)
LEMMA LaterCutIs ==
    ASSUME NEW p \in Nat, NEW c \in 1..p \cup {None}, NEW s \in 1..p
    PROVE  LaterCut(c, s) \in 1..p
<1>1. CASE c = None
  BY <1>1 DEF LaterCut
<1>2. CASE c # None
  <2> DEFINE T == {c, s}
  <2>1. T \in SUBSET (1..p) /\ T # {}
    BY <1>2
  <2>2. LaterCut(c, s) = Max(T)
    BY <1>2 DEF LaterCut
  <2> HIDE DEF T
  <2>3. PICK i \in T : \A j \in T : j <= i
    BY <2>1, GreatestMember
  <2>4. \A j \in T : i >= j
    BY <2>1, <2>3
  <2>5. Max(T) \in T
    BY <2>3, <2>4 DEF Max
  <2>6. QED BY <2>1, <2>2, <2>5
<1>3. QED BY <1>1, <1>2

(* Trimming takes items away.                                              *)
LEMMA TrimIsPart == \A items, s : TrimBefore(items, s) \subseteq items
BY DEF TrimBefore

(* Where the window starts.                                                *)
LEMMA OldestIs ==
    ASSUME NEW fs \in Seq(FrameType), Rising(fs), NEW p \in Nat, Seqs(fs) \subseteq 1..p
    PROVE  Oldest(fs, p + 1) \in 1..(p + 1)
<1>1. CASE fs = <<>>
  BY <1>1 DEF Oldest
<1>2. CASE fs # <<>>
  <2>1. Head(fs).sequence \in Seqs(fs)
    BY <1>2, HeadTaken
  <2>2. Oldest(fs, p + 1) = Head(fs).sequence
    BY <1>2 DEF Oldest
  <2>3. QED BY <2>1, <2>2
<1>3. QED BY <1>1, <1>2

(* push_replay makes room before it adds a frame.                          *)
LEMMA PushedLength ==
    ASSUME NEW w \in Seq(FrameType), NEW f \in FrameType, Len(w) <= ReplayCapacity
    PROVE  Len(Recorded(w, f)) <= ReplayCapacity
<1> DEFINE u == IF Len(w) >= ReplayCapacity THEN Tail(w) ELSE w
<1>1. ReplayCapacity \in Nat \ {0} /\ Len(w) \in Nat
  BY CapacitiesArePositive
<1>2. u \in Seq(FrameType) /\ Len(u) + 1 <= ReplayCapacity
  <2>1. CASE Len(w) >= ReplayCapacity
    <3>1. w # <<>> /\ u = Tail(w)
      BY <1>1, <2>1
    <3>2. Tail(w) \in Seq(FrameType) /\ Len(Tail(w)) = Len(w) - 1
      BY <3>1
    <3>3. QED BY <1>1, <2>1, <3>1, <3>2
  <2>2. CASE ~(Len(w) >= ReplayCapacity)
    BY <1>1, <2>2
  <2>3. QED BY <2>1, <2>2
<1>3. Recorded(w, f) = w \/ Recorded(w, f) = <<>> \/ Recorded(w, f) = Append(u, f)
  BY DEF Recorded, PushReplay
<1> HIDE DEF u
<1>4. Len(Append(u, f)) = Len(u) + 1 /\ Len(<<>>) = 0
  BY <1>2
<1>5. CASE Recorded(w, f) = w
  BY <1>5
<1>6. CASE Recorded(w, f) = <<>>
  BY <1>1, <1>4, <1>6
<1>7. CASE Recorded(w, f) = Append(u, f)
  <2>1. Len(Recorded(w, f)) = Len(u) + 1
    BY <1>4, <1>7
  <2>2. QED BY <1>2, <2>1
<1>8. QED BY <1>3, <1>5, <1>6, <1>7

(* A broadcast queue holds no more than its capacity.                      *)
LEMMA BroadcastLength ==
    ASSUME NEW k \in ConnType, NEW fs \in Seq(FrameType), Len(k.queue) <= BroadcastCapacity
    PROVE  Len(Broadcast(k, fs).queue) <= BroadcastCapacity
<1> DEFINE q == k.queue \o fs
           e == Len(q) - BroadcastCapacity
           r == SubSeq(q, e + 1, Len(q))
<1>1. BroadcastCapacity \in Nat \ {0}
  BY CapacitiesArePositive
<1>2. q \in Seq(FrameType) /\ Len(q) \in Nat
  BY DEF ConnType
<1>3. Broadcast(k, fs) = IF k.phase = "closed" THEN k
                         ELSE IF e <= 0 THEN [k EXCEPT !.queue = q]
                         ELSE [k EXCEPT !.queue = r, !.lagged = TRUE]
  BY DEF Broadcast, Enqueued
<1>4. ~(e <= 0) => Len(r) = BroadcastCapacity
  <2> HIDE DEF q
  <2>1. ~(e <= 0) => e + 1 \in 1..Len(q) /\ Len(q) \in 1..Len(q) /\ Len(q) - (e + 1) + 1 = BroadcastCapacity
    BY <1>1, <1>2
  <2> HIDE DEF e
  <2>2. ~(e <= 0) => Len(r) = Len(q) - (e + 1) + 1
    BY <1>2, <2>1, SubSeqProperties
  <2>3. QED BY <2>1, <2>2
<1>5. e <= 0 => Len(q) <= BroadcastCapacity
  <2> HIDE DEF q
  <2>1. QED BY <1>1, <1>2
<1> HIDE DEF q, e, r
<1>6. CASE k.phase = "closed"
  BY <1>3, <1>6
<1>7. CASE k.phase # "closed" /\ e <= 0
  <2>1. Broadcast(k, fs) = [k EXCEPT !.queue = q]
    BY <1>3, <1>7
  <2>2. Broadcast(k, fs).queue = q
    BY <2>1 DEF ConnType
  <2>3. QED BY <1>5, <1>7, <2>2
<1>8. CASE k.phase # "closed" /\ ~(e <= 0)
  <2>1. Broadcast(k, fs) = [k EXCEPT !.queue = r, !.lagged = TRUE]
    BY <1>3, <1>8
  <2>2. Broadcast(k, fs).queue = r
    BY <2>1 DEF ConnType
  <2>3. QED BY <1>1, <1>4, <1>8, <2>2
<1>9. QED BY <1>6, <1>7, <1>8

(* Projecting an event keeps the window, the transcript and the cut within *)
(* their limits.                                                           *)
LEMMA ProjectBounds ==
    ASSUME IInv, Bounds, Apply \/ Reconcile
    PROVE  /\ Len(window') <= ReplayCapacity /\ transcript' \subseteq 1..Latest
           /\ cut' \in 1..(MaxEvents + 1) \cup {None}
<1> DEFINE n == fed + 1
           f == FrameOf(transcript, n)
           w == CompactReplayDeltas(window, n)
           x == Recorded(w, f)
           front == Oldest(x, n + 1)
           t == Reduced(transcript, n)
<1>1. Types /\ WindowInv /\ ActorInv /\ Latest <= MaxEvents /\ Len(window) <= ReplayCapacity
      /\ transcript \subseteq 1..Latest /\ cut \in 1..(MaxEvents + 1) \cup {None}
  BY DEF IInv, HostInv, Bounds
<1>2. /\ fed < Latest /\ actor \in {"up", "starting", "replacing"}
      /\ \/ window' = w /\ UNCHANGED <<transcript, cut>>
         \/ /\ ~(n <= sequence) /\ window' = x
            /\ transcript' \in {TrimBefore(t, front), t}
            /\ cut' \in {LaterCut(cut, front), cut}
  BY DEF Apply, Reconcile, Project
<1>3. /\ fed \in Nat /\ Latest \in Nat /\ sequence \in Nat /\ n \in Nat /\ n \in 1..Latest
      /\ window \in Seq(FrameType) /\ MaxEvents \in Nat
  BY <1>1, <1>2, BoundsAreNatural DEF Types, Latest
<1>4. f \in FrameType /\ f.sequence = n
  BY <1>3 DEF FrameOf, FrameType
<1>5. /\ w \in Seq(FrameType) /\ Rising(w)
      /\ Seqs(w) \subseteq 1..sequence /\ Unbroken(Seqs(w), sequence)
  BY <1>1, <1>3, Compacted
<1>6. Len(w) <= ReplayCapacity
  <2> DEFINE I == {i \in DOMAIN window : ~(window[i].appends /\ window[i].sequence \in StepDeltas(n))}
  <2>1. w = window \/ w = Entries(window, I)
    BY DEF CompactReplayDeltas
  <2>2. I \in SUBSET (DOMAIN window)
    OBVIOUS
  <2> HIDE DEF I, w
  <2>3. /\ Len(Entries(window, I)) = Cardinality(I) /\ Cardinality(I) \in Nat
        /\ Cardinality(I) <= Len(window) /\ Len(window) \in Nat /\ ReplayCapacity \in Nat
    BY <1>3, <2>2, EntriesLength, CapacitiesArePositive
  <2>4. QED BY <1>1, <2>1, <2>3
<1> HIDE DEF f, w
<1>7. Len(x) <= ReplayCapacity
  BY <1>4, <1>5, <1>6, PushedLength
<1>8. t \subseteq 1..Latest
  <2>1. t \subseteq transcript \cup {n}
    BY DEF Reduced
  <2>2. QED BY <1>1, <1>3, <2>1
<1>9. ASSUME ~(n <= sequence) PROVE front \in 1..(MaxEvents + 1)
  <2>1. n = sequence + 1
    <3>1. fed <= sequence
      BY <1>1, <1>2, <1>3 DEF ActorInv
    <3>2. QED BY <1>3, <1>9, <3>1
  <2>2. x \in Seq(FrameType) /\ Rising(x) /\ Seqs(x) \subseteq 1..n
    BY <1>1, <1>4, <1>5, <2>1, Pushed
  <2> HIDE DEF x, n
  <2>3. front \in 1..(n + 1)
    BY <1>3, <2>2, OldestIs
  <2>4. QED BY <1>1, <1>3, <2>3
<1> HIDE DEF x, t, front, n
<1>10. CASE window' = w /\ UNCHANGED <<transcript, cut>>
  BY <1>1, <1>6, <1>10
<1>11. CASE /\ ~(n <= sequence) /\ window' = x
            /\ transcript' \in {TrimBefore(t, front), t}
            /\ cut' \in {LaterCut(cut, front), cut}
  <2>1. transcript' \subseteq 1..Latest
    <3>1. TrimBefore(t, front) \subseteq t
      BY TrimIsPart, Zenon
    <3>2. QED BY <1>8, <1>11, <3>1
  <2>2. LaterCut(cut, front) \in 1..(MaxEvents + 1)
    <3>1. MaxEvents + 1 \in Nat
      BY <1>3
    <3>2. QED BY <1>1, <1>9, <1>11, <3>1, LaterCutIs
  <2>3. QED BY <1>1, <1>7, <1>11, <2>1, <2>2
<1>12. QED BY <1>2, <1>10, <1>11

(* No more events are read than the window has room for.                   *)
LEMMA LoadBounds ==
    ASSUME IInv, Bounds, LoadPage
    PROVE  /\ Len(window') <= ReplayCapacity /\ transcript' \subseteq 1..Latest
           /\ cut' \in 1..(MaxEvents + 1) \cup {None}
<1> DEFINE page == EventPage(load.before)
           P == page.events
           events == load.events \cup P
           latest == IF load.before = None THEN Latest ELSE load.latest
           hasEarlier == page.rows # P /\ Cardinality(events) >= ReplayCapacity
           kept == Kept(events, hasEarlier)
           F == Fitting(kept)
           frames == Loaded(events, latest, hasEarlier).frames
           items == {n \in kept : log[n] \in Items}
           front == Oldest(frames, latest + 1)
           first == IF hasEarlier THEN (IF kept = {} THEN latest + 1 ELSE Min(kept)) ELSE None
<1>1. /\ Types /\ LoadInv /\ actor = "loading" /\ Latest <= MaxEvents
      /\ Len(window) <= ReplayCapacity /\ transcript \subseteq 1..Latest
      /\ cut \in 1..(MaxEvents + 1) \cup {None}
  BY DEF IInv, HostInv, LoadPage, Bounds
<1>2. /\ latest \in fed..Latest /\ latest \in Nat
      /\ events \in SUBSET (1..latest) /\ IsFiniteSet(events)
  BY <1>1, PagesAreTop
<1>3. Latest \in Nat /\ fed \in Nat /\ MaxEvents \in Nat
  BY <1>1, BoundsAreNatural DEF Types, Latest
<1>4. \/ UNCHANGED <<window, transcript, cut>>
      \/ /\ window' = frames
         /\ transcript' \in {TrimBefore(items, front), items}
         /\ cut' \in {LaterCut(first, front), first}
  BY DEF LoadPage, Loaded
<1>5. frames = Entries([n \in 1..latest |-> FrameOf({m \in kept : m < n}, n)], F)
  BY DEF Loaded
<1>6. hasEarlier \in BOOLEAN
  OBVIOUS
<1>7. Cardinality(events) \in Nat /\ Cardinality(events) <= ReplayCapacity
  <2>1. /\ IsFiniteSet(P) /\ Cardinality(P) <= ReplayCapacity - Cardinality(load.events)
        /\ IsFiniteSet(load.events)
    BY <1>1, PageIsTop DEF LoadInv
  <2> DEFINE old == load.events
  <2> HIDE DEF P, old
  <2>2. /\ Cardinality(P) \in Nat /\ Cardinality(old) \in Nat /\ ReplayCapacity \in Nat
        /\ IsFiniteSet(old \cap P)
    <3>1. (old \cap P) \in SUBSET P
      OBVIOUS
    <3>2. QED BY <2>1, <3>1, FS_Subset, FS_CardinalityType, CapacitiesArePositive DEF old
  <2>3. Cardinality(old \cap P) \in Nat
    BY <2>2, FS_CardinalityType
  <2>4. Cardinality(old \cup P) = Cardinality(old) + Cardinality(P) - Cardinality(old \cap P)
    BY <2>1, FS_Union DEF old
  <2>5. Cardinality(events) \in Nat
    BY <1>2, FS_CardinalityType
  <2>6. QED BY <2>1, <2>2, <2>3, <2>4, <2>5 DEF old
<1> HIDE DEF events, latest, hasEarlier, P, page
<1>8. /\ frames \in Seq(FrameType) /\ Rising(frames)
      /\ Seqs(frames) \subseteq events
  BY <1>2, <1>6, LoadedFrames
<1>9. kept \subseteq events /\ F \subseteq kept
  BY DEF Kept, Fitting
<1> HIDE DEF frames, kept, F
<1>10. Len(frames) <= ReplayCapacity
  <2> DEFINE fs == [n \in 1..latest |-> FrameOf({m \in kept : m < n}, n)]
  <2>1. fs \in Seq(FrameType) /\ DOMAIN fs = 1..latest
    <3>1. \A n \in 1..latest : FrameOf({m \in kept : m < n}, n) \in FrameType
      BY <1>2 DEF FrameOf, FrameType
    <3>2. fs \in [1..latest -> FrameType]
      BY <3>1
    <3> HIDE DEF fs
    <3>3. QED BY <1>2, <3>2
  <2>2. frames = Entries(fs, F)
    BY <1>5
  <2> HIDE DEF fs
  <2>3. F \in SUBSET (DOMAIN fs) /\ F \in SUBSET events
    BY <1>2, <1>9, <2>1
  <2>4. Len(frames) = Cardinality(F) /\ Cardinality(F) \in Nat
    BY <2>1, <2>2, <2>3, EntriesLength
  <2>5. Cardinality(F) <= Cardinality(events)
    BY <1>2, <2>3, FS_Subset
  <2>6. ReplayCapacity \in Nat
    BY CapacitiesArePositive
  <2>7. QED BY <1>7, <2>4, <2>5, <2>6
<1>11. items \subseteq 1..Latest
  <2>1. 1..latest \subseteq 1..Latest
    BY <1>2, <1>3
  <2>2. QED BY <1>2, <1>9, <2>1
<1>12. front \in 1..(MaxEvents + 1)
  <2>1. Seqs(frames) \subseteq 1..latest
    BY <1>2, <1>8
  <2>2. front \in 1..(latest + 1)
    BY <1>2, <1>8, <2>1, OldestIs
  <2> HIDE DEF front
  <2>3. QED BY <1>1, <1>2, <1>3, <2>2
<1>13. first \in 1..(MaxEvents + 1) \cup {None}
  <2>1. latest + 1 \in 1..(MaxEvents + 1)
    BY <1>1, <1>2, <1>3
  <2>2. kept # {} => Min(kept) \in 1..(MaxEvents + 1)
    <3>1. kept \in SUBSET Nat /\ kept \subseteq 1..latest
      BY <1>2, <1>9
    <3>2. kept # {} => Min(kept) \in kept
      BY <3>1, MinIsLeast
    <3> DEFINE a == Min(kept)
    <3> HIDE DEF a
    <3>3. kept # {} => a \in 1..latest
      BY <3>1, <3>2 DEF a
    <3>4. 1..latest \subseteq 1..(MaxEvents + 1)
      BY <2>1, <1>1, <1>2, <1>3
    <3>5. kept # {} => a \in 1..(MaxEvents + 1)
      BY <3>3, <3>4
    <3>6. QED BY <3>5 DEF a
  <2>3. QED BY <2>1, <2>2
<1> HIDE DEF items, front, first
<1>14. CASE UNCHANGED <<window, transcript, cut>>
  BY <1>1, <1>14
<1>15. CASE /\ window' = frames
            /\ transcript' \in {TrimBefore(items, front), items}
            /\ cut' \in {LaterCut(first, front), first}
  <2>1. transcript' \subseteq 1..Latest
    <3>1. TrimBefore(items, front) \subseteq items
      BY TrimIsPart, Zenon
    <3>2. QED BY <1>11, <1>15, <3>1
  <2>2. LaterCut(first, front) \in 1..(MaxEvents + 1)
    <3>1. MaxEvents + 1 \in Nat
      BY <1>3
    <3>2. QED BY <1>12, <1>13, <3>1, LaterCutIs
  <2>3. QED BY <1>10, <1>13, <1>15, <2>1, <2>2
<1>16. QED BY <1>4, <1>14, <1>15

(* The rest of the limits, step by step.                                   *)
LEMMA BoundsStep ==
    ASSUME IInv, IInv', Bounds, [Next]_vars
    PROVE  Bounds'
<1>1. /\ Types /\ ActorInv /\ Types' /\ Latest \in Nat /\ Latest' \in Nat /\ MaxEvents \in Nat
      /\ conn \in [Clients -> ConnType] /\ view \in [Clients -> ViewType]
      /\ BroadcastCapacity \in Nat /\ ReplayCapacity \in Nat
  <2>1. Types /\ ActorInv /\ Types'
    BY Zenon DEF IInv, HostInv
  <2>2. log \in Seq(Kinds) /\ conn \in [Clients -> ConnType] /\ view \in [Clients -> ViewType]
    BY <2>1, Zenon DEF Types
  <2>3. log' \in Seq(Kinds)
    BY <2>1, Zenon DEF Types
  <2>4. Latest \in Nat /\ Latest' \in Nat
    BY <2>2, <2>3 DEF Latest
  <2>5. MaxEvents \in Nat /\ BroadcastCapacity \in Nat /\ ReplayCapacity \in Nat
    BY BoundsAreNatural, CapacitiesArePositive
  <2>6. QED BY <2>1, <2>2, <2>4, <2>5
<1>2. Latest <= Latest' /\ Latest' <= MaxEvents
  <2>1. log' = log \/ \E kind \in Kinds : StoreEvent(kind)
    <3>1. CASE \/ \E kind \in Kinds \ {"config"} : Emit(kind)
               \/ Open \/ Replace
      <4>1. "config" \in Kinds
        BY DEF Kinds
      <4>2. QED BY <3>1, <4>1, Zenon DEF Emit, Open, Replace
    <3>2. CASE LoadPage \/ Reconcile \/ Serve \/ Apply \/ Replaced \/ RolledBack \/ Crash
      BY <3>2 DEF LoadPage, Reconcile, Apply, Project, Serve, Replaced, RolledBack, Crash, journal
    <3>3. ASSUME NEW c \in Clients,
                 \/ Subscribe(c) \/ Write(c) \/ Forward(c) \/ Lagged(c) \/ Disconnect(c)
                 \/ \E last \in {None, Position(c)} : Snapshot(c, last)
          PROVE  log' = log
      BY <3>3 DEF Subscribe, Write, Forward, Lagged, Disconnect, Snapshot, journal
    <3>4. CASE UNCHANGED vars
      BY <3>4 DEF vars
    <3>5. QED BY <3>1, <3>2, <3>3, <3>4, Zenon DEF Next
  <2>2. CASE log' = log
    BY <1>1, <2>2 DEF Bounds, Latest
  <2>3. ASSUME NEW kind \in Kinds, StoreEvent(kind)
        PROVE  Latest <= Latest' /\ Latest' <= MaxEvents
    <3>1. Latest' = Latest + 1
      BY <1>1, <2>3, LogGrows DEF StoreEvent
    <3>2. Latest < MaxEvents
      BY <2>3 DEF StoreEvent
    <3>3. QED BY <1>1, <3>1, <3>2
  <2>4. QED BY <2>1, <2>2, <2>3
<1>3. 1..Latest \subseteq 1..Latest'
  BY <1>1, <1>2
<1>4. /\ Len(window') <= ReplayCapacity /\ transcript' \subseteq 1..Latest
      /\ cut' \in 1..(MaxEvents + 1) \cup {None}
  <2>1. CASE UNCHANGED <<window, transcript, cut>>
    BY <2>1 DEF Bounds
  <2>2. CASE Apply \/ Reconcile
    BY <2>2, ProjectBounds
  <2>3. CASE LoadPage
    BY <2>3, LoadBounds
  <2>4. CASE Crash
    <3>1. window' = <<>> /\ transcript' = {} /\ cut' = None
      BY <2>4 DEF Crash
    <3>2. QED BY <1>1, <3>1
  <2>5. QED
    BY <2>1, <2>2, <2>3, <2>4
       DEF Next, vars, host, Emit, Open, Serve, Replace, Replaced,
           RolledBack, Subscribe, Write, Forward, Lagged, Disconnect, Snapshot
<1>5. losses' \in 0..MaxLosses
  <2>1. losses' = losses \/ Lost
    BY DEF Next, vars, Emit, Open, LoadPage, Reconcile, Apply, Project, Serve, Replace, Replaced,
           RolledBack, Subscribe, Write, Forward, Lagged, Disconnect, Snapshot, Crash
  <2>2. losses \in 0..MaxLosses /\ MaxLosses \in Nat
    BY BoundsAreNatural DEF Bounds
  <2>3. QED BY <2>1, <2>2 DEF Lost
<1>6. rolledBack' \subseteq 1..Latest
  <2>1. rolledBack' = rolledBack \/ rolledBack' = rolledBack \cup {f.sequence : f \in Range(pending)}
    BY DEF Next, vars, Emit, Open, LoadPage, Reconcile, Apply, Project, Serve, Replace, Replaced,
           RolledBack, Subscribe, Write, Forward, Lagged, Disconnect, Snapshot, Crash
  <2>2. {f.sequence : f \in Range(pending)} = Seqs(pending)
    BY DEF Range, Seqs
  <2>3. Seqs(pending) \subseteq 1..sequence /\ sequence \in Nat /\ sequence <= Latest
    BY <1>1 DEF ActorInv, Types
  <2>4. Seqs(pending) \subseteq 1..Latest
    BY <1>1, <2>3
  <2>5. QED BY <2>1, <2>2, <2>4 DEF Bounds
<1>7. ASSUME NEW c \in Clients
      PROVE  Len(conn'[c].queue) <= BroadcastCapacity
  <2>1. Len(conn[c].queue) <= BroadcastCapacity /\ conn[c] \in ConnType /\ conn[c].queue \in Seq(FrameType)
    BY <1>1 DEF Bounds, ConnType
  <2>2. CASE \/ conn'[c].queue = conn[c].queue
             \/ conn'[c].queue = <<>>
             \/ conn[c].queue # <<>> /\ conn'[c].queue = Tail(conn[c].queue)
    <3> DEFINE q == conn[c].queue
    <3>1. q # <<>> => Len(Tail(q)) = Len(q) - 1 /\ Len(q) \in Nat
      BY <2>1
    <3>2. Len(<<>>) = 0
      OBVIOUS
    <3> HIDE DEF q
    <3>3. CASE conn'[c].queue = q
      BY <2>1, <3>3 DEF q
    <3>4. CASE conn'[c].queue = <<>>
      BY <1>1, <3>2, <3>4
    <3>5. CASE q # <<>> /\ conn'[c].queue = Tail(q)
      <4>1. Len(conn'[c].queue) = Len(q) - 1 /\ Len(q) <= BroadcastCapacity
        BY <2>1, <3>1, <3>5 DEF q
      <4>2. QED BY <1>1, <3>1, <3>5, <4>1
    <3>6. QED BY <2>2, <3>3, <3>4, <3>5 DEF q
  <2>3. ASSUME NEW fs \in Seq(FrameType), conn'[c] = Broadcast(conn[c], fs)
        PROVE  Len(conn'[c].queue) <= BroadcastCapacity
    BY <2>1, <2>3, BroadcastLength
  <2>4. CASE UNCHANGED conn
    BY <2>1, <2>4
  <2>5. ASSUME NEW d \in Clients, Subscribe(d) \/ Lagged(d) \/ Disconnect(d)
        PROVE  Len(conn'[c].queue) <= BroadcastCapacity
    <3>1. \/ conn' = [conn EXCEPT ![d] = [Closed EXCEPT !.phase = "subscribed"]]
          \/ conn' = [conn EXCEPT ![d] = Closed]
      BY <2>5 DEF Subscribe, Lagged, Disconnect
    <3>2. Closed.queue = <<>> /\ [Closed EXCEPT !.phase = "subscribed"].queue = <<>>
      BY DEF Closed
    <3>3. QED BY <1>1, <2>2, <3>1, <3>2
  <2>6. CASE Crash
    <3>1. conn'[c].queue = <<>>
      BY <2>6 DEF Crash, Closed
    <3>2. QED BY <2>2, <3>1
  <2>7. ASSUME NEW d \in Clients, Write(d) \/ \E last \in {None, Position(d)} : Snapshot(d, last)
        PROVE  Len(conn'[c].queue) <= BroadcastCapacity
    <3>1. CASE c # d
      <4>1. conn'[c] = conn[c]
        BY <1>1, <2>7, <3>1 DEF Write, Snapshot
      <4>2. QED BY <2>2, <4>1
    <3>2. CASE c = d /\ Write(d)
      <4>1. conn'[c] = [conn[c] EXCEPT !.out = Tail(conn[c].out),
                                       !.phase = PhaseWith(Tail(conn[c].out))]
        BY <1>1, <3>2 DEF Write, ConnType
      <4>2. conn'[c].queue = conn[c].queue
        BY <2>1, <4>1 DEF ConnType
      <4>3. QED BY <2>2, <4>2
    <3>3. ASSUME c = d, NEW last \in {None, Position(d)}, Snapshot(d, last)
          PROVE  Len(conn'[c].queue) <= BroadcastCapacity
      <4>1. PICK out : conn' = [conn EXCEPT ![d] =
                [@ EXCEPT !.phase = PhaseWith(out), !.delivered = sequence, !.out = out]]
        BY <3>3, Zenon DEF Snapshot
      <4>2. conn'[c] = [conn[c] EXCEPT !.phase = PhaseWith(out), !.delivered = sequence, !.out = out]
        BY <1>1, <3>3, <4>1
      <4>3. conn'[c].queue = conn[c].queue
        BY <2>1, <4>2 DEF ConnType
      <4>4. QED BY <2>2, <4>3
    <3>4. QED BY <2>7, <3>1, <3>2, <3>3
  <2>8. ASSUME NEW d \in Clients, Forward(d)
        PROVE  Len(conn'[c].queue) <= BroadcastCapacity
    <3>1. CASE c = d
      <4>1. conn[c].queue # <<>> /\ conn'[c].queue = Tail(conn[c].queue)
        BY <1>1, <2>8, <3>1 DEF Forward, ConnType
      <4>2. QED BY <2>2, <4>1
    <3>2. CASE c # d
      <4>1. conn'[c].queue = conn[c].queue
        BY <1>1, <2>8, <3>2 DEF Forward
      <4>2. QED BY <2>2, <4>1
    <3>3. QED BY <3>1, <3>2
  <2>9. CASE Replaced
    <3>1. conn'[c] = Broadcast(conn[c], pending) /\ pending \in Seq(FrameType)
      BY <1>1, <2>9 DEF Replaced, Types
    <3>2. QED BY <2>3, <3>1
  <2>10. CASE Apply \/ Reconcile
    <3> DEFINE f == FrameOf(transcript, fed + 1)
               g == <<f>>
    <3>1. f \in FrameType
      BY <1>1 DEF FrameOf, FrameType, Types
    <3>2. g \in Seq(FrameType)
      BY <3>1
    <3>3. conn' = conn \/ conn' = [b \in Clients |-> Broadcast(conn[b], g)]
      BY <2>10 DEF Apply, Reconcile, Project
    <3> HIDE DEF g, f
    <3>4. CASE conn' = conn
      BY <2>1, <3>4
    <3>5. CASE conn' = [b \in Clients |-> Broadcast(conn[b], g)]
      <4>1. conn'[c] = Broadcast(conn[c], g)
        BY <3>5
      <4>2. QED BY <2>3, <3>2, <4>1
    <3>6. QED BY <3>3, <3>4, <3>5
  <2>11. CASE \/ \E kind \in Kinds \ {"config"} : Emit(kind)
              \/ Open \/ LoadPage \/ Serve \/ Replace \/ RolledBack \/ UNCHANGED vars
    <3>1. UNCHANGED conn
      BY <2>11 DEF vars, Emit, Open, LoadPage, Serve, Replace, RolledBack
    <3>2. QED BY <2>4, <3>1
  <2>12. QED
    BY <2>5, <2>6, <2>7, <2>8, <2>9, <2>10, <2>11, Zenon DEF Next
<1>8. ASSUME NEW c \in Clients
      PROVE  view'[c].base <= Latest'
  <2>1. view[c].base <= Latest /\ view[c] \in ViewType /\ view[c].base \in Nat
    BY <1>1 DEF Bounds, ViewType
  <2>2. CASE view'[c].base = view[c].base
    BY <1>1, <1>2, <2>1, <2>2
  <2>3. ASSUME NEW d \in Clients, Write(d) PROVE view'[c].base <= Latest'
    <3> DEFINE f == Head(conn[d].out)
    <3>1. view' = [view EXCEPT ![d] = Shown(view[d], f)] /\ conn[d].phase = "opening" /\ conn[d] \in ConnType
      BY <1>1, <2>3 DEF Write
    <3>2. AnswerInv(d)
      BY DEF IInv
    <3>3. /\ conn[d].out # <<>> /\ conn[d].out \in Seq(FrameType \cup SnapshotType)
          /\ conn[d].delivered \in Nat /\ conn[d].delivered <= sequence
          /\ IsWhole(conn[d]) => conn[d].out[1].base = conn[d].delivered
      BY <3>1, <3>2 DEF AnswerInv, ConnType
    <3>4. f = conn[d].out[1]
      BY <3>3
    <3>5. CASE "base" \in DOMAIN f
      <4>1. IsWhole(conn[d])
        BY <3>3, <3>4, <3>5 DEF IsWhole
      <4>2. f.base <= sequence /\ f.base \in Nat
        BY <3>3, <3>4, <4>1
      <4>3. sequence \in Nat /\ sequence <= Latest
        BY <1>1 DEF Types
      <4>4. f.base <= Latest'
        BY <1>1, <1>2, <4>2, <4>3
      <4>5. Shown(view[d], f) = f
        BY <3>5 DEF Shown
      <4>6. CASE c = d
        BY <1>1, <3>1, <4>4, <4>5, <4>6
      <4>7. CASE c # d
        BY <1>1, <2>2, <3>1, <4>7
      <4>8. QED BY <4>6, <4>7
    <3>6. CASE "base" \notin DOMAIN f
      <4>1. Shown(view[d], f).base = view[d].base
        BY <1>1, <3>6 DEF Shown, ViewType
      <4>2. view'[c].base = view[c].base
        BY <1>1, <3>1, <4>1
      <4>3. QED BY <2>2, <4>2
    <3>7. QED BY <3>5, <3>6
  <2>4. ASSUME NEW d \in Clients, Forward(d) PROVE view'[c].base <= Latest'
    <3> DEFINE f == Head(conn[d].queue)
    <3>1. conn[d].queue # <<>> /\ conn[d].queue \in Seq(FrameType)
      BY <1>1, <2>4 DEF Forward, ConnType
    <3>2. f \in FrameType
      BY <3>1
    <3>3. view' = view \/ view' = [view EXCEPT ![d] = Shown(view[d], f)]
      BY <2>4 DEF Forward
    <3> HIDE DEF f
    <3>4. Shown(view[d], f).base = view[d].base
      BY <1>1, <3>2, FrameOrWhole DEF Shown, ViewType
    <3>5. view'[c].base = view[c].base
      BY <1>1, <3>3, <3>4
    <3>6. QED BY <2>2, <3>5
  <2>5. CASE UNCHANGED view
    BY <2>2, <2>5
  <2>6. QED
    BY <2>3, <2>4, <2>5
       DEF Next, vars, Emit, Open, LoadPage, Reconcile, Apply, Project, Serve, Replace, Replaced,
           RolledBack, Subscribe, Lagged, Disconnect, Snapshot, Crash
<1>9. transcript' \subseteq 1..Latest' /\ rolledBack' \subseteq 1..Latest'
  BY <1>3, <1>4, <1>6
<1>10. QED BY <1>2, <1>4, <1>5, <1>7, <1>8, <1>9 DEF Bounds

(* Every variable keeps its type: the window never exceeds its capacity    *)
(* (push_replay, load_replay), a receiver never holds more than the        *)
(* broadcast channel keeps, and the cut, the transcript and what clients   *)
(* show are of numbered events.                                            *)
THEOREM TypeCorrect == Spec => []TypeOK
<1>1. Init => Bounds
  <2> SUFFICES ASSUME Init PROVE Bounds
    OBVIOUS
  <2>1. /\ Latest = 0 /\ window = <<>> /\ transcript = {} /\ cut = None /\ losses = 0 /\ rolledBack = {}
        /\ \A c \in Clients : conn[c] = Closed /\ view[c] = [base |-> 0, frames |-> <<>>]
    BY DEF Init, Latest
  <2>2. \A c \in Clients : conn[c].queue = <<>> /\ view[c].base = 0
    BY <2>1 DEF Closed
  <2>3. /\ Len(<<>>) = 0 /\ MaxEvents \in Nat /\ MaxLosses \in Nat
        /\ BroadcastCapacity \in Nat /\ ReplayCapacity \in Nat
    BY BoundsAreNatural, CapacitiesArePositive
  <2>4. QED BY <2>1, <2>2, <2>3 DEF Bounds
<1>2. IInv /\ IInv' /\ Bounds /\ [Next]_vars => Bounds'
  BY BoundsStep
<1>3. ASSUME IInv, Bounds PROVE TypeOK
  <2>1. Types /\ Bounds /\ WindowInv /\ ActorInv /\ MaxEvents \in Nat /\ Latest \in Nat
    BY <1>3, BoundsAreNatural DEF IInv, HostInv, Types, Latest
  <2>2. ASSUME NEW fs \in Seq(FrameType), Seqs(fs) \subseteq 1..sequence PROVE fs \in Seq(Frames)
    <3>1. sequence \in Nat /\ sequence <= MaxEvents
      BY <2>1 DEF Types, Bounds
    <3>2. ASSUME NEW i \in DOMAIN fs PROVE fs[i] \in Frames
      <4>1. fs[i].sequence \in 1..sequence /\ fs[i] \in FrameType
        BY <2>2 DEF Seqs
      <4>2. fs[i].sequence \in 1..MaxEvents
        BY <2>1, <3>1, <4>1
      <4>3. QED BY <4>1, <4>2 DEF FrameType, Frames
    <3>3. Len(fs) \in Nat /\ DOMAIN fs = 1..Len(fs) /\ fs = [i \in 1..Len(fs) |-> fs[i]]
      OBVIOUS
    <3>4. fs \in [1..Len(fs) -> Frames]
      BY <3>2, <3>3
    <3>5. QED BY <3>3, <3>4
  <2>3. window \in Seq(Frames) /\ pending \in Seq(Frames)
    BY <2>1, <2>2 DEF Types, WindowInv, ActorInv
  <2>4. ASSUME NEW c \in Clients
        PROVE  /\ conn[c].phase \in {"closed", "subscribed", "opening", "open"}
               /\ view[c].base \in 0..Latest
    <3>1. conn[c] \in ConnType /\ view[c] \in ViewType
      BY <2>1 DEF Types
    <3>2. view[c].base \in Nat /\ view[c].base <= Latest
      BY <2>1, <3>1 DEF ViewType, Bounds
    <3>3. QED BY <2>1, <3>1, <3>2 DEF ConnType
  <2>5. QED BY <2>1, <2>3, <2>4 DEF TypeOK, Types, Bounds
<1>4. QED BY <1>1, <1>2, <1>3, Inductive, PTL DEF Spec

=============================================================================
