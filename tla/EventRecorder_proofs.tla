------------------------ MODULE EventRecorder_proofs ------------------------
(***************************************************************************)
(* Proofs about EventRecorder, for any clients, streams, sizes and limits. *)
(*                                                                         *)
(* The events run down a pipeline: command queue, hand, batch, journal.    *)
(* While the recorder works without error nothing is lost between two      *)
(* stages, so each stage continues the numbering where the next one ends;  *)
(* after an error nothing is stored any more.  IInv says just that.        *)
(*                                                                         *)
(* The byte permits are a second stage on top of IInv.  They are sums over *)
(* sequences; what adding and removing an element does to a sum is proved  *)
(* first, by least counterexamples.                                        *)
(***************************************************************************)
EXTENDS EventRecorder, TLAPS, SequenceTheorems, NaturalsInduction, WellFoundedInduction

Working == pc # "stopped" /\ ~terminal

(* The ids are the last ones of the first n events.                        *)
EndsAt(ids, n) == \A k \in DOMAIN ids : ids[k] = n - Len(ids) + k

(* How many events have left for the journal once the batch, and then the  *)
(* command in hand, are stored; and how many have left the queue.          *)
AfterBatch == IF pc = "flushPublish" THEN Len(journal) ELSE Len(journal) + Len(pending.ids)

AfterHand == IF pc = "publish" THEN Len(journal) ELSE AfterBatch + Len(hand.ids)

LeftQueue == IF queue = <<>> THEN tail ELSE queue[1].upto - Len(queue[1].ids)

(* Which command can be in hand, and whether there is a batch, at each     *)
(* point of the loop.                                                      *)
ControlInv ==
    /\ pc \in {"select", "stopped"} => hand = NoCommand
    /\ pc \in {"dispatch", "store", "publish"} =>
         pending = NoBatch /\ hand.kind \in {"append", "save", "flush"}
    /\ pc \in {"store", "publish"} => hand.kind \in {"append", "save"}
    /\ pc \in {"flush", "flushPublish", "dispatch", "store", "publish"} => ~terminal
    /\ pc \in {"select", "flush", "dispatch", "store"} => outbox = <<>>
    /\ hand.kind \in {"none", "shutdown", "flush"} => hand.ids = <<>>
    /\ hand.kind = "none" => hand = NoCommand
    /\ hand.kind = "shutdown" => ~open /\ queue = <<>>
    /\ terminal => faulted

(* The commands of the queue are numbered without a gap up to the tail.    *)
QueueInv ==
    /\ \A i \in DOMAIN queue :
         /\ queue[i].kind \in {"append", "save", "flush"}
         /\ queue[i].kind = "flush" => queue[i].ids = <<>>
         /\ EndsAt(queue[i].ids, queue[i].upto)
         /\ i > 1 => queue[i].upto = queue[i - 1].upto + Len(queue[i].ids)
    /\ queue # <<>> => queue[Len(queue)].upto = tail

(* Each waiting call is known in exactly one place: its client waits on    *)
(* the semaphore, for a slot, or for the answer to one command.  A closed  *)
(* ingress has no calls.                                                   *)
ClientInv ==
    /\ \A c \in Clients : call[c] # "idle" => req[c] \in Requests
    /\ \A i \in DOMAIN waiters : call[waiters[i]] = "reserve"
    /\ \A i, j \in DOMAIN waiters : waiters[i] = waiters[j] => i = j
    /\ \A i \in DOMAIN senders : call[senders[i]] = "send"
    /\ \A i, j \in DOMAIN senders : senders[i] = senders[j] => i = j
    /\ \A i \in DOMAIN queue : queue[i].client # NoClient => call[queue[i].client] = "wait"
    /\ \A i, j \in DOMAIN queue :
         queue[i].client = queue[j].client /\ queue[i].client # NoClient => i = j
    /\ hand.client # NoClient =>
         call[hand.client] = "wait" /\ \A i \in DOMAIN queue : queue[i].client # hand.client
    /\ ~open => \A c \in Clients : call[c] = "idle"

(* The pipeline, while nothing has failed.                                 *)
PipelineInv ==
    Working =>
      /\ EndsAt(pending.ids, AfterBatch)
      /\ EndsAt(hand.ids, AfterHand)
      /\ hand.kind \in {"append", "save", "flush"} => hand.upto = AfterHand
      /\ LeftQueue = AfterHand

(* What was handed to the frontend is a prefix of the journal, and the     *)
(* outbox continues it.                                                    *)
OutboxInv ==
    /\ Len(published) <= Len(journal)
    /\ \A k \in DOMAIN published : published[k] = k
    /\ Working /\ outbox = <<>> => Len(published) = Len(journal)
    /\ pc = "flushPublish" /\ outbox # <<>> =>
         outbox = <<pending.ids>> /\ Len(published) + Len(pending.ids) = Len(journal)
    /\ pc = "publish" =>
         /\ Len(published) + Len(outbox) = Len(journal)
         /\ \A i \in DOMAIN outbox : outbox[i] = <<Len(published) + i>>

PipeInv ==
    /\ ControlInv /\ QueueInv /\ PipelineInv /\ OutboxInv
    /\ JournalInOrder /\ BarrierDurable /\ AckedNotLost /\ TerminalHasNoBatch /\ CleanStop

IInv == TypeOK /\ ClientInv /\ PipeInv

-----------------------------------------------------------------------------
(* Facts about the operators of the model.                                 *)

(* A request has a kind, a number of events, a stream and a size.          *)
LEMMA RequestType ==
    ASSUME NEW r \in Requests \cup {NoRequest}
    PROVE  /\ r.kind \in {"none", "append", "save", "flush"}
           /\ r.n \in Nat /\ r.bytes \in Nat
           /\ r.stream \in Streams \cup {NoStream}
           /\ r.kind = "flush" => r.n = 0
           /\ r.kind = "none" => r = NoRequest
<1>0. \A x \in Sizes : x \in Nat
  BY RecorderAssumptions
<1>1. CASE r \in [kind : {"append"}, n : {1}, stream : Streams \cup {NoStream}, bytes : Sizes]
  BY <1>0, <1>1
<1>2. CASE r \in [kind : {"save"}, n : {1}, stream : {NoStream}, bytes : Sizes]
  BY <1>0, <1>2
<1>3. CASE r \in [kind : {"save"}, n : {2}, stream : {NoStream}, bytes : {s + s : s \in Sizes}]
  BY <1>0, <1>3
<1>4. CASE r \in [kind : {"save", "flush"}, n : {0}, stream : {NoStream}, bytes : {0}]
  BY <1>4
<1>5. CASE r = NoRequest
  BY <1>5 DEF NoRequest
<1> QED
  BY <1>1, <1>2, <1>3, <1>4, <1>5 DEF Requests

(* A command made of a request is a command and numbers its events on from *)
(* the tail.                                                               *)
LEMMA CommandType ==
    ASSUME tail \in Nat, NEW r \in Requests \cup {NoRequest},
           NEW c \in Clients \cup {NoClient}, NEW a \in BOOLEAN
    PROVE  /\ Command(r, c, a) \in Commands
           /\ Len(Command(r, c, a).ids) = r.n
           /\ Command(r, c, a).upto = tail + r.n
           /\ EndsAt(Command(r, c, a).ids, Command(r, c, a).upto)
           /\ Command(r, c, a).kind = r.kind
           /\ Command(r, c, a).client = c
<1>1. r.kind \in {"none", "append", "save", "flush"} /\ r.n \in Nat /\ r.bytes \in Nat
      /\ r.stream \in Streams \cup {NoStream}
  BY RequestType
<1>2. Numbered(r.n) \in Seq(Nat) /\ Len(Numbered(r.n)) = r.n
  BY <1>1 DEF Numbered
<1>3. EndsAt(Numbered(r.n), tail + r.n)
  BY <1>1, <1>2 DEF Numbered, EndsAt
<1> QED
  BY <1>1, <1>2, <1>3 DEF Command, Commands

(* Removing position i from a sequence.                                    *)
LEMMA RemoveAtProperties ==
    ASSUME NEW S, NEW s \in Seq(S), NEW i \in 1..Len(s)
    PROVE  /\ RemoveAt(s, i) \in Seq(S)
           /\ Len(RemoveAt(s, i)) = Len(s) - 1
           /\ \A k \in 1..(Len(s) - 1) :
                RemoveAt(s, i)[k] = IF k < i THEN s[k] ELSE s[k + 1]
<1> DEFINE a == SubSeq(s, 1, i - 1)
           b == SubSeq(s, i + 1, Len(s))
<1>1. /\ a \in Seq(S) /\ Len(a) = i - 1
      /\ \A k \in 1..(i - 1) : a[k] = s[k]
  BY SubSeqProperties
<1>2. /\ b \in Seq(S) /\ Len(b) = Len(s) - i
      /\ \A k \in 1..(Len(s) - i) : b[k] = s[i + k]
  BY SubSeqProperties
<1>3. RemoveAt(s, i) = a \o b
  BY DEF RemoveAt
<1> HIDE DEF a, b
<1>4. /\ a \o b \in Seq(S) /\ Len(a \o b) = Len(s) - 1
      /\ \A k \in 1..(Len(s) - 1) : (a \o b)[k] = IF k <= i - 1 THEN a[k] ELSE b[k - (i - 1)]
  <2>1. Len(a) + Len(b) = Len(s) - 1
    BY <1>1, <1>2
  <2>2. /\ a \o b \in Seq(S) /\ Len(a \o b) = Len(a) + Len(b)
        /\ \A k \in 1..(Len(a) + Len(b)) : (a \o b)[k] = IF k <= Len(a) THEN a[k] ELSE b[k - Len(a)]
    BY <1>1, <1>2, ConcatProperties
  <2> QED
    BY <1>1, <2>1, <2>2, Zenon
<1>5. ASSUME NEW k \in 1..(Len(s) - 1)
      PROVE  (a \o b)[k] = IF k < i THEN s[k] ELSE s[k + 1]
  BY <1>1, <1>2, <1>4
<1> QED
  BY <1>3, <1>4, <1>5

(* RemoveFirst removes an element that occurs at most once, and nothing    *)
(* else; the rest keeps its order.                                         *)
LEMMA RemoveFirstProperties ==
    ASSUME NEW S, NEW s \in Seq(S), NEW e,
           \A i, j \in DOMAIN s : s[i] = s[j] => i = j
    PROVE  LET r == RemoveFirst(s, e) IN
           /\ r \in Seq(S)
           /\ \A k \in DOMAIN r : \E i \in DOMAIN s : r[k] = s[i] /\ s[i] # e
           /\ \A i, j \in DOMAIN r : r[i] = r[j] => i = j
<1> DEFINE I == {i \in 1..Len(s) : s[i] = e}
<1>1. CASE I = {}
  <2>1. RemoveFirst(s, e) = s /\ \A k \in DOMAIN s : s[k] # e
    BY <1>1 DEF RemoveFirst
  <2> QED
    BY <2>1, Zenon
<1>2. CASE I # {}
  <2>1. PICK i \in I : \A j \in I : j = i
    BY <1>2
  <2>2. Min(I) = i
    BY <2>1 DEF Min
  <2>3. RemoveFirst(s, e) = RemoveAt(s, i)
    BY <1>2, <2>2 DEF RemoveFirst, SelectInSeq
  <2> DEFINE r == RemoveAt(s, i)
  <2>4. /\ r \in Seq(S) /\ Len(r) = Len(s) - 1 /\ i \in 1..Len(s) /\ s[i] = e
        /\ \A k \in 1..(Len(s) - 1) : r[k] = IF k < i THEN s[k] ELSE s[k + 1]
    BY <2>1, RemoveAtProperties
  <2> HIDE DEF r
  <2>5. \A k \in DOMAIN r : \E n \in DOMAIN s : r[k] = s[n] /\ s[n] # e
    <3> SUFFICES ASSUME NEW k \in DOMAIN r
                 PROVE  \E n \in DOMAIN s : r[k] = s[n] /\ s[n] # e
      OBVIOUS
    <3>1. CASE k < i
      BY <3>1, <2>4
    <3>2. CASE ~(k < i)
      <4>1. k + 1 \in DOMAIN s /\ k + 1 # i /\ r[k] = s[k + 1]
        BY <3>2, <2>4
      <4> QED
        BY <4>1, <2>4
    <3> QED
      BY <3>1, <3>2
  <2>6. \A m, n \in DOMAIN r : r[m] = r[n] => m = n
    BY <2>4
  <2> QED
    BY <2>3, <2>4, <2>5, <2>6 DEF r
<1> QED
  BY <1>1, <1>2

-----------------------------------------------------------------------------
(* Types.  Types and ClientInv are proved together: which clients a queue  *)
(* holds, once each, decides what removing one leaves.                     *)

(* Initially, and if nothing happens, the types are right.                 *)
LEMMA InitTypes == Init => TypeOK /\ ClientInv
<1> SUFFICES ASSUME Init PROVE TypeOK /\ ClientInv
  OBVIOUS
<1>1. NoCommand \in Commands
  BY DEF NoCommand, Commands
<1>2. IngressTypeOK
  BY DEF Init, IngressTypeOK
<1>3. RecorderTypeOK
  <2>1. pending \in [ids : Seq(Nat), stream : Streams \cup {NoStream}, bytes : Nat]
    BY DEF Init, NoBatch
  <2>2. terminal \in BOOLEAN
    BY Zenon DEF Init
  <2>3. outbox \in Seq(Seq(Nat))
    BY DEF Init
  <2>4. pc = "select" /\ hand \in Commands /\ lastStream \in Streams \cup {NoStream}
    BY <1>1 DEF Init
  <2> QED
    BY <2>1, <2>2, <2>3, <2>4 DEF RecorderTypeOK
<1>4. StoreTypeOK /\ HistoryTypeOK
  <2>1. journal \in Seq(Nat) /\ published \in Seq(Nat) /\ unread \in Nat /\ barrier \in Nat
    BY DEF Init
  <2>2. listening \in BOOLEAN /\ faulted \in BOOLEAN /\ acks \subseteq Nat
    BY Zenon DEF Init
  <2> QED
    BY <2>1, <2>2 DEF StoreTypeOK, HistoryTypeOK
<1>5. ClientInv
  BY DEF Init, ClientInv, NoCommand
<1> QED
  BY <1>2, <1>3, <1>4, <1>5 DEF TypeOK

(* Groups of variables that a step leaves alone keep their types.          *)
LEMMA UnchangedTypes ==
    ASSUME TypeOK
    PROVE  /\ UNCHANGED ingressVars => IngressTypeOK'
           /\ UNCHANGED recorderVars => RecorderTypeOK'
           /\ UNCHANGED storeVars => StoreTypeOK'
           /\ UNCHANGED historyVars => HistoryTypeOK'
BY Zenon DEF TypeOK, IngressTypeOK, RecorderTypeOK, StoreTypeOK, HistoryTypeOK,
             ingressVars, recorderVars, storeVars, historyVars

(* The steps of the callers keep the types.                                *)
LEMMA ClientTypes ==
    ASSUME TypeOK, ClientInv, ClientStep \/ Grant \/ Admit \/ SendFails
    PROVE  TypeOK'
<1> USE DEF IngressTypeOK
<1>0. IngressTypeOK /\ RecorderTypeOK
  BY DEF TypeOK
<1>1. ASSUME NEW c \in Clients, NEW r \in Requests, Call(c, r) PROVE TypeOK'
  <2>1. UNCHANGED <<open, queue, tail>> /\ req' \in [Clients -> Requests \cup {NoRequest}]
    BY <1>0, <1>1 DEF Call
  <2>2. call' \in [Clients -> {"idle", "reserve", "send", "wait"}]
    BY <1>0, <1>1 DEF Call
  <2>3. waiters' \in Seq(Clients) /\ senders' \in Seq(Clients)
    <3>1. /\ waiters' = waiters \/ waiters' = Append(waiters, c)
          /\ senders' = senders \/ senders' = Append(senders, c)
      BY <1>1, Zenon DEF Call
    <3>2. waiters \in Seq(Clients) /\ Append(waiters, c) \in Seq(Clients)
      BY <1>0
    <3>3. senders \in Seq(Clients) /\ Append(senders, c) \in Seq(Clients)
      BY <1>0
    <3> QED
      BY <3>1, <3>2, <3>3, Zenon
  <2>4. IngressTypeOK'
    BY <1>0, <2>1, <2>2, <2>3
  <2> QED
    BY <1>1, <2>4, UnchangedTypes DEF Call, TypeOK
<1>2. ASSUME NEW c \in Clients, NEW r \in Requests, TryRecord(c, r) PROVE TypeOK'
  <2>1. Command(r, NoClient, FALSE) \in Commands /\ r.n \in Nat
    BY <1>0, CommandType, RequestType
  <2>2. PICK cmd \in Commands : queue' = Append(queue, cmd)
    BY <1>2, <2>1, Zenon DEF TryRecord
  <2>3. UNCHANGED <<open, call, req, waiters, senders>> /\ tail' \in Nat
    BY <1>0, <1>2, <2>1 DEF TryRecord
  <2>4. IngressTypeOK'
    BY <1>0, <2>2, <2>3
  <2> QED
    BY <1>2, <2>4, UnchangedTypes DEF TryRecord, TypeOK
<1>3. ASSUME NEW c \in Clients, Cancel(c) PROVE TypeOK'
  <2>1. waiters' \in Seq(Clients) /\ senders' \in Seq(Clients)
    BY <1>0, <1>3, RemoveFirstProperties DEF Cancel, ClientInv
  <2>2. \A cmd \in Commands : Detach(cmd, c) \in Commands
    BY DEF Detach, Commands
  <2>3. queue' \in Seq(Commands) /\ hand' \in Commands
    <3>1. \A i \in DOMAIN queue : Detach(queue[i], c) \in Commands
      BY <1>0, <2>2
    <3>2. queue' = [i \in DOMAIN queue |-> Detach(queue[i], c)] /\ hand' = Detach(hand, c)
      BY <1>3 DEF Cancel
    <3>3. queue \in Seq(Commands) /\ hand \in Commands
      BY <1>0 DEF RecorderTypeOK
    <3> QED
      BY <2>2, <3>1, <3>2, <3>3
  <2>4. IngressTypeOK'
    BY <1>0, <1>3, <2>1, <2>3 DEF Cancel
  <2>5. RecorderTypeOK'
    BY <1>0, <1>3, <2>3 DEF Cancel, RecorderTypeOK
  <2> QED
    BY <1>3, <2>4, <2>5, UnchangedTypes DEF Cancel, TypeOK
<1>4. ASSUME CloseIngress PROVE TypeOK'
  <2>1. IngressTypeOK'
    BY <1>0, <1>4 DEF CloseIngress
  <2> QED
    BY <1>4, <2>1, UnchangedTypes DEF CloseIngress, TypeOK
<1>5. ASSUME Grant PROVE TypeOK'
  <2>1. IngressTypeOK'
    BY <1>0, <1>5 DEF Grant
  <2> QED
    BY <1>5, <2>1, UnchangedTypes DEF Grant, TypeOK
<1>6. ASSUME Admit PROVE TypeOK'
  <2>1. Head(senders) \in Clients /\ senders' \in Seq(Clients)
    BY <1>0, <1>6 DEF Admit
  <2>2. Command(req[Head(senders)], Head(senders), TRUE) \in Commands /\ req[Head(senders)].n \in Nat
    BY <1>0, <2>1, CommandType, RequestType
  <2>3. PICK cmd \in Commands : queue' = Append(queue, cmd)
    BY <1>6, <2>2, Zenon DEF Admit
  <2>4. UNCHANGED <<open, req, waiters>> /\ tail' \in Nat
        /\ call' \in [Clients -> {"idle", "reserve", "send", "wait"}]
    BY <1>0, <1>6, <2>1, <2>2 DEF Admit
  <2>5. IngressTypeOK'
    BY <1>0, <2>1, <2>3, <2>4
  <2> QED
    BY <1>6, <2>5, UnchangedTypes DEF Admit, TypeOK
<1>7. ASSUME SendFails PROVE TypeOK'
  <2>1. IngressTypeOK'
    BY <1>0, <1>7 DEF SendFails
  <2> QED
    BY <1>7, <2>1, UnchangedTypes DEF SendFails, TypeOK
<1> QED
  BY <1>1, <1>2, <1>3, <1>4, <1>5, <1>6, <1>7 DEF ClientStep

(* Answering a caller, resuming the loop and stopping keep the types.      *)
LEMMA AnswerTypes ==
    ASSUME TypeOK
    PROVE  /\ \A cmd : AnswerCaller(cmd) =>
                /\ call' \in [Clients -> {"idle", "reserve", "send", "wait"}]
                /\ req' \in [Clients -> Requests \cup {NoRequest}]
           /\ Stop =>
                /\ call' \in [Clients -> {"idle", "reserve", "send", "wait"}]
                /\ req' \in [Clients -> Requests \cup {NoRequest}]
                /\ queue' \in Seq(Commands) /\ senders' \in Seq(Clients)
                /\ pc' = "stopped" /\ hand' \in Commands
           /\ Resume => pc' = "select" /\ hand' \in Commands
           /\ \A cmd \in Commands : Acknowledged(cmd) \subseteq Nat
           /\ \A cmd \in Commands : Covered(cmd) \in Nat
<1>1. NoCommand \in Commands
  BY DEF NoCommand, Commands
<1>2. \A cmd \in Commands : Acknowledged(cmd) \subseteq Nat
  <2> SUFFICES ASSUME NEW cmd \in Commands PROVE Acknowledged(cmd) \subseteq Nat
    OBVIOUS
  <2>1. \A e \in Range(cmd.ids) : e \in Nat
    BY DEF Commands, Range
  <2> QED
    BY <2>1, Zenon DEF Acknowledged, TypeOK, HistoryTypeOK
<1>3. \A cmd \in Commands : Covered(cmd) \in Nat
  BY DEF Covered, TypeOK, HistoryTypeOK, Commands
<1>4. \A cmd : AnswerCaller(cmd) =>
                /\ call' \in [Clients -> {"idle", "reserve", "send", "wait"}]
                /\ req' \in [Clients -> Requests \cup {NoRequest}]
  BY DEF AnswerCaller, TypeOK, IngressTypeOK
<1>5. Stop =>
                /\ call' \in [Clients -> {"idle", "reserve", "send", "wait"}]
                /\ req' \in [Clients -> Requests \cup {NoRequest}]
                /\ queue' \in Seq(Commands) /\ senders' \in Seq(Clients)
                /\ pc' = "stopped" /\ hand' \in Commands
  BY <1>1 DEF Stop, TypeOK, IngressTypeOK
<1> QED
  BY <1>1, <1>2, <1>3, <1>4, <1>5 DEF Resume

(* The steps of the recorder and of the frontend keep the types.           *)
LEMMA RecorderTypes ==
    ASSUME TypeOK, RecorderStep \/ Read \/ CloseFrontend
    PROVE  TypeOK'
<1>0. IngressTypeOK /\ RecorderTypeOK /\ StoreTypeOK /\ HistoryTypeOK
  BY DEF TypeOK
<1>1. ASSUME Deadline PROVE TypeOK'
  <2>1. RecorderTypeOK'
    BY <1>0, <1>1 DEF Deadline, RecorderTypeOK
  <2> QED
    BY <1>1, <2>1, UnchangedTypes DEF Deadline, TypeOK
<1>2. ASSUME Reject PROVE TypeOK'
  <2>1. CASE Head(queue).kind = "flush"
    <3>1. Stop
      BY <1>2, <2>1 DEF Reject
    <3>2. IngressTypeOK'
      BY <1>0, <1>2, <3>1, AnswerTypes DEF Reject, IngressTypeOK
    <3>3. RecorderTypeOK'
      BY <1>0, <1>2, <3>1, AnswerTypes DEF Reject, RecorderTypeOK
    <3> QED
      BY <1>2, <3>2, <3>3, UnchangedTypes DEF Reject, TypeOK
  <2>2. CASE Head(queue).kind # "flush"
    <3>1. AnswerCaller(Head(queue)) /\ queue # <<>> /\ queue' = Tail(queue)
          /\ UNCHANGED <<open, tail, waiters, senders, pc, hand>>
      BY <1>2, <2>2 DEF Reject
    <3>2. IngressTypeOK'
      BY <1>0, <3>1, AnswerTypes DEF IngressTypeOK
    <3> QED
      BY <1>2, <3>1, <3>2, UnchangedTypes DEF Reject, TypeOK, recorderVars
  <2> QED
    BY <2>1, <2>2
<1>3. ASSUME Merge PROVE TypeOK'
  <2> DEFINE cmd == Head(queue)
  <2>1. cmd \in Commands /\ Tail(queue) \in Seq(Commands)
    BY <1>0, <1>3 DEF Merge, IngressTypeOK
  <2>2. AnswerCaller(cmd) /\ queue' = Tail(queue) /\ UNCHANGED <<open, tail, waiters, senders>>
        /\ pending' = MergedBatch(pending, cmd) /\ acks' = Acknowledged(cmd)
    BY <1>3 DEF Merge
  <2> HIDE DEF cmd
  <2>3. IngressTypeOK'
    BY <1>0, <2>1, <2>2, AnswerTypes DEF IngressTypeOK
  <2>4. MergedBatch(pending, cmd) \in [ids : Seq(Nat), stream : Streams \cup {NoStream}, bytes : Nat]
    <3>1. cmd.ids \in Seq(Nat) /\ cmd.bytes \in Nat
      BY <2>1 DEF Commands
    <3>2. pending.ids \in Seq(Nat) /\ pending.stream \in Streams \cup {NoStream} /\ pending.bytes \in Nat
      BY <1>0 DEF RecorderTypeOK
    <3>3. pending.ids \o cmd.ids \in Seq(Nat) /\ pending.bytes + cmd.bytes \in Nat
      BY <3>1, <3>2
    <3> QED
      BY <3>2, <3>3 DEF MergedBatch
  <2>5. RecorderTypeOK'
    BY <1>0, <1>3, <2>2, <2>4 DEF Merge, RecorderTypeOK
  <2>6. HistoryTypeOK'
    BY <1>0, <1>3, <2>1, <2>2, AnswerTypes DEF Merge, HistoryTypeOK
  <2> QED
    BY <1>3, <2>3, <2>5, <2>6, UnchangedTypes DEF Merge, TypeOK
<1>4. ASSUME Take PROVE TypeOK'
  <2>1. Head(queue) \in Commands /\ Tail(queue) \in Seq(Commands)
    BY <1>0, <1>4 DEF Take, IngressTypeOK
  <2>2. IngressTypeOK'
    BY <1>0, <1>4, <2>1 DEF Take, IngressTypeOK
  <2>3. RecorderTypeOK'
    BY <1>0, <1>4, <2>1 DEF Take, RecorderTypeOK
  <2> QED
    BY <1>4, <2>2, <2>3, UnchangedTypes DEF Take, TypeOK
<1>5. ASSUME ShutDown PROVE TypeOK'
  <2>0. NoCommand \in Commands
    BY DEF NoCommand, Commands
  <2>1. Shutdown \in Commands
    BY <2>0 DEF Shutdown, Commands
  <2>2. RecorderTypeOK'
    BY <1>0, <1>5, <2>1 DEF ShutDown, RecorderTypeOK
  <2> QED
    BY <1>5, <2>2, UnchangedTypes DEF ShutDown, TypeOK
<1>6. ASSUME FlushStore PROVE TypeOK'
  <2>1. RecorderTypeOK'
    BY <1>0, <1>6 DEF FlushStore, RecorderTypeOK
  <2>2. StoreTypeOK'
    BY <1>0, <1>6 DEF FlushStore, RecorderTypeOK, StoreTypeOK
  <2> QED
    BY <1>6, <2>1, <2>2, UnchangedTypes DEF FlushStore, TypeOK
<1>7. ASSUME FlushDone PROVE TypeOK'
  <2>1. NoCommand \in Commands /\ NoBatch \in [ids : Seq(Nat), stream : Streams \cup {NoStream}, bytes : Nat]
    BY DEF NoCommand, Commands, NoBatch
  <2>2. hand' \in Commands /\ pc' \in {"select", "stopped", "dispatch"}
    BY <1>0, <1>7, <2>1 DEF FlushDone, RecorderTypeOK
  <2>3. terminal' \in BOOLEAN
    BY <1>0, <1>7, Zenon DEF FlushDone, RecorderTypeOK
  <2>4. RecorderTypeOK'
    BY <1>0, <1>7, <2>1, <2>2, <2>3 DEF FlushDone, RecorderTypeOK
  <2> QED
    BY <1>7, <2>4, UnchangedTypes DEF FlushDone, TypeOK
<1>8. ASSUME FlushFails PROVE TypeOK'
  <2>1. NoBatch \in [ids : Seq(Nat), stream : Streams \cup {NoStream}, bytes : Nat]
        /\ <<>> \in Seq(Seq(Nat))
    BY DEF NoBatch
  <2>2. HistoryTypeOK'
    BY <1>0, <1>8, Zenon DEF FlushFails, HistoryTypeOK
  <2>3. IngressTypeOK' /\ hand' \in Commands /\ pc' \in {"select", "stopped"}
    BY <1>0, <1>8, AnswerTypes DEF FlushFails, IngressTypeOK
  <2>4. terminal' \in BOOLEAN
    BY <1>0, <1>8, Zenon DEF FlushFails, RecorderTypeOK
  <2>5. RecorderTypeOK'
    BY <1>0, <1>8, <2>1, <2>3, <2>4 DEF FlushFails, RecorderTypeOK
  <2> QED
    BY <1>8, <2>2, <2>3, <2>5, UnchangedTypes DEF FlushFails, TypeOK
<1>9. ASSUME StartBatch PROVE TypeOK'
  <2>1. hand \in Commands
    BY <1>0 DEF RecorderTypeOK
  <2>2. IngressTypeOK'
    BY <1>0, <1>9, AnswerTypes DEF StartBatch, IngressTypeOK
  <2>3. RecorderTypeOK'
    BY <1>0, <1>9, <2>1, AnswerTypes DEF StartBatch, RecorderTypeOK, Commands
  <2>4. HistoryTypeOK'
    BY <1>0, <1>9, <2>1, AnswerTypes DEF StartBatch, HistoryTypeOK
  <2> QED
    BY <1>9, <2>2, <2>3, <2>4, UnchangedTypes DEF StartBatch, TypeOK
<1>10. ASSUME StartWrite PROVE TypeOK'
  <2>1. RecorderTypeOK'
    BY <1>0, <1>10 DEF StartWrite, RecorderTypeOK, Commands
  <2> QED
    BY <1>10, <2>1, UnchangedTypes DEF StartWrite, TypeOK
<1>11. ASSUME AnswerFlush PROVE TypeOK'
  <2>1. IngressTypeOK'
    BY <1>0, <1>11, AnswerTypes DEF AnswerFlush, IngressTypeOK
  <2>2. RecorderTypeOK'
    BY <1>0, <1>11, AnswerTypes DEF AnswerFlush, RecorderTypeOK
  <2>3. HistoryTypeOK'
    BY <1>0, <1>11, AnswerTypes DEF AnswerFlush, HistoryTypeOK, RecorderTypeOK
  <2> QED
    BY <1>11, <2>1, <2>2, <2>3, UnchangedTypes DEF AnswerFlush, TypeOK
<1>12. ASSUME Store PROVE TypeOK'
  <2>1. hand.ids \in Seq(Nat)
    BY <1>0 DEF RecorderTypeOK, Commands
  <2>2. [i \in DOMAIN hand.ids |-> <<hand.ids[i]>>] \in Seq(Seq(Nat))
    <3> DEFINE rows == [i \in 1..Len(hand.ids) |-> <<hand.ids[i]>>]
    <3>1. \A i \in 1..Len(hand.ids) : <<hand.ids[i]>> \in Seq(Nat)
      BY <2>1
    <3>2. rows \in [1..Len(hand.ids) -> Seq(Nat)] /\ Len(hand.ids) \in Nat
      BY <2>1, <3>1
    <3>3. DOMAIN hand.ids = 1..Len(hand.ids)
      BY <2>1
    <3>4. rows \in Seq(Seq(Nat))
      <4> HIDE DEF rows
      <4> QED
        BY <3>2
    <3> QED
      BY <3>3, <3>4
  <2>3. RecorderTypeOK'
    BY <1>0, <1>12, <2>2 DEF Store, RecorderTypeOK
  <2>4. StoreTypeOK'
    BY <1>0, <1>12, <2>1 DEF Store, StoreTypeOK
  <2> QED
    BY <1>12, <2>3, <2>4, UnchangedTypes DEF Store, TypeOK
<1>13. ASSUME StoreFails PROVE TypeOK'
  <2>1. HistoryTypeOK'
    BY <1>0, <1>13, Zenon DEF StoreFails, HistoryTypeOK
  <2>2. IngressTypeOK' /\ hand' \in Commands /\ pc' \in {"select", "stopped"}
    BY <1>0, <1>13, AnswerTypes DEF StoreFails, IngressTypeOK
  <2>3. terminal' \in BOOLEAN
    BY <1>0, <1>13, Zenon DEF StoreFails, RecorderTypeOK
  <2>4. RecorderTypeOK'
    BY <1>0, <1>13, <2>2, <2>3 DEF StoreFails, RecorderTypeOK
  <2> QED
    BY <1>13, <2>1, <2>2, <2>4, UnchangedTypes DEF StoreFails, TypeOK
<1>14. ASSUME Publish PROVE TypeOK'
  <2>1. Head(outbox) \in Seq(Nat) /\ Tail(outbox) \in Seq(Seq(Nat))
    BY <1>0, <1>14 DEF Publish, RecorderTypeOK
  <2>2. RecorderTypeOK'
    BY <1>0, <1>14, <2>1 DEF Publish, RecorderTypeOK
  <2>3. StoreTypeOK'
    BY <1>0, <1>14, <2>1 DEF Publish, StoreTypeOK
  <2> QED
    BY <1>14, <2>2, <2>3, UnchangedTypes DEF Publish, TypeOK
<1>15. ASSUME WriteDone PROVE TypeOK'
  <2>1. IngressTypeOK'
    BY <1>0, <1>15, AnswerTypes DEF WriteDone, IngressTypeOK
  <2>2. RecorderTypeOK'
    BY <1>0, <1>15, AnswerTypes DEF WriteDone, RecorderTypeOK
  <2>3. HistoryTypeOK'
    BY <1>0, <1>15, AnswerTypes DEF WriteDone, HistoryTypeOK, RecorderTypeOK
  <2> QED
    BY <1>15, <2>1, <2>2, <2>3, UnchangedTypes DEF WriteDone, TypeOK
<1>16. ASSUME PublishFails PROVE TypeOK'
  <2>1. acks' \subseteq Nat /\ barrier' \in Nat
    BY <1>0, <1>16, AnswerTypes DEF PublishFails, RecorderTypeOK
  <2>2. faulted' \in BOOLEAN /\ terminal' \in BOOLEAN
    BY <1>0, <1>16, Zenon DEF PublishFails, RecorderTypeOK
  <2>3. IngressTypeOK' /\ hand' \in Commands /\ pc' \in {"select", "stopped"}
    BY <1>0, <1>16, AnswerTypes DEF PublishFails, IngressTypeOK
  <2>4. outbox' \in Seq(Seq(Nat))
    BY <1>16 DEF PublishFails
  <2>5. RecorderTypeOK'
    BY <1>0, <1>16, <2>2, <2>3, <2>4 DEF PublishFails, RecorderTypeOK
  <2>6. HistoryTypeOK'
    BY <2>1, <2>2 DEF HistoryTypeOK
  <2> QED
    BY <1>16, <2>3, <2>5, <2>6, UnchangedTypes DEF PublishFails, TypeOK
<1>17. ASSUME Read \/ CloseFrontend PROVE TypeOK'
  <2>1. unread' \in Nat /\ UNCHANGED <<journal, published>>
    BY <1>0, <1>17 DEF Read, CloseFrontend, StoreTypeOK
  <2>2. listening' \in BOOLEAN
    BY <1>0, <1>17, Zenon DEF Read, CloseFrontend, StoreTypeOK
  <2>3. StoreTypeOK'
    BY <1>0, <2>1, <2>2 DEF StoreTypeOK
  <2> QED
    BY <1>17, <2>3, UnchangedTypes DEF Read, CloseFrontend, TypeOK
<1> QED
  BY <1>1, <1>2, <1>3, <1>4, <1>5, <1>6, <1>7, <1>8, <1>9, <1>10, <1>11, <1>12, <1>13, <1>14,
     <1>15, <1>16, <1>17 DEF RecorderStep

-----------------------------------------------------------------------------
(* Every waiting call is known in one place.                               *)

(* The steps of the callers keep every call in one place.                  *)
LEMMA ClientsCalls ==
    ASSUME TypeOK, ClientInv, ClientStep \/ Grant \/ Admit \/ SendFails
    PROVE  ClientInv'
<1>0. IngressTypeOK /\ hand \in Commands /\ NoClient \notin Clients
  BY RecorderAssumptions DEF TypeOK, RecorderTypeOK
<1>00. \A cmd \in Commands : cmd.client \in Clients \cup {NoClient}
  BY DEF Commands
<1> USE DEF IngressTypeOK
<1>1. ASSUME NEW c \in Clients, NEW r \in Requests, Call(c, r) PROVE ClientInv'
  <2>1. /\ open /\ call[c] = "idle" /\ req' = [req EXCEPT ![c] = r]
        /\ UNCHANGED <<open, queue, hand>>
    BY <1>1 DEF Call, recorderVars
  <2>2. \/ call' = [call EXCEPT ![c] = "send"] /\ senders' = Append(senders, c) /\ waiters' = waiters
        \/ call' = [call EXCEPT ![c] = "reserve"] /\ waiters' = Append(waiters, c) /\ senders' = senders
    BY <1>1, Zenon DEF Call
  <2>3. /\ \A i \in DOMAIN queue : queue[i].client # NoClient => call'[queue[i].client] = "wait"
        /\ hand.client # NoClient => call'[hand.client] = "wait"
    BY <1>0, <1>00, <2>1, <2>2 DEF ClientInv
  <2>4. \A d \in Clients : call'[d] # "idle" => req'[d] \in Requests
    BY <1>0, <2>1, <2>2 DEF ClientInv
  <2>5. /\ \A i \in DOMAIN waiters' : call'[waiters'[i]] = "reserve"
        /\ \A i, j \in DOMAIN waiters' : waiters'[i] = waiters'[j] => i = j
    <3>1. CASE waiters' = waiters
      BY <1>0, <2>1, <2>2, <3>1 DEF ClientInv
    <3>2. CASE call' = [call EXCEPT ![c] = "reserve"] /\ waiters' = Append(waiters, c)
      BY <1>0, <2>1, <3>2 DEF ClientInv
    <3> QED
      BY <2>2, <3>1, <3>2
  <2>6. /\ \A i \in DOMAIN senders' : call'[senders'[i]] = "send"
        /\ \A i, j \in DOMAIN senders' : senders'[i] = senders'[j] => i = j
    <3>1. CASE senders' = senders
      BY <1>0, <2>1, <2>2, <3>1 DEF ClientInv
    <3>2. CASE call' = [call EXCEPT ![c] = "send"] /\ senders' = Append(senders, c)
      BY <1>0, <2>1, <3>2 DEF ClientInv
    <3> QED
      BY <2>2, <3>1, <3>2
  <2> QED
    BY <2>1, <2>3, <2>4, <2>5, <2>6 DEF ClientInv
<1>2. ASSUME NEW c \in Clients, NEW r \in Requests, TryRecord(c, r) PROVE ClientInv'
  <2>1. Command(r, NoClient, FALSE) \in Commands /\ Command(r, NoClient, FALSE).client = NoClient
    BY <1>0, CommandType
  <2>2. PICK cmd \in Commands : queue' = Append(queue, cmd) /\ cmd.client = NoClient
    BY <1>2, <2>1, Zenon DEF TryRecord
  <2>3. UNCHANGED <<open, call, req, waiters, senders, hand>>
    BY <1>2 DEF TryRecord, recorderVars
  <2>4. /\ \A i \in DOMAIN queue' : queue'[i].client # NoClient => call[queue'[i].client] = "wait"
        /\ \A i, j \in DOMAIN queue' :
             queue'[i].client = queue'[j].client /\ queue'[i].client # NoClient => i = j
        /\ hand.client # NoClient => \A i \in DOMAIN queue' : queue'[i].client # hand.client
    BY <1>0, <2>2 DEF ClientInv
  <2> QED
    BY <2>3, <2>4 DEF ClientInv
<1>3. ASSUME NEW c \in Clients, Cancel(c) PROVE ClientInv'
  <2>1. /\ waiters' \in Seq(Clients)
        /\ \A k \in DOMAIN waiters' : \E i \in DOMAIN waiters : waiters'[k] = waiters[i] /\ waiters[i] # c
        /\ \A i, j \in DOMAIN waiters' : waiters'[i] = waiters'[j] => i = j
    BY <1>0, <1>3, RemoveFirstProperties DEF Cancel, ClientInv
  <2>2. /\ senders' \in Seq(Clients)
        /\ \A k \in DOMAIN senders' : \E i \in DOMAIN senders : senders'[k] = senders[i] /\ senders[i] # c
        /\ \A i, j \in DOMAIN senders' : senders'[i] = senders'[j] => i = j
    BY <1>0, <1>3, RemoveFirstProperties DEF Cancel, ClientInv
  <2>3. \A cmd \in Commands : Detach(cmd, c).client = IF cmd.client = c THEN NoClient ELSE cmd.client
    BY DEF Detach, Commands
  <2>4. /\ DOMAIN queue' = DOMAIN queue
        /\ \A i \in DOMAIN queue : queue'[i].client = IF queue[i].client = c THEN NoClient ELSE queue[i].client
        /\ hand'.client = IF hand.client = c THEN NoClient ELSE hand.client
    BY <1>0, <1>3, <2>3 DEF Cancel
  <2>5. \A d \in Clients : call'[d] = (IF d = c THEN "idle" ELSE call[d]) /\ (d # c => req'[d] = req[d])
    BY <1>0, <1>3 DEF Cancel
  <2>6. \A i \in DOMAIN queue : queue[i].client \in Clients \cup {NoClient}
    BY <1>0, <1>00
  <2>7. /\ \A i \in DOMAIN waiters' : call'[waiters'[i]] = "reserve"
        /\ \A i \in DOMAIN senders' : call'[senders'[i]] = "send"
    BY <1>0, <2>1, <2>2, <2>5 DEF ClientInv
  <2>8. /\ \A i \in DOMAIN queue' : queue'[i].client # NoClient => call'[queue'[i].client] = "wait"
        /\ \A i, j \in DOMAIN queue' :
             queue'[i].client = queue'[j].client /\ queue'[i].client # NoClient => i = j
        /\ hand'.client # NoClient =>
             call'[hand'.client] = "wait" /\ \A i \in DOMAIN queue' : queue'[i].client # hand'.client
    BY <1>0, <1>00, <2>4, <2>5, <2>6 DEF ClientInv
  <2>9. \A d \in Clients : call'[d] # "idle" => req'[d] \in Requests
    BY <2>5 DEF ClientInv
  <2>10. ~open' => \A d \in Clients : call'[d] = "idle"
    BY <1>3, <2>5 DEF Cancel, ClientInv
  <2> QED
    BY <2>1, <2>2, <2>7, <2>8, <2>9, <2>10 DEF ClientInv
<1>4. ASSUME CloseIngress PROVE ClientInv'
  BY <1>0, <1>4 DEF CloseIngress, ClientInv, recorderVars
<1>5. ASSUME Grant PROVE ClientInv'
  BY <1>0, <1>00, <1>5 DEF Grant, ClientInv, recorderVars
<1>6. ASSUME Admit PROVE ClientInv'
  <2> DEFINE c == Head(senders)
  <2>1. c \in Clients /\ senders' = Tail(senders) /\ senders # <<>> /\ c = senders[1]
    BY <1>0, <1>6 DEF Admit
  <2>2. Command(req[c], c, TRUE) \in Commands /\ Command(req[c], c, TRUE).client = c
    <3>1. req[c] \in Requests \cup {NoRequest} /\ c \in Clients \cup {NoClient}
      BY <1>0, <2>1
    <3> HIDE DEF c
    <3> QED
      BY <1>0, <3>1, CommandType
  <2>3. PICK cmd \in Commands : queue' = Append(queue, cmd) /\ cmd.client = c
    BY <1>6, <2>2, Zenon DEF Admit
  <2>4. call' = [call EXCEPT ![c] = "wait"] /\ UNCHANGED <<open, req, waiters, hand>> /\ call[c] = "send"
    BY <1>0, <1>6, <2>1 DEF Admit, recorderVars, ClientInv
  <2> HIDE DEF c
  <2>5. /\ \A i \in DOMAIN waiters : call'[waiters[i]] = "reserve"
        /\ \A i \in DOMAIN senders' : call'[senders'[i]] = "send"
        /\ \A i, j \in DOMAIN senders' : senders'[i] = senders'[j] => i = j
    BY <1>0, <2>1, <2>4 DEF ClientInv
  <2>6. /\ \A i \in DOMAIN queue' : queue'[i].client # NoClient => call'[queue'[i].client] = "wait"
        /\ \A i, j \in DOMAIN queue' :
             queue'[i].client = queue'[j].client /\ queue'[i].client # NoClient => i = j
        /\ hand'.client # NoClient =>
             call'[hand'.client] = "wait" /\ \A i \in DOMAIN queue' : queue'[i].client # hand'.client
    BY <1>0, <1>00, <2>1, <2>3, <2>4 DEF ClientInv
  <2> QED
    BY <1>0, <2>1, <2>4, <2>5, <2>6 DEF ClientInv
<1>7. ASSUME SendFails PROVE ClientInv'
  BY <1>0, <1>00, <1>7 DEF SendFails, ClientInv, recorderVars
<1> QED
  BY <1>1, <1>2, <1>3, <1>4, <1>5, <1>6, <1>7 DEF ClientStep

(* Answering the first command of the queue, or the command in hand,       *)
(* touches the call of no one else; a stop answers everyone.               *)
LEMMA AnswerCalls ==
    ASSUME TypeOK, ClientInv, UNCHANGED <<open, waiters>>
    PROVE  /\ queue # <<>> /\ AnswerCaller(Head(queue)) /\ queue' = Tail(queue)
                /\ UNCHANGED <<senders, hand>> => ClientInv'
           /\ AnswerCaller(hand) /\ hand' = NoCommand /\ UNCHANGED <<senders, queue>> => ClientInv'
           /\ Stop => ClientInv'
<1>0. IngressTypeOK /\ hand \in Commands /\ NoClient \notin Clients
  BY RecorderAssumptions DEF TypeOK, RecorderTypeOK
<1>00. \A cmd \in Commands : cmd.client \in Clients \cup {NoClient}
  BY DEF Commands
<1> USE DEF IngressTypeOK
<1>1. ASSUME queue # <<>>, AnswerCaller(Head(queue)), queue' = Tail(queue), UNCHANGED <<senders, hand>>
      PROVE  ClientInv'
  <2> DEFINE d == Head(queue).client
  <2>1. d = queue[1].client /\ 1 \in DOMAIN queue /\ queue' \in Seq(Commands)
        /\ Len(queue') = Len(queue) - 1
        /\ \A i \in DOMAIN queue' : queue'[i] = queue[i + 1] /\ i + 1 \in DOMAIN queue /\ i + 1 # 1
    BY <1>0, <1>1
  <2>2. \A c \in Clients : call'[c] = (IF c = d THEN "idle" ELSE call[c]) /\ (c # d => req'[c] = req[c])
    BY <1>1 DEF AnswerCaller
  <2> HIDE DEF d
  <2>3. d # NoClient => d \in Clients /\ call[d] = "wait"
    BY <1>0, <1>00, <2>1 DEF ClientInv
  <2>4. \A i \in DOMAIN queue' : queue'[i].client # NoClient =>
                                   queue'[i].client # d /\ queue'[i].client \in Clients
    <3> SUFFICES ASSUME NEW i \in DOMAIN queue', queue'[i].client # NoClient
                 PROVE  queue'[i].client # d /\ queue'[i].client \in Clients
      OBVIOUS
    <3>1. queue'[i] = queue[i + 1] /\ i + 1 \in DOMAIN queue /\ i + 1 # 1 /\ queue[i + 1] \in Commands
      BY <1>0, <2>1
    <3>2. queue[i + 1].client # queue[1].client
      BY <2>1, <3>1 DEF ClientInv
    <3> QED
      BY <1>00, <2>1, <3>1, <3>2
  <2>5. /\ \A i \in DOMAIN waiters : call'[waiters[i]] = "reserve"
        /\ \A i \in DOMAIN senders : call'[senders[i]] = "send"
    BY <1>0, <2>2, <2>3 DEF ClientInv
  <2>6. /\ \A i \in DOMAIN queue' : queue'[i].client # NoClient => call'[queue'[i].client] = "wait"
        /\ \A i, j \in DOMAIN queue' :
             queue'[i].client = queue'[j].client /\ queue'[i].client # NoClient => i = j
    <3>1. ASSUME NEW i \in DOMAIN queue', queue'[i].client # NoClient
          PROVE  call'[queue'[i].client] = "wait"
      <4>1. call[queue'[i].client] = "wait"
        BY <2>1, <3>1 DEF ClientInv
      <4> QED
        BY <2>2, <2>4, <3>1, <4>1
    <3>2. \A i, j \in DOMAIN queue' :
             queue'[i].client = queue'[j].client /\ queue'[i].client # NoClient => i = j
      <4>1. DOMAIN queue' \subseteq Nat
        BY <2>1
      <4> QED
        BY <2>1, <4>1 DEF ClientInv
    <3> QED
      BY <3>1, <3>2
  <2>7. hand.client # NoClient =>
             call'[hand.client] = "wait" /\ \A i \in DOMAIN queue' : queue'[i].client # hand.client
    BY <1>0, <1>00, <2>1, <2>2 DEF ClientInv
  <2> QED
    BY <1>1, <2>2, <2>5, <2>6, <2>7 DEF ClientInv
<1>2. ASSUME AnswerCaller(hand), hand' = NoCommand, UNCHANGED <<senders, queue>>
      PROVE  ClientInv'
  <2>1. hand'.client = NoClient
    BY <1>2 DEF NoCommand
  <2>2. \A c \in Clients : call'[c] = (IF c = hand.client THEN "idle" ELSE call[c])
                           /\ (c # hand.client => req'[c] = req[c])
    BY <1>2 DEF AnswerCaller
  <2>3. hand.client # NoClient => hand.client \in Clients /\ call[hand.client] = "wait"
    BY <1>0, <1>00 DEF ClientInv
  <2>4. /\ \A i \in DOMAIN waiters : call'[waiters[i]] = "reserve"
        /\ \A i \in DOMAIN senders : call'[senders[i]] = "send"
    BY <1>0, <2>2, <2>3 DEF ClientInv
  <2>5. \A i \in DOMAIN queue : queue[i].client # NoClient => call'[queue[i].client] = "wait"
    BY <1>0, <1>00, <2>2 DEF ClientInv
  <2> QED
    BY <1>2, <2>1, <2>2, <2>4, <2>5 DEF ClientInv
<1>3. ASSUME Stop PROVE ClientInv'
  <2>1. hand'.client = NoClient /\ queue' = <<>> /\ senders' = <<>>
    BY <1>3 DEF Stop, NoCommand
  <2>2. \A c \in Clients : call'[c] = (IF call[c] \in {"send", "wait"} THEN "idle" ELSE call[c])
                           /\ (call[c] \notin {"send", "wait"} => req'[c] = req[c])
    BY <1>3 DEF Stop
  <2>3. \A i \in DOMAIN waiters : call'[waiters[i]] = "reserve"
    BY <1>0, <2>2 DEF ClientInv
  <2> QED
    BY <2>1, <2>2, <2>3 DEF ClientInv
<1> QED
  BY <1>1, <1>2, <1>3

(* The steps of the recorder and the frontend answer the right caller.     *)
LEMMA RecorderCalls ==
    ASSUME TypeOK, ClientInv, RecorderStep \/ Read \/ CloseFrontend
    PROVE  ClientInv'
<1>0. NoCommand.client = NoClient /\ Shutdown.client = NoClient /\ hand \in Commands
  BY DEF NoCommand, Shutdown, TypeOK, RecorderTypeOK
<1>1. CASE UNCHANGED <<open, call, req, waiters, senders, queue>> /\ hand' \in {hand, NoCommand, Shutdown}
  BY <1>0, <1>1 DEF ClientInv
<1>2. ASSUME Deadline \/ ShutDown \/ FlushStore \/ FlushDone \/ StartWrite \/ Store \/ Publish
             \/ Read \/ CloseFrontend
      PROVE  ClientInv'
  <2>1. UNCHANGED <<open, call, req, waiters, senders, queue>> /\ hand' \in {hand, NoCommand, Shutdown}
    BY <1>2, Zenon DEF Deadline, ShutDown, FlushStore, FlushDone, StartWrite, Store, Publish,
                       Read, CloseFrontend, ingressVars, recorderVars
  <2> QED
    BY <1>1, <2>1
<1>3. ASSUME Reject PROVE ClientInv'
  <2>1. UNCHANGED <<open, waiters>>
    BY <1>3 DEF Reject
  <2>2. CASE Head(queue).kind = "flush"
    <3>1. Stop
      BY <1>3, <2>2 DEF Reject
    <3> QED
      BY <2>1, <3>1, AnswerCalls
  <2>3. CASE Head(queue).kind # "flush"
    <3>1. AnswerCaller(Head(queue))
      BY <1>3, <2>3 DEF Reject
    <3>2. queue # <<>> /\ queue' = Tail(queue) /\ UNCHANGED <<senders, hand>>
      BY <1>3, <2>3 DEF Reject
    <3> QED
      BY <2>1, <3>1, <3>2, AnswerCalls
  <2> QED
    BY <2>2, <2>3
<1>8. ASSUME Merge PROVE ClientInv'
  <2>1. AnswerCaller(Head(queue))
    BY <1>8 DEF Merge
  <2>2. queue # <<>> /\ queue' = Tail(queue) /\ UNCHANGED <<open, waiters, senders, hand>>
    BY <1>8 DEF Merge
  <2> QED
    BY <2>1, <2>2, AnswerCalls
<1>4. ASSUME Take PROVE ClientInv'
  <2>1. queue # <<>> /\ queue \in Seq(Commands) /\ hand' = queue[1] /\ queue' = Tail(queue)
        /\ UNCHANGED <<open, call, req, waiters, senders>>
    BY <1>4 DEF Take, TypeOK, IngressTypeOK
  <2>2. /\ Len(queue') = Len(queue) - 1 /\ queue' \in Seq(Commands) /\ 1 \in DOMAIN queue
        /\ \A i \in DOMAIN queue' : queue'[i] = queue[i + 1] /\ i + 1 \in DOMAIN queue /\ i + 1 # 1
    BY <2>1
  <2>3. hand'.client # NoClient =>
             call[hand'.client] = "wait" /\ \A i \in DOMAIN queue' : queue'[i].client # hand'.client
    BY <2>1, <2>2 DEF ClientInv
  <2>4. /\ \A i \in DOMAIN queue' : queue'[i].client # NoClient => call[queue'[i].client] = "wait"
        /\ \A i, j \in DOMAIN queue' :
             queue'[i].client = queue'[j].client /\ queue'[i].client # NoClient => i = j
    BY <2>1, <2>2 DEF ClientInv
  <2> QED
    BY <2>1, <2>3, <2>4 DEF ClientInv
<1>5. ASSUME StartBatch \/ AnswerFlush \/ WriteDone PROVE ClientInv'
  BY <1>5, AnswerCalls DEF StartBatch, AnswerFlush, WriteDone, Resume
<1>6. ASSUME FlushFails PROVE ClientInv'
  <2>1. UNCHANGED <<open, waiters>>
    BY <1>6 DEF FlushFails
  <2>2. CASE hand.kind \in {"flush", "shutdown"}
    <3>1. Stop
      BY <1>6, <2>2 DEF FlushFails
    <3> QED
      BY <2>1, <3>1, AnswerCalls
  <2>3. CASE hand.kind \notin {"flush", "shutdown"}
    <3>1. AnswerCaller(hand)
      BY <1>6, <2>3 DEF FlushFails
    <3>2. hand' = NoCommand /\ UNCHANGED <<senders, queue>>
      BY <1>6, <2>3 DEF FlushFails, Resume
    <3> QED
      BY <2>1, <3>1, <3>2, AnswerCalls
  <2> QED
    BY <2>2, <2>3
<1>7. ASSUME StoreFails \/ PublishFails PROVE ClientInv'
  <2>1. UNCHANGED <<open, waiters>>
    BY <1>7 DEF StoreFails, PublishFails
  <2>2. CASE hand.ack
    <3>1. Stop
      BY <1>7, <2>2 DEF StoreFails, PublishFails
    <3> QED
      BY <2>1, <3>1, AnswerCalls
  <2>3. CASE ~hand.ack
    <3>1. hand' = NoCommand /\ UNCHANGED <<call, req, senders, queue>>
      BY <1>7, <2>3 DEF StoreFails, PublishFails, Resume
    <3> QED
      BY <1>1, <2>1, <3>1
  <2> QED
    BY <2>2, <2>3
<1> QED
  BY <1>2, <1>3, <1>4, <1>5, <1>6, <1>7, <1>8 DEF RecorderStep

-----------------------------------------------------------------------------
(* The pipeline.                                                           *)

(* Initially the pipeline is empty.                                        *)
LEMMA InitPipe == Init => PipeInv
<1> SUFFICES ASSUME Init PROVE PipeInv
  OBVIOUS
<1>1. ControlInv /\ TerminalHasNoBatch
  BY DEF Init, ControlInv, TerminalHasNoBatch, NoCommand
<1>2. QueueInv /\ JournalInOrder /\ BarrierDurable /\ AckedNotLost /\ CleanStop
  BY DEF Init, QueueInv, JournalInOrder, BarrierDurable, AckedNotLost, CleanStop
<1>3. PipelineInv /\ OutboxInv
  BY DEF Init, PipelineInv, OutboxInv, EndsAt, AfterBatch, AfterHand, LeftQueue, NoCommand, NoBatch
<1> QED
  BY <1>1, <1>2, <1>3 DEF PipeInv

(* A command that enters the queue continues its numbering.                *)
LEMMA Entering ==
    ASSUME queue \in Seq(Commands), tail \in Nat, QueueInv,
           NEW cmd \in Commands, cmd.kind \in {"append", "save", "flush"},
           cmd.kind = "flush" => cmd.ids = <<>>,
           EndsAt(cmd.ids, cmd.upto), cmd.upto = tail + Len(cmd.ids),
           queue' = Append(queue, cmd), tail' = cmd.upto
    PROVE  QueueInv' /\ LeftQueue' = LeftQueue
<1>1. cmd.ids \in Seq(Nat) /\ cmd.upto \in Nat
  BY DEF Commands
<1>2. QueueInv'
  BY <1>1 DEF QueueInv
<1>3. LeftQueue' = LeftQueue
  BY <1>1 DEF LeftQueue
<1> QED
  BY <1>2, <1>3

(* The command that leaves the queue continues what has left before it.    *)
LEMMA Leaving ==
    ASSUME queue \in Seq(Commands), tail \in Nat, QueueInv,
           queue # <<>>, queue' = Tail(queue), tail' = tail
    PROVE  /\ QueueInv'
           /\ Head(queue) \in Commands
           /\ Head(queue).kind \in {"append", "save", "flush"}
           /\ Head(queue).kind = "flush" => Head(queue).ids = <<>>
           /\ EndsAt(Head(queue).ids, Head(queue).upto)
           /\ Head(queue).upto = LeftQueue + Len(Head(queue).ids)
           /\ LeftQueue' = Head(queue).upto
<1>1. /\ Head(queue) = queue[1] /\ 1 \in DOMAIN queue
      /\ queue' \in Seq(Commands) /\ Len(queue') = Len(queue) - 1
      /\ \A i \in DOMAIN queue' : queue'[i] = queue[i + 1] /\ i + 1 \in DOMAIN queue
  OBVIOUS
<1>2. \A i \in DOMAIN queue : queue[i] \in Commands
  OBVIOUS
<1>3. \A cmd \in Commands : cmd.upto \in Nat /\ cmd.ids \in Seq(Nat) /\ Len(cmd.ids) \in Nat
  BY DEF Commands
<1>4. \A i \in DOMAIN queue : i > 1 => queue[i].upto = queue[i - 1].upto + Len(queue[i].ids)
  BY DEF QueueInv
<1>5. \A i \in DOMAIN queue' : i > 1 => queue'[i].upto = queue'[i - 1].upto + Len(queue'[i].ids)
  <2> SUFFICES ASSUME NEW i \in DOMAIN queue', i > 1
               PROVE  queue'[i].upto = queue'[i - 1].upto + Len(queue'[i].ids)
    OBVIOUS
  <2>1. i \in Nat /\ i - 1 \in DOMAIN queue' /\ (i - 1) + 1 = i /\ (i + 1) - 1 = i /\ i + 1 > 1
    BY <1>1
  <2>2. queue'[i] = queue[i + 1] /\ queue'[i - 1] = queue[i] /\ i + 1 \in DOMAIN queue
    BY <1>1, <2>1
  <2> QED
    BY <1>4, <2>1, <2>2
<1>6. queue' # <<>> => queue'[Len(queue')].upto = tail'
  BY <1>1 DEF QueueInv
<1>7. QueueInv'
  <2>1. \A i \in DOMAIN queue' :
         /\ queue'[i].kind \in {"append", "save", "flush"}
         /\ queue'[i].kind = "flush" => queue'[i].ids = <<>>
         /\ EndsAt(queue'[i].ids, queue'[i].upto)
    BY <1>1 DEF QueueInv
  <2> QED
    BY <1>5, <1>6, <2>1 DEF QueueInv, EndsAt
<1>8. LeftQueue' = Head(queue).upto
  <2>1. CASE queue' = <<>>
    BY <1>1, <2>1 DEF QueueInv, LeftQueue
  <2>2. CASE queue' # <<>>
    <3>1. queue'[1] = queue[2] /\ 2 \in DOMAIN queue
      BY <1>1, <2>2
    <3>2. queue[2].upto = queue[1].upto + Len(queue[2].ids)
      BY <1>4, <3>1
    <3> QED
      BY <1>1, <1>2, <1>3, <2>2, <3>1, <3>2 DEF LeftQueue
  <2> QED
    BY <2>1, <2>2
<1>9. Head(queue).upto = LeftQueue + Len(Head(queue).ids)
  BY <1>1, <1>2, <1>3 DEF LeftQueue
<1> QED
  BY <1>1, <1>2, <1>7, <1>8, <1>9 DEF QueueInv

(* Nothing that the pipeline is about changes.                             *)
LEMMA OtherPipe ==
    ASSUME PipeInv, UNCHANGED <<queue, tail, recorderVars, journal, published, historyVars>>,
           open' = open \/ open' = FALSE
    PROVE  PipeInv'
<1>1. ControlInv' /\ TerminalHasNoBatch' /\ CleanStop'
  BY DEF PipeInv, ControlInv, TerminalHasNoBatch, CleanStop, recorderVars, historyVars
<1>2. QueueInv' /\ JournalInOrder' /\ BarrierDurable' /\ AckedNotLost' /\ OutboxInv'
  BY DEF PipeInv, QueueInv, JournalInOrder, BarrierDurable, AckedNotLost, OutboxInv, Working,
         recorderVars, historyVars
<1>3. PipelineInv'
  BY DEF PipeInv, PipelineInv, Working, EndsAt, AfterBatch, AfterHand, LeftQueue, recorderVars
<1> QED
  BY <1>1, <1>2, <1>3 DEF PipeInv

(* Cancelling a call changes no command but for its client.                *)
LEMMA CancelPipe ==
    ASSUME TypeOK, PipeInv, NEW c \in Clients, Cancel(c)
    PROVE  PipeInv'
<1>0. queue \in Seq(Commands) /\ hand \in Commands /\ NoClient # c
  BY RecorderAssumptions DEF TypeOK, IngressTypeOK, RecorderTypeOK
<1>1. \A cmd \in Commands :
        /\ Detach(cmd, c).kind = cmd.kind /\ Detach(cmd, c).ids = cmd.ids
        /\ Detach(cmd, c).upto = cmd.upto
        /\ cmd.client = NoClient => Detach(cmd, c) = cmd
  BY <1>0 DEF Detach, Commands
<1>2. /\ DOMAIN queue' = DOMAIN queue /\ Len(queue') = Len(queue) /\ (queue' = <<>> <=> queue = <<>>)
      /\ \A i \in DOMAIN queue : /\ queue'[i].kind = queue[i].kind /\ queue'[i].ids = queue[i].ids
                                 /\ queue'[i].upto = queue[i].upto
  BY <1>0, <1>1 DEF Cancel
<1>3. /\ hand'.kind = hand.kind /\ hand'.ids = hand.ids /\ hand'.upto = hand.upto
      /\ hand = NoCommand => hand' = NoCommand
  BY <1>0, <1>1 DEF Cancel, NoCommand
<1>4. UNCHANGED <<open, tail, pc, pending, terminal, outbox, journal, published, barrier, acks, faulted>>
  BY DEF Cancel, storeVars, historyVars
<1>5. ControlInv'
  BY <1>2, <1>3, <1>4 DEF PipeInv, ControlInv
<1>6. QueueInv'
  BY <1>0, <1>2, <1>4 DEF PipeInv, QueueInv, EndsAt
<1>7. LeftQueue' = LeftQueue
  BY <1>0, <1>2, <1>4 DEF LeftQueue
<1>8. PipelineInv'
  BY <1>3, <1>4, <1>7 DEF PipeInv, PipelineInv, Working, EndsAt, AfterBatch, AfterHand
<1>9. OutboxInv' /\ JournalInOrder' /\ BarrierDurable' /\ AckedNotLost' /\ TerminalHasNoBatch' /\ CleanStop'
  BY <1>4 DEF PipeInv, OutboxInv, Working, JournalInOrder, BarrierDurable, AckedNotLost,
              TerminalHasNoBatch, CleanStop
<1> QED
  BY <1>5, <1>6, <1>8, <1>9 DEF PipeInv

(* A command enters the queue while the recorder runs.                     *)
LEMMA AdmitPipe ==
    ASSUME TypeOK, PipeInv, pc # "stopped", hand.kind # "shutdown",
           NEW r \in Requests, NEW c \in Clients \cup {NoClient}, NEW a \in BOOLEAN,
           queue' = Append(queue, Command(r, c, a)), tail' = tail + r.n,
           UNCHANGED <<open, recorderVars, journal, published, historyVars>>
    PROVE  PipeInv'
<1>0. queue \in Seq(Commands) /\ tail \in Nat
  BY DEF TypeOK, IngressTypeOK
<1>1. PICK cmd \in Commands :
        /\ queue' = Append(queue, cmd) /\ tail' = cmd.upto
        /\ cmd.kind \in {"append", "save", "flush"} /\ (cmd.kind = "flush" => cmd.ids = <<>>)
        /\ EndsAt(cmd.ids, cmd.upto) /\ cmd.upto = tail + Len(cmd.ids)
  <2> DEFINE cmd == Command(r, c, a)
  <2>1. /\ cmd \in Commands /\ Len(cmd.ids) = r.n /\ cmd.upto = tail + r.n
        /\ EndsAt(cmd.ids, cmd.upto) /\ cmd.kind = r.kind
    BY <1>0, CommandType
  <2>2. r.kind \in {"append", "save", "flush"} /\ (r.kind = "flush" => r.n = 0)
    BY DEF Requests
  <2>3. cmd.ids \in Seq(Nat)
    BY <2>1 DEF Commands
  <2> HIDE DEF cmd
  <2>4. cmd.kind = "flush" => cmd.ids = <<>>
    BY <2>1, <2>2, <2>3
  <2>5. queue' = Append(queue, cmd) /\ tail' = cmd.upto /\ cmd.upto = tail + Len(cmd.ids)
    BY <2>1 DEF cmd
  <2> QED
    BY <2>1, <2>2, <2>4, <2>5
<1>2. QueueInv' /\ LeftQueue' = LeftQueue
  BY <1>0, <1>1, Entering DEF PipeInv
<1>3. UNCHANGED <<open, pc, hand, pending, terminal, outbox, journal, published, barrier, acks, faulted>>
  BY DEF recorderVars, historyVars
<1>4. ControlInv'
  BY <1>3 DEF PipeInv, ControlInv
<1>5. PipelineInv'
  BY <1>2, <1>3 DEF PipeInv, PipelineInv, Working, EndsAt, AfterBatch, AfterHand
<1>6. OutboxInv' /\ JournalInOrder' /\ BarrierDurable' /\ AckedNotLost' /\ TerminalHasNoBatch' /\ CleanStop'
  BY <1>3 DEF PipeInv, OutboxInv, Working, JournalInOrder, BarrierDurable, AckedNotLost,
              TerminalHasNoBatch, CleanStop
<1> QED
  BY <1>2, <1>4, <1>5, <1>6 DEF PipeInv

(* The steps of the callers and of the frontend keep the pipeline.         *)
LEMMA ClientPipe ==
    ASSUME TypeOK, ClientInv, PipeInv,
           ClientStep \/ Grant \/ Admit \/ SendFails \/ Read \/ CloseFrontend
    PROVE  PipeInv'
<1>1. ASSUME NEW c \in Clients, NEW r \in Requests, TryRecord(c, r) PROVE PipeInv'
  <2>1. pc # "stopped" /\ hand.kind # "shutdown"
    BY <1>1 DEF TryRecord, Recording, PipeInv, ControlInv
  <2>2. /\ queue' = Append(queue, Command(r, NoClient, FALSE)) /\ tail' = tail + r.n
        /\ UNCHANGED <<open, recorderVars, journal, published, historyVars>>
    BY <1>1, Zenon DEF TryRecord, storeVars
  <2> QED
    BY <2>1, <2>2, AdmitPipe
<1>2. ASSUME Admit PROVE PipeInv'
  <2> DEFINE c == Head(senders)
  <2>1. c \in Clients /\ call[c] = "send"
    BY <1>2 DEF Admit, TypeOK, IngressTypeOK, ClientInv
  <2>2. pc # "stopped" /\ hand.kind # "shutdown" /\ req[c] \in Requests
    BY <1>2, <2>1 DEF Admit, Recording, PipeInv, ControlInv, ClientInv
  <2>3. /\ queue' = Append(queue, Command(req[c], c, TRUE)) /\ tail' = tail + req[c].n
        /\ UNCHANGED <<open, recorderVars, journal, published, historyVars>>
    BY <1>2, Zenon DEF Admit, storeVars
  <2> HIDE DEF c
  <2> QED
    BY <2>1, <2>2, <2>3, AdmitPipe
<1>3. ASSUME (\E c \in Clients, r \in Requests : Call(c, r)) \/ CloseIngress \/ Grant \/ SendFails
             \/ Read \/ CloseFrontend
      PROVE  PipeInv'
  <2>1. UNCHANGED <<queue, tail, recorderVars, journal, published, historyVars>>
        /\ (open' = open \/ open' = FALSE)
    BY <1>3, Zenon DEF Call, CloseIngress, Grant, SendFails, Read, CloseFrontend, storeVars, ingressVars
  <2> QED
    BY <2>1, OtherPipe
<1> QED
  BY <1>1, <1>2, <1>3, CancelPipe DEF ClientStep

(* The recorder stops, or the command in hand fails: no event is stored    *)
(* any more, so what must be kept is what the journal already says.        *)
LEMMA FailPipe ==
    ASSUME TypeOK, PipeInv, faulted', pc' = "stopped" \/ (pc' = "select" /\ terminal'),
           hand' = NoCommand, pending' = NoBatch, queue' = queue \/ queue' = <<>>,
           outbox' = <<>> \/ pc' = "stopped", barrier' <= Len(journal),
           UNCHANGED <<open, tail, journal, published>>
    PROVE  PipeInv'
<1>1. hand'.kind = "none" /\ hand'.ids = <<>>
  BY DEF NoCommand
<1>2. ControlInv'
  BY <1>1 DEF ControlInv, PipeInv
<1>3. QueueInv'
  BY DEF QueueInv, PipeInv
<1>4. PipelineInv' /\ OutboxInv'
  BY DEF PipelineInv, OutboxInv, Working, PipeInv
<1>5. JournalInOrder' /\ BarrierDurable' /\ AckedNotLost' /\ TerminalHasNoBatch' /\ CleanStop'
  BY DEF PipeInv, JournalInOrder, BarrierDurable, AckedNotLost, TerminalHasNoBatch, CleanStop
<1> QED
  BY <1>2, <1>3, <1>4, <1>5 DEF PipeInv

(* Appending the ids that follow a sequence numbered from one.             *)
LEMMA Appending ==
    ASSUME NEW s \in Seq(Nat), NEW ids \in Seq(Nat), \A k \in DOMAIN s : s[k] = k,
           EndsAt(ids, Len(s) + Len(ids))
    PROVE  /\ s \o ids \in Seq(Nat) /\ Len(s \o ids) = Len(s) + Len(ids)
           /\ \A k \in DOMAIN (s \o ids) : (s \o ids)[k] = k
<1>1. /\ s \o ids \in Seq(Nat) /\ Len(s \o ids) = Len(s) + Len(ids)
      /\ DOMAIN (s \o ids) = 1..(Len(s) + Len(ids))
      /\ \A k \in 1..(Len(s) + Len(ids)) :
           (s \o ids)[k] = IF k <= Len(s) THEN s[k] ELSE ids[k - Len(s)]
  OBVIOUS
<1>2. ASSUME NEW k \in 1..(Len(s) + Len(ids)) PROVE (s \o ids)[k] = k
  <2>1. CASE k <= Len(s)
    BY <1>1, <2>1
  <2>2. CASE k > Len(s)
    <3>1. k - Len(s) \in DOMAIN ids
      BY <2>2
    <3> QED
      BY <1>1, <2>2, <3>1 DEF EndsAt
  <2> QED
    BY <2>1, <2>2
<1> QED
  BY <1>1, <1>2

(* Between commands, what has left the queue is the journal and the batch. *)
LEMMA AtSelect ==
    ASSUME TypeOK, PipeInv, pc = "select", ~terminal
    PROVE  /\ LeftQueue = Len(journal) + Len(pending.ids)
           /\ EndsAt(pending.ids, Len(journal) + Len(pending.ids))
<1>1. Len(journal) \in Nat /\ Len(pending.ids) \in Nat
  BY DEF TypeOK, StoreTypeOK, RecorderTypeOK
<1>2. hand = NoCommand /\ hand.ids = <<>> /\ Working
  BY DEF PipeInv, ControlInv, NoCommand, Working
<1>3. AfterBatch = Len(journal) + Len(pending.ids)
  BY DEF AfterBatch
<1>4. AfterHand = Len(journal) + Len(pending.ids)
  BY <1>1, <1>2, <1>3 DEF AfterHand
<1> QED
  BY <1>2, <1>3, <1>4 DEF PipeInv, PipelineInv

(* A sequence numbered up to m, continued by one numbered up to n.         *)
LEMMA EndsAtConcat ==
    ASSUME NEW a \in Seq(Nat), NEW b \in Seq(Nat), NEW m \in Nat, NEW n \in Nat,
           EndsAt(a, m), EndsAt(b, n), n = m + Len(b)
    PROVE  EndsAt(a \o b, n) /\ a \o b \in Seq(Nat) /\ Len(a \o b) = Len(a) + Len(b)
<1>1. /\ a \o b \in Seq(Nat) /\ Len(a \o b) = Len(a) + Len(b)
      /\ DOMAIN (a \o b) = 1..(Len(a) + Len(b))
      /\ \A k \in 1..(Len(a) + Len(b)) : (a \o b)[k] = IF k <= Len(a) THEN a[k] ELSE b[k - Len(a)]
  OBVIOUS
<1>2. ASSUME NEW k \in 1..(Len(a) + Len(b)) PROVE (a \o b)[k] = n - (Len(a) + Len(b)) + k
  <2>1. CASE k <= Len(a)
    BY <1>1, <2>1 DEF EndsAt
  <2>2. CASE k > Len(a)
    <3>1. k - Len(a) \in DOMAIN b
      BY <2>2
    <3> QED
      BY <1>1, <2>2, <3>1 DEF EndsAt
  <2> QED
    BY <2>1, <2>2
<1> QED
  BY <1>1, <1>2 DEF EndsAt

(* The recorder takes commands from the queue.                             *)
LEMMA TakePipe ==
    ASSUME TypeOK, PipeInv, Deadline \/ Reject \/ Merge \/ Take \/ ShutDown
    PROVE  PipeInv'
<1>0. /\ queue \in Seq(Commands) /\ tail \in Nat /\ journal \in Seq(Nat)
      /\ pending.ids \in Seq(Nat) /\ acks \subseteq Nat /\ barrier \in Nat
  BY DEF TypeOK, IngressTypeOK, RecorderTypeOK, StoreTypeOK, HistoryTypeOK
<1>1. NoCommand.ids = <<>> /\ NoCommand.kind = "none" /\ NoBatch.ids = <<>>
      /\ Shutdown.ids = <<>> /\ Shutdown.kind = "shutdown"
  BY DEF NoCommand, NoBatch, Shutdown
<1>2. ASSUME Deadline PROVE PipeInv'
  <2>1. /\ pc = "select" /\ pc' = "flush" /\ pending # NoBatch
        /\ UNCHANGED <<open, queue, tail, hand, pending, terminal, outbox, journal, published,
                       barrier, acks, faulted>>
    BY <1>2 DEF Deadline, ingressVars, storeVars, historyVars
  <2>2. ControlInv' /\ TerminalHasNoBatch' /\ CleanStop'
    BY <2>1 DEF PipeInv, ControlInv, TerminalHasNoBatch, CleanStop
  <2>3. QueueInv' /\ JournalInOrder' /\ BarrierDurable' /\ AckedNotLost' /\ OutboxInv'
    BY <2>1 DEF PipeInv, QueueInv, JournalInOrder, BarrierDurable, AckedNotLost, OutboxInv, Working
  <2>4. PipelineInv'
    BY <2>1 DEF PipeInv, PipelineInv, Working, EndsAt, AfterBatch, AfterHand, LeftQueue
  <2> QED
    BY <2>2, <2>3, <2>4 DEF PipeInv
<1>3. ASSUME Reject PROVE PipeInv'
  <2>1. /\ pc = "select" /\ terminal /\ queue # <<>> /\ pending = NoBatch /\ hand = NoCommand
        /\ outbox = <<>> /\ faulted
        /\ UNCHANGED <<open, tail, pending, terminal, outbox, journal, published, barrier, acks, faulted>>
    BY <1>3 DEF Reject, storeVars, historyVars, PipeInv, TerminalHasNoBatch, ControlInv
  <2>2. CASE Head(queue).kind = "flush"
    <3>1. pc' = "stopped" /\ hand' = NoCommand /\ queue' = <<>>
      BY <1>3, <2>2 DEF Reject, Stop
    <3> QED
      BY <2>1, <3>1, FailPipe DEF PipeInv, BarrierDurable
  <2>3. CASE Head(queue).kind # "flush"
    <3>1. queue' = Tail(queue) /\ UNCHANGED <<pc, hand>>
      BY <1>3, <2>3 DEF Reject
    <3>2. QueueInv'
      BY <1>0, <2>1, <3>1, Leaving DEF PipeInv
    <3>3. ControlInv' /\ TerminalHasNoBatch' /\ CleanStop' /\ PipelineInv'
      BY <1>1, <2>1, <3>1 DEF PipeInv, ControlInv, TerminalHasNoBatch, CleanStop, PipelineInv, Working
    <3>4. JournalInOrder' /\ BarrierDurable' /\ AckedNotLost' /\ OutboxInv'
      BY <2>1, <3>1 DEF PipeInv, JournalInOrder, BarrierDurable, AckedNotLost, OutboxInv, Working
    <3> QED
      BY <3>2, <3>3, <3>4 DEF PipeInv
  <2> QED
    BY <2>2, <2>3
<1>4. ASSUME Merge PROVE PipeInv'
  <2> DEFINE cmd == Head(queue)
  <2>1. /\ pc = "select" /\ ~terminal /\ queue # <<>> /\ queue' = Tail(queue) /\ hand = NoCommand
        /\ pending' = MergedBatch(pending, cmd) /\ acks' = Acknowledged(cmd)
        /\ UNCHANGED <<open, tail, pc, hand, terminal, outbox, journal, published, barrier, faulted>>
    BY <1>4 DEF Merge, storeVars, PipeInv, ControlInv
  <2>2. /\ QueueInv' /\ cmd \in Commands /\ EndsAt(cmd.ids, cmd.upto)
        /\ cmd.upto = LeftQueue + Len(cmd.ids) /\ LeftQueue' = cmd.upto
    BY <1>0, <2>1, Leaving DEF PipeInv
  <2>3. pending'.ids = pending.ids \o cmd.ids
    BY <2>1 DEF MergedBatch
  <2> HIDE DEF cmd
  <2>4. cmd.ids \in Seq(Nat) /\ cmd.upto \in Nat
    BY <2>2 DEF Commands
  <2>5. /\ LeftQueue = Len(journal) + Len(pending.ids)
        /\ EndsAt(pending.ids, Len(journal) + Len(pending.ids))
    BY <2>1, AtSelect
  <2>6. /\ pending'.ids \in Seq(Nat) /\ Len(pending'.ids) = Len(pending.ids) + Len(cmd.ids)
        /\ EndsAt(pending'.ids, Len(journal) + Len(pending'.ids))
        /\ Range(pending'.ids) = Range(pending.ids) \cup Range(cmd.ids)
        /\ cmd.upto = Len(journal) + Len(pending'.ids)
    <3> DEFINE m == Len(journal) + Len(pending.ids)
    <3>0. cmd.upto = m + Len(cmd.ids)
      BY <2>2, <2>5, Zenon
    <3>d. Len(journal) \in Nat /\ Len(pending.ids) \in Nat /\ Len(cmd.ids) \in Nat
      BY <1>0, <2>4
    <3>a. m \in Nat
      BY <3>d
    <3>b. EndsAt(pending.ids, m) /\ EndsAt(cmd.ids, cmd.upto)
      BY <2>2, <2>5
    <3>c. cmd.upto = Len(journal) + (Len(pending.ids) + Len(cmd.ids))
      <4>1. \A x, y, z \in Nat : (x + y) + z = x + (y + z)
        OBVIOUS
      <4> QED
        BY <3>0, <3>d, <4>1, Zenon
    <3> HIDE DEF m
    <3>1. /\ pending.ids \o cmd.ids \in Seq(Nat) /\ Len(pending.ids \o cmd.ids) = Len(pending.ids) + Len(cmd.ids)
          /\ EndsAt(pending.ids \o cmd.ids, cmd.upto)
      BY <1>0, <2>4, <3>0, <3>a, <3>b, EndsAtConcat
    <3>2. Range(pending.ids \o cmd.ids) = Range(pending.ids) \cup Range(cmd.ids)
      BY <1>0, <2>4, RangeConcatenation
    <3>3. cmd.upto = Len(journal) + Len(pending'.ids)
      BY <2>3, <3>1, <3>c
    <3> QED
      BY <2>3, <3>1, <3>2, <3>3
  <2>7. PipelineInv'
    <3>1. AfterBatch' = Len(journal) + Len(pending'.ids) /\ hand' = NoCommand /\ hand'.ids = <<>>
      BY <1>1, <2>1 DEF AfterBatch
    <3>2. AfterHand' = Len(journal) + Len(pending'.ids)
      BY <1>0, <2>1, <2>6, <3>1 DEF AfterHand
    <3>3. LeftQueue' = AfterHand'
      BY <2>2, <2>6, <3>2
    <3>4. EndsAt(hand'.ids, AfterHand') /\ hand'.kind = "none"
      BY <1>1, <3>1 DEF EndsAt
    <3>5. EndsAt(pending'.ids, AfterBatch')
      BY <2>6, <3>1
    <3> QED
      BY <3>3, <3>4, <3>5 DEF PipelineInv, EndsAt
  <2>8. AckedNotLost'
    <3>1. \A e \in acks' : e \in acks \/ e \in Range(cmd.ids)
      BY <2>1, Zenon DEF Acknowledged
    <3> QED
      BY <2>1, <2>6, <3>1 DEF PipeInv, AckedNotLost
  <2>9. ControlInv' /\ TerminalHasNoBatch' /\ CleanStop'
    BY <1>1, <2>1 DEF PipeInv, ControlInv, TerminalHasNoBatch, CleanStop
  <2>10. JournalInOrder' /\ BarrierDurable' /\ OutboxInv'
    BY <2>1 DEF PipeInv, JournalInOrder, BarrierDurable, OutboxInv, Working
  <2> QED
    BY <2>2, <2>7, <2>8, <2>9, <2>10 DEF PipeInv
<1>5. ASSUME Take PROVE PipeInv'
  <2>1. /\ pc = "select" /\ ~terminal /\ queue # <<>> /\ queue' = Tail(queue) /\ hand = NoCommand
        /\ outbox = <<>>
        /\ pc' = (IF pending = NoBatch THEN "dispatch" ELSE "flush") /\ hand' = Head(queue)
        /\ UNCHANGED <<open, tail, pending, terminal, outbox, journal, published, barrier, acks, faulted>>
    BY <1>5 DEF Take, storeVars, historyVars, PipeInv, ControlInv
  <2>2. /\ QueueInv' /\ hand' \in Commands /\ EndsAt(hand'.ids, hand'.upto)
        /\ hand'.kind \in {"append", "save", "flush"} /\ (hand'.kind = "flush" => hand'.ids = <<>>)
        /\ hand'.upto = LeftQueue + Len(hand'.ids) /\ LeftQueue' = hand'.upto
    BY <1>0, <2>1, Leaving DEF PipeInv
  <2>3. hand'.ids \in Seq(Nat) /\ hand'.upto \in Nat
    BY <2>2 DEF Commands
  <2>4. /\ LeftQueue = Len(journal) + Len(pending.ids)
        /\ EndsAt(pending.ids, Len(journal) + Len(pending.ids))
    BY <2>1, AtSelect
  <2>5. PipelineInv'
    <3>1. AfterBatch' = Len(journal) + Len(pending.ids)
      BY <2>1 DEF AfterBatch
    <3>2. AfterHand' = Len(journal) + Len(pending.ids) + Len(hand'.ids)
      BY <2>1, <3>1 DEF AfterHand
    <3>3. EndsAt(pending.ids, AfterBatch') /\ EndsAt(hand'.ids, AfterHand')
      BY <2>2, <2>4, <3>1, <3>2
    <3>4. pending' = pending /\ hand'.upto = AfterHand' /\ LeftQueue' = AfterHand'
      BY <2>1, <2>2, <2>4, <3>2
    <3> QED
      BY <3>3, <3>4 DEF PipelineInv, EndsAt
  <2>6. ControlInv' /\ TerminalHasNoBatch' /\ CleanStop'
    BY <2>1, <2>2 DEF PipeInv, ControlInv, TerminalHasNoBatch, CleanStop
  <2>7. JournalInOrder' /\ BarrierDurable' /\ AckedNotLost' /\ OutboxInv'
    BY <2>1 DEF PipeInv, JournalInOrder, BarrierDurable, AckedNotLost, OutboxInv, Working
  <2> QED
    BY <2>2, <2>5, <2>6, <2>7 DEF PipeInv
<1>6. ASSUME ShutDown PROVE PipeInv'
  <2>1. /\ pc = "select" /\ ~open /\ queue = <<>> /\ hand = NoCommand
        /\ \/ pending = NoBatch /\ pc' = "stopped" /\ hand' = hand
           \/ pending # NoBatch /\ pc' = "flush" /\ hand' = Shutdown
        /\ UNCHANGED <<open, queue, tail, pending, terminal, outbox, journal, published,
                       barrier, acks, faulted>>
    BY <1>6 DEF ShutDown, ingressVars, storeVars, historyVars, PipeInv, ControlInv
  <2>2. ~terminal => LeftQueue = Len(journal) + Len(pending.ids) /\ LeftQueue = tail
    BY <2>1, AtSelect DEF LeftQueue
  <2>3. ControlInv' /\ TerminalHasNoBatch'
    BY <1>1, <2>1 DEF PipeInv, ControlInv, TerminalHasNoBatch
  <2>4. CleanStop'
    BY <1>0, <1>1, <2>1, <2>2 DEF PipeInv, ControlInv, CleanStop
  <2>5. QueueInv' /\ JournalInOrder' /\ BarrierDurable' /\ AckedNotLost' /\ OutboxInv'
    BY <2>1 DEF PipeInv, QueueInv, JournalInOrder, BarrierDurable, AckedNotLost, OutboxInv, Working
  <2>6. PipelineInv'
    <3>1. CASE pc' = "stopped"
      BY <3>1 DEF PipelineInv, Working
    <3>2. CASE pc' = "flush" /\ hand' = Shutdown
      <4> SUFFICES ASSUME ~terminal PROVE PipelineInv'
        BY <2>1 DEF PipelineInv, Working
      <4>1. /\ AfterBatch' = Len(journal) + Len(pending.ids)
            /\ Len(journal) + Len(pending.ids) \in Nat
        BY <1>0, <2>1, <3>2 DEF AfterBatch
      <4>2. AfterHand' = Len(journal) + Len(pending.ids)
        <5>1. hand'.ids = <<>> /\ Len(hand'.ids) = 0
          BY <1>1, <3>2
        <5>2. AfterHand' = AfterBatch' + Len(hand'.ids)
          BY <3>2 DEF AfterHand
        <5> QED
          BY <4>1, <5>1, <5>2
      <4>3. EndsAt(pending.ids, AfterBatch') /\ LeftQueue' = AfterHand' /\ pending' = pending
        BY <2>1, <2>2, <4>1, <4>2, AtSelect DEF LeftQueue
      <4>4. EndsAt(hand'.ids, AfterHand') /\ hand'.kind = "shutdown"
        BY <1>1, <3>2 DEF EndsAt
      <4> QED
        BY <4>3, <4>4 DEF PipelineInv, EndsAt
    <3> QED
      BY <2>1, <3>1, <3>2
  <2> QED
    BY <2>3, <2>4, <2>5, <2>6 DEF PipeInv
<1> QED
  BY <1>2, <1>3, <1>4, <1>5, <1>6

(* What the pipeline says at each point of a write, with the lengths       *)
(* spelled out.                                                            *)
LEMMA AtWrite ==
    ASSUME TypeOK, PipeInv, pc \in {"flush", "flushPublish", "dispatch", "store", "publish"}
    PROVE  /\ Working /\ ~terminal
           /\ Len(journal) \in Nat /\ Len(pending.ids) \in Nat /\ Len(hand.ids) \in Nat
           /\ pc = "flush" =>
                /\ EndsAt(pending.ids, Len(journal) + Len(pending.ids))
                /\ EndsAt(hand.ids, (Len(journal) + Len(pending.ids)) + Len(hand.ids))
                /\ LeftQueue = (Len(journal) + Len(pending.ids)) + Len(hand.ids)
           /\ pc = "flushPublish" =>
                /\ EndsAt(pending.ids, Len(journal))
                /\ EndsAt(hand.ids, Len(journal) + Len(hand.ids))
                /\ LeftQueue = Len(journal) + Len(hand.ids)
           /\ pc \in {"dispatch", "store"} =>
                /\ pending = NoBatch /\ pending.ids = <<>>
                /\ EndsAt(hand.ids, Len(journal) + Len(hand.ids))
                /\ hand.upto = Len(journal) + Len(hand.ids)
                /\ LeftQueue = hand.upto
           /\ pc = "publish" =>
                /\ pending = NoBatch /\ pending.ids = <<>>
                /\ EndsAt(hand.ids, Len(journal))
                /\ hand.upto = Len(journal) /\ LeftQueue = Len(journal)
<1>1. Len(journal) \in Nat /\ Len(pending.ids) \in Nat /\ Len(hand.ids) \in Nat
  BY DEF TypeOK, StoreTypeOK, RecorderTypeOK, Commands
<1>2. Working /\ ~terminal
  BY DEF PipeInv, ControlInv, Working
<1>3. pc \in {"dispatch", "store", "publish"} =>
        pending = NoBatch /\ pending.ids = <<>> /\ Len(pending.ids) = 0
        /\ hand.kind \in {"append", "save", "flush"}
  BY DEF PipeInv, ControlInv, NoBatch
<1>4. /\ EndsAt(pending.ids, AfterBatch) /\ EndsAt(hand.ids, AfterHand)
      /\ hand.kind \in {"append", "save", "flush"} => hand.upto = AfterHand
      /\ LeftQueue = AfterHand
  BY <1>2 DEF PipeInv, PipelineInv
<1>5. CASE pc = "flush"
  BY <1>1, <1>2, <1>4, <1>5 DEF AfterBatch, AfterHand
<1>6. CASE pc = "flushPublish"
  BY <1>1, <1>2, <1>4, <1>6 DEF AfterBatch, AfterHand
<1>7. CASE pc \in {"dispatch", "store"}
  <2>1. AfterBatch = Len(journal)
    BY <1>1, <1>3, <1>7 DEF AfterBatch
  <2>2. AfterHand = Len(journal) + Len(hand.ids)
    BY <1>7, <2>1 DEF AfterHand
  <2> QED
    BY <1>1, <1>2, <1>3, <1>4, <1>7, <2>2
<1>8. CASE pc = "publish"
  BY <1>1, <1>2, <1>3, <1>4, <1>8 DEF AfterHand
<1> QED
  BY <1>5, <1>6, <1>7, <1>8

(* The recorder is back at its loop and everything that left the queue is  *)
(* in the journal or in the batch.                                         *)
LEMMA BackToLoop ==
    ASSUME pc' = "select", hand' = NoCommand, pending'.ids \in Seq(Nat), journal' \in Seq(Nat),
           EndsAt(pending'.ids, Len(journal') + Len(pending'.ids)),
           LeftQueue' = Len(journal') + Len(pending'.ids)
    PROVE  PipelineInv'
<1>1. hand'.ids = <<>> /\ hand'.kind = "none" /\ Len(journal') \in Nat /\ Len(pending'.ids) \in Nat
  BY DEF NoCommand
<1>2. AfterBatch' = Len(journal') + Len(pending'.ids)
  BY DEF AfterBatch
<1>3. AfterHand' = Len(journal') + Len(pending'.ids)
  BY <1>1, <1>2 DEF AfterHand
<1>4. EndsAt(hand'.ids, AfterHand')
  BY <1>1 DEF EndsAt
<1> QED
  BY <1>1, <1>2, <1>3, <1>4 DEF PipelineInv, EndsAt

(* The batch is written.                                                   *)
LEMMA FlushPipe ==
    ASSUME TypeOK, PipeInv, FlushStore \/ FlushDone \/ FlushFails
    PROVE  PipeInv'
<1>0. /\ journal \in Seq(Nat) /\ published \in Seq(Nat) /\ pending.ids \in Seq(Nat)
      /\ acks \subseteq Nat /\ barrier \in Nat /\ tail \in Nat
  BY DEF TypeOK, IngressTypeOK, RecorderTypeOK, StoreTypeOK, HistoryTypeOK
<1>1. NoCommand.ids = <<>> /\ NoCommand.kind = "none" /\ NoBatch.ids = <<>>
  BY DEF NoCommand, NoBatch
<1>2. ASSUME FlushStore PROVE PipeInv'
  <2>1. /\ pc = "flush" /\ pc' = "flushPublish" /\ journal' = journal \o pending.ids
        /\ outbox' = <<pending.ids>>
        /\ UNCHANGED <<open, queue, tail, hand, pending, terminal, published, barrier, acks, faulted>>
    BY <1>2 DEF FlushStore, ingressVars, historyVars
  <2>2. /\ Working /\ Len(journal) \in Nat /\ Len(pending.ids) \in Nat /\ Len(hand.ids) \in Nat
        /\ EndsAt(pending.ids, Len(journal) + Len(pending.ids))
        /\ EndsAt(hand.ids, (Len(journal) + Len(pending.ids)) + Len(hand.ids))
        /\ LeftQueue = (Len(journal) + Len(pending.ids)) + Len(hand.ids)
    BY <2>1, AtWrite
  <2>3. JournalInOrder' /\ Len(journal') = Len(journal) + Len(pending.ids)
    BY <1>0, <2>1, <2>2, Appending DEF PipeInv, JournalInOrder
  <2>4. LeftQueue' = LeftQueue /\ QueueInv'
    BY <2>1 DEF LeftQueue, PipeInv, QueueInv
  <2>5. AfterBatch' = Len(journal')
    BY <2>1 DEF AfterBatch
  <2>6. AfterHand' = (Len(journal) + Len(pending.ids)) + Len(hand.ids)
    BY <2>1, <2>3, <2>5 DEF AfterHand
  <2>7. EndsAt(pending.ids, AfterBatch') /\ EndsAt(hand.ids, AfterHand') /\ LeftQueue' = AfterHand'
    BY <2>2, <2>3, <2>4, <2>5, <2>6
  <2>8. hand.kind \in {"append", "save", "flush"} => hand.upto = AfterHand
    BY <2>2 DEF PipeInv, PipelineInv
  <2>9. AfterHand = (Len(journal) + Len(pending.ids)) + Len(hand.ids)
    BY <2>1 DEF AfterHand, AfterBatch
  <2>10. PipelineInv'
    BY <2>1, <2>6, <2>7, <2>8, <2>9 DEF PipelineInv, EndsAt
  <2>11. OutboxInv'
    <3>1. Len(published) = Len(journal) /\ \A k \in DOMAIN published : published[k] = k
      BY <2>1, <2>2 DEF PipeInv, OutboxInv, ControlInv
    <3>2. outbox' # <<>>
      BY <1>0, <2>1
    <3> QED
      BY <2>1, <2>2, <2>3, <3>1, <3>2 DEF OutboxInv
  <2>12. BarrierDurable' /\ AckedNotLost'
    BY <1>0, <2>1, <2>2, <2>3 DEF PipeInv, BarrierDurable, AckedNotLost
  <2>13. ControlInv' /\ TerminalHasNoBatch' /\ CleanStop'
    BY <2>1 DEF PipeInv, ControlInv, TerminalHasNoBatch, CleanStop
  <2> QED
    BY <2>3, <2>4, <2>10, <2>11, <2>12, <2>13 DEF PipeInv
<1>3. ASSUME FlushDone PROVE PipeInv'
  <2>1. /\ pc = "flushPublish" /\ outbox = <<>> /\ pending' = NoBatch
        /\ hand' = (IF hand.kind = "shutdown" THEN NoCommand ELSE hand)
        /\ UNCHANGED <<open, queue, tail, outbox, journal, published, barrier, acks, faulted>>
    BY <1>3 DEF FlushDone, ingressVars, storeVars, historyVars
  <2>2. /\ hand.kind = "none" => pc' = "select"
        /\ hand.kind = "shutdown" => pc' = "stopped"
        /\ hand.kind \notin {"none", "shutdown"} => pc' = "dispatch"
    BY <1>3 DEF FlushDone
  <2>3. /\ Working /\ ~terminal /\ Len(journal) \in Nat /\ Len(hand.ids) \in Nat
        /\ EndsAt(pending.ids, Len(journal))
        /\ EndsAt(hand.ids, Len(journal) + Len(hand.ids))
        /\ LeftQueue = Len(journal) + Len(hand.ids)
    BY <2>1, AtWrite
  <2>4. ~terminal'
    BY <1>3, <2>3 DEF FlushDone
  <2>5. hand \in Commands /\ hand.kind \in {"none", "shutdown", "append", "save", "flush"}
    BY DEF TypeOK, RecorderTypeOK, Commands
  <2>6. /\ hand.kind \in {"none", "shutdown", "flush"} => hand.ids = <<>>
        /\ hand.kind = "none" => hand = NoCommand
        /\ hand.kind = "shutdown" => ~open /\ queue = <<>>
    BY DEF PipeInv, ControlInv
  <2>7. LeftQueue' = LeftQueue /\ QueueInv'
    BY <2>1 DEF LeftQueue, PipeInv, QueueInv
  <2>8. pending'.ids = <<>> /\ Len(pending'.ids) = 0 /\ EndsAt(pending'.ids, Len(journal') + Len(pending'.ids))
    BY <1>1, <2>1 DEF EndsAt
  <2>9. PipelineInv'
    <3>1. CASE hand.kind = "none"
      <4>1. LeftQueue' = Len(journal') + Len(pending'.ids)
        BY <2>1, <2>3, <2>6, <2>7, <2>8, <3>1
      <4> QED
        BY <1>0, <2>1, <2>2, <2>6, <2>8, <3>1, <4>1, BackToLoop
    <3>2. CASE hand.kind = "shutdown"
      BY <2>2, <3>2 DEF PipelineInv, Working
    <3>3. CASE hand.kind \notin {"none", "shutdown"}
      <4>1. pc' = "dispatch" /\ hand' = hand
        BY <2>1, <2>2, <3>3
      <4>2. AfterBatch' = Len(journal)
        BY <2>1, <2>3, <2>8, <4>1 DEF AfterBatch
      <4>3. AfterHand' = Len(journal) + Len(hand.ids)
        BY <2>1, <4>1, <4>2 DEF AfterHand
      <4>4. hand.upto = AfterHand /\ AfterHand = Len(journal) + Len(hand.ids)
        BY <2>1, <2>3, <2>5, <3>3 DEF PipeInv, PipelineInv, AfterHand, AfterBatch
      <4>5. EndsAt(pending'.ids, AfterBatch')
        BY <2>8 DEF EndsAt
      <4>6. EndsAt(hand.ids, AfterHand') /\ hand.upto = AfterHand' /\ LeftQueue' = AfterHand'
        BY <2>3, <2>7, <4>3, <4>4
      <4> QED
        BY <4>1, <4>5, <4>6 DEF PipelineInv, EndsAt
    <3> QED
      BY <3>1, <3>2, <3>3
  <2>10. ControlInv' /\ TerminalHasNoBatch'
    BY <1>1, <2>1, <2>2, <2>4, <2>5, <2>6 DEF ControlInv, TerminalHasNoBatch
  <2>11. CleanStop'
    <3>1. hand.kind = "shutdown" => Len(journal) = tail
      BY <2>3, <2>6 DEF LeftQueue
    <3> QED
      BY <2>1, <2>2, <2>5, <3>1 DEF CleanStop
  <2>12. AckedNotLost'
    <3>1. \A e \in Range(pending.ids) : e <= Len(journal)
      BY <1>0, <2>3 DEF Range, EndsAt
    <3> QED
      BY <2>1, <3>1 DEF PipeInv, AckedNotLost
  <2>13. JournalInOrder' /\ BarrierDurable' /\ OutboxInv'
    BY <2>1, <2>2, <2>3, <2>5 DEF PipeInv, JournalInOrder, BarrierDurable, OutboxInv
  <2> QED
    BY <2>7, <2>9, <2>10, <2>11, <2>12, <2>13 DEF PipeInv
<1>4. ASSUME FlushFails PROVE PipeInv'
  <2>1. /\ faulted' /\ pending' = NoBatch /\ outbox' = <<>>
        /\ UNCHANGED <<open, tail, journal, published, barrier>>
    BY <1>4 DEF FlushFails, storeVars
  <2>2. /\ pc' = "stopped" \/ (pc' = "select" /\ terminal')
        /\ hand' = NoCommand /\ (queue' = queue \/ queue' = <<>>)
    BY <1>4 DEF FlushFails, Stop, Resume
  <2> QED
    BY <2>1, <2>2, FailPipe DEF PipeInv, BarrierDurable
<1> QED
  BY <1>2, <1>3, <1>4

(* The command in hand starts a batch, is answered or is written.          *)
LEMMA WritePipe ==
    ASSUME TypeOK, PipeInv,
           StartBatch \/ StartWrite \/ AnswerFlush \/ Store \/ StoreFails \/ WriteDone \/ PublishFails
    PROVE  PipeInv'
<1>0. /\ journal \in Seq(Nat) /\ published \in Seq(Nat) /\ hand.ids \in Seq(Nat) /\ hand.upto \in Nat
      /\ acks \subseteq Nat /\ barrier \in Nat /\ tail \in Nat
  BY DEF TypeOK, IngressTypeOK, RecorderTypeOK, StoreTypeOK, HistoryTypeOK, Commands
<1>1. NoCommand.ids = <<>> /\ NoCommand.kind = "none" /\ NoBatch.ids = <<>>
  BY DEF NoCommand, NoBatch
<1>2. \A cmd : \A e \in Acknowledged(cmd) : e \in acks \/ e \in Range(cmd.ids)
  BY Zenon DEF Acknowledged
<1>3. \A n \in Nat : EndsAt(hand.ids, n) => \A e \in Range(hand.ids) : e <= n
  BY <1>0 DEF EndsAt, Range
<1>4. ASSUME StartBatch PROVE PipeInv'
  <2>1. /\ pc = "dispatch" /\ pc' = "select" /\ hand' = NoCommand /\ pending'.ids = hand.ids
        /\ acks' = Acknowledged(hand)
        /\ UNCHANGED <<open, queue, tail, terminal, outbox, journal, published, barrier, faulted>>
    BY <1>4 DEF StartBatch, Resume, storeVars
  <2>2. /\ ~terminal /\ pending.ids = <<>> /\ Len(journal) \in Nat /\ Len(hand.ids) \in Nat
        /\ EndsAt(hand.ids, Len(journal) + Len(hand.ids))
        /\ hand.upto = Len(journal) + Len(hand.ids) /\ LeftQueue = hand.upto
    BY <2>1, AtWrite
  <2>3. LeftQueue' = LeftQueue /\ QueueInv'
    BY <2>1 DEF LeftQueue, PipeInv, QueueInv
  <2>4. PipelineInv'
    BY <1>0, <2>1, <2>2, <2>3, BackToLoop
  <2>5. ControlInv' /\ TerminalHasNoBatch' /\ CleanStop'
    BY <1>1, <2>1, <2>2 DEF PipeInv, ControlInv, TerminalHasNoBatch, CleanStop
  <2>6. AckedNotLost'
    <3>1. Range(pending'.ids) = Range(hand.ids) /\ Range(pending.ids) = {}
      BY <2>1, <2>2 DEF Range
    <3> QED
      BY <1>2, <2>1, <3>1 DEF PipeInv, AckedNotLost
  <2>7. JournalInOrder' /\ BarrierDurable' /\ OutboxInv'
    BY <2>1, <2>2 DEF PipeInv, JournalInOrder, BarrierDurable, OutboxInv, Working
  <2> QED
    BY <2>3, <2>4, <2>5, <2>6, <2>7 DEF PipeInv
<1>5. ASSUME StartWrite PROVE PipeInv'
  <2>1. /\ pc = "dispatch" /\ pc' = "store" /\ hand.kind \in {"append", "save"}
        /\ UNCHANGED <<open, queue, tail, hand, pending, terminal, outbox, journal, published,
                       barrier, acks, faulted>>
    BY <1>5 DEF StartWrite, ingressVars, storeVars, historyVars
  <2>2. ControlInv' /\ TerminalHasNoBatch' /\ CleanStop'
    BY <2>1 DEF PipeInv, ControlInv, TerminalHasNoBatch, CleanStop
  <2>3. QueueInv' /\ JournalInOrder' /\ BarrierDurable' /\ AckedNotLost' /\ OutboxInv'
    BY <2>1 DEF PipeInv, QueueInv, JournalInOrder, BarrierDurable, AckedNotLost, OutboxInv, Working
  <2>4. PipelineInv'
    BY <2>1 DEF PipeInv, PipelineInv, Working, EndsAt, AfterBatch, AfterHand, LeftQueue
  <2> QED
    BY <2>2, <2>3, <2>4 DEF PipeInv
<1>6. ASSUME AnswerFlush \/ WriteDone PROVE PipeInv'
  <2>1. /\ pc' = "select" /\ hand' = NoCommand /\ ~terminal'
        /\ barrier' = Covered(hand) /\ (acks' = acks \/ acks' = Acknowledged(hand))
        /\ UNCHANGED <<open, queue, tail, pending, outbox, journal, published, faulted>>
    BY <1>6, Zenon DEF AnswerFlush, WriteDone, Resume, storeVars
  <2>2. pc \in {"dispatch", "publish"} /\ (pc = "dispatch" => hand.kind = "flush")
        /\ (pc = "publish" => outbox = <<>> /\ acks' = Acknowledged(hand))
        /\ (pc = "dispatch" => acks' = acks)
    BY <1>6 DEF AnswerFlush, WriteDone
  <2>3. pc = "dispatch" => hand.ids = <<>> /\ outbox = <<>> /\ Len(hand.ids) = 0
    BY <2>2 DEF PipeInv, ControlInv
  <2>4. /\ Working /\ Len(journal) \in Nat /\ pending = NoBatch /\ pending.ids = <<>>
        /\ EndsAt(hand.ids, Len(journal)) /\ hand.upto = Len(journal) /\ LeftQueue = Len(journal)
    <3>1. CASE pc = "dispatch"
      <4>1. Len(journal) \in Nat /\ Len(journal) + Len(hand.ids) = Len(journal)
        BY <2>3, <3>1, AtWrite
      <4> QED
        BY <3>1, <4>1, AtWrite
    <3>2. CASE pc = "publish"
      BY <3>2, AtWrite
    <3> QED
      BY <2>2, <3>1, <3>2
  <2>5. LeftQueue' = LeftQueue /\ QueueInv'
    BY <2>1 DEF LeftQueue, PipeInv, QueueInv
  <2>6. PipelineInv'
    <3>1. pending'.ids = <<>> /\ Len(pending'.ids) = 0 /\ EndsAt(pending'.ids, Len(journal') + Len(pending'.ids))
      BY <2>1, <2>4 DEF EndsAt
    <3>2. LeftQueue' = Len(journal') + Len(pending'.ids)
      BY <2>1, <2>4, <2>5, <3>1
    <3> QED
      BY <1>0, <2>1, <3>1, <3>2, BackToLoop
  <2>7. ControlInv' /\ TerminalHasNoBatch' /\ CleanStop'
    BY <1>1, <2>1, <2>2, <2>3, <2>4 DEF PipeInv, ControlInv, TerminalHasNoBatch, CleanStop
  <2>8. AckedNotLost'
    <3>1. \A e \in Range(hand.ids) : e <= Len(journal)
      BY <1>3, <2>4
    <3>2. \A e \in acks' : e \in acks \/ e \in Range(hand.ids)
      BY <1>2, <2>1
    <3> QED
      BY <2>1, <3>1, <3>2 DEF PipeInv, AckedNotLost
  <2>9. BarrierDurable'
    BY <1>0, <2>1, <2>4 DEF PipeInv, BarrierDurable, Covered
  <2>10. JournalInOrder' /\ OutboxInv'
    BY <2>1, <2>2, <2>3, <2>4 DEF PipeInv, JournalInOrder, OutboxInv
  <2> QED
    BY <2>5, <2>6, <2>7, <2>8, <2>9, <2>10 DEF PipeInv
<1>7. ASSUME Store PROVE PipeInv'
  <2>1. /\ pc = "store" /\ pc' = "publish" /\ journal' = journal \o hand.ids
        /\ outbox' = [i \in DOMAIN hand.ids |-> <<hand.ids[i]>>]
        /\ UNCHANGED <<open, queue, tail, hand, pending, terminal, published, barrier, acks, faulted>>
    BY <1>7 DEF Store, ingressVars, historyVars
  <2>2. /\ Working /\ Len(journal) \in Nat /\ Len(hand.ids) \in Nat
        /\ pending = NoBatch /\ pending.ids = <<>>
        /\ EndsAt(hand.ids, Len(journal) + Len(hand.ids))
        /\ hand.upto = Len(journal) + Len(hand.ids) /\ LeftQueue = hand.upto
    BY <2>1, AtWrite
  <2>3. JournalInOrder' /\ Len(journal') = Len(journal) + Len(hand.ids)
    BY <1>0, <2>1, <2>2, Appending DEF PipeInv, JournalInOrder
  <2>4. LeftQueue' = LeftQueue /\ QueueInv'
    BY <2>1 DEF LeftQueue, PipeInv, QueueInv
  <2>5. PipelineInv'
    <3>1. AfterHand' = Len(journal')
      BY <2>1 DEF AfterHand
    <3>2. EndsAt(hand.ids, AfterHand') /\ hand.upto = AfterHand' /\ LeftQueue' = AfterHand'
      BY <2>2, <2>3, <2>4, <3>1
    <3>3. EndsAt(pending'.ids, AfterBatch')
      BY <2>1, <2>2 DEF EndsAt
    <3> QED
      BY <2>1, <3>2, <3>3 DEF PipelineInv, EndsAt
  <2>6. OutboxInv'
    <3>1. Len(published) = Len(journal) /\ \A k \in DOMAIN published : published[k] = k
      BY <2>1, <2>2 DEF PipeInv, OutboxInv, ControlInv
    <3>2. \A i \in DOMAIN hand.ids : hand.ids[i] = Len(published) + i
      BY <1>0, <2>2, <3>1 DEF EndsAt
    <3>3. DOMAIN outbox' = 1..Len(hand.ids) /\ Len(outbox') = Len(hand.ids)
          /\ \A i \in DOMAIN outbox' : outbox'[i] = <<Len(published) + i>>
      BY <1>0, <2>1, <3>2
    <3>4. outbox' = <<>> => Len(hand.ids) = 0
      BY <3>3
    <3>5. Len(published) <= Len(journal') /\ Len(published) + Len(outbox') = Len(journal')
      BY <2>2, <2>3, <3>1, <3>3
    <3>6. outbox' = <<>> => Len(published) = Len(journal')
      BY <2>2, <2>3, <3>1, <3>4
    <3> QED
      BY <2>1, <3>1, <3>3, <3>5, <3>6 DEF OutboxInv
  <2>7. BarrierDurable' /\ AckedNotLost'
    BY <1>0, <2>1, <2>2, <2>3 DEF PipeInv, BarrierDurable, AckedNotLost
  <2>8. ControlInv' /\ TerminalHasNoBatch' /\ CleanStop'
    BY <2>1 DEF PipeInv, ControlInv, TerminalHasNoBatch, CleanStop
  <2> QED
    BY <2>3, <2>4, <2>5, <2>6, <2>7, <2>8 DEF PipeInv
<1>8. ASSUME StoreFails PROVE PipeInv'
  <2>1. /\ pc = "store" /\ faulted'
        /\ UNCHANGED <<open, tail, journal, published, barrier, pending, outbox>>
    BY <1>8 DEF StoreFails, storeVars
  <2>2. /\ pc' = "stopped" \/ (pc' = "select" /\ terminal')
        /\ hand' = NoCommand /\ (queue' = queue \/ queue' = <<>>)
    BY <1>8 DEF StoreFails, Stop, Resume
  <2>3. pending = NoBatch /\ outbox = <<>>
    BY <2>1 DEF PipeInv, ControlInv
  <2> QED
    BY <2>1, <2>2, <2>3, FailPipe DEF PipeInv, BarrierDurable
<1>9. ASSUME PublishFails PROVE PipeInv'
  <2>1. /\ pc = "publish" /\ faulted' /\ outbox' = <<>> /\ barrier' = Covered(hand)
        /\ UNCHANGED <<open, tail, journal, published, pending>>
    BY <1>9 DEF PublishFails, storeVars
  <2>2. /\ pc' = "stopped" \/ (pc' = "select" /\ terminal')
        /\ hand' = NoCommand /\ (queue' = queue \/ queue' = <<>>)
    BY <1>9 DEF PublishFails, Stop, Resume
  <2>3. pending = NoBatch /\ hand.upto = Len(journal)
    BY <2>1, AtWrite
  <2>4. barrier' <= Len(journal)
    BY <1>0, <2>1, <2>3 DEF PipeInv, BarrierDurable, Covered
  <2> QED
    BY <2>1, <2>2, <2>3, <2>4, FailPipe
<1> QED
  BY <1>4, <1>5, <1>6, <1>7, <1>8, <1>9

(* A stored row is handed to the frontend.                                 *)
LEMMA PublishPipe ==
    ASSUME TypeOK, PipeInv, Publish
    PROVE  PipeInv'
<1>0. /\ published \in Seq(Nat) /\ journal \in Seq(Nat) /\ pending.ids \in Seq(Nat)
      /\ outbox \in Seq(Seq(Nat))
  BY DEF TypeOK, RecorderTypeOK, StoreTypeOK
<1>1. /\ pc \in {"flushPublish", "publish"} /\ outbox # <<>>
      /\ published' = published \o Head(outbox) /\ outbox' = Tail(outbox)
      /\ UNCHANGED <<open, queue, tail, pc, hand, pending, terminal, journal, barrier, acks, faulted>>
  BY DEF Publish, ingressVars, historyVars
<1>2. OutboxInv
  BY DEF PipeInv
<1>3. OutboxInv'
  <2>1. CASE pc = "flushPublish"
    <3>1. outbox = <<pending.ids>> /\ Len(published) + Len(pending.ids) = Len(journal)
      BY <1>1, <1>2, <2>1 DEF OutboxInv
    <3>2. Head(outbox) = pending.ids /\ outbox' = <<>>
      BY <1>0, <1>1, <3>1
    <3>3. EndsAt(pending.ids, Len(published) + Len(pending.ids)) /\ Working
      BY <2>1, <3>1, AtWrite
    <3>4. /\ published' \in Seq(Nat) /\ Len(published') = Len(published) + Len(pending.ids)
          /\ \A k \in DOMAIN published' : published'[k] = k
      BY <1>0, <1>1, <1>2, <3>2, <3>3, Appending DEF OutboxInv
    <3> QED
      BY <1>0, <1>1, <2>1, <3>1, <3>2, <3>4 DEF OutboxInv
  <2>2. CASE pc = "publish"
    <3>1. /\ Len(published) + Len(outbox) = Len(journal)
          /\ \A i \in DOMAIN outbox : outbox[i] = <<Len(published) + i>>
      BY <1>1, <1>2, <2>2 DEF OutboxInv
    <3>2. Head(outbox) = <<Len(published) + 1>>
      BY <1>0, <1>1, <3>1
    <3>3. published' \in Seq(Nat) /\ Len(published') = Len(published) + 1
          /\ \A k \in DOMAIN published' : published'[k] = k
      <4> DEFINE row == <<Len(published) + 1>>
      <4>1. row \in Seq(Nat) /\ Len(row) = 1 /\ EndsAt(row, Len(published) + Len(row))
        BY <1>0 DEF EndsAt
      <4>2. published' = published \o row /\ \A k \in DOMAIN published : published[k] = k
        BY <1>1, <1>2, <3>2 DEF OutboxInv
      <4> HIDE DEF row
      <4>3. /\ published \o row \in Seq(Nat) /\ Len(published \o row) = Len(published) + Len(row)
            /\ \A k \in DOMAIN (published \o row) : (published \o row)[k] = k
        BY <1>0, <4>1, <4>2, Appending
      <4> QED
        BY <4>1, <4>2, <4>3, Zenon
    <3>5. outbox' \in Seq(Seq(Nat)) /\ Len(outbox') = Len(outbox) - 1 /\ Len(outbox) \in Nat
          /\ \A i \in DOMAIN outbox' : outbox'[i] = outbox[i + 1] /\ i + 1 \in DOMAIN outbox
      BY <1>0, <1>1
    <3>6. \A i \in DOMAIN outbox' : outbox'[i] = <<Len(published') + i>>
      <4> SUFFICES ASSUME NEW i \in DOMAIN outbox' PROVE outbox'[i] = <<Len(published') + i>>
        OBVIOUS
      <4>1. i \in Nat /\ Len(published) \in Nat
        BY <1>0, <3>5
      <4>2. Len(published) + (i + 1) = Len(published') + i
        BY <3>3, <4>1
      <4>3. outbox'[i] = <<Len(published) + (i + 1)>>
        BY <3>1, <3>5
      <4> QED
        BY <4>2, <4>3, Zenon
    <3>7. Len(published') + Len(outbox') = Len(journal)
      <4>1. \A x, y \in Nat : (x + 1) + (y - 1) = x + y
        OBVIOUS
      <4>2. Len(published) \in Nat /\ Len(outbox) \in Nat
        BY <1>0
      <4> QED
        BY <3>1, <3>3, <3>5, <4>1, <4>2, Zenon
    <3>8. Len(published') <= Len(journal) /\ (outbox' = <<>> => Len(published') = Len(journal))
      <4>1. Len(published') \in Nat /\ Len(outbox') \in Nat /\ Len(journal) \in Nat
        BY <1>0, <3>3, <3>5
      <4>2. outbox' = <<>> => Len(outbox') = 0
        OBVIOUS
      <4> QED
        BY <3>7, <4>1, <4>2
    <3> QED
      BY <1>1, <2>2, <3>3, <3>6, <3>7, <3>8 DEF OutboxInv
  <2> QED
    BY <1>1, <2>1, <2>2
<1>4. ControlInv' /\ TerminalHasNoBatch' /\ CleanStop'
  BY <1>1 DEF PipeInv, ControlInv, TerminalHasNoBatch, CleanStop
<1>5. QueueInv' /\ JournalInOrder' /\ BarrierDurable' /\ AckedNotLost'
  BY <1>1 DEF PipeInv, QueueInv, JournalInOrder, BarrierDurable, AckedNotLost
<1>6. PipelineInv'
  BY <1>1 DEF PipeInv, PipelineInv, Working, EndsAt, AfterBatch, AfterHand, LeftQueue
<1> QED
  BY <1>3, <1>4, <1>5, <1>6 DEF PipeInv

-----------------------------------------------------------------------------
(* The inductive invariant, and what follows from it.                      *)

(* IInv holds initially and every step keeps it.                           *)
THEOREM Inductive == Spec => []IInv
<1>1. Init => IInv
  BY InitTypes, InitPipe DEF IInv
<1>2. IInv /\ [Next]_vars => IInv'
  <2> SUFFICES ASSUME TypeOK, ClientInv, PipeInv, [Next]_vars PROVE TypeOK' /\ ClientInv' /\ PipeInv'
    BY DEF IInv
  <2>1. CASE ClientStep \/ Grant \/ Admit \/ SendFails
    BY <2>1, ClientTypes, ClientsCalls, ClientPipe
  <2>2. CASE Read \/ CloseFrontend
    BY <2>2, RecorderTypes, RecorderCalls, ClientPipe
  <2>3. CASE RecorderStep
    <3>1. TypeOK' /\ ClientInv'
      BY <2>3, RecorderTypes, RecorderCalls
    <3>2. PipeInv'
      BY <2>3, TakePipe, FlushPipe, WritePipe, PublishPipe DEF RecorderStep
    <3> QED
      BY <3>1, <3>2
  <2>4. CASE UNCHANGED vars
    <3>1. UNCHANGED <<open, call, req, waiters, senders, queue, hand>>
      BY <2>4 DEF vars, ingressVars, recorderVars
    <3>2. ClientInv'
      BY <3>1 DEF ClientInv
    <3>3. TypeOK'
      BY <2>4, UnchangedTypes DEF vars, TypeOK
    <3>4. UNCHANGED <<open, queue, tail, recorderVars, journal, published, historyVars>>
      BY <2>4 DEF vars, ingressVars, storeVars
    <3>5. PipeInv'
      BY <3>4, OtherPipe
    <3> QED
      BY <3>2, <3>3, <3>5
  <2> QED
    BY <2>1, <2>2, <2>3, <2>4 DEF Next
<1> QED
  BY <1>1, <1>2, PTL DEF Spec

(* The variables always have their types, whatever the recorder's limits.  *)
THEOREM TypeCorrect == Spec => []TypeOK
<1>1. IInv => TypeOK
  BY DEF IInv
<1> QED
  BY <1>1, Inductive, PTL

(* The journal is in admission order, without gap or repetition, for any   *)
(* number of clients, events and failures.                                 *)
THEOREM JournalOrder == Spec => []JournalInOrder
<1>1. IInv => JournalInOrder
  BY DEF IInv, PipeInv
<1> QED
  BY <1>1, Inductive, PTL

(* A barrier answered Ok covers everything admitted before it.             *)
THEOREM BarrierSafety == Spec => []BarrierDurable
<1>1. IInv => BarrierDurable
  BY DEF IInv, PipeInv
<1> QED
  BY <1>1, Inductive, PTL

(* An acknowledged event is stored or waits in the batch until a store or  *)
(* a publication fails.                                                    *)
THEOREM AckSafety == Spec => []AckedNotLost
<1>1. IInv => AckedNotLost
  BY DEF IInv, PipeInv
<1> QED
  BY <1>1, Inductive, PTL

(* The deadline of a batch never clears a terminal error.                  *)
THEOREM TerminalSafety == Spec => []TerminalHasNoBatch
<1>1. IInv => TerminalHasNoBatch
  BY DEF IInv, PipeInv
<1> QED
  BY <1>1, Inductive, PTL

(* A recorder that never failed stops only with everything stored.         *)
THEOREM StopSafety == Spec => []CleanStop
<1>1. IInv => CleanStop
  BY DEF IInv, PipeInv
<1> QED
  BY <1>1, Inductive, PTL

(* The frontend sees a prefix of the journal.                              *)
THEOREM PublishSafety == Spec => []PublishedAfterStored
<1>1. IInv => PublishedAfterStored
  <2> SUFFICES ASSUME IInv PROVE PublishedAfterStored
    OBVIOUS
  <2>1. /\ published \in Seq(Nat) /\ journal \in Seq(Nat)
        /\ Len(published) \in Nat /\ Len(published) <= Len(journal)
    BY DEF IInv, TypeOK, StoreTypeOK, PipeInv, OutboxInv
  <2>2. \A k \in 1..Len(published) : published[k] = k /\ journal[k] = k
    BY <2>1 DEF IInv, PipeInv, OutboxInv, JournalInOrder
  <2>3. SubSeq(published, 1, Len(published)) = SubSeq(journal, 1, Len(published))
    BY <2>1, <2>2
  <2> QED
    BY <2>1, <2>3 DEF PublishedAfterStored, IsPrefix
<1> QED
  BY <1>1, Inductive, PTL

-----------------------------------------------------------------------------
(* Sums of sequences, by least counterexamples.                            *)

(* A set of numbers that is not empty has a least member.                  *)
LEMMA LeastOne ==
    ASSUME NEW T \in SUBSET Nat, T # {}
    PROVE  \E n \in T : \A m \in T : n <= m
<1>1. PICK n \in T : \A m \in T : <<m, n>> \notin OpToRel(<, Nat)
  BY NatLessThanWellFounded, WFMin, Zenon
<1>2. \A m \in T : m \in Nat /\ n \in Nat /\ ~(m < n)
  BY <1>1, Zenon DEF OpToRel
<1> QED
  BY <1>2

(* c is the sequence of the sums of the prefixes of s.                     *)
Sums(c, s) == c[0] = 0 /\ \A k \in 1..Len(s) : c[k] = c[k - 1] + s[k]

(* There is one, for any sequence of numbers.                              *)
LEMMA SumsExist ==
    ASSUME NEW s \in Seq(Nat)
    PROVE  \E c \in [0..Len(s) -> Nat] : Sums(c, s)
<1> DEFINE P(n) == \E c \in [0..n -> Nat] : c[0] = 0 /\ \A k \in 1..n : c[k] = c[k - 1] + s[k]
           T == {n \in 0..Len(s) : ~P(n)}
<1>0. Len(s) \in Nat /\ \A k \in 1..Len(s) : s[k] \in Nat
  OBVIOUS
<1>1. T = {}
  <2> SUFFICES ASSUME T # {} PROVE FALSE
    OBVIOUS
  <2>1. T \in SUBSET Nat
    BY <1>0
  <2>2. PICK n \in T : \A m \in T : n <= m
    BY <2>1, LeastOne
  <2>3. n \in 0..Len(s) /\ ~P(n)
    OBVIOUS
  <2>4. n # 0
    <3>1. P(0)
      <4> DEFINE c == [k \in 0..0 |-> 0]
      <4>1. c \in [0..0 -> Nat] /\ c[0] = 0 /\ \A k \in 1..0 : c[k] = c[k - 1] + s[k]
        OBVIOUS
      <4> QED
        BY <4>1
    <3> HIDE DEF P
    <3> QED
      BY <2>3, <3>1
  <2>5. n - 1 \in 0..Len(s) /\ n - 1 \notin T
    <3> HIDE DEF T, P
    <3> QED
      BY <1>0, <2>2, <2>3, <2>4
  <2>6. P(n - 1)
    <3> HIDE DEF P
    <3> QED
      BY <2>5
  <2>7. PICK c \in [0..(n - 1) -> Nat] : c[0] = 0 /\ \A k \in 1..(n - 1) : c[k] = c[k - 1] + s[k]
    BY <2>6
  <2> DEFINE d == [k \in 0..n |-> IF k = n THEN c[n - 1] + s[n] ELSE c[k]]
  <2>8. c[n - 1] + s[n] \in Nat
    BY <1>0, <2>3, <2>4
  <2>9. d \in [0..n -> Nat]
    BY <2>3, <2>8
  <2>10. d[0] = 0 /\ \A k \in 1..n : d[k] = d[k - 1] + s[k]
    BY <2>3, <2>4, <2>7
  <2>11. P(n)
    BY <2>9, <2>10
  <2> HIDE DEF P
  <2> QED
    BY <2>3, <2>11
<1>2. P(Len(s))
  <2> HIDE DEF P
  <2> QED
    BY <1>0, <1>1
<1> QED
  BY <1>2 DEF Sums

(* There is only one.                                                      *)
LEMMA SumsUnique ==
    ASSUME NEW s \in Seq(Nat), NEW c, NEW d, Sums(c, s), Sums(d, s)
    PROVE  c[Len(s)] = d[Len(s)]
<1> DEFINE T == {n \in 0..Len(s) : c[n] # d[n]}
<1>0. Len(s) \in Nat
  OBVIOUS
<1>1. T = {}
  <2> SUFFICES ASSUME T # {} PROVE FALSE
    OBVIOUS
  <2>1. T \in SUBSET Nat
    BY <1>0
  <2>2. PICK n \in T : \A m \in T : n <= m
    BY <2>1, LeastOne
  <2>3. n \in 0..Len(s) /\ c[n] # d[n]
    OBVIOUS
  <2>4. n # 0
    BY <2>3 DEF Sums
  <2>5. n - 1 \in 0..Len(s) /\ n - 1 \notin T
    <3> HIDE DEF T
    <3> QED
      BY <1>0, <2>2, <2>3, <2>4
  <2>6. c[n - 1] = d[n - 1]
    BY <2>5
  <2>7. n \in 1..Len(s)
    BY <1>0, <2>3, <2>4
  <2> QED
    BY <2>3, <2>6, <2>7, Zenon DEF Sums
<1> QED
  BY <1>0, <1>1

(* So it is what the recursive function computes.                          *)
LEMMA TotalIsSum ==
    ASSUME NEW s \in Seq(Nat), NEW c \in [0..Len(s) -> Nat], Sums(c, s)
    PROVE  Total(s) = c[Len(s)] /\ Total(s) \in Nat
<1> DEFINE F(g) == [k \in 0..Len(s) |-> IF k = 0 THEN 0 ELSE g[k - 1] + s[k]]
           f == CHOOSE g : g = F(g)
<1>0. Len(s) \in Nat
  OBVIOUS
<1>1. c = F(c)
  BY <1>0 DEF Sums
<1>2. f = F(f)
  BY <1>1
<1>3. Total(s) = f[Len(s)]
  BY DEF Total
<1> HIDE DEF f
<1>4. Sums(f, s)
  BY <1>0, <1>2 DEF Sums
<1>5. f[Len(s)] = c[Len(s)]
  BY <1>4, SumsUnique
<1> QED
  BY <1>0, <1>3, <1>5

(* The sum is a number, and zero for the empty sequence.                   *)
LEMMA TotalNat ==
    ASSUME NEW s \in Seq(Nat)
    PROVE  Total(s) \in Nat /\ (Len(s) = 0 => Total(s) = 0)
<1>1. PICK c \in [0..Len(s) -> Nat] : Sums(c, s)
  BY SumsExist
<1> QED
  BY <1>1, TotalIsSum DEF Sums

(* An element added at the end is added to the sum.                        *)
LEMMA TotalAppend ==
    ASSUME NEW s \in Seq(Nat), NEW x \in Nat, NEW t \in Seq(Nat), Len(t) = Len(s) + 1,
           \A k \in 1..Len(s) : t[k] = s[k], t[Len(t)] = x
    PROVE  Total(t) = Total(s) + x
<1>0. Len(s) \in Nat /\ Len(t) \in Nat
  OBVIOUS
<1>1. PICK c \in [0..Len(t) -> Nat] : Sums(c, t)
  BY SumsExist
<1> DEFINE d == [k \in 0..Len(s) |-> c[k]]
<1>2. d \in [0..Len(s) -> Nat] /\ Sums(d, s)
  BY <1>0, <1>1 DEF Sums
<1>3. c[Len(t)] = c[Len(s)] + x
  BY <1>0, <1>1 DEF Sums
<1>4. Total(t) = c[Len(t)]
  BY <1>1, TotalIsSum
<1>5. Total(s) = d[Len(s)]
  BY <1>2, TotalIsSum
<1> QED
  BY <1>0, <1>3, <1>4, <1>5

(* Without its i-th member the sum is less by that member.                 *)
LEMMA TotalDropped ==
    ASSUME NEW s \in Seq(Nat), NEW i \in 1..Len(s), NEW t \in Seq(Nat), Len(t) = Len(s) - 1,
           \A k \in 1..Len(t) : t[k] = IF k < i THEN s[k] ELSE s[k + 1]
    PROVE  Total(s) = Total(t) + s[i]
<1>0. PICK n \in Nat : n = Len(t) /\ Len(s) = n + 1
  OBVIOUS
<1>1. i \in 1..(n + 1) /\ s[i] \in Nat /\ \A k \in 1..(n + 1) : s[k] \in Nat
  BY <1>0
<1>2. PICK c \in [0..n -> Nat] : Sums(c, t)
  BY <1>0, SumsExist
<1>3. /\ c[0] = 0 /\ \A k \in 1..n : c[k] = c[k - 1] + t[k]
      /\ \A k \in 1..n : t[k] = IF k < i THEN s[k] ELSE s[k + 1]
  BY <1>0, <1>2 DEF Sums
<1> DEFINE d == [k \in 0..(n + 1) |-> IF k < i THEN c[k] ELSE c[k - 1] + s[i]]
<1>4. ASSUME NEW k \in 0..(n + 1)
      PROVE  d[k] \in Nat /\ d[k] = IF k < i THEN c[k] ELSE c[k - 1] + s[i]
  <2>1. CASE k < i
    BY <1>1, <2>1
  <2>2. CASE ~(k < i)
    <3>1. k - 1 \in 0..n
      BY <1>1, <2>2
    <3> QED
      BY <1>1, <2>2, <3>1
  <2> QED
    BY <2>1, <2>2
<1>5. DOMAIN d = 0..(n + 1) /\ d = [k \in 0..(n + 1) |-> d[k]]
  OBVIOUS
<1> HIDE DEF d
<1>6. d \in [0..(n + 1) -> Nat]
  BY <1>4, <1>5
<1>7. ASSUME NEW k \in 1..(n + 1) PROVE d[k] = d[k - 1] + s[k]
  <2>0. k \in 0..(n + 1) /\ k - 1 \in 0..(n + 1)
    OBVIOUS
  <2>1. CASE k < i
    <3>1. k \in 1..n /\ t[k] = s[k] /\ k - 1 < i
      BY <1>1, <1>3, <2>1
    <3>2. c[k] = c[k - 1] + s[k]
      BY <1>3, <3>1
    <3> QED
      BY <1>4, <2>0, <2>1, <3>1, <3>2
  <2>2. CASE k = i
    <3>1. d[k] = c[k - 1] + s[i] /\ d[k - 1] = c[k - 1]
      BY <1>1, <1>4, <2>0, <2>2
    <3> QED
      BY <2>2, <3>1
  <2>3. CASE k > i
    <3>1. k - 1 \in 1..n /\ k - 2 \in 0..n /\ ~(k - 1 < i)
      BY <1>1, <2>3
    <3>2. c[k - 1] = c[k - 2] + s[k]
      <4>1. k - 1 - 1 = k - 2 /\ k - 1 + 1 = k
        OBVIOUS
      <4>2. t[k - 1] = s[k]
        BY <1>3, <3>1, <4>1
      <4>3. c[k - 1] = c[k - 1 - 1] + t[k - 1]
        BY <1>3, <3>1
      <4> QED
        BY <4>1, <4>2, <4>3
    <3>3. d[k] = c[k - 1] + s[i] /\ d[k - 1] = c[k - 2] + s[i]
      <4>1. k - 1 - 1 = k - 2 /\ ~(k < i)
        BY <1>1, <2>3
      <4>2. PICK j \in 0..(n + 1) : j = k - 1
        BY <2>0
      <4>3. d[k] = c[k - 1] + s[i] /\ d[j] = c[j - 1] + s[i]
        BY <1>4, <2>0, <3>1, <4>1, <4>2
      <4> QED
        BY <4>1, <4>2, <4>3
    <3>4. c[k - 2] \in Nat /\ s[k] \in Nat /\ s[i] \in Nat
      BY <1>1, <3>1
    <3>5. PICK x \in Nat, y \in Nat, z \in Nat : x = c[k - 2] /\ y = s[k] /\ z = s[i]
      BY <3>4
    <3>6. d[k] = (x + y) + z /\ d[k - 1] = x + z
      BY <3>2, <3>3, <3>5
    <3>7. (x + y) + z = (x + z) + y
      OBVIOUS
    <3> QED
      BY <3>5, <3>6, <3>7, Zenon
  <2> QED
    BY <1>1, <2>1, <2>2, <2>3
<1>8. Sums(d, s)
  <2>1. d[0] = 0
    BY <1>1, <1>3, <1>4
  <2> QED
    BY <1>0, <1>7, <2>1 DEF Sums
<1>9. Total(s) = d[n + 1] /\ Total(t) = c[n]
  BY <1>0, <1>2, <1>6, <1>8, TotalIsSum
<1>10. d[n + 1] = c[n] + s[i]
  BY <1>1, <1>4
<1> QED
  BY <1>9, <1>10

-----------------------------------------------------------------------------
(* The byte permits.                                                       *)

CommandBytes(q) == Total([i \in DOMAIN q |-> q[i].bytes])
CallBytes(cs, r) == Total([i \in DOMAIN cs |-> r[cs[i]].bytes])

(* The bytes of a sequence of commands, as numbers.                        *)
LEMMA CommandNumbers ==
    ASSUME NEW q \in Seq(Commands)
    PROVE  \E s \in Seq(Nat) : /\ Len(s) = Len(q) /\ CommandBytes(q) = Total(s)
                               /\ \A i \in 1..Len(q) : s[i] = q[i].bytes
<1> DEFINE s == [i \in DOMAIN q |-> q[i].bytes]
<1>1. \A i \in DOMAIN q : q[i] \in Commands
  OBVIOUS
<1>2. \A i \in DOMAIN q : q[i].bytes \in Nat
  BY <1>1 DEF Commands
<1>3. s \in Seq(Nat) /\ Len(s) = Len(q) /\ \A i \in 1..Len(q) : s[i] = q[i].bytes
  BY <1>2
<1> QED
  BY <1>3 DEF CommandBytes

(* The bytes of the calls of a sequence of clients, as numbers.            *)
LEMMA CallNumbers ==
    ASSUME NEW cs \in Seq(Clients), NEW r \in [Clients -> Requests \cup {NoRequest}]
    PROVE  \E s \in Seq(Nat) : /\ Len(s) = Len(cs) /\ CallBytes(cs, r) = Total(s)
                               /\ \A i \in 1..Len(cs) : s[i] = r[cs[i]].bytes
<1> DEFINE s == [i \in DOMAIN cs |-> r[cs[i]].bytes]
<1>1. \A i \in DOMAIN cs : r[cs[i]] \in Requests \cup {NoRequest}
  OBVIOUS
<1>2. \A i \in DOMAIN cs : r[cs[i]].bytes \in Nat
  BY <1>1, RequestType
<1>3. s \in Seq(Nat) /\ Len(s) = Len(cs) /\ \A i \in 1..Len(cs) : s[i] = r[cs[i]].bytes
  BY <1>2
<1> QED
  BY <1>3 DEF CallBytes

(* The sums are numbers, and nothing holds no bytes.                       *)
LEMMA BytesNat ==
    ASSUME NEW q \in Seq(Commands), NEW cs \in Seq(Clients),
           NEW r \in [Clients -> Requests \cup {NoRequest}]
    PROVE  /\ CommandBytes(q) \in Nat /\ (q = <<>> => CommandBytes(q) = 0)
           /\ CallBytes(cs, r) \in Nat /\ (cs = <<>> => CallBytes(cs, r) = 0)
<1>1. PICK s \in Seq(Nat) : Len(s) = Len(q) /\ CommandBytes(q) = Total(s)
  BY CommandNumbers
<1>2. PICK t \in Seq(Nat) : Len(t) = Len(cs) /\ CallBytes(cs, r) = Total(t)
  BY CallNumbers
<1>3. (q = <<>> => Len(q) = 0) /\ (cs = <<>> => Len(cs) = 0)
  OBVIOUS
<1> QED
  BY <1>1, <1>2, <1>3, TotalNat

(* A command enters and leaves the queue with its bytes; who waits for it  *)
(* does not matter.                                                        *)
LEMMA QueueBytes ==
    ASSUME NEW q \in Seq(Commands)
    PROVE  /\ \A cmd \in Commands : CommandBytes(Append(q, cmd)) = CommandBytes(q) + cmd.bytes
           /\ q # <<>> => CommandBytes(q) = CommandBytes(Tail(q)) + Head(q).bytes
<1>1. PICK s \in Seq(Nat) : /\ Len(s) = Len(q) /\ CommandBytes(q) = Total(s)
                            /\ \A i \in 1..Len(q) : s[i] = q[i].bytes
  BY CommandNumbers
<1>2. ASSUME NEW cmd \in Commands
      PROVE  CommandBytes(Append(q, cmd)) = CommandBytes(q) + cmd.bytes
  <2> DEFINE p == Append(q, cmd)
  <2>1. /\ p \in Seq(Commands) /\ Len(p) = Len(q) + 1 /\ p[Len(p)] = cmd
        /\ \A k \in 1..Len(q) : p[k] = q[k] /\ k \in 1..Len(p)
        /\ Len(p) \in 1..Len(p)
    OBVIOUS
  <2> HIDE DEF p
  <2>2. PICK t \in Seq(Nat) : /\ Len(t) = Len(p) /\ CommandBytes(p) = Total(t)
                              /\ \A i \in 1..Len(p) : t[i] = p[i].bytes
    BY <2>1, CommandNumbers
  <2>3. Len(t) = Len(s) + 1 /\ t[Len(t)] = cmd.bytes /\ cmd.bytes \in Nat
    BY <1>1, <2>1, <2>2 DEF Commands
  <2>4. \A k \in 1..Len(s) : t[k] = s[k]
    BY <1>1, <2>1, <2>2
  <2>5. Total(t) = Total(s) + cmd.bytes
    BY <2>3, <2>4, TotalAppend
  <2> QED
    BY <1>1, <2>2, <2>5 DEF p
<1>3. ASSUME q # <<>> PROVE CommandBytes(q) = CommandBytes(Tail(q)) + Head(q).bytes
  <2> DEFINE p == Tail(q)
  <2>1. /\ p \in Seq(Commands) /\ Len(p) = Len(q) - 1 /\ Head(q) = q[1] /\ 1 \in 1..Len(q)
        /\ \A k \in 1..Len(p) : p[k] = q[k + 1] /\ k + 1 \in 1..Len(q) /\ ~(k < 1)
    BY <1>3
  <2> HIDE DEF p
  <2>2. PICK t \in Seq(Nat) : /\ Len(t) = Len(p) /\ CommandBytes(p) = Total(t)
                              /\ \A i \in 1..Len(p) : t[i] = p[i].bytes
    BY <2>1, CommandNumbers
  <2>3. Len(t) = Len(s) - 1 /\ s[1] = Head(q).bytes /\ 1 \in 1..Len(s)
    BY <1>1, <2>1, <2>2
  <2>4. \A k \in 1..Len(t) : t[k] = IF k < 1 THEN s[k] ELSE s[k + 1]
    BY <1>1, <2>1, <2>2
  <2>5. Total(s) = Total(t) + s[1]
    BY <2>3, <2>4, TotalDropped
  <2> QED
    BY <1>1, <2>2, <2>3, <2>5 DEF p
<1> QED
  BY <1>2, <1>3

(* A call joins the senders with its bytes, if the requests of the other   *)
(* senders stay.                                                           *)
LEMMA SendersGrow ==
    ASSUME NEW cs \in Seq(Clients), NEW c \in Clients,
           NEW r \in [Clients -> Requests \cup {NoRequest}],
           NEW rr \in [Clients -> Requests \cup {NoRequest}],
           \A i \in DOMAIN cs : rr[cs[i]] = r[cs[i]]
    PROVE  CallBytes(Append(cs, c), rr) = CallBytes(cs, r) + rr[c].bytes /\ rr[c].bytes \in Nat
<1>1. PICK s \in Seq(Nat) : /\ Len(s) = Len(cs) /\ CallBytes(cs, r) = Total(s)
                            /\ \A i \in 1..Len(cs) : s[i] = r[cs[i]].bytes
  BY CallNumbers
<1> DEFINE ds == Append(cs, c)
<1>2. /\ ds \in Seq(Clients) /\ Len(ds) = Len(cs) + 1 /\ ds[Len(ds)] = c
      /\ \A k \in 1..Len(cs) : ds[k] = cs[k] /\ k \in 1..Len(ds) /\ k \in DOMAIN cs
      /\ Len(ds) \in 1..Len(ds)
  OBVIOUS
<1> HIDE DEF ds
<1>3. PICK t \in Seq(Nat) : /\ Len(t) = Len(ds) /\ CallBytes(ds, rr) = Total(t)
                            /\ \A i \in 1..Len(ds) : t[i] = rr[ds[i]].bytes
  BY <1>2, CallNumbers
<1>4. rr[c].bytes \in Nat
  <2>1. rr[c] \in Requests \cup {NoRequest}
    OBVIOUS
  <2> QED
    BY <2>1, RequestType
<1>5. Len(t) = Len(s) + 1 /\ t[Len(t)] = rr[c].bytes
  BY <1>1, <1>2, <1>3
<1>6. ASSUME NEW k \in 1..Len(s) PROVE t[k] = s[k]
  <2>1. k \in 1..Len(cs) /\ k \in DOMAIN cs /\ k \in 1..Len(ds) /\ ds[k] = cs[k]
    BY <1>1, <1>2
  <2>2. t[k] = rr[ds[k]].bytes /\ s[k] = r[cs[k]].bytes
    BY <1>1, <1>3, <2>1
  <2>3. rr[cs[k]] = r[cs[k]]
    BY <2>1
  <2> QED
    BY <2>1, <2>2, <2>3
<1>7. Total(t) = Total(s) + rr[c].bytes
  BY <1>4, <1>5, <1>6, TotalAppend
<1> QED
  BY <1>1, <1>3, <1>4, <1>7 DEF ds

(* A call leaves the senders, from any place, with its bytes.              *)
LEMMA SendersShrink ==
    ASSUME NEW cs \in Seq(Clients), NEW ds \in Seq(Clients), NEW i \in 1..Len(cs),
           NEW r \in [Clients -> Requests \cup {NoRequest}],
           NEW rr \in [Clients -> Requests \cup {NoRequest}],
           Len(ds) = Len(cs) - 1,
           \A k \in 1..Len(ds) : ds[k] = IF k < i THEN cs[k] ELSE cs[k + 1],
           \A k \in DOMAIN cs : k # i => rr[cs[k]] = r[cs[k]]
    PROVE  CallBytes(cs, r) = CallBytes(ds, rr) + r[cs[i]].bytes
<1>1. PICK s \in Seq(Nat) : /\ Len(s) = Len(cs) /\ CallBytes(cs, r) = Total(s)
                            /\ \A k \in 1..Len(cs) : s[k] = r[cs[k]].bytes
  BY CallNumbers
<1>2. PICK t \in Seq(Nat) : /\ Len(t) = Len(ds) /\ CallBytes(ds, rr) = Total(t)
                            /\ \A k \in 1..Len(ds) : t[k] = rr[ds[k]].bytes
  BY CallNumbers
<1>3. Len(t) = Len(s) - 1 /\ s[i] = r[cs[i]].bytes /\ i \in 1..Len(s)
  BY <1>1, <1>2
<1>4. ASSUME NEW k \in 1..Len(t) PROVE t[k] = IF k < i THEN s[k] ELSE s[k + 1]
  <2>1. /\ k \in DOMAIN cs /\ k + 1 \in DOMAIN cs /\ k \in 1..Len(cs) /\ k + 1 \in 1..Len(cs)
        /\ k \in 1..Len(ds) /\ (k < i => k # i) /\ (~(k < i) => k + 1 # i)
    BY <1>2
  <2>2. t[k] = rr[ds[k]].bytes
    BY <1>2, <2>1
  <2>3. CASE k < i
    <3>1. ds[k] = cs[k] /\ rr[cs[k]] = r[cs[k]]
      BY <2>1, <2>3
    <3>2. s[k] = r[cs[k]].bytes
      BY <1>1, <2>1
    <3> QED
      BY <2>2, <2>3, <3>1, <3>2
  <2>4. CASE ~(k < i)
    <3>1. ds[k] = cs[k + 1] /\ rr[cs[k + 1]] = r[cs[k + 1]]
      BY <2>1, <2>4
    <3>2. s[k + 1] = r[cs[k + 1]].bytes
      BY <1>1, <2>1
    <3> QED
      BY <2>2, <2>4, <3>1, <3>2
  <2> QED
    BY <2>3, <2>4
<1>5. Total(s) = Total(t) + s[i]
  BY <1>3, <1>4, TotalDropped
<1> QED
  BY <1>1, <1>2, <1>3, <1>5

(* The sum is about the requests of the senders only.                      *)
LEMMA SendersKept ==
    ASSUME NEW cs, NEW r, NEW rr, \A i \in DOMAIN cs : rr[cs[i]] = r[cs[i]]
    PROVE  CallBytes(cs, rr) = CallBytes(cs, r)
<1>1. [i \in DOMAIN cs |-> rr[cs[i]].bytes] = [i \in DOMAIN cs |-> r[cs[i]].bytes]
  OBVIOUS
<1> QED
  BY <1>1, Zenon DEF CallBytes

(* Which client RemoveFirst removes from a sequence without repetitions.   *)
LEMMA RemoveFirstCases ==
    ASSUME NEW S, NEW s \in Seq(S), NEW e,
           \A i, j \in DOMAIN s : s[i] = s[j] => i = j
    PROVE  \/ /\ RemoveFirst(s, e) = s
              /\ \A k \in DOMAIN s : s[k] # e
           \/ \E i \in 1..Len(s) :
                /\ s[i] = e /\ \A k \in DOMAIN s : k # i => s[k] # e
                /\ RemoveFirst(s, e) \in Seq(S)
                /\ Len(RemoveFirst(s, e)) = Len(s) - 1
                /\ \A k \in 1..(Len(s) - 1) :
                     RemoveFirst(s, e)[k] = IF k < i THEN s[k] ELSE s[k + 1]
<1> DEFINE I == {i \in 1..Len(s) : s[i] = e}
<1>1. CASE I = {}
  <2>1. RemoveFirst(s, e) = s /\ \A k \in DOMAIN s : s[k] # e
    BY <1>1 DEF RemoveFirst
  <2> QED
    BY <2>1, Zenon
<1>2. CASE I # {}
  <2>1. PICK i \in I : \A j \in I : j = i
    BY <1>2
  <2>2. Min(I) = i
    BY <2>1 DEF Min
  <2>3. RemoveFirst(s, e) = RemoveAt(s, i)
    BY <1>2, <2>2 DEF RemoveFirst, SelectInSeq
  <2>4. i \in 1..Len(s) /\ s[i] = e /\ \A k \in DOMAIN s : k # i => s[k] # e
    BY <2>1
  <2>5. /\ RemoveAt(s, i) \in Seq(S) /\ Len(RemoveAt(s, i)) = Len(s) - 1
        /\ \A k \in 1..(Len(s) - 1) : RemoveAt(s, i)[k] = IF k < i THEN s[k] ELSE s[k + 1]
    BY <2>4, RemoveAtProperties
  <2> QED
    BY <2>3, <2>4, <2>5, Zenon
<1> QED
  BY <1>1, <1>2

(* A call that waits for a slot is among the senders, and what needs no    *)
(* bytes holds none.                                                       *)
PermitInv ==
    /\ free \in Nat
    /\ PermitsConserved
    /\ \A c \in Clients : call[c] = "send" => \E i \in DOMAIN senders : senders[i] = c
    /\ hand.kind \notin {"append", "save"} => hand.bytes = 0
    /\ \A i \in DOMAIN queue : queue[i].kind = "flush" => queue[i].bytes = 0

(* The sums are numbers, and they balance.                                 *)
LEMMA Balance ==
    ASSUME TypeOK, PermitInv
    PROVE  /\ free \in Nat /\ ByteBudget \in Nat
           /\ free + CommandBytes(queue) + CallBytes(senders, req) + hand.bytes + pending.bytes
                = ByteBudget
           /\ CommandBytes(queue) \in Nat /\ CallBytes(senders, req) \in Nat
           /\ hand.bytes \in Nat /\ pending.bytes \in Nat
           /\ \A c \in Clients : req[c].bytes \in Nat
           /\ BytesOfQueue = CommandBytes(queue) /\ BytesOfSenders = CallBytes(senders, req)
<1>1. /\ queue \in Seq(Commands) /\ senders \in Seq(Clients) /\ hand \in Commands
      /\ req \in [Clients -> Requests \cup {NoRequest}]
  BY DEF TypeOK, IngressTypeOK, RecorderTypeOK
<1>2. CommandBytes(queue) \in Nat /\ CallBytes(senders, req) \in Nat
  BY <1>1, BytesNat
<1>3. hand.bytes \in Nat /\ pending.bytes \in Nat
  BY <1>1 DEF Commands, TypeOK, RecorderTypeOK
<1>4. \A c \in Clients : req[c].bytes \in Nat
  <2>1. \A c \in Clients : req[c] \in Requests \cup {NoRequest}
    BY <1>1
  <2> QED
    BY <2>1, RequestType
<1>5. BytesOfQueue = CommandBytes(queue) /\ BytesOfSenders = CallBytes(senders, req)
  BY DEF BytesOfQueue, BytesOfSenders, CommandBytes, CallBytes
<1> QED
  BY <1>2, <1>3, <1>4, <1>5, RecorderAssumptions DEF PermitInv, PermitsConserved

(* The balance after a step is its conservation.                           *)
LEMMA Conserving ==
    ASSUME free' + CommandBytes(queue') + CallBytes(senders', req') + hand'.bytes + pending'.bytes
             = ByteBudget
    PROVE  PermitsConserved'
BY DEF PermitsConserved, BytesOfQueue, BytesOfSenders, CommandBytes, CallBytes

(* A step that moves no bytes and leaves the calls alone.                  *)
LEMMA PermitsKept ==
    ASSUME PermitInv, UNCHANGED <<call, req, senders, queue, free, pending>>,
           hand' = hand \/ (hand.bytes = 0 /\ hand'.bytes = 0)
    PROVE  PermitInv'
<1>1. hand'.bytes = hand.bytes /\ (hand'.kind \notin {"append", "save"} => hand'.bytes = 0)
  BY DEF PermitInv
<1>2. PermitsConserved'
  BY <1>1 DEF PermitInv, PermitsConserved, BytesOfQueue, BytesOfSenders
<1> QED
  BY <1>1, <1>2 DEF PermitInv

(* A flush needs no bytes.                                                 *)
LEMMA FlushIsEmpty ==
    ASSUME NEW r \in Requests \cup {NoRequest}
    PROVE  /\ r.kind = "flush" => r.bytes = 0
           /\ \A c \in Clients \cup {NoClient}, a \in BOOLEAN : Command(r, c, a).bytes = r.bytes
<1>1. r.kind = "flush" => r.bytes = 0
  BY DEF Requests, NoRequest
<1> QED
  BY <1>1 DEF Command

(* Answering the caller of an admitted command moves no bytes of senders.  *)
LEMMA AnswerKeepsSenders ==
    ASSUME TypeOK, ClientInv, PermitInv, NEW cmd,
           cmd.client # NoClient => call[cmd.client] = "wait",
           AnswerCaller(cmd), senders' = senders
    PROVE  /\ CallBytes(senders', req') = CallBytes(senders, req)
           /\ \A c \in Clients : call'[c] = "send" => \E i \in DOMAIN senders' : senders'[i] = c
<1>1. senders \in Seq(Clients)
  BY DEF TypeOK, IngressTypeOK
<1>2. \A i \in DOMAIN senders : senders[i] \in Clients /\ call[senders[i]] = "send"
  BY <1>1 DEF ClientInv
<1>3. \A i \in DOMAIN senders : senders[i] # cmd.client
  BY <1>2, RecorderAssumptions
<1>4. \A i \in DOMAIN senders : req'[senders[i]] = req[senders[i]]
  BY <1>2, <1>3 DEF AnswerCaller
<1>5. CallBytes(senders, req') = CallBytes(senders, req)
  BY <1>4, SendersKept
<1>6. \A c \in Clients : call'[c] = "send" => call[c] = "send"
  BY DEF AnswerCaller
<1> QED
  BY <1>5, <1>6 DEF PermitInv

(* The recorder returns and releases what it and the calls hold.           *)
LEMMA StopPermits ==
    ASSUME TypeOK, TypeOK', PermitInv, Stop,
           free' + pending'.bytes = free + pending.bytes + hand.bytes + StopBytes, free' \in Nat
    PROVE  PermitInv'
<1>1. CommandBytes(queue') = 0 /\ CallBytes(senders', req') = 0
  BY BytesNat DEF TypeOK, IngressTypeOK, Stop
<1>2. hand' = NoCommand /\ hand'.bytes = 0 /\ queue' = <<>>
  BY DEF Stop, NoCommand
<1>3. pending'.bytes \in Nat
  BY DEF TypeOK, RecorderTypeOK
<1>4. PermitsConserved'
  <2>0. /\ free \in Nat /\ CommandBytes(queue) \in Nat /\ CallBytes(senders, req) \in Nat
        /\ hand.bytes \in Nat /\ pending.bytes \in Nat
        /\ free + CommandBytes(queue) + CallBytes(senders, req) + hand.bytes + pending.bytes
             = ByteBudget
    BY Balance
  <2>1. StopBytes = CommandBytes(queue) + CallBytes(senders, req)
    BY Balance DEF StopBytes
  <2>2. free' + pending'.bytes = ByteBudget
    BY <2>0, <2>1
  <2>3. free' + CommandBytes(queue') + CallBytes(senders', req') + hand'.bytes + pending'.bytes
          = ByteBudget
    BY <1>1, <1>2, <1>3, <2>2
  <2> QED
    BY <2>3, Conserving
<1>5. \A c \in Clients : call'[c] # "send"
  BY DEF Stop
<1> QED
  BY <1>2, <1>4, <1>5 DEF PermitInv

(* The callers' steps keep the balance.                                    *)
LEMMA ClientPermits ==
    ASSUME TypeOK, TypeOK', ClientInv, PermitInv, ClientStep \/ Grant \/ Admit \/ SendFails
    PROVE  PermitInv'
<1>0. /\ queue \in Seq(Commands) /\ senders \in Seq(Clients) /\ senders' \in Seq(Clients)
      /\ queue' \in Seq(Commands)
      /\ req \in [Clients -> Requests \cup {NoRequest}]
      /\ req' \in [Clients -> Requests \cup {NoRequest}]
      /\ call \in [Clients -> {"idle", "reserve", "send", "wait"}]
      /\ waiters \in Seq(Clients)
  BY DEF TypeOK, IngressTypeOK
<1>00. \A i \in DOMAIN senders : senders[i] \in Clients /\ call[senders[i]] = "send"
  BY <1>0 DEF ClientInv
<1>1. ASSUME NEW c \in Clients, NEW r \in Requests, Call(c, r) PROVE PermitInv'
  <2>1. /\ call[c] = "idle" /\ req' = [req EXCEPT ![c] = r]
        /\ UNCHANGED <<free, queue, hand, pending>>
    BY <1>1 DEF Call, recorderVars
  <2>2. \A i \in DOMAIN senders : req'[senders[i]] = req[senders[i]]
    BY <1>0, <1>00, <2>1
  <2>3. CASE r.bytes = 0
    <3>1. senders' = Append(senders, c) /\ call' = [call EXCEPT ![c] = "send"]
      BY <1>1, <2>3 DEF Call
    <3>2. CallBytes(senders', req') = CallBytes(senders, req) + req'[c].bytes /\ req'[c] = r
      <4>1. req'[c] = r
        BY <1>0, <2>1
      <4>2. CallBytes(Append(senders, c), req') = CallBytes(senders, req) + req'[c].bytes
        BY <1>0, <2>2, SendersGrow
      <4> QED
        BY <3>1, <4>1, <4>2
    <3>3. PermitsConserved'
      BY <2>1, <2>3, <3>2, Balance, Conserving
    <3>4. ASSUME NEW d \in Clients, call'[d] = "send" PROVE \E i \in DOMAIN senders' : senders'[i] = d
      <4>1. CASE d = c
        <5>1. Len(senders') \in DOMAIN senders' /\ senders'[Len(senders')] = c
          BY <1>0, <3>1
        <5> QED
          BY <4>1, <5>1
      <4>2. CASE d # c
        <5>1. call[d] = "send"
          BY <1>0, <3>1, <3>4, <4>2
        <5>2. PICK i \in DOMAIN senders : senders[i] = d
          BY <5>1 DEF PermitInv
        <5>3. i \in DOMAIN senders' /\ senders'[i] = d
          BY <1>0, <3>1, <5>2
        <5> QED
          BY <5>3
      <4> QED
        BY <4>1, <4>2
    <3> QED
      BY <2>1, <3>3, <3>4 DEF PermitInv
  <2>4. CASE r.bytes # 0
    <3>1. senders' = senders /\ call' = [call EXCEPT ![c] = "reserve"]
      BY <1>1, <2>4 DEF Call
    <3>2. CallBytes(senders', req') = CallBytes(senders, req)
      BY <2>2, <3>1, SendersKept
    <3>3. PermitsConserved'
      BY <2>1, <3>2, Balance, Conserving
    <3>4. \A d \in Clients : call'[d] = "send" => call[d] = "send"
      BY <1>0, <3>1
    <3> QED
      BY <2>1, <3>1, <3>3, <3>4 DEF PermitInv
  <2> QED
    BY <2>3, <2>4
<1>2. ASSUME NEW c \in Clients, NEW r \in Requests, TryRecord(c, r) PROVE PermitInv'
  <2> DEFINE cmd == Command(r, NoClient, FALSE)
  <2>1. /\ free' = free - r.bytes /\ r.bytes <= free /\ queue' = Append(queue, cmd)
        /\ UNCHANGED <<call, req, senders, hand, pending>>
    BY <1>2 DEF TryRecord, recorderVars
  <2>2. cmd \in Commands /\ cmd.bytes = r.bytes /\ r.bytes \in Nat
    BY CommandType, FlushIsEmpty, RequestType DEF TypeOK, IngressTypeOK
  <2>3. cmd.kind = "flush" => cmd.bytes = 0
    <3>1. r \in Requests \cup {NoRequest} /\ cmd.kind = r.kind
      BY DEF Command
    <3> QED
      BY <2>2, <3>1, FlushIsEmpty
  <2> HIDE DEF cmd
  <2>4. CommandBytes(queue') = CommandBytes(queue) + r.bytes
    BY <1>0, <2>1, <2>2, QueueBytes
  <2>5. free' \in Nat /\ PermitsConserved'
    <3>1. /\ free \in Nat /\ CommandBytes(queue) \in Nat /\ CallBytes(senders, req) \in Nat
          /\ hand.bytes \in Nat /\ pending.bytes \in Nat
          /\ free + CommandBytes(queue) + CallBytes(senders, req) + hand.bytes + pending.bytes
               = ByteBudget
      BY Balance
    <3>2. free' \in Nat /\ free' + r.bytes = free
      BY <2>1, <2>2, <3>1
    <3>3. /\ hand'.bytes = hand.bytes /\ pending'.bytes = pending.bytes
          /\ CallBytes(senders', req') = CallBytes(senders, req)
      BY <2>1
    <3>4. free' + CommandBytes(queue') + CallBytes(senders', req') + hand'.bytes + pending'.bytes
            = ByteBudget
      BY <2>2, <2>4, <3>1, <3>2, <3>3
    <3> QED
      BY <3>2, <3>4, Conserving
  <2>6. \A i \in DOMAIN queue' : queue'[i].kind = "flush" => queue'[i].bytes = 0
    <3> SUFFICES ASSUME NEW i \in DOMAIN queue', queue'[i].kind = "flush" PROVE queue'[i].bytes = 0
      OBVIOUS
    <3>1. (i \in DOMAIN queue /\ queue'[i] = queue[i]) \/ queue'[i] = cmd
      BY <1>0, <2>1, <2>2
    <3> QED
      BY <2>3, <3>1 DEF PermitInv
  <2> QED
    BY <2>1, <2>5, <2>6 DEF PermitInv
<1>3. ASSUME NEW c \in Clients, Cancel(c) PROVE PermitInv'
  <2>1. /\ call[c] # "idle" /\ call' = [call EXCEPT ![c] = "idle"]
        /\ req' = [req EXCEPT ![c] = NoRequest] /\ senders' = RemoveFirst(senders, c)
        /\ free' = IF call[c] = "send" THEN free + req[c].bytes ELSE free
        /\ queue' = [i \in DOMAIN queue |-> Detach(queue[i], c)]
        /\ hand' = Detach(hand, c) /\ pending' = pending
    BY <1>3 DEF Cancel
  <2>2. \A cmd \in Commands : Detach(cmd, c).bytes = cmd.bytes /\ Detach(cmd, c).kind = cmd.kind
    BY DEF Detach, Commands
  <2>3. /\ DOMAIN queue' = DOMAIN queue
        /\ \A i \in DOMAIN queue : queue'[i].bytes = queue[i].bytes /\ queue'[i].kind = queue[i].kind
    <3>1. \A i \in DOMAIN queue : queue[i] \in Commands /\ queue'[i] = Detach(queue[i], c)
      BY <1>0, <2>1
    <3> QED
      BY <2>1, <2>2, <3>1
  <2>4. hand'.bytes = hand.bytes /\ hand'.kind = hand.kind
    BY <2>1, <2>2 DEF TypeOK, RecorderTypeOK
  <2>5. CommandBytes(queue') = CommandBytes(queue)
    <3>1. [i \in DOMAIN queue' |-> queue'[i].bytes] = [i \in DOMAIN queue |-> queue[i].bytes]
      BY <2>3
    <3> QED
      BY <3>1, Zenon DEF CommandBytes
  <2>6. /\ free' \in Nat /\ free' + CallBytes(senders', req') = free + CallBytes(senders, req)
        /\ \A d \in Clients : call'[d] = "send" => \E i \in DOMAIN senders' : senders'[i] = d
    <3>1. CASE /\ senders' = senders /\ \A k \in DOMAIN senders : senders[k] # c
      <4>1. call[c] # "send" /\ free' = free
        BY <2>1, <3>1 DEF PermitInv
      <4>2. \A i \in DOMAIN senders : req'[senders[i]] = req[senders[i]]
        BY <1>0, <1>00, <2>1, <3>1
      <4>3. CallBytes(senders', req') = CallBytes(senders, req)
        BY <3>1, <4>2, SendersKept
      <4>4. \A d \in Clients : call'[d] = "send" => call[d] = "send"
        BY <1>0, <2>1
      <4> QED
        BY <3>1, <4>1, <4>3, <4>4 DEF PermitInv
    <3>2. ASSUME NEW i \in 1..Len(senders), senders[i] = c,
                 \A k \in DOMAIN senders : k # i => senders[k] # c,
                 Len(senders') = Len(senders) - 1,
                 \A k \in 1..(Len(senders) - 1) :
                   senders'[k] = IF k < i THEN senders[k] ELSE senders[k + 1]
          PROVE  /\ free' \in Nat /\ free' + CallBytes(senders', req') = free + CallBytes(senders, req)
                 /\ \A d \in Clients : call'[d] = "send" => \E n \in DOMAIN senders' : senders'[n] = d
      <4>1. i \in DOMAIN senders /\ call[c] = "send" /\ free' = free + req[c].bytes
        <5>1. i \in DOMAIN senders
          BY <1>0, <3>2
        <5> QED
          BY <1>00, <2>1, <3>2, <5>1
      <4>2. \A k \in DOMAIN senders : k # i => req'[senders[k]] = req[senders[k]]
        BY <1>0, <1>00, <2>1, <3>2
      <4>3. CallBytes(senders, req) = CallBytes(senders', req') + req[c].bytes
        <5>1. \A k \in 1..Len(senders') : senders'[k] = IF k < i THEN senders[k] ELSE senders[k + 1]
          BY <3>2
        <5>2. CallBytes(senders, req) = CallBytes(senders', req') + req[senders[i]].bytes
          <6>1. /\ senders \in Seq(Clients) /\ senders' \in Seq(Clients)
                /\ req \in [Clients -> Requests \cup {NoRequest}]
                /\ req' \in [Clients -> Requests \cup {NoRequest}]
            BY <1>0
          <6>2. i \in 1..Len(senders) /\ Len(senders') = Len(senders) - 1
            BY <3>2
          <6> QED
            BY <4>2, <5>1, <6>1, <6>2, SendersShrink
        <5> QED
          BY <3>2, <5>2
      <4>4. req[c].bytes \in Nat /\ free \in Nat /\ CallBytes(senders', req') \in Nat
        BY <1>0, Balance, BytesNat
      <4>5. ASSUME NEW d \in Clients, call'[d] = "send" PROVE \E n \in DOMAIN senders' : senders'[n] = d
        <5>1. call[d] = "send" /\ d # c
          BY <1>0, <2>1, <4>5
        <5>2. PICK k \in DOMAIN senders : senders[k] = d
          BY <5>1 DEF PermitInv
        <5>3. k \in 1..Len(senders) /\ k # i
          BY <1>0, <3>2, <5>1, <5>2
        <5>4. CASE k < i
          <6>1. k \in 1..(Len(senders) - 1) /\ k \in DOMAIN senders'
            BY <1>0, <3>2, <5>3, <5>4
          <6> QED
            BY <3>2, <5>2, <5>4, <6>1
        <5>5. CASE k > i
          <6>1. k - 1 \in 1..(Len(senders) - 1) /\ k - 1 \in DOMAIN senders' /\ ~(k - 1 < i)
                /\ (k - 1) + 1 = k
            BY <1>0, <3>2, <5>3, <5>5
          <6>2. senders'[k - 1] = senders[(k - 1) + 1]
            BY <3>2, <6>1
          <6> QED
            BY <5>2, <6>1, <6>2
        <5> QED
          BY <5>3, <5>4, <5>5
      <4> QED
        BY <4>1, <4>3, <4>4, <4>5
    <3>3. \/ /\ senders' = senders
             /\ \A k \in DOMAIN senders : senders[k] # c
          \/ \E i \in 1..Len(senders) :
               /\ senders[i] = c /\ \A k \in DOMAIN senders : k # i => senders[k] # c
               /\ Len(senders') = Len(senders) - 1
               /\ \A k \in 1..(Len(senders) - 1) :
                    senders'[k] = IF k < i THEN senders[k] ELSE senders[k + 1]
      <4>1. \A i, j \in DOMAIN senders : senders[i] = senders[j] => i = j
        BY DEF ClientInv
      <4> DEFINE r == RemoveFirst(senders, c)
      <4>2. \/ r = senders /\ \A k \in DOMAIN senders : senders[k] # c
            \/ \E i \in 1..Len(senders) :
                 /\ senders[i] = c /\ \A k \in DOMAIN senders : k # i => senders[k] # c
                 /\ r \in Seq(Clients) /\ Len(r) = Len(senders) - 1
                 /\ \A k \in 1..(Len(senders) - 1) :
                      r[k] = IF k < i THEN senders[k] ELSE senders[k + 1]
        <5>1. senders \in Seq(Clients)
          BY <1>0
        <5> QED
          BY <4>1, <5>1, RemoveFirstCases
      <4> HIDE DEF r
      <4>3. senders' = r
        BY <2>1 DEF r
      <4> QED
        BY <4>2, <4>3, Zenon
    <3> QED
      BY <3>1, <3>2, <3>3, Zenon
  <2>7. PermitsConserved'
    <3>1. CallBytes(senders', req') \in Nat
      BY <1>0, BytesNat
    <3> QED
      BY <2>1, <2>4, <2>5, <2>6, <3>1, Balance, Conserving
  <2> QED
    BY <2>3, <2>4, <2>6, <2>7 DEF PermitInv
<1>4. ASSUME CloseIngress PROVE PermitInv'
  BY <1>4, PermitsKept DEF CloseIngress, recorderVars
<1>5. ASSUME Grant PROVE PermitInv'
  <2>1. PICK c \in Clients : c = Head(waiters) /\ c = waiters[1] /\ 1 \in DOMAIN waiters
    BY <1>0, <1>5 DEF Grant
  <2>2. /\ req[c].bytes <= free /\ free' = free - req[c].bytes
        /\ call' = [call EXCEPT ![c] = "send"] /\ senders' = Append(senders, c)
        /\ UNCHANGED <<req, queue, hand, pending>>
    BY <1>5, <2>1 DEF Grant, recorderVars
  <2>3. CallBytes(senders', req') = CallBytes(senders, req) + req[c].bytes
    BY <1>0, <2>2, SendersGrow
  <2>4. free' \in Nat /\ PermitsConserved'
    <3>1. req[c].bytes \in Nat
      BY Balance
    <3>2. /\ free \in Nat /\ CommandBytes(queue) \in Nat /\ CallBytes(senders, req) \in Nat
          /\ hand.bytes \in Nat /\ pending.bytes \in Nat
          /\ free + CommandBytes(queue) + CallBytes(senders, req) + hand.bytes + pending.bytes
               = ByteBudget
      BY Balance
    <3>3. CallBytes(senders', req') \in Nat
      BY <1>0, BytesNat
    <3>4. /\ hand'.bytes = hand.bytes /\ pending'.bytes = pending.bytes
          /\ CommandBytes(queue') = CommandBytes(queue)
      BY <2>2
    <3>0. free' = free - req[c].bytes /\ req[c].bytes <= free
      BY <2>2
    <3>5. free' \in Nat
      BY <3>0, <3>1, <3>2
    <3>6. free' + CallBytes(senders', req') = free + CallBytes(senders, req)
      BY <2>3, <3>0, <3>1, <3>2, <3>3
    <3>7. free' + CommandBytes(queue') + CallBytes(senders', req') + hand'.bytes + pending'.bytes
            = ByteBudget
      BY <3>2, <3>3, <3>4, <3>5, <3>6
    <3> QED
      BY <3>5, <3>7, Conserving
  <2>5. ASSUME NEW d \in Clients, call'[d] = "send" PROVE \E i \in DOMAIN senders' : senders'[i] = d
    <3>1. CASE d = c
      <4>1. Len(senders') \in DOMAIN senders' /\ senders'[Len(senders')] = c
        BY <1>0, <2>2
      <4> QED
        BY <3>1, <4>1
    <3>2. CASE d # c
      <4>1. call[d] = "send"
        BY <1>0, <2>2, <2>5, <3>2
      <4>2. PICK i \in DOMAIN senders : senders[i] = d
        BY <4>1 DEF PermitInv
      <4>3. i \in DOMAIN senders' /\ senders'[i] = d
        BY <1>0, <2>2, <4>2
      <4> QED
        BY <4>3
    <3> QED
      BY <3>1, <3>2
  <2> QED
    BY <2>2, <2>4, <2>5 DEF PermitInv
<1>6. ASSUME senders # <<>>, senders' = Tail(senders),
             \A i \in DOMAIN senders : i # 1 => req'[senders[i]] = req[senders[i]],
             \A d \in Clients : call'[d] = "send" => call[d] = "send" /\ d # Head(senders)
      PROVE  /\ CallBytes(senders, req) = CallBytes(senders', req') + req[Head(senders)].bytes
             /\ CallBytes(senders', req') \in Nat
             /\ \A d \in Clients : call'[d] = "send" => \E i \in DOMAIN senders' : senders'[i] = d
  <2>1. /\ 1 \in 1..Len(senders) /\ Head(senders) = senders[1] /\ Len(senders') = Len(senders) - 1
        /\ \A k \in 1..Len(senders') : senders'[k] = IF k < 1 THEN senders[k] ELSE senders[k + 1]
    BY <1>0, <1>6
  <2>2. CallBytes(senders, req) = CallBytes(senders', req') + req[Head(senders)].bytes
    <3>1. \A i \in DOMAIN senders : i # 1 => req'[senders[i]] = req[senders[i]]
      BY <1>6
    <3>2. CallBytes(senders, req) = CallBytes(senders', req') + req[senders[1]].bytes
      <4>1. /\ senders \in Seq(Clients) /\ senders' \in Seq(Clients)
            /\ req \in [Clients -> Requests \cup {NoRequest}]
            /\ req' \in [Clients -> Requests \cup {NoRequest}]
        BY <1>0
      <4> QED
        BY <2>1, <3>1, <4>1, SendersShrink
    <3> QED
      BY <2>1, <3>2
  <2>3. ASSUME NEW d \in Clients, call'[d] = "send" PROVE \E i \in DOMAIN senders' : senders'[i] = d
    <3>1. call[d] = "send" /\ d # senders[1]
      BY <1>6, <2>1, <2>3
    <3>2. PICK i \in DOMAIN senders : senders[i] = d
      BY <3>1 DEF PermitInv
    <3>3. i - 1 \in DOMAIN senders' /\ senders'[i - 1] = d
      BY <1>0, <1>6, <3>1, <3>2
    <3> QED
      BY <3>3
  <2>4. CallBytes(senders', req') \in Nat
    BY <1>0, BytesNat
  <2> QED
    BY <2>2, <2>3, <2>4
<1>7. ASSUME Admit PROVE PermitInv'
  <2>1. PICK c \in Clients : c = Head(senders) /\ call[c] = "send" /\ req[c] \in Requests
    <3>1. Head(senders) = senders[1] /\ 1 \in DOMAIN senders
      BY <1>0, <1>7 DEF Admit
    <3> QED
      BY <1>00, <3>1 DEF ClientInv
  <2> DEFINE cmd == Command(req[c], c, TRUE)
  <2>2. /\ senders # <<>> /\ senders' = Tail(senders) /\ queue' = Append(queue, cmd)
        /\ call' = [call EXCEPT ![c] = "wait"] /\ UNCHANGED <<req, free, hand, pending>>
    BY <1>7, <2>1 DEF Admit, recorderVars
  <2>3. cmd \in Commands /\ cmd.bytes = req[c].bytes
    <3>1. req[c] \in Requests \cup {NoRequest}
      BY <2>1
    <3>2. tail \in Nat
      BY DEF TypeOK, IngressTypeOK
    <3>3. cmd \in Commands
      BY <3>1, <3>2, CommandType
    <3>4. cmd.bytes = req[c].bytes
      BY DEF Command
    <3> QED
      BY <3>3, <3>4
  <2>4. cmd.kind = "flush" => cmd.bytes = 0
    <3>1. req[c] \in Requests \cup {NoRequest} /\ cmd.kind = req[c].kind
      BY <2>1 DEF Command
    <3> QED
      BY <2>3, <3>1, FlushIsEmpty
  <2> HIDE DEF cmd
  <2>5. CommandBytes(queue') = CommandBytes(queue) + req[c].bytes
    BY <1>0, <2>2, <2>3, QueueBytes
  <2>6. /\ CallBytes(senders, req) = CallBytes(senders', req') + req[c].bytes
        /\ CallBytes(senders', req') \in Nat
        /\ \A d \in Clients : call'[d] = "send" => \E i \in DOMAIN senders' : senders'[i] = d
    <3>1. \A d \in Clients : call'[d] = "send" => call[d] = "send" /\ d # Head(senders)
      BY <1>0, <2>1, <2>2
    <3>2. \A i \in DOMAIN senders : i # 1 => req'[senders[i]] = req[senders[i]]
      BY <2>2
    <3> QED
      BY <1>6, <2>1, <2>2, <3>1, <3>2
  <2>7. PermitsConserved'
    <3>1. /\ free \in Nat /\ CommandBytes(queue) \in Nat /\ CallBytes(senders, req) \in Nat
          /\ hand.bytes \in Nat /\ pending.bytes \in Nat
          /\ free + CommandBytes(queue) + CallBytes(senders, req) + hand.bytes + pending.bytes
               = ByteBudget
      BY Balance
    <3>2. /\ free' = free /\ hand'.bytes = hand.bytes /\ pending'.bytes = pending.bytes
          /\ CallBytes(senders, req) = CallBytes(senders', req') + req[c].bytes
          /\ CallBytes(senders', req') \in Nat
      BY <2>2, <2>6
    <3>3. req[c].bytes \in Nat
      BY Balance
    <3>4. free' + CommandBytes(queue') + CallBytes(senders', req') + hand'.bytes + pending'.bytes
            = ByteBudget
      BY <2>5, <3>1, <3>2, <3>3
    <3> QED
      BY <3>4, Conserving
  <2>8. \A i \in DOMAIN queue' : queue'[i].kind = "flush" => queue'[i].bytes = 0
    <3> SUFFICES ASSUME NEW i \in DOMAIN queue', queue'[i].kind = "flush" PROVE queue'[i].bytes = 0
      OBVIOUS
    <3>1. (i \in DOMAIN queue /\ queue'[i] = queue[i]) \/ queue'[i] = cmd
      BY <1>0, <2>2, <2>3
    <3> QED
      BY <2>4, <3>1 DEF PermitInv
  <2> QED
    BY <2>2, <2>6, <2>7, <2>8 DEF PermitInv
<1>8. ASSUME SendFails PROVE PermitInv'
  <2>1. PICK c \in Clients : c = Head(senders) /\ c = senders[1] /\ 1 \in DOMAIN senders
    BY <1>0, <1>8 DEF SendFails
  <2>2. /\ senders # <<>> /\ senders' = Tail(senders) /\ free' = free + req[c].bytes
        /\ call' = [call EXCEPT ![c] = "idle"] /\ req' = [req EXCEPT ![c] = NoRequest]
        /\ UNCHANGED <<queue, hand, pending>>
    BY <1>8, <2>1 DEF SendFails, recorderVars
  <2>3. /\ CallBytes(senders, req) = CallBytes(senders', req') + req[c].bytes
        /\ CallBytes(senders', req') \in Nat
        /\ \A d \in Clients : call'[d] = "send" => \E i \in DOMAIN senders' : senders'[i] = d
    <3>1. \A d \in Clients : call'[d] = "send" => call[d] = "send" /\ d # Head(senders)
      BY <1>0, <2>1, <2>2
    <3>2. \A i \in DOMAIN senders : i # 1 => senders[i] # c
      BY <2>1 DEF ClientInv
    <3>3. \A i \in DOMAIN senders : i # 1 => req'[senders[i]] = req[senders[i]]
      BY <1>0, <1>00, <2>2, <3>2
    <3> QED
      BY <1>6, <2>1, <2>2, <3>1, <3>3
  <2>4. free' \in Nat /\ PermitsConserved'
    <3>1. req[c].bytes \in Nat
      BY Balance
    <3>2. /\ free \in Nat /\ CommandBytes(queue) \in Nat /\ CallBytes(senders, req) \in Nat
          /\ hand.bytes \in Nat /\ pending.bytes \in Nat
          /\ free + CommandBytes(queue) + CallBytes(senders, req) + hand.bytes + pending.bytes
               = ByteBudget
      BY Balance
    <3>3. CallBytes(senders', req') \in Nat
      BY <1>0, BytesNat
    <3>4. /\ hand'.bytes = hand.bytes /\ pending'.bytes = pending.bytes
          /\ CommandBytes(queue') = CommandBytes(queue)
      BY <2>2
    <3>0. /\ free' = free + req[c].bytes
          /\ CallBytes(senders, req) = CallBytes(senders', req') + req[c].bytes
      BY <2>2, <2>3
    <3>5. free' \in Nat
      BY <3>0, <3>1, <3>2
    <3>6. free' + CallBytes(senders', req') = free + CallBytes(senders, req)
      BY <3>0, <3>1, <3>2, <3>3
    <3>7. free' + CommandBytes(queue') + CallBytes(senders', req') + hand'.bytes + pending'.bytes
            = ByteBudget
      BY <3>2, <3>3, <3>4, <3>5, <3>6
    <3> QED
      BY <3>5, <3>7, Conserving
  <2> QED
    BY <2>2, <2>3, <2>4 DEF PermitInv
<1> QED
  BY <1>1, <1>2, <1>3, <1>4, <1>5, <1>7, <1>8 DEF ClientStep

(* A command leaves the queue: its bytes are in hand, batched or free.     *)
LEMMA DequeuePermits ==
    ASSUME TypeOK, TypeOK', PermitInv, queue # <<>>, queue' = Tail(queue)
    PROVE  /\ CommandBytes(queue) = CommandBytes(queue') + Head(queue).bytes
           /\ CommandBytes(queue') \in Nat /\ Head(queue).bytes \in Nat
           /\ Head(queue).kind = "flush" => Head(queue).bytes = 0
           /\ \A i \in DOMAIN queue' : queue'[i].kind = "flush" => queue'[i].bytes = 0
<1>1. /\ queue \in Seq(Commands) /\ queue' \in Seq(Commands) /\ senders \in Seq(Clients)
      /\ req \in [Clients -> Requests \cup {NoRequest}]
  BY DEF TypeOK, IngressTypeOK
<1>2. Head(queue) = queue[1] /\ 1 \in DOMAIN queue /\ Head(queue) \in Commands
  BY <1>1
<1>3. \A i \in DOMAIN queue' : i + 1 \in DOMAIN queue /\ queue'[i] = queue[i + 1]
  BY <1>1
<1>4. CommandBytes(queue) = CommandBytes(queue') + Head(queue).bytes
  BY <1>1, QueueBytes
<1>5. CommandBytes(queue') \in Nat
  BY <1>1, BytesNat
<1>6. Head(queue).bytes \in Nat
  BY <1>2 DEF Commands
<1>7. Head(queue).kind = "flush" => Head(queue).bytes = 0
  BY <1>2 DEF PermitInv
<1>8. \A i \in DOMAIN queue' : queue'[i].kind = "flush" => queue'[i].bytes = 0
  BY <1>3 DEF PermitInv
<1> QED
  BY <1>4, <1>5, <1>6, <1>7, <1>8

(* Rejecting, batching and taking a command keep the balance.              *)
LEMMA TakePermits ==
    ASSUME IInv, IInv', PermitInv, Reject \/ Merge \/ Take \/ ShutDown
    PROVE  PermitInv'
<1>0. /\ TypeOK /\ TypeOK' /\ ClientInv
      /\ pc = "select" => hand = NoCommand /\ hand.bytes = 0
  BY DEF IInv, PipeInv, ControlInv, NoCommand
<1>00. /\ queue # <<>> => Head(queue) = queue[1] /\ 1 \in DOMAIN queue
       /\ queue # <<>> /\ Head(queue).client # NoClient => call[Head(queue).client] = "wait"
       /\ queue # <<>> => Head(queue).kind \in {"append", "save", "flush"}
  <2>1. queue # <<>> => Head(queue) = queue[1] /\ 1 \in DOMAIN queue
    BY <1>0 DEF TypeOK, IngressTypeOK
  <2> QED
    BY <1>0, <2>1 DEF ClientInv, IInv, PipeInv, QueueInv
<1>n. /\ free \in Nat /\ CommandBytes(queue) \in Nat /\ CallBytes(senders, req) \in Nat
      /\ hand.bytes \in Nat /\ pending.bytes \in Nat
      /\ free + CommandBytes(queue) + CallBytes(senders, req) + hand.bytes + pending.bytes
           = ByteBudget
  BY <1>0, Balance
<1>1. ASSUME Reject PROVE PermitInv'
  <2>1. pc = "select" /\ queue # <<>> /\ pending' = pending
    BY <1>1 DEF Reject
  <2>2. CASE Head(queue).kind = "flush"
    <3>1. Stop /\ free' = free + StopBytes
      BY <1>1, <2>2 DEF Reject
    <3>2. StopBytes \in Nat
      BY <1>0, Balance DEF StopBytes
    <3>3. free' \in Nat /\ free' + pending'.bytes = free + pending.bytes + hand.bytes + StopBytes
      BY <1>0, <1>n, <2>1, <3>1, <3>2
    <3> QED
      BY <1>0, <3>1, <3>3, StopPermits
  <2>3. CASE Head(queue).kind # "flush"
    <3>1. /\ queue' = Tail(queue) /\ free' = free + Head(queue).bytes
          /\ AnswerCaller(Head(queue)) /\ UNCHANGED <<senders, hand>>
      BY <1>1, <2>3 DEF Reject
    <3>2. /\ CallBytes(senders', req') = CallBytes(senders, req)
          /\ \A c \in Clients : call'[c] = "send" => \E i \in DOMAIN senders' : senders'[i] = c
      BY <1>0, <1>00, <2>1, <3>1, AnswerKeepsSenders
    <3>3. free' \in Nat /\ PermitsConserved'
      <4>1. /\ CommandBytes(queue) = CommandBytes(queue') + Head(queue).bytes
            /\ CommandBytes(queue') \in Nat /\ Head(queue).bytes \in Nat
        BY <1>0, <2>1, <3>1, DequeuePermits
      <4>2. /\ hand'.bytes = hand.bytes /\ pending'.bytes = pending.bytes
            /\ free' = free + Head(queue).bytes
        BY <2>1, <3>1
      <4>3. free' \in Nat /\ free' + CommandBytes(queue') = free + CommandBytes(queue)
        BY <1>n, <4>1, <4>2
      <4>4. free' + CommandBytes(queue') + CallBytes(senders', req') + hand'.bytes + pending'.bytes
              = ByteBudget
        BY <1>n, <3>2, <4>1, <4>2, <4>3
      <4> QED
        BY <4>3, <4>4, Conserving
    <3> QED
      BY <1>0, <2>1, <3>1, <3>2, <3>3, DequeuePermits DEF PermitInv
  <2> QED
    BY <2>2, <2>3
<1>2. ASSUME Merge PROVE PermitInv'
  <2>1. /\ queue # <<>> /\ queue' = Tail(queue) /\ UNCHANGED <<senders, free, hand>>
        /\ pending' = MergedBatch(pending, Head(queue)) /\ AnswerCaller(Head(queue))
    BY <1>2 DEF Merge
  <2>2. /\ CallBytes(senders', req') = CallBytes(senders, req)
        /\ \A c \in Clients : call'[c] = "send" => \E i \in DOMAIN senders' : senders'[i] = c
    BY <1>0, <1>00, <2>1, AnswerKeepsSenders
  <2>3. pending'.bytes = pending.bytes + Head(queue).bytes
    BY <2>1 DEF MergedBatch
  <2>4. PermitsConserved'
    <3>1. /\ CommandBytes(queue) = CommandBytes(queue') + Head(queue).bytes
          /\ CommandBytes(queue') \in Nat /\ Head(queue).bytes \in Nat
      BY <1>0, <2>1, DequeuePermits
    <3>2. hand'.bytes = hand.bytes /\ free' = free
      BY <2>1
    <3>3. CommandBytes(queue') + pending'.bytes = CommandBytes(queue) + pending.bytes
      BY <1>n, <2>3, <3>1
    <3>4. free' + CommandBytes(queue') + CallBytes(senders', req') + hand'.bytes + pending'.bytes
            = ByteBudget
      BY <1>n, <2>2, <2>3, <3>1, <3>2, <3>3
    <3> QED
      BY <3>4, Conserving
  <2> QED
    BY <1>0, <2>1, <2>2, <2>4, DequeuePermits DEF PermitInv
<1>3. ASSUME Take PROVE PermitInv'
  <2>1. /\ pc = "select" /\ queue # <<>> /\ queue' = Tail(queue) /\ hand' = Head(queue)
        /\ UNCHANGED <<call, req, senders, free, pending>>
    BY <1>3 DEF Take
  <2>2. PermitsConserved'
    BY <1>0, <2>1, Balance, Conserving, DequeuePermits
  <2>3. hand'.kind \notin {"append", "save"} => hand'.bytes = 0
    BY <1>0, <1>00, <2>1, DequeuePermits
  <2> QED
    BY <1>0, <2>1, <2>2, <2>3, DequeuePermits DEF PermitInv
<1>4. ASSUME ShutDown PROVE PermitInv'
  <2>1. pc = "select" /\ UNCHANGED <<call, req, senders, queue, free, pending>>
        /\ (hand' = hand \/ hand' = Shutdown)
    BY <1>4 DEF ShutDown, ingressVars
  <2> QED
    BY <1>0, <2>1, PermitsKept DEF Shutdown, NoCommand
<1> QED
  BY <1>1, <1>2, <1>3, <1>4

(* Writing the batch or the command in hand releases its bytes.            *)
LEMMA WritePermits ==
    ASSUME IInv, IInv', PermitInv,
           \/ FlushDone \/ FlushFails \/ StartBatch \/ AnswerFlush
           \/ StoreFails \/ WriteDone \/ PublishFails
    PROVE  PermitInv'
<1>0. /\ TypeOK /\ TypeOK' /\ ClientInv
      /\ hand.client # NoClient => call[hand.client] = "wait"
      /\ pc = "dispatch" => pending = NoBatch /\ pending.bytes = 0
      /\ hand.kind \in {"none", "shutdown", "flush"} => hand.bytes = 0
  BY DEF IInv, PipeInv, ControlInv, NoBatch, ClientInv, PermitInv
<1>00. NoBatch.bytes = 0 /\ NoCommand.bytes = 0
  BY DEF NoBatch, NoCommand
<1>1. ASSUME FlushDone PROVE PermitInv'
  <2>1. /\ pending'.bytes = 0 /\ free' = free + pending.bytes
        /\ UNCHANGED <<call, req, senders, queue>>
        /\ hand' = IF hand.kind = "shutdown" THEN NoCommand ELSE hand
    BY <1>00, <1>1 DEF FlushDone, ingressVars
  <2>2. hand'.bytes = hand.bytes /\ (hand'.kind \notin {"append", "save"} => hand'.bytes = 0)
    BY <1>0, <1>00, <2>1 DEF PermitInv
  <2>3. free' \in Nat /\ PermitsConserved'
    BY <1>0, <2>1, <2>2, Balance, Conserving
  <2> QED
    BY <2>1, <2>2, <2>3 DEF PermitInv
<1>2. ASSUME FlushFails PROVE PermitInv'
  <2>1. pending'.bytes = 0
    BY <1>00, <1>2 DEF FlushFails
  <2>2. CASE hand.kind \in {"flush", "shutdown"}
    <3>1. Stop /\ free' = free + pending.bytes + StopBytes
      BY <1>2, <2>2 DEF FlushFails
    <3>2. StopBytes \in Nat
      BY <1>0, Balance DEF StopBytes
    <3>3. free' \in Nat /\ free' + pending'.bytes = free + pending.bytes + hand.bytes + StopBytes
      BY <1>0, <2>1, <2>2, <3>1, <3>2, Balance
    <3> QED
      BY <1>0, <3>1, <3>3, StopPermits
  <2>3. CASE hand.kind \notin {"flush", "shutdown"}
    <3>1. /\ hand' = NoCommand /\ AnswerCaller(hand) /\ UNCHANGED <<queue, senders>>
          /\ free' = free + pending.bytes + hand.bytes
      BY <1>2, <2>3 DEF FlushFails, Resume
    <3>2. /\ CallBytes(senders', req') = CallBytes(senders, req)
          /\ \A c \in Clients : call'[c] = "send" => \E i \in DOMAIN senders' : senders'[i] = c
      BY <1>0, <3>1, AnswerKeepsSenders
    <3>3. free' \in Nat /\ PermitsConserved'
      BY <1>0, <1>00, <2>1, <3>1, <3>2, Balance, Conserving
    <3> QED
      BY <1>00, <3>1, <3>2, <3>3 DEF PermitInv
  <2> QED
    BY <2>2, <2>3
<1>3. ASSUME StartBatch PROVE PermitInv'
  <2>1. /\ pc = "dispatch" /\ pending'.bytes = hand.bytes /\ hand' = NoCommand
        /\ AnswerCaller(hand) /\ UNCHANGED <<queue, senders, free>>
    BY <1>3 DEF StartBatch, Resume
  <2>2. /\ CallBytes(senders', req') = CallBytes(senders, req)
        /\ \A c \in Clients : call'[c] = "send" => \E i \in DOMAIN senders' : senders'[i] = c
    BY <1>0, <2>1, AnswerKeepsSenders
  <2>3. PermitsConserved'
    BY <1>0, <1>00, <2>1, <2>2, Balance, Conserving
  <2> QED
    BY <1>00, <2>1, <2>2, <2>3 DEF PermitInv
<1>4. ASSUME AnswerFlush PROVE PermitInv'
  <2>1. /\ hand.kind = "flush" /\ hand' = NoCommand /\ AnswerCaller(hand)
        /\ UNCHANGED <<queue, senders, free, pending>>
    BY <1>4 DEF AnswerFlush, Resume
  <2>2. /\ CallBytes(senders', req') = CallBytes(senders, req)
        /\ \A c \in Clients : call'[c] = "send" => \E i \in DOMAIN senders' : senders'[i] = c
    BY <1>0, <2>1, AnswerKeepsSenders
  <2>3. PermitsConserved'
    BY <1>0, <1>00, <2>1, <2>2, Balance, Conserving
  <2> QED
    BY <1>00, <2>1, <2>2, <2>3 DEF PermitInv
<1>5. ASSUME StoreFails \/ PublishFails PROVE PermitInv'
  <2>1. pending' = pending
    BY <1>5 DEF StoreFails, PublishFails
  <2>2. CASE hand.ack
    <3>1. Stop /\ free' = free + hand.bytes + StopBytes
      BY <1>5, <2>2 DEF StoreFails, PublishFails
    <3>2. StopBytes \in Nat
      BY <1>0, Balance DEF StopBytes
    <3>3. free' \in Nat /\ free' + pending'.bytes = free + pending.bytes + hand.bytes + StopBytes
      BY <1>0, <2>1, <3>1, <3>2, Balance
    <3> QED
      BY <1>0, <3>1, <3>3, StopPermits
  <2>3. CASE ~hand.ack
    <3>1. /\ hand' = NoCommand /\ free' = free + hand.bytes
          /\ UNCHANGED <<queue, senders, call, req>>
      BY <1>5, <2>3 DEF StoreFails, PublishFails, Resume
    <3>2. free' \in Nat /\ PermitsConserved'
      BY <1>0, <1>00, <2>1, <3>1, Balance, Conserving
    <3> QED
      BY <1>00, <3>1, <3>2 DEF PermitInv
  <2> QED
    BY <2>2, <2>3
<1>6. ASSUME WriteDone PROVE PermitInv'
  <2>1. /\ free' = free + hand.bytes /\ hand' = NoCommand /\ AnswerCaller(hand)
        /\ UNCHANGED <<queue, senders, pending>>
    BY <1>6 DEF WriteDone, Resume
  <2>2. /\ CallBytes(senders', req') = CallBytes(senders, req)
        /\ \A c \in Clients : call'[c] = "send" => \E i \in DOMAIN senders' : senders'[i] = c
    BY <1>0, <2>1, AnswerKeepsSenders
  <2>3. free' \in Nat /\ PermitsConserved'
    BY <1>0, <1>00, <2>1, <2>2, Balance, Conserving
  <2> QED
    BY <1>00, <2>1, <2>2, <2>3 DEF PermitInv
<1> QED
  BY <1>1, <1>2, <1>3, <1>4, <1>5, <1>6

(* No caller, cancelled or not, and no failure leaks a byte permit or      *)
(* returns it twice, whatever the sizes and limits.                        *)
THEOREM PermitSafety == Spec => []PermitsConserved
<1>1. Init => PermitInv
  <2> SUFFICES ASSUME Init PROVE PermitInv
    OBVIOUS
  <2>1. /\ free = ByteBudget /\ queue = <<>> /\ senders = <<>> /\ hand.bytes = 0
        /\ pending.bytes = 0 /\ ByteBudget \in Nat
    BY RecorderAssumptions DEF Init, NoCommand, NoBatch
  <2>2. CommandBytes(queue) = 0 /\ CallBytes(senders, req) = 0
    BY InitTypes, BytesNat, <2>1 DEF TypeOK, IngressTypeOK
  <2>3. PermitsConserved
    <3>1. BytesOfQueue = 0 /\ BytesOfSenders = 0
      BY <2>2 DEF BytesOfQueue, BytesOfSenders, CommandBytes, CallBytes
    <3> QED
      BY <2>1, <3>1 DEF PermitsConserved
  <2>4. \A c \in Clients : call[c] # "send"
    BY DEF Init
  <2> QED
    BY <2>1, <2>3, <2>4 DEF PermitInv
<1>2. IInv /\ IInv' /\ PermitInv /\ [Next]_vars => PermitInv'
  <2> SUFFICES ASSUME IInv, IInv', PermitInv, [Next]_vars PROVE PermitInv'
    OBVIOUS
  <2>1. CASE ClientStep \/ Grant \/ Admit \/ SendFails
    BY <2>1, ClientPermits DEF IInv
  <2>2. CASE Read \/ CloseFrontend \/ UNCHANGED vars
    BY <2>2, PermitsKept DEF Read, CloseFrontend, vars, ingressVars, recorderVars
  <2>3. CASE Deadline \/ FlushStore \/ StartWrite \/ Store \/ Publish
    BY <2>3, PermitsKept DEF Deadline, FlushStore, StartWrite, Store, Publish, ingressVars
  <2>4. CASE RecorderStep
    BY <2>3, <2>4, TakePermits, WritePermits DEF RecorderStep
  <2> QED
    BY <2>1, <2>2, <2>4 DEF Next
<1>3. PermitInv => PermitsConserved
  BY DEF PermitInv
<1> QED
  BY <1>1, <1>2, <1>3, Inductive, PTL DEF Spec
=============================================================================
