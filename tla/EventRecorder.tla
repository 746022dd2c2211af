--------------------------- MODULE EventRecorder ---------------------------
(***************************************************************************)
(* The event recorder of one session (src/src/agent/recorder.rs): the      *)
(* single task through which every session event and every checkpoint      *)
(* reaches the store and, after that, the frontend.                        *)
(*                                                                         *)
(* Callers share the ingress.  `record' and `save' first reserve the       *)
(* serialised bytes of their events from a fair semaphore, then wait for a *)
(* slot of the bounded command queue, then for the recorder's answer;      *)
(* `try_record' takes both or fails at once and never waits; `flush' needs *)
(* no bytes.  The recorder takes one command at a time.  The second and    *)
(* later deltas of one stream are acknowledged before they are stored and  *)
(* gathered in a batch that the next other command, or a deadline, writes. *)
(*                                                                         *)
(* An event is its admission number: the k-th event that entered the       *)
(* command queue is k.  A journal row is one event or one merged batch;    *)
(* `journal' and `published' keep the rows' contents end to end.           *)
(***************************************************************************)
EXTENDS Integers, Sequences, SequencesExt, FiniteSetsExt

CONSTANTS
    Clients,        \* tasks that hold the recorder's ingress
    Streams,        \* keys of streamed assistant content
    NoStream,       \* the key of an event that is not streamed content
    NoClient,       \* the caller of a try_record, or one that went away
    QueueCap,       \* RECORDER_COMMAND_CAPACITY
    ByteBudget,     \* RECORDER_EVENT_BYTE_BUDGET
    BatchBytes,     \* STREAM_BATCH_BYTES
    Envelope,       \* what an event's serialised form adds to its text
    ChannelCap,     \* EVENT_QUEUE_CAPACITY
    Sizes,          \* the event sizes that callers use
    MaxEvents       \* bound: events admitted in one behaviour

ASSUME RecorderAssumptions ==
    /\ NoStream \notin Streams
    /\ NoClient \notin Clients
    /\ {QueueCap, ByteBudget, BatchBytes, ChannelCap} \subseteq Nat \ {0}
    /\ Sizes \subseteq Nat \ {0}
    /\ {Envelope, MaxEvents} \subseteq Nat

VARIABLES
    open,       \* some ingress handle is alive
    call,       \* per client: where its current call is waiting
    req,        \* per client: the request of that call
    waiters,    \* clients queued on the byte semaphore, first come first served
    senders,    \* clients queued for a slot of the command queue
    free,       \* byte permits not held by anyone
    queue,      \* the command queue
    tail,       \* events admitted to the command queue so far
    pc,         \* where the recorder task is
    hand,       \* the command the recorder is working on
    pending,    \* the stream batch not yet stored
    lastStream, \* the stream of the event recorded last
    terminal,   \* terminal_error is set
    outbox,     \* stored rows not yet handed to the frontend
    journal,    \* the durable event journal
    published,  \* what was handed to the frontend
    unread,     \* rows in the frontend's channel
    listening,  \* the frontend still holds its receiver
    barrier,    \* history: events covered by a save or flush answered Ok
    acks,       \* history: events whose record call was answered Ok
    faulted     \* history: a store or a publication has failed

ingressVars  == <<open, call, req, waiters, senders, queue, tail>>
recorderVars == <<pc, hand, pending, lastStream, terminal, outbox>>
storeVars    == <<journal, published, unread, listening>>
historyVars  == <<barrier, acks, faulted>>
vars == <<ingressVars, free, recorderVars, storeVars, historyVars>>

NoRequest == [kind |-> "none", n |-> 0, stream |-> NoStream, bytes |-> 0]
NoCommand == [kind |-> "none", client |-> NoClient, ack |-> FALSE, ids |-> <<>>,
              stream |-> NoStream, bytes |-> 0, upto |-> 0]
Shutdown  == [NoCommand EXCEPT !.kind = "shutdown"]
NoBatch   == [ids |-> <<>>, stream |-> NoStream, bytes |-> 0]

Requests ==
    [kind : {"append"}, n : {1}, stream : Streams \cup {NoStream}, bytes : Sizes]
      \cup [kind : {"save"}, n : {1}, stream : {NoStream}, bytes : Sizes]
      \cup [kind : {"save"}, n : {2}, stream : {NoStream}, bytes : {s + s : s \in Sizes}]
      \cup [kind : {"save", "flush"}, n : {0}, stream : {NoStream}, bytes : {0}]

Recording == pc # "stopped"

Numbered(n) == [k \in 1..n |-> tail + k]

Command(r, client, ack) ==
    [kind |-> r.kind, client |-> client, ack |-> ack, ids |-> Numbered(r.n),
     stream |-> r.stream, bytes |-> r.bytes, upto |-> tail + r.n]

(* The sum of a sequence, as a recursive function that a proof can use.    *)
Total(s) ==
    LET sum[k \in 0..Len(s)] == IF k = 0 THEN 0 ELSE sum[k - 1] + s[k]
    IN sum[Len(s)]

BytesOfQueue == Total([i \in DOMAIN queue |-> queue[i].bytes])
BytesOfSenders == Total([i \in DOMAIN senders |-> req[senders[i]].bytes])

(* The bound on events, with the ones whose calls wait for admission.      *)
Requested ==
    tail + MapThenSumSet(LAMBDA c : IF call[c] \in {"reserve", "send"} THEN req[c].n ELSE 0,
                         Clients)

-----------------------------------------------------------------------------
(* The callers.                                                            *)

(* Mutant of FitsBudget: a request above the budget waits.                 *)
UnboundedRequest(r) == TRUE

(* record, save and flush up to their first await.  A request larger than  *)
(* the whole budget is refused at once and leaves no trace.                *)
FitsBudget(r) == r.bytes <= ByteBudget

Call(c, r) ==
    /\ open
    /\ call[c] = "idle"
    /\ Requested + r.n <= MaxEvents
    /\ FitsBudget(r)
    /\ req' = [req EXCEPT ![c] = r]
    /\ IF r.bytes = 0
         THEN /\ call' = [call EXCEPT ![c] = "send"]
              /\ senders' = Append(senders, c)
              /\ UNCHANGED waiters
         ELSE /\ call' = [call EXCEPT ![c] = "reserve"]
              /\ waiters' = Append(waiters, c)
              /\ UNCHANGED senders
    /\ UNCHANGED <<open, free, queue, tail, recorderVars, storeVars, historyVars>>

(* The semaphore serves its first waiter; the client then queues for a     *)
(* slot of the command channel.                                            *)
Grant ==
    /\ waiters # <<>>
    /\ LET c == Head(waiters) IN
         /\ req[c].bytes <= free
         /\ free' = free - req[c].bytes
         /\ call' = [call EXCEPT ![c] = "send"]
         /\ senders' = Append(senders, c)
    /\ waiters' = Tail(waiters)
    /\ UNCHANGED <<open, req, queue, tail, recorderVars, storeVars, historyVars>>

Admit ==
    /\ Recording
    /\ senders # <<>>
    /\ Len(queue) < QueueCap
    /\ LET c == Head(senders) IN
         /\ queue' = Append(queue, Command(req[c], c, TRUE))
         /\ tail' = tail + req[c].n
         /\ call' = [call EXCEPT ![c] = "wait"]
    /\ senders' = Tail(senders)
    /\ UNCHANGED <<open, req, waiters, free, recorderVars, storeVars, historyVars>>

(* A send after the recorder returned fails and drops the permit.          *)
SendFails ==
    /\ ~Recording
    /\ senders # <<>>
    /\ LET c == Head(senders) IN
         /\ free' = free + req[c].bytes
         /\ call' = [call EXCEPT ![c] = "idle"]
         /\ req' = [req EXCEPT ![c] = NoRequest]
    /\ senders' = Tail(senders)
    /\ UNCHANGED <<open, waiters, queue, tail, recorderVars, storeVars, historyVars>>

(* try_record: permits and a slot at once, or nothing.  A fair semaphore   *)
(* with waiters has no permits to give.                                    *)
TryRecord(c, r) ==
    /\ open /\ Recording
    /\ call[c] = "idle"
    /\ r.kind = "append"
    /\ Requested + r.n <= MaxEvents
    /\ waiters = <<>> /\ r.bytes <= free
    /\ senders = <<>> /\ Len(queue) < QueueCap
    /\ free' = free - r.bytes
    /\ queue' = Append(queue, Command(r, NoClient, FALSE))
    /\ tail' = tail + r.n
    /\ UNCHANGED <<open, call, req, waiters, senders, recorderVars, storeVars, historyVars>>

Detach(cmd, c) == IF cmd.client = c THEN [cmd EXCEPT !.client = NoClient] ELSE cmd

(* The caller's future is dropped (an interrupt drops the model response   *)
(* and its streaming callback): a queued wait is withdrawn and its permit  *)
(* returned, a command already admitted goes on without its caller.        *)
Cancel(c) ==
    /\ call[c] # "idle"
    /\ call' = [call EXCEPT ![c] = "idle"]
    /\ req' = [req EXCEPT ![c] = NoRequest]
    /\ waiters' = RemoveFirst(waiters, c)
    /\ senders' = RemoveFirst(senders, c)
    /\ free' = IF call[c] = "send" THEN free + req[c].bytes ELSE free
    /\ queue' = [i \in DOMAIN queue |-> Detach(queue[i], c)]
    /\ hand' = Detach(hand, c)
    /\ UNCHANGED <<open, tail, pc, pending, lastStream, terminal, outbox, storeVars, historyVars>>

CloseIngress ==
    /\ open
    /\ \A c \in Clients : call[c] = "idle"
    /\ open' = FALSE
    /\ UNCHANGED <<call, req, waiters, senders, free, queue, tail, recorderVars, storeVars, historyVars>>

-----------------------------------------------------------------------------
(* The recorder task.                                                      *)

AnswerCaller(cmd) ==
    /\ call' = [c \in Clients |-> IF c = cmd.client THEN "idle" ELSE call[c]]
    /\ req' = [c \in Clients |-> IF c = cmd.client THEN NoRequest ELSE req[c]]

Acknowledged(cmd) == acks \cup IF cmd.kind = "append" /\ cmd.ack THEN Range(cmd.ids) ELSE {}

Covered(cmd) == IF cmd.kind # "append" /\ cmd.upto > barrier THEN cmd.upto ELSE barrier

Resume ==
    /\ pc' = "select"
    /\ hand' = NoCommand

(* run_recorder returns: the queue is dropped, callers that wait for an    *)
(* answer or for a slot get `stopped', and every permit is released.       *)
Stop ==
    /\ pc' = "stopped"
    /\ hand' = NoCommand
    /\ queue' = <<>>
    /\ senders' = <<>>
    /\ call' = [c \in Clients |-> IF call[c] \in {"send", "wait"} THEN "idle" ELSE call[c]]
    /\ req' = [c \in Clients |-> IF call[c] \in {"send", "wait"} THEN NoRequest ELSE req[c]]

(* Mutant of StopBytes: blocked senders keep their permits.                *)
StopForgetsSenders == BytesOfQueue

StopBytes == BytesOfQueue + BytesOfSenders

(* Mutant of Deadline: it waits for a command.                             *)
DeadlineNeedsCommand ==
    /\ queue # <<>>
    /\ pc = "select"
    /\ pending # NoBatch
    /\ pc' = "flush"
    /\ UNCHANGED <<ingressVars, free, hand, pending, lastStream, terminal, outbox, storeVars, historyVars>>

(* The batch's deadline passes; the flush has no command in hand.          *)
Deadline ==
    /\ pc = "select"
    /\ pending # NoBatch
    /\ pc' = "flush"
    /\ UNCHANGED <<ingressVars, free, hand, pending, lastStream, terminal, outbox, storeVars, historyVars>>

(* After a terminal error every command is rejected; the flush that learns *)
(* of the error ends the recorder.                                         *)
Reject ==
    /\ pc = "select" /\ terminal
    /\ queue # <<>>
    /\ LET cmd == Head(queue) IN
         IF cmd.kind = "flush"
           THEN /\ Stop
                /\ free' = free + StopBytes
           ELSE /\ queue' = Tail(queue)
                /\ free' = free + cmd.bytes
                /\ AnswerCaller(cmd)
                /\ UNCHANGED <<senders, pc, hand>>
    /\ UNCHANGED <<open, waiters, tail, pending, lastStream, terminal, outbox, storeVars, historyVars>>

(* Permits count serialised bytes, a batch is limited by the length of its *)
(* text.                                                                   *)
TextLength(x) == x.bytes - Envelope * Len(x.ids)

Merges(batch, cmd) ==
    /\ batch # NoBatch
    /\ cmd.kind = "append"
    /\ cmd.stream = batch.stream
    /\ TextLength(batch) + TextLength(cmd) <= BatchBytes

(* Mutant of MergedBatch: merging a delta replaces the batched text.       *)
MergeReplaces(batch, cmd) ==
    [ids |-> cmd.ids, stream |-> batch.stream, bytes |-> batch.bytes + cmd.bytes]

MergedBatch(batch, cmd) ==
    [ids |-> batch.ids \o cmd.ids, stream |-> batch.stream, bytes |-> batch.bytes + cmd.bytes]

Merge ==
    /\ pc = "select" /\ ~terminal
    /\ queue # <<>>
    /\ LET cmd == Head(queue) IN
         /\ Merges(pending, cmd)
         /\ pending' = MergedBatch(pending, cmd)
         /\ acks' = Acknowledged(cmd)
         /\ AnswerCaller(cmd)
    /\ queue' = Tail(queue)
    /\ UNCHANGED <<open, waiters, senders, free, tail, pc, hand, lastStream, terminal, outbox,
                   storeVars, barrier, faulted>>

(* Mutant of Take: a command overtakes the batch before it.                *)
TakeWithoutFlush ==
    /\ pc = "select" /\ ~terminal
    /\ queue # <<>>
    /\ ~Merges(pending, Head(queue))
    /\ hand' = Head(queue)
    /\ queue' = Tail(queue)
    /\ pc' = "dispatch"
    /\ UNCHANGED <<open, call, req, waiters, senders, free, tail, pending, lastStream, terminal,
                   outbox, storeVars, historyVars>>

(* Any other command first writes the batch, if there is one.              *)
Take ==
    /\ pc = "select" /\ ~terminal
    /\ queue # <<>>
    /\ ~Merges(pending, Head(queue))
    /\ hand' = Head(queue)
    /\ queue' = Tail(queue)
    /\ pc' = IF pending = NoBatch THEN "dispatch" ELSE "flush"
    /\ UNCHANGED <<open, call, req, waiters, senders, free, tail, pending, lastStream, terminal,
                   outbox, storeVars, historyVars>>

(* Mutant of ShutDown: the batch is not flushed at shutdown.               *)
ShutDownWithoutFlush ==
    /\ pc = "select"
    /\ ~open /\ queue = <<>>
    /\ pc' = "stopped"
    /\ UNCHANGED <<ingressVars, free, hand, pending, lastStream, terminal, outbox, storeVars, historyVars>>

(* All ingress handles are gone and the queue is empty: flush and return.  *)
ShutDown ==
    /\ pc = "select"
    /\ ~open /\ queue = <<>>
    /\ IF pending = NoBatch
         THEN pc' = "stopped" /\ UNCHANGED hand
         ELSE pc' = "flush" /\ hand' = Shutdown
    /\ UNCHANGED <<ingressVars, free, pending, lastStream, terminal, outbox, storeVars, historyVars>>

(* flush_stream.  The batch stays in `pending' until its row is published, *)
(* where its permit is dropped.                                            *)
FlushStore ==
    /\ pc = "flush"
    /\ journal' = journal \o pending.ids
    /\ outbox' = <<pending.ids>>
    /\ pc' = "flushPublish"
    /\ UNCHANGED <<ingressVars, free, hand, pending, lastStream, terminal, published, unread,
                   listening, historyVars>>

FlushDone ==
    /\ pc = "flushPublish"
    /\ outbox = <<>>
    /\ pending' = NoBatch
    /\ free' = free + pending.bytes
    /\ pc' = CASE hand.kind = "none" -> "select"
               [] hand.kind = "shutdown" -> "stopped"
               [] OTHER -> "dispatch"
    /\ hand' = IF hand.kind = "shutdown" THEN NoCommand ELSE hand
    /\ terminal' = IF hand.kind = "none" THEN FALSE ELSE terminal
    /\ UNCHANGED <<ingressVars, lastStream, outbox, storeVars, historyVars>>

(* Mutant of FlushFails: a failed flush is not remembered as terminal.     *)
FlushErrorSwallowed ==
    /\ \/ pc = "flush"
       \/ pc = "flushPublish" /\ outbox # <<>> /\ ~listening
    /\ faulted' = TRUE
    /\ pending' = NoBatch
    /\ outbox' = <<>>
    /\ IF hand.kind \in {"flush", "shutdown"}
         THEN /\ Stop
              /\ free' = free + pending.bytes + StopBytes
              /\ UNCHANGED terminal
         ELSE /\ UNCHANGED terminal
              /\ Resume
              /\ AnswerCaller(hand)
              /\ free' = free + pending.bytes + hand.bytes
              /\ UNCHANGED <<queue, senders>>
    /\ UNCHANGED <<open, waiters, tail, lastStream, storeVars, barrier, acks>>

(* The store refuses the batch, or the frontend is gone: the command in    *)
(* hand is rejected and the error becomes terminal.                        *)
FlushFails ==
    /\ \/ pc = "flush"
       \/ pc = "flushPublish" /\ outbox # <<>> /\ ~listening
    /\ faulted' = TRUE
    /\ pending' = NoBatch
    /\ outbox' = <<>>
    /\ IF hand.kind \in {"flush", "shutdown"}
         THEN /\ Stop
              /\ free' = free + pending.bytes + StopBytes
              /\ UNCHANGED terminal
         ELSE /\ terminal' = TRUE
              /\ Resume
              /\ AnswerCaller(hand)
              /\ free' = free + pending.bytes + hand.bytes
              /\ UNCHANGED <<queue, senders>>
    /\ UNCHANGED <<open, waiters, tail, lastStream, storeVars, barrier, acks>>

(* A delta of the stream recorded last starts a batch and is acknowledged  *)
(* now; anything else goes to the store first.                             *)
Batches(cmd) ==
    /\ cmd.kind = "append"
    /\ cmd.stream # NoStream
    /\ cmd.stream = lastStream
    /\ TextLength(cmd) <= BatchBytes

StartBatch ==
    /\ pc = "dispatch"
    /\ Batches(hand)
    /\ pending' = [ids |-> hand.ids, stream |-> hand.stream, bytes |-> hand.bytes]
    /\ acks' = Acknowledged(hand)
    /\ AnswerCaller(hand)
    /\ Resume
    /\ UNCHANGED <<open, waiters, senders, free, queue, tail, lastStream, terminal, outbox,
                   storeVars, barrier, faulted>>

StartWrite ==
    /\ pc = "dispatch"
    /\ hand.kind \in {"append", "save"}
    /\ ~Batches(hand)
    /\ lastStream' = hand.stream
    /\ pc' = "store"
    /\ UNCHANGED <<ingressVars, free, hand, pending, terminal, outbox, storeVars, historyVars>>

AnswerFlush ==
    /\ pc = "dispatch"
    /\ hand.kind = "flush"
    /\ lastStream' = NoStream
    /\ terminal' = FALSE
    /\ barrier' = Covered(hand)
    /\ AnswerCaller(hand)
    /\ Resume
    /\ UNCHANGED <<open, waiters, senders, free, queue, tail, pending, outbox, storeVars, acks, faulted>>

(* Mutant of Store: rows of one save are published in reverse.             *)
StoreReversesRows ==
    /\ pc = "store"
    /\ journal' = journal \o hand.ids
    /\ outbox' = Reverse([i \in DOMAIN hand.ids |-> <<hand.ids[i]>>])
    /\ pc' = "publish"
    /\ UNCHANGED <<ingressVars, free, hand, pending, lastStream, terminal, published, unread,
                   listening, historyVars>>

(* append_event stores one row, save_with_events a checkpoint with one row *)
(* per event, in one transaction.                                          *)
Store ==
    /\ pc = "store"
    /\ journal' = journal \o hand.ids
    /\ outbox' = [i \in DOMAIN hand.ids |-> <<hand.ids[i]>>]
    /\ pc' = "publish"
    /\ UNCHANGED <<ingressVars, free, hand, pending, lastStream, terminal, published, unread,
                   listening, historyVars>>

(* A failed store is answered with the error; only an append nobody waits  *)
(* for leaves the recorder running, to tell the next barrier.              *)
StoreFails ==
    /\ pc = "store"
    /\ faulted' = TRUE
    /\ IF hand.ack
         THEN /\ Stop
              /\ free' = free + hand.bytes + StopBytes
              /\ UNCHANGED terminal
         ELSE /\ terminal' = TRUE
              /\ Resume
              /\ free' = free + hand.bytes
              /\ UNCHANGED <<queue, senders, call, req>>
    /\ UNCHANGED <<open, waiters, tail, pending, lastStream, outbox, storeVars, barrier, acks>>

Publish ==
    /\ pc \in {"flushPublish", "publish"}
    /\ outbox # <<>>
    /\ listening /\ unread < ChannelCap
    /\ published' = published \o Head(outbox)
    /\ unread' = unread + 1
    /\ outbox' = Tail(outbox)
    /\ UNCHANGED <<ingressVars, free, pc, hand, pending, lastStream, terminal, journal, listening,
                   historyVars>>

WriteDone ==
    /\ pc = "publish"
    /\ outbox = <<>>
    /\ terminal' = FALSE
    /\ acks' = Acknowledged(hand)
    /\ barrier' = Covered(hand)
    /\ free' = free + hand.bytes
    /\ AnswerCaller(hand)
    /\ Resume
    /\ UNCHANGED <<open, waiters, senders, queue, tail, pending, lastStream, outbox, storeVars, faulted>>

(* What is stored is answered Ok although the frontend is gone.            *)
PublishFails ==
    /\ pc = "publish"
    /\ outbox # <<>> /\ ~listening
    /\ faulted' = TRUE
    /\ outbox' = <<>>
    /\ acks' = Acknowledged(hand)
    /\ barrier' = Covered(hand)
    /\ IF hand.ack
         THEN /\ Stop
              /\ free' = free + hand.bytes + StopBytes
              /\ UNCHANGED terminal
         ELSE /\ terminal' = TRUE
              /\ Resume
              /\ free' = free + hand.bytes
              /\ UNCHANGED <<queue, senders, call, req>>
    /\ UNCHANGED <<open, waiters, tail, pending, lastStream, storeVars>>

-----------------------------------------------------------------------------
(* The frontend (the session's event receiver).                            *)

Read ==
    /\ unread > 0
    /\ unread' = unread - 1
    /\ UNCHANGED <<ingressVars, free, recorderVars, journal, published, listening, historyVars>>

CloseFrontend ==
    /\ listening
    /\ listening' = FALSE
    /\ unread' = 0
    /\ UNCHANGED <<ingressVars, free, recorderVars, journal, published, historyVars>>

-----------------------------------------------------------------------------
Init ==
    /\ open = TRUE
    /\ call = [c \in Clients |-> "idle"]
    /\ req = [c \in Clients |-> NoRequest]
    /\ waiters = <<>> /\ senders = <<>> /\ queue = <<>>
    /\ free = ByteBudget
    /\ tail = 0
    /\ pc = "select" /\ hand = NoCommand
    /\ pending = NoBatch /\ lastStream = NoStream
    /\ terminal = FALSE
    /\ outbox = <<>> /\ journal = <<>> /\ published = <<>>
    /\ unread = 0 /\ listening = TRUE
    /\ barrier = 0 /\ acks = {} /\ faulted = FALSE

RecorderStep ==
    \/ Deadline \/ Reject \/ Merge \/ Take \/ ShutDown
    \/ FlushStore \/ FlushDone \/ FlushFails
    \/ StartBatch \/ StartWrite \/ AnswerFlush
    \/ Store \/ StoreFails \/ Publish \/ WriteDone \/ PublishFails

ClientStep ==
    \/ \E c \in Clients, r \in Requests : Call(c, r) \/ TryRecord(c, r)
    \/ \E c \in Clients : Cancel(c)
    \/ CloseIngress

Next == ClientStep \/ Grant \/ Admit \/ SendFails \/ RecorderStep \/ Read \/ CloseFrontend

Spec == Init /\ [][Next]_vars

(* The recorder is a task of its own and tokio's semaphores are fair; the  *)
(* frontend keeps reading until it drops its receiver.                     *)
Fairness ==
    /\ WF_vars(RecorderStep)
    /\ WF_vars(Grant) /\ WF_vars(Admit) /\ WF_vars(SendFails)
    /\ WF_vars(Read)

FairSpec == Spec /\ Fairness

-----------------------------------------------------------------------------
Commands ==
    [kind : {"none", "shutdown", "append", "save", "flush"}, client : Clients \cup {NoClient},
     ack : BOOLEAN, ids : Seq(Nat), stream : Streams \cup {NoStream}, bytes : Nat, upto : Nat]

IngressTypeOK ==
    /\ open \in BOOLEAN
    /\ call \in [Clients -> {"idle", "reserve", "send", "wait"}]
    /\ req \in [Clients -> Requests \cup {NoRequest}]
    /\ waiters \in Seq(Clients) /\ senders \in Seq(Clients)
    /\ queue \in Seq(Commands) /\ tail \in Nat

RecorderTypeOK ==
    /\ pc \in {"select", "flush", "flushPublish", "dispatch", "store", "publish", "stopped"}
    /\ hand \in Commands
    /\ pending \in [ids : Seq(Nat), stream : Streams \cup {NoStream}, bytes : Nat]
    /\ lastStream \in Streams \cup {NoStream}
    /\ terminal \in BOOLEAN
    /\ outbox \in Seq(Seq(Nat))

StoreTypeOK ==
    /\ journal \in Seq(Nat) /\ published \in Seq(Nat)
    /\ unread \in Nat /\ listening \in BOOLEAN

HistoryTypeOK == barrier \in Nat /\ acks \subseteq Nat /\ faulted \in BOOLEAN

(* The variables have their types.                                         *)
TypeOK == IngressTypeOK /\ RecorderTypeOK /\ StoreTypeOK /\ HistoryTypeOK

(* The journal holds the events in the order in which they were admitted,  *)
(* each once and without a gap: batching deltas, a rejected command or a   *)
(* store that fails in the middle never reorders or skips an event that a  *)
(* later one follows.                                                      *)
JournalInOrder == \A k \in DOMAIN journal : journal[k] = k

(* "Streaming callbacks acknowledge bounded admission; barriers wait for   *)
(* durability": when a save or a flush is answered Ok, every event that    *)
(* entered the queue before it is stored, the ones acknowledged early and  *)
(* the ones that nobody waited for included.                               *)
BarrierDurable == barrier <= Len(journal)

(* An event whose call was answered Ok is stored or waits in the batch,    *)
(* unless a store or a publication has failed.                             *)
AckedNotLost ==
    \A e \in acks : e <= Len(journal) \/ e \in Range(pending.ids) \/ faulted

(* The frontend sees only what is stored, in the journal's order.          *)
PublishedAfterStored == IsPrefix(published, journal)

(* A terminal error is never set while a batch waits: the batch's deadline *)
(* would otherwise clear the error and later barriers would be answered Ok *)
(* although an event was lost.                                             *)
TerminalHasNoBatch == terminal => pending = NoBatch

(* Every byte of the budget is free or belongs to a call, a queued command *)
(* the command in hand or the batch: no path, and no cancelled caller,     *)
(* leaks a permit or returns it twice.                                     *)
PermitsConserved ==
    free + BytesOfQueue + BytesOfSenders + hand.bytes + pending.bytes = ByteBudget

(* If nothing failed, the recorder returns only after every admitted event *)
(* is stored: dropping the last handle loses no streamed text.             *)
CleanStop == pc = "stopped" /\ ~faulted => Len(journal) = tail

(* Every record, save and flush returns, whether the recorder works, fails *)
(* or stops, and whatever waits for permits or for a slot.                 *)
EveryCallReturns == \A c \in Clients : call[c] # "idle" ~> call[c] = "idle"

(* A batch is written without any further command.                         *)
BatchIsWritten == pending # NoBatch ~> pending = NoBatch

=============================================================================
