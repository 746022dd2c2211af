---------------------- MODULE BackgroundCommands_proofs ----------------------
(***************************************************************************)
(* Proofs about BackgroundCommands, for any commands, sessions and limit.  *)
(*                                                                         *)
(* Three things have to be known of a command together: what its two bits  *)
(* say of its task (BitsInv), what the answer of the starting call says of *)
(* the HELD bit (AnswerInv), and which commands the table may not lack     *)
(* (TableInv).  Each property of the module follows from one of them.      *)
(***************************************************************************)
EXTENDS BackgroundCommands, TLAPS

(* FINISHED is set exactly while the task is past execute, and from then   *)
(* on HELD no longer changes: the task's own copy of it stays right.       *)
BitsInv ==
    \A c \in Commands :
        /\ c \in finished <=> task[c] \in {"finishing", "returned"}
        /\ c \in finished => (c \in announces <=> c \in held)
        /\ c \in announces => c \in finished
        /\ notices[c] > 0 => c \in announces /\ notices[c] = 1
        /\ task[c] = "returned" /\ c \in announces => notices[c] = 1

(* HELD is set exactly for the commands whose start answered "running".    *)
(* A call that still waits has been told nothing, and its entry is there.  *)
AnswerInv ==
    \A c \in Commands :
        /\ c \in held <=> first[c] = "running"
        /\ first[c] # "unknown"
        /\ task[c] = "none" => caller[c] = "none" /\ ~InTable(c) /\ first[c] = "none"
        /\ caller[c] = "waiting" => InTable(c) /\ first[c] = "none"

(* Whatever runs unasked to stop is in the table; what left it was         *)
(* announced, is being awaited or is settled; entries belong to sessions   *)
(* that have not ended.                                                    *)
TableInv ==
    \A c \in Commands :
        /\ InTable(c) => Owner[c] \in listeners
        /\ task[c] = "running" /\ c \notin aborted => InTable(c)
        /\ task[c] # "none" /\ ~InTable(c) /\ caller[c] = "none" =>
             c \in settled \/ first[c] = "running"

IInv == TypeOK /\ BitsInv /\ AnswerInv /\ TableInv

-----------------------------------------------------------------------------
(* The operators of the table.                                             *)

(* Removing ids from the table leaves a table of the others.               *)
LEMMA WithoutTable ==
    ASSUME TypeOK, NEW ids
    PROVE  DOMAIN Without(ids) = DOMAIN entries \ ids /\ Without(ids) \in Tables
<1>1. PICK S \in SUBSET Commands : entries \in [S -> Nat]
  BY DEF TypeOK, Tables
<1>2. DOMAIN entries = S /\ S \ ids \in SUBSET Commands /\ Without(ids) \in [S \ ids -> Nat]
  BY <1>1 DEF Without
<1> QED
  BY <1>2 DEF Tables

(* What start evicts has finished and was announced.                       *)
LEMMA VictimsEvictable ==
    ASSUME NEW gone \in Victims, NEW c \in gone
    PROVE  Evictable(c)
BY DEF Victims

-----------------------------------------------------------------------------
(* The invariant is inductive.                                             *)

LEMMA InitInv == Init => IInv
<1> SUFFICES ASSUME Init PROVE IInv
  OBVIOUS
<1>1. entries \in [{} -> Nat] /\ {} \in SUBSET Commands
  BY DEF Init
<1>2. entries \in Tables
  BY <1>1 DEF Tables
<1> QED
  BY <1>2 DEF Init, IInv, TypeOK, BitsInv, AnswerInv, TableInv, InTable, TaskStates, CallerStates, Answers

(* Types.                                                                  *)
LEMMA TypesKept == IInv /\ [Next]_vars => TypeOK'
<1> SUFFICES ASSUME IInv, [Next]_vars PROVE TypeOK'
  OBVIOUS
<1>0. \A ids : Without(ids) \in Tables
  BY WithoutTable DEF IInv
<1> USE DEF IInv, TypeOK, TaskStates, CallerStates, Answers
<1>1. ASSUME NEW s \in Sessions, Listen(s) PROVE TypeOK'
  BY <1>1 DEF Listen
<1>2. ASSUME NEW s \in Sessions, EndSession(s) PROVE TypeOK'
  <2>1. entries' \in Tables
    BY <1>0, <1>2 DEF EndSession
  <2>2. DOMAIN entries \subseteq Commands
    BY DEF Tables
  <2> QED
    BY <1>2, <2>1, <2>2 DEF EndSession
<1>3. ASSUME NEW c \in Commands, Start(c) PROVE TypeOK'
  <2>1. PICK gone \in Victims :
          entries' = [d \in (DOMAIN entries \ gone) \cup {c} |-> IF d = c THEN clock ELSE entries[d]]
    BY <1>3 DEF Start
  <2>2. PICK S \in SUBSET Commands : entries \in [S -> Nat]
    BY DEF Tables
  <2>3. (S \ gone) \cup {c} \in SUBSET Commands /\ entries' \in [(S \ gone) \cup {c} -> Nat]
    BY <2>1, <2>2
  <2>4. entries' \in Tables
    BY <2>3 DEF Tables
  <2> QED
    BY <1>3, <2>4 DEF Start
<1>4. ASSUME NEW c \in Commands, TaskStep(c) PROVE TypeOK'
  BY <1>4 DEF TaskStep, Finish, Notify, Return, Die
<1>5. ASSUME NEW c \in Commands, FirstPoll(c) \/ Poll(c) PROVE TypeOK'
  <2>1. entries' \in Tables
    BY <1>0, <1>5 DEF FirstPoll, Poll, PollEntry
  <2> QED
    BY <1>5, <2>1 DEF FirstPoll, Poll, PollEntry
<1>6. ASSUME NEW c \in Commands, Stop(c) \/ CancelStart(c) PROVE TypeOK'
  <2>1. entries' \in Tables
    BY <1>0, <1>6 DEF Stop, CancelStart
  <2> QED
    BY <1>6, <2>1 DEF Stop, CancelStart
<1>7. ASSUME NEW c \in Commands, Answer(c) \/ CancelRead(c) \/ Ended(c) PROVE TypeOK'
  BY <1>7 DEF Answer, CancelRead, Ended
<1>8. CASE UNCHANGED vars
  BY <1>8 DEF vars
<1> QED
  BY <1>1, <1>2, <1>3, <1>4, <1>5, <1>6, <1>7, <1>8 DEF Next, CallStep

(* The two bits.  A poll that sets HELD has just seen FINISHED clear.      *)
LEMMA BitsKept == IInv /\ [Next]_vars => BitsInv'
<1> SUFFICES ASSUME IInv, [Next]_vars PROVE BitsInv'
  OBVIOUS
<1> USE DEF IInv, TypeOK, BitsInv, TaskStates
<1>1. ASSUME NEW s \in Sessions, Listen(s) \/ EndSession(s) PROVE BitsInv'
  BY <1>1 DEF Listen, EndSession
<1>2. ASSUME NEW c \in Commands, Start(c) PROVE BitsInv'
  BY <1>2 DEF Start
<1>3. ASSUME NEW c \in Commands, TaskStep(c) PROVE BitsInv'
  <2>1. CASE Finish(c)
    BY <2>1 DEF Finish
  <2>2. CASE Notify(c)
    BY <2>2 DEF Notify
  <2>3. CASE Return(c)
    BY <2>3 DEF Return
  <2>4. CASE Die(c)
    BY <2>4 DEF Die
  <2> QED
    BY <1>3, <2>1, <2>2, <2>3, <2>4 DEF TaskStep
<1>4. ASSUME NEW c \in Commands, FirstPoll(c) \/ Poll(c) PROVE BitsInv'
  <2>1. CASE StillRunning(c)
    BY <1>4, <2>1 DEF FirstPoll, Poll, PollEntry, StillRunning
  <2>2. CASE ~StillRunning(c)
    BY <1>4, <2>2 DEF FirstPoll, Poll, PollEntry, AnswerInv
  <2> QED
    BY <2>1, <2>2
<1>5. ASSUME NEW c \in Commands, Stop(c) \/ CancelStart(c) \/ Answer(c) \/ CancelRead(c) \/ Ended(c)
      PROVE  BitsInv'
  BY <1>5 DEF Stop, CancelStart, Answer, CancelRead, Ended
<1>6. CASE UNCHANGED vars
  BY <1>6 DEF vars
<1> QED
  BY <1>1, <1>2, <1>3, <1>4, <1>5, <1>6 DEF Next, CallStep

(* The answer of the starting call.  Its entry is not evicted while it     *)
(* waits, because HELD is set only by its answer.                          *)
LEMMA AnswerKept == IInv /\ [Next]_vars => AnswerInv'
<1> SUFFICES ASSUME IInv, [Next]_vars PROVE AnswerInv'
  OBVIOUS
<1> USE DEF IInv, TypeOK, AnswerInv, InTable, TaskStates, CallerStates, Answers
<1>1. ASSUME NEW s \in Sessions, Listen(s) PROVE AnswerInv'
  BY <1>1 DEF Listen
<1>2. ASSUME NEW s \in Sessions, EndSession(s) PROVE AnswerInv'
  <2>1. DOMAIN entries' = DOMAIN entries \ {c \in DOMAIN entries : Owner[c] = s}
    BY <1>2, WithoutTable DEF EndSession
  <2> QED
    BY <1>2, <2>1 DEF EndSession
<1>3. ASSUME NEW c \in Commands, Start(c) PROVE AnswerInv'
  <2>1. PICK gone \in Victims : DOMAIN entries' = (DOMAIN entries \ gone) \cup {c}
    BY <1>3 DEF Start
  <2>2. \A d \in gone : d \in held
    BY VictimsEvictable DEF Evictable
  <2> QED
    BY <1>3, <2>1, <2>2 DEF Start
<1>4. ASSUME NEW c \in Commands, TaskStep(c) PROVE AnswerInv'
  BY <1>4 DEF TaskStep, Finish, Notify, Return, Die
<1>5. ASSUME NEW c \in Commands, FirstPoll(c) \/ Poll(c) PROVE AnswerInv'
  <2>1. DOMAIN entries' = DOMAIN entries \/ DOMAIN entries' = DOMAIN entries \ {c}
    BY <1>5, WithoutTable DEF FirstPoll, Poll, PollEntry
  <2>2. task[c] # "none" /\ caller'[c] # "waiting" /\ InTable(c)
    BY <1>5 DEF FirstPoll, Poll, PollEntry, Known
  <2> QED
    BY <1>5, <2>1, <2>2 DEF FirstPoll, Poll, PollEntry
<1>6. ASSUME NEW c \in Commands, Stop(c) \/ CancelStart(c) PROVE AnswerInv'
  <2>1. DOMAIN entries' = DOMAIN entries \ {c}
    BY <1>6, WithoutTable DEF Stop, CancelStart
  <2> QED
    BY <1>6, <2>1 DEF Stop, CancelStart
<1>7. ASSUME NEW c \in Commands, Answer(c) PROVE AnswerInv'
  BY <1>7 DEF Answer
<1>8. ASSUME NEW c \in Commands, CancelRead(c) \/ Ended(c) PROVE AnswerInv'
  BY <1>8 DEF CancelRead, Ended
<1>9. CASE UNCHANGED vars
  BY <1>9 DEF vars
<1> QED
  BY <1>1, <1>2, <1>3, <1>4, <1>5, <1>6, <1>7, <1>8, <1>9 DEF Next, CallStep

(* The table.  Only a command that is past execute or told to stop leaves. *)
LEMMA TableKept == IInv /\ [Next]_vars => TableInv'
<1> SUFFICES ASSUME IInv, [Next]_vars PROVE TableInv'
  OBVIOUS
<1> USE OwnerAssumption DEF IInv, TypeOK, TableInv, InTable, TaskStates, CallerStates, Answers
<1>1. ASSUME NEW s \in Sessions, Listen(s) PROVE TableInv'
  BY <1>1 DEF Listen
<1>2. ASSUME NEW s \in Sessions, EndSession(s) PROVE TableInv'
  <2>1. DOMAIN entries' = DOMAIN entries \ {c \in DOMAIN entries : Owner[c] = s}
    BY <1>2, WithoutTable DEF EndSession
  <2> QED
    BY <1>2, <2>1 DEF EndSession
<1>3. ASSUME NEW c \in Commands, Start(c) PROVE TableInv'
  <2>1. PICK gone \in Victims : DOMAIN entries' = (DOMAIN entries \ gone) \cup {c}
    BY <1>3 DEF Start
  <2>2. \A d \in gone : d \in held /\ task[d] # "running"
    BY VictimsEvictable DEF Evictable, IsFinished
  <2> QED
    BY <1>3, <2>1, <2>2 DEF Start, AnswerInv
<1>4. ASSUME NEW c \in Commands, TaskStep(c) PROVE TableInv'
  BY <1>4 DEF TaskStep, Finish, Notify, Return, Die
<1>5. ASSUME NEW c \in Commands, FirstPoll(c) \/ Poll(c) PROVE TableInv'
  <2>1. InTable(c)
    BY <1>5 DEF FirstPoll, Poll, AnswerInv
  <2>2. CASE StillRunning(c)
    BY <1>5, <2>1, <2>2 DEF FirstPoll, Poll, PollEntry
  <2>3. CASE ~StillRunning(c)
    <3>1. DOMAIN entries' = DOMAIN entries \ {c} /\ task[c] # "running"
      BY <1>5, <2>1, <2>3, WithoutTable DEF FirstPoll, Poll, PollEntry, StillRunning, IsFinished, BitsInv
    <3> QED
      BY <1>5, <2>1, <2>3, <3>1 DEF FirstPoll, Poll, PollEntry
  <2> QED
    BY <2>2, <2>3
<1>6. ASSUME NEW c \in Commands, Stop(c) \/ CancelStart(c) PROVE TableInv'
  <2>1. DOMAIN entries' = DOMAIN entries \ {c}
    BY <1>6, WithoutTable DEF Stop, CancelStart
  <2> QED
    BY <1>6, <2>1 DEF Stop, CancelStart
<1>7. ASSUME NEW c \in Commands, Answer(c) \/ CancelRead(c) \/ Ended(c) PROVE TableInv'
  BY <1>7 DEF Answer, CancelRead, Ended
<1>8. CASE UNCHANGED vars
  BY <1>8 DEF vars
<1> QED
  BY <1>1, <1>2, <1>3, <1>4, <1>5, <1>6, <1>7, <1>8 DEF Next, CallStep

-----------------------------------------------------------------------------
(* The theorems.                                                           *)

(* The invariant holds in every reachable state.                           *)
THEOREM Inductive == Spec => []IInv
<1>1. IInv /\ [Next]_vars => IInv'
  BY TypesKept, BitsKept, AnswerKept, TableKept DEF IInv
<1> QED
  BY <1>1, InitInv, PTL DEF Spec

(* Every variable keeps its type.                                          *)
THEOREM TypeCorrect == Spec => []TypeOK
<1>1. IInv => TypeOK
  BY DEF IInv
<1> QED
  BY <1>1, Inductive, PTL

(* The handoff of the two bits: a completion notice goes out exactly for   *)
(* the commands whose start answered "running", once.                      *)
THEOREM NoticeSafety == Spec => []NoticeOrResult
<1>1. IInv => NoticeOrResult
  BY DEF IInv, TypeOK, BitsInv, AnswerInv, NoticeOrResult
<1> QED
  BY <1>1, Inductive, PTL

(* Eviction: no result leaves the table unheard of, and the starting call  *)
(* always finds its entry.                                                 *)
THEOREM ResultSafety == Spec => []ResultReachable
<1>1. IInv => ResultReachable
  BY DEF IInv, TypeOK, AnswerInv, TableInv, ResultReachable
<1> QED
  BY <1>1, Inductive, PTL

(* Nothing runs that neither its session's end nor the gateway can reach.  *)
THEOREM OrphanSafety == Spec => []NoOrphan
<1>1. IInv => NoOrphan
  BY DEF IInv, TypeOK, TableInv, NoOrphan, HasOwner, IsFinished, InTable
<1> QED
  BY <1>1, Inductive, PTL
=============================================================================
