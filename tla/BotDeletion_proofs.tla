-------------------------- MODULE BotDeletion_proofs --------------------------
(***************************************************************************)
(* Proofs about BotDeletion, for any sessions, trees, owners, routines and *)
(* numbers of failed writes and crashes.                                   *)
(*                                                                         *)
(* The intent is what makes the deletion whole.  It is recorded when no    *)
(* chat of the Bot can run any more, so from then on it names either all   *)
(* that is left of the Bot or sessions that are gone already (IntentInv),  *)
(* and each step may be repeated by a later attempt (ProgressInv).  An     *)
(* instruction file that it does not name was left by an interrupted       *)
(* change of a routine (ChangeInv).                                        *)
(***************************************************************************)
EXTENDS BotDeletion, TLAPS

\* UNCHANGED changes is a conjunct of most actions.
USE DEF changes

(* The chat has no actor that could go to work.                            *)
IsQuiet(s) == owner[s] \in {"none", "stopped"}

(* The deletion has its first list of sessions and stops their chats.      *)
Listing == job.pc = "stop" /\ job.kind = "delete"

(* What the catalog, the database and the directories agree on.            *)
CatalogInv ==
    /\ \A s \in rows : Parent[s] \in rows \cup {None}
    /\ rows \subseteq born
    /\ bot => born = rows /\ saved = {}
    /\ ~bot => routines = {}
    /\ intent = None => saved = {}

(* An instruction file belongs to a routine, to the change that is under   *)
(* way, or to a change that was interrupted.  No deletion meets a change.  *)
ChangeInv ==
    /\ bot => instructions \subseteq routines \cup stray \cup Unnamed
    /\ change.pc = "none" => change = NoChange
    /\ change.pc = "staged" => change.new \in Routines /\ change.old \in routines \cup {None}
    /\ change # NoChange => bot /\ job = NoJob /\ intent = None

(* Which chats may have an actor.                                          *)
OwnerInv ==
    /\ \A s \in Sessions : owner[s] # "none" => s \in Owned
    /\ \A s \in Sessions : owner[s] \in {"idle", "busy"} => s \in rows
    /\ \A s \in Sessions : owner[s] = "starting" =>
         s \in rows \/ Parent[s] = None
    /\ ~bot \/ intent # None => \A s \in Sessions : IsQuiet(s)

(* The job agrees with the intent, and with the chats while it lists them. *)
JobInv ==
    /\ job.pc = "none" <=> job = NoJob
    /\ Listing =>
         /\ bot /\ intent = None
         /\ \A s \in Sessions : owner[s] # "starting"
         /\ \A s \in Sessions : owner[s] \in {"idle", "busy"} => s \in job.ids
         /\ \A s \in BotTrees : s \in job.files \/ Parent[s] \in Owned
    /\ job # NoJob /\ ~Listing =>
         /\ intent # None
         /\ job.roots = intent.roots /\ job.ids = intent.ids
         /\ \A s \in intent.ids : s \in job.files \/ Parent[s] \in Owned

(* The intent names all that is left of the Bot.                           *)
IntentInv ==
    intent # None =>
      /\ intent.roots \subseteq intent.ids
      /\ intent.roots \subseteq Owned
      /\ \/ intent.roots = BotRoots /\ intent.ids = BotTrees
         \/ intent.ids \cap rows = {} /\ Owned \cap rows = {}
      /\ instructions \subseteq intent.instructions \cup stray
      /\ saved \subseteq intent.ids
      /\ born \ rows \subseteq intent.ids

(* What has been done when the job is at a step.                           *)
ProgressInv ==
    /\ bot => job.pc \notin {"instructions", "trees", "save", "rows", "close", "stage", "finish",
                             "clear"}
    /\ born \ rows \subseteq closed \cup saved
    /\ job.pc \in {"save", "rows", "stage", "finish", "clear"} => born \ rows \subseteq closed
    /\ job.pc \in {"save", "stage", "finish", "clear"} => saved = {}
    /\ job.pc = "rows" => saved = job.ids \cap rows
    /\ job.pc \in {"close", "stage", "finish", "clear"} => Owned \cap rows = {}
    /\ job.pc = "clear" => instructions \subseteq stray
    /\ job.pc \in {"finish", "clear"} /\ faults = 0 =>
         \A s \in born \ rows : files[s] = "live" => Parent[s] \in Owned

(* The deletion is over.                                                   *)
DoneInv ==
    ~bot /\ intent = None =>
      /\ Owned \cap rows = {} /\ instructions \subseteq stray
      /\ born \ rows \subseteq closed
      /\ faults = 0 => \A s \in born \ rows : files[s] = "live" => Parent[s] \in Owned

(* Only sessions of the Bot and their descendants were ever removed.       *)
OutsideInv == born \ rows \subseteq Tree(Owned, born)

IInv ==
    /\ TypeOK /\ CatalogInv /\ ChangeInv /\ OwnerInv /\ JobInv /\ IntentInv
    /\ ProgressInv /\ DoneInv /\ OutsideInv

-----------------------------------------------------------------------------
(* Trees.                                                                  *)

(* A tree consists of stored sessions.                                     *)
LEMMA TreeStored ==
    ASSUME NEW R, NEW S PROVE Tree(R, S) \subseteq S
BY DEF Tree

(* It has its roots.                                                       *)
LEMMA TreeRoots ==
    ASSUME NEW R, NEW S PROVE R \cap S \subseteq Tree(R, S)
BY DEF Tree, Grown

(* It has the children of its members.                                     *)
LEMMA TreeChildren ==
    ASSUME NEW R, NEW S, NEW x \in S, Parent[x] \in Tree(R, S)
    PROVE  x \in Tree(R, S)
BY DEF Tree, Grown

(* It is part of every set that has the roots and the children of members. *)
LEMMA TreeLeast ==
    ASSUME NEW R, NEW S, NEW T \in SUBSET S, Grown(T, R, S)
    PROVE  Tree(R, S) \subseteq T
BY DEF Tree

(* More roots and more stored sessions make a larger tree.                 *)
LEMMA TreeGrows ==
    ASSUME NEW R, NEW S, NEW Q, NEW U, S \subseteq U, R \cap S \subseteq Tree(Q, U)
    PROVE  Tree(R, S) \subseteq Tree(Q, U)
<1> DEFINE T == Tree(Q, U) \cap S
<1>1. Grown(T, R, S)
  <2>1. R \cap S \subseteq T
    OBVIOUS
  <2>2. ASSUME NEW s \in S, Parent[s] \in T PROVE s \in T
    BY <2>2, TreeChildren
  <2> QED BY <2>1, <2>2 DEF Grown
<1> HIDE DEF T
<1>2. Tree(R, S) \subseteq T
  BY <1>1, TreeLeast DEF T
<1> QED BY <1>2 DEF T

(* Without roots there is no tree.                                         *)
LEMMA TreeOfNone ==
    ASSUME NEW R, NEW S, R \cap S = {} PROVE Tree(R, S) = {}
<1>1. Grown({}, R, S)
  BY DEF Grown
<1> QED BY <1>1, TreeLeast

(* The trees of the topmost sessions of the Bot have all its sessions: one *)
(* that is missing would have a missing parent, and so on without end.     *)
LEMMA OwnedInTrees ==
    TypeOK => Owned \cap rows \subseteq BotTrees
<1> SUFFICES ASSUME TypeOK PROVE Owned \cap rows \subseteq BotTrees
  OBVIOUS
<1> DEFINE B == (Owned \cap rows) \ BotTrees
<1> SUFFICES ASSUME B # {} PROVE FALSE
  OBVIOUS
<1>1. PICK s \in B : Parent[s] \notin B
  BY DeletionAssumption DEF TypeOK
<1>2. s \notin BotRoots
  BY TreeRoots DEF BotTrees, BotRoots
<1>3. Parent[s] \in Owned \cap rows
  BY <1>2 DEF BotRoots
<1>4. Parent[s] \in BotTrees
  BY <1>1, <1>3
<1>5. s \in BotTrees
  BY <1>4, TreeChildren DEF BotTrees
<1> QED BY <1>5

(* Roots and trees of the Bot.                                             *)
LEMMA RootsInTrees ==
    BotRoots \subseteq BotTrees /\ BotRoots \subseteq Owned /\ BotTrees \subseteq rows
BY TreeRoots, TreeStored DEF BotTrees, BotRoots

(* A fork adds itself to the trees of the Bot, and nothing else.           *)
LEMMA ForkedTrees ==
    ASSUME NEW s \in Sessions, Parent[s] \in Owned \cap rows, s \notin rows,
           \A x \in rows : Parent[x] \in rows \cup {None},
           rows' = rows \cup {s}
    PROVE  BotTrees' \subseteq BotTrees \cup {s}
<1> DEFINE T == BotTrees \cup {s}
<1>1. BotRoots' \subseteq BotRoots
  BY DeletionAssumption DEF BotRoots
<1>2. T \subseteq rows'
  BY RootsInTrees
<1>3. BotRoots' \subseteq T
  BY <1>1, RootsInTrees
<1>4. ASSUME NEW x \in rows', Parent[x] \in T PROVE x \in T
  <2>1. CASE x = s
    BY <2>1
  <2>2. CASE x # s
    <3>1. x \in rows /\ Parent[x] # s
      BY <2>2, DeletionAssumption
    <3>2. Parent[x] \in BotTrees
      BY <1>4, <3>1
    <3> QED BY <3>1, <3>2, TreeChildren DEF BotTrees
  <2> QED BY <2>1, <2>2
<1>5. Grown(T, BotRoots', rows')
  BY <1>3, <1>4 DEF Grown
<1> HIDE DEF T
<1>6. Tree(BotRoots', rows') \subseteq T
  BY <1>2, <1>5, TreeLeast
<1> QED BY <1>6 DEF T, BotTrees

-----------------------------------------------------------------------------
(* One lemma for each action.                                              *)

(* A chat starts only while the Bot exists and no deletion is under way.   *)
LEMMA ReserveStep ==
    ASSUME IInv, NEW s \in Sessions, Reserve(s) PROVE IInv'
<1>1. TypeOK' /\ CatalogInv' /\ OwnerInv' /\ IntentInv' /\ ProgressInv' /\ DoneInv' /\ OutsideInv'
  BY DEF IInv, TypeOK, CatalogInv, OwnerInv, IntentInv, ProgressInv, DoneInv, OutsideInv, Reserve,
     Admitted, catalog, store, bounds
<1>2. JobInv'
  BY DEF IInv, JobInv, Listing, Reserve, Admitted, catalog, store, bounds
<1>3. ChangeInv'
  BY DEF IInv, ChangeInv, Unnamed, Reserve, Admitted, catalog, store, bounds
<1> QED BY <1>1, <1>2, <1>3 DEF IInv

(* Whoever starts began before the deletion, which waits for it.           *)
LEMMA StartedStep ==
    ASSUME IInv, NEW s \in Sessions, Started(s) PROVE IInv'
<1>1. TypeOK'
  BY DEF IInv, TypeOK, Started, catalog, bounds
<1>2. CatalogInv'
  BY DEF IInv, CatalogInv, OwnerInv, Started, catalog, bounds
<1>3. OwnerInv'
  BY DEF IInv, OwnerInv, IsQuiet, Started, catalog, bounds
<1>4. JobInv'
  BY DEF IInv, JobInv, Listing, Started, catalog, bounds
<1>5. IntentInv' /\ ProgressInv' /\ DoneInv'
  BY DEF IInv, IntentInv, ProgressInv, DoneInv, OwnerInv, IsQuiet, Started, catalog, bounds
<1>6. OutsideInv'
  BY DEF IInv, OutsideInv, CatalogInv, OwnerInv, IsQuiet, Started, catalog, bounds
<1>7. ChangeInv'
  BY DEF IInv, ChangeInv, Unnamed, Started, catalog, bounds
<1> QED BY <1>1, <1>2, <1>3, <1>4, <1>5, <1>6, <1>7 DEF IInv

(* An unfinished start leaves no actor.                                    *)
LEMMA StartFailsStep ==
    ASSUME IInv, NEW s \in Sessions, StartFails(s) PROVE IInv'
<1>0. /\ bot /\ intent = None /\ ~Listing /\ born = rows
      /\ s \in rows \/ Parent[s] = None
  BY DEF IInv, OwnerInv, JobInv, CatalogInv, IsQuiet, StartFails
<1>a. /\ rows' \in {rows, rows \cup {s}} /\ born' = rows'
      /\ bot' = bot /\ intent' = intent /\ job' = job
  BY <1>0 DEF StartFails, catalog
<1>1. TypeOK'
  BY DEF IInv, TypeOK, StartFails, catalog, bounds
<1>2. CatalogInv'
  BY <1>0, <1>a DEF IInv, CatalogInv, StartFails, catalog
<1>3. OwnerInv'
  BY <1>0, <1>a DEF IInv, OwnerInv, IsQuiet, StartFails, catalog
<1>4. JobInv'
  BY <1>0, <1>a DEF IInv, JobInv, Listing
<1>5. IntentInv' /\ DoneInv' /\ OutsideInv'
  BY <1>0, <1>a DEF IntentInv, DoneInv, OutsideInv
<1>6. ProgressInv'
  BY <1>0, <1>a DEF IInv, ProgressInv, StartFails
<1>7. ChangeInv'
  BY DEF IInv, ChangeInv, Unnamed, StartFails, catalog
<1> QED BY <1>1, <1>2, <1>3, <1>4, <1>5, <1>6, <1>7 DEF IInv

(* A chat that is idle is listed already.                                  *)
LEMMA WorkStep ==
    ASSUME IInv, NEW s \in Sessions, Work(s) PROVE IInv'
<1>0. BotRoots' = BotRoots /\ BotTrees' = BotTrees /\ Tree(Owned, born)' = Tree(Owned, born)
  BY DEF Work, BotRoots, BotTrees, store
<1>1. TypeOK' /\ CatalogInv' /\ ProgressInv' /\ DoneInv' /\ OutsideInv'
  BY DEF IInv, TypeOK, CatalogInv, ProgressInv, DoneInv, OutsideInv, Work, catalog, store, bounds
<1>2. OwnerInv'
  BY DEF IInv, OwnerInv, IsQuiet, Work, catalog, store, bounds
<1>3. JobInv'
  BY <1>0 DEF IInv, JobInv, Listing, Work, catalog, store, bounds
<1>4. IntentInv'
  BY <1>0 DEF IInv, IntentInv, Work, catalog, store, bounds
<1>5. ChangeInv'
  BY DEF IInv, ChangeInv, Unnamed, Work, store, catalog, bounds
<1> QED BY <1>1, <1>2, <1>3, <1>4, <1>5 DEF IInv

(* A fork happens below an open chat, hence before the intent is recorded. *)
LEMMA ForkStep ==
    ASSUME IInv, NEW s \in Sessions, Fork(s) PROVE IInv'
<1>0. /\ Parent[s] \in Sessions /\ Parent[s] \in Owned \cap rows
      /\ s \in Sessions /\ s \notin rows
      /\ bot /\ intent = None /\ born = rows
  BY DeletionAssumption DEF Fork, IInv, TypeOK, OwnerInv, CatalogInv, IsQuiet
<1>1. TypeOK'
  BY DEF IInv, TypeOK, Fork, catalog, volatile, bounds
<1>2. CatalogInv' /\ OwnerInv' /\ IntentInv' /\ ProgressInv' /\ DoneInv' /\ OutsideInv'
  BY <1>0 DEF IInv, CatalogInv, OwnerInv, IntentInv, ProgressInv, DoneInv, OutsideInv, Fork,
     catalog, volatile, bounds
<1>3. JobInv'
  <2>1. BotTrees' \subseteq BotTrees \cup {s}
    BY <1>0, ForkedTrees DEF Fork, IInv, CatalogInv
  <2>2. \A x \in Sessions : owner[x] = owner'[x]
    BY DEF Fork, volatile
  <2> QED
    BY <1>0, <2>1, <2>2 DEF Fork, IInv, JobInv, Listing, NoJob, catalog, volatile
<1>4. ChangeInv'
  BY DEF IInv, ChangeInv, Unnamed, Fork, catalog, volatile, bounds
<1> QED BY <1>1, <1>2, <1>3, <1>4 DEF IInv

(* The same chat is open as before.                                        *)
LEMMA EndTurnStep ==
    ASSUME IInv, NEW s \in Sessions, EndTurn(s) PROVE IInv'
<1>0. BotRoots' = BotRoots /\ BotTrees' = BotTrees /\ Tree(Owned, born)' = Tree(Owned, born)
  BY DEF EndTurn, BotRoots, BotTrees, store
<1>1. TypeOK' /\ CatalogInv' /\ ProgressInv' /\ DoneInv' /\ OutsideInv'
  BY DEF IInv, TypeOK, CatalogInv, ProgressInv, DoneInv, OutsideInv, EndTurn, catalog, store, bounds
<1>2. OwnerInv'
  BY DEF IInv, OwnerInv, IsQuiet, EndTurn, catalog, store, bounds
<1>3. JobInv'
  BY <1>0 DEF IInv, JobInv, Listing, EndTurn, catalog, store, bounds
<1>4. IntentInv'
  BY <1>0 DEF IInv, IntentInv, EndTurn, catalog, store, bounds
<1>5. ChangeInv'
  BY DEF IInv, ChangeInv, Unnamed, EndTurn, store, catalog, bounds
<1> QED BY <1>1, <1>2, <1>3, <1>4, <1>5 DEF IInv

(* Removing files that are staged brings none back.                        *)
LEMMA CleanUpStep ==
    ASSUME IInv, NEW s \in Sessions, CleanUp(s) PROVE IInv'
<1>0. BotRoots' = BotRoots /\ BotTrees' = BotTrees /\ Tree(Owned, born)' = Tree(Owned, born)
  BY DEF CleanUp, BotRoots, BotTrees, store
<1>1. TypeOK' /\ CatalogInv' /\ OutsideInv'
  BY DEF IInv, TypeOK, CatalogInv, OutsideInv, CleanUp, Fault, catalog, store
<1>2. OwnerInv'
  BY DEF IInv, OwnerInv, IsQuiet, CleanUp, Fault, catalog, store
<1>3. JobInv'
  BY <1>0 DEF IInv, JobInv, Listing, CleanUp, Fault, catalog, store
<1>4. IntentInv'
  BY <1>0 DEF IInv, IntentInv, CleanUp, Fault, catalog, store
<1>5. ProgressInv' /\ DoneInv'
  BY DEF IInv, ProgressInv, DoneInv, TypeOK, CleanUp, Fault, catalog, store
<1>6. ChangeInv'
  BY DEF IInv, ChangeInv, Unnamed, CleanUp, store, Fault, catalog
<1> QED BY <1>1, <1>2, <1>3, <1>4, <1>5, <1>6 DEF IInv

(* The new file belongs to the change.                                    *)
LEMMA PublishInstructionsStep ==
    ASSUME IInv, NEW r \in Routines, NEW old \in Routines \cup {None},
           PublishInstructions(r, old) PROVE IInv'
<1>0. BotRoots' = BotRoots /\ BotTrees' = BotTrees /\ Tree(Owned, born)' = Tree(Owned, born)
  BY DEF PublishInstructions, BotRoots, BotTrees, store
<1>a. bot /\ job = NoJob /\ intent = None
  BY DEF IInv, ChangeInv, NoChange, PublishInstructions, Admitted
<1>1. TypeOK'
  BY <1>a, DeletionAssumption DEF IInv, TypeOK, Changes, NoChange, PublishInstructions, Admitted,
     catalog, store, volatile, bounds
<1>2. CatalogInv' /\ DoneInv' /\ IntentInv'
  BY <1>a DEF IInv, CatalogInv, DoneInv, IntentInv, PublishInstructions, Admitted, catalog, store,
     volatile, bounds
<1>3. OwnerInv'
  BY DEF IInv, OwnerInv, IsQuiet, PublishInstructions, Admitted, catalog, store, volatile, bounds
<1>4. JobInv'
  BY <1>0 DEF IInv, JobInv, Listing, PublishInstructions, Admitted, catalog, store, volatile, bounds
<1>5. ProgressInv'
  BY <1>a DEF IInv, ProgressInv, NoJob, PublishInstructions, Admitted, catalog, store, volatile,
     bounds
<1>6. OutsideInv'
  BY <1>0 DEF IInv, OutsideInv, PublishInstructions, Admitted, catalog, store, volatile, bounds
<1>7. ChangeInv'
  BY <1>a, DeletionAssumption DEF IInv, ChangeInv, TypeOK, Changes, NoChange, Unnamed,
     PublishInstructions, Admitted, catalog, store, volatile, bounds
<1> QED BY <1>1, <1>2, <1>3, <1>4, <1>5, <1>6, <1>7 DEF IInv

(* The new file belongs to the routine, the old one to the change.         *)
LEMMA CommitRoutineStep ==
    ASSUME IInv, CommitRoutine PROVE IInv'
<1>0. BotRoots' = BotRoots /\ BotTrees' = BotTrees /\ Tree(Owned, born)' = Tree(Owned, born)
  BY DEF CommitRoutine, BotRoots, BotTrees, store
<1>a. bot /\ job = NoJob /\ intent = None
  BY DEF IInv, ChangeInv, NoChange, CommitRoutine
<1>1. TypeOK'
  BY <1>a, DeletionAssumption DEF IInv, TypeOK, ChangeInv, Changes, NoChange, CommitRoutine,
     store, volatile, bounds
<1>2. CatalogInv' /\ DoneInv' /\ IntentInv'
  BY <1>a DEF IInv, CatalogInv, DoneInv, IntentInv, CommitRoutine, store, volatile, bounds
<1>3. OwnerInv'
  BY DEF IInv, OwnerInv, IsQuiet, CommitRoutine, store, volatile, bounds
<1>4. JobInv'
  BY <1>0 DEF IInv, JobInv, Listing, CommitRoutine, store, volatile, bounds
<1>5. ProgressInv'
  BY <1>a DEF IInv, ProgressInv, NoJob, CommitRoutine, store, volatile, bounds
<1>6. OutsideInv'
  BY <1>0 DEF IInv, OutsideInv, CommitRoutine, store, volatile, bounds
<1>7. ChangeInv'
  BY <1>a, DeletionAssumption DEF IInv, ChangeInv, TypeOK, Changes, NoChange, Unnamed,
     CommitRoutine, store, volatile, bounds
<1> QED BY <1>1, <1>2, <1>3, <1>4, <1>5, <1>6, <1>7 DEF IInv

(* The file of the routine belongs to the change.                          *)
LEMMA DeleteRoutineStep ==
    ASSUME IInv, NEW r \in Routines, DeleteRoutine(r) PROVE IInv'
<1>0. BotRoots' = BotRoots /\ BotTrees' = BotTrees /\ Tree(Owned, born)' = Tree(Owned, born)
  BY DEF DeleteRoutine, BotRoots, BotTrees, store
<1>a. bot /\ job = NoJob /\ intent = None
  BY DEF IInv, ChangeInv, NoChange, DeleteRoutine, Admitted
<1>1. TypeOK'
  BY <1>a, DeletionAssumption DEF IInv, TypeOK, Changes, NoChange, DeleteRoutine, Admitted, store,
     volatile, bounds
<1>2. CatalogInv' /\ DoneInv' /\ IntentInv'
  BY <1>a DEF IInv, CatalogInv, DoneInv, IntentInv, DeleteRoutine, Admitted, store, volatile, bounds
<1>3. OwnerInv'
  BY DEF IInv, OwnerInv, IsQuiet, DeleteRoutine, Admitted, store, volatile, bounds
<1>4. JobInv'
  BY <1>0 DEF IInv, JobInv, Listing, DeleteRoutine, Admitted, store, volatile, bounds
<1>5. ProgressInv'
  BY <1>a DEF IInv, ProgressInv, NoJob, DeleteRoutine, Admitted, store, volatile, bounds
<1>6. OutsideInv'
  BY <1>0 DEF IInv, OutsideInv, DeleteRoutine, Admitted, store, volatile, bounds
<1>7. ChangeInv'
  BY <1>a, DeletionAssumption DEF IInv, ChangeInv, TypeOK, Changes, NoChange, Unnamed,
     DeleteRoutine, Admitted, store, volatile, bounds
<1> QED BY <1>1, <1>2, <1>3, <1>4, <1>5, <1>6, <1>7 DEF IInv

(* The file of the change is gone or left where it is.                     *)
LEMMA DropFileStep ==
    ASSUME IInv, DropFile PROVE IInv'
<1>0. BotRoots' = BotRoots /\ BotTrees' = BotTrees /\ Tree(Owned, born)' = Tree(Owned, born)
  BY DEF DropFile, BotRoots, BotTrees, store
<1>a. bot /\ job = NoJob /\ intent = None
  BY DEF IInv, ChangeInv, NoChange, DropFile
<1>1. TypeOK'
  BY <1>a, DeletionAssumption DEF IInv, TypeOK, Changes, NoChange, Unnamed, DropFile, Fault,
     catalog, store, volatile
<1>2. CatalogInv' /\ DoneInv' /\ IntentInv'
  BY <1>a DEF IInv, CatalogInv, DoneInv, IntentInv, DropFile, Fault, catalog, store, volatile
<1>3. OwnerInv'
  BY DEF IInv, OwnerInv, IsQuiet, DropFile, Fault, catalog, store, volatile
<1>4. JobInv'
  BY <1>0 DEF IInv, JobInv, Listing, DropFile, Fault, catalog, store, volatile
<1>5. ProgressInv'
  BY <1>a DEF IInv, ProgressInv, NoJob, DropFile, Fault, catalog, store, volatile
<1>6. OutsideInv'
  BY <1>0 DEF IInv, OutsideInv, DropFile, Fault, catalog, store, volatile
<1>7. ChangeInv'
  BY <1>a, DeletionAssumption DEF IInv, ChangeInv, TypeOK, Changes, NoChange, Unnamed, DropFile,
     Fault, catalog, store, volatile
<1> QED BY <1>1, <1>2, <1>3, <1>4, <1>5, <1>6, <1>7 DEF IInv

(* A run does not touch what the deletion takes.                           *)
LEMMA BeginRunStep ==
    ASSUME IInv, NEW r \in Routines, BeginRun(r) PROVE IInv'
<1>1. TypeOK' /\ CatalogInv' /\ IntentInv' /\ ProgressInv' /\ DoneInv' /\ OutsideInv'
  BY DEF IInv, TypeOK, CatalogInv, IntentInv, ProgressInv, DoneInv, OutsideInv, BeginRun, Admitted,
     catalog, store, bounds
<1>2. OwnerInv'
  BY DEF IInv, OwnerInv, IsQuiet, BeginRun, Admitted, catalog, store, bounds
<1>3. JobInv'
  BY DEF IInv, JobInv, Listing, BeginRun, Admitted, catalog, store, bounds
<1>4. ChangeInv'
  BY DEF IInv, ChangeInv, Unnamed, BeginRun, Admitted, catalog, store, bounds
<1> QED BY <1>1, <1>2, <1>3, <1>4 DEF IInv

(* Nor does its end.                                                       *)
LEMMA FinishRunStep ==
    ASSUME IInv, NEW r \in Routines, FinishRun(r) PROVE IInv'
<1>0. BotRoots' = BotRoots /\ BotTrees' = BotTrees /\ Tree(Owned, born)' = Tree(Owned, born)
  BY DEF FinishRun, BotRoots, BotTrees, store
<1>1. TypeOK' /\ CatalogInv' /\ ProgressInv' /\ DoneInv' /\ OutsideInv'
  BY DEF IInv, TypeOK, CatalogInv, ProgressInv, DoneInv, OutsideInv, FinishRun, catalog, store,
     bounds
<1>2. OwnerInv'
  BY DEF IInv, OwnerInv, IsQuiet, FinishRun, catalog, store, bounds
<1>3. JobInv'
  BY <1>0 DEF IInv, JobInv, Listing, FinishRun, catalog, store, bounds
<1>4. IntentInv'
  BY <1>0 DEF IInv, IntentInv, FinishRun, catalog, store, bounds
<1>5. ChangeInv'
  BY DEF IInv, ChangeInv, Unnamed, FinishRun, store, catalog, bounds
<1> QED BY <1>1, <1>2, <1>3, <1>4, <1>5 DEF IInv

(* The first list has every chat that is open.                             *)
LEMMA BeginDeleteStep ==
    ASSUME IInv, BeginDelete PROVE IInv'
<1>0. BotRoots' = BotRoots /\ BotTrees' = BotTrees /\ Tree(Owned, born)' = Tree(Owned, born)
  BY DEF BeginDelete, BotRoots, BotTrees, store
<1>a. job' = [pc |-> "stop", kind |-> "delete", roots |-> {}, ids |-> BotTrees, files |-> BotTrees]
  BY DEF BeginDelete, NoJob
<1>b. BotTrees \subseteq Sessions /\ Owned \cap rows \subseteq BotTrees
  BY RootsInTrees, OwnedInTrees DEF IInv, TypeOK
<1>1. TypeOK'
  <2>1. job' \in Jobs
    BY <1>a, <1>b DEF Jobs
  <2> QED
    BY <2>1 DEF IInv, TypeOK, BeginDelete, catalog, store, volatile, bounds
<1>2. CatalogInv' /\ OwnerInv' /\ IntentInv' /\ ProgressInv' /\ DoneInv' /\ OutsideInv'
  BY DEF IInv, CatalogInv, OwnerInv, IntentInv, ProgressInv, DoneInv, OutsideInv, BeginDelete,
     Admitted, Refuses, catalog, store, volatile, bounds
<1>3. JobInv'
  BY <1>0, <1>a, <1>b DEF IInv, TypeOK, JobInv, OwnerInv, Listing, NoJob, BeginDelete, Admitted,
     Refuses, catalog, volatile
<1>4. ChangeInv'
  BY DEF IInv, ChangeInv, Unnamed, NoJob, BeginDelete, store, catalog, volatile, bounds, Admitted
<1> QED BY <1>1, <1>2, <1>3, <1>4 DEF IInv

(* The job takes its lists from the intent.                                *)
LEMMA BeginReconcileStep ==
    ASSUME IInv, BeginReconcile PROVE IInv'
<1>0. BotRoots' = BotRoots /\ BotTrees' = BotTrees /\ Tree(Owned, born)' = Tree(Owned, born)
  BY DEF BeginReconcile, BotRoots, BotTrees, store
<1>1. TypeOK'
  BY DEF IInv, TypeOK, Intents, Jobs, BeginReconcile, Reconciles, Refuses, catalog, store, volatile,
     bounds
<1>2. CatalogInv' /\ ProgressInv' /\ DoneInv' /\ OutsideInv'
  BY DEF IInv, CatalogInv, ProgressInv, DoneInv, OutsideInv, BeginReconcile, Reconciles, Refuses,
     catalog, store, volatile, bounds
<1>3. OwnerInv'
  BY DEF IInv, OwnerInv, IsQuiet, BeginReconcile, Reconciles, Refuses, catalog, store, volatile,
     bounds
<1>4. JobInv'
  BY DEF IInv, JobInv, Listing, BeginReconcile, Reconciles, Refuses, catalog, store, volatile,
     bounds
<1>5. IntentInv'
  BY <1>0 DEF IInv, IntentInv, BeginReconcile, Reconciles, Refuses, catalog, store, volatile, bounds
<1>6. ChangeInv'
  BY DEF IInv, ChangeInv, Unnamed, NoJob, BeginReconcile, store, Reconciles, catalog, volatile,
     bounds
<1> QED BY <1>1, <1>2, <1>3, <1>4, <1>5, <1>6 DEF IInv

(* A stopped chat stays stopped while the job runs.                        *)
LEMMA StopOwnerStep ==
    ASSUME IInv, NEW s \in Sessions, StopOwner(s) PROVE IInv'
<1>0. BotRoots' = BotRoots /\ BotTrees' = BotTrees /\ Tree(Owned, born)' = Tree(Owned, born)
  BY DEF StopOwner, BotRoots, BotTrees, store
<1>1. TypeOK' /\ CatalogInv' /\ ProgressInv' /\ DoneInv' /\ OutsideInv'
  BY DEF IInv, TypeOK, CatalogInv, ProgressInv, DoneInv, OutsideInv, StopOwner, At, catalog, store,
     bounds
<1>2. OwnerInv'
  BY DEF IInv, OwnerInv, IsQuiet, StopOwner, At, catalog, store, bounds
<1>3. JobInv'
  BY <1>0 DEF IInv, JobInv, Listing, StopOwner, At, catalog, store, bounds
<1>4. IntentInv'
  BY <1>0 DEF IInv, IntentInv, StopOwner, At, catalog, store, bounds
<1>5. ChangeInv'
  BY DEF IInv, ChangeInv, Unnamed, NoJob, StopOwner, store, At, catalog, bounds
<1> QED BY <1>1, <1>2, <1>3, <1>4, <1>5 DEF IInv

(* A refused request leaves everything as it is.                           *)
LEMMA RejectStep ==
    ASSUME IInv, Reject PROVE IInv'
<1>0. BotRoots' = BotRoots /\ BotTrees' = BotTrees /\ Tree(Owned, born)' = Tree(Owned, born)
  BY DEF Reject, BotRoots, BotTrees, store
<1>1. TypeOK'
  BY DEF IInv, TypeOK, Jobs, NoJob, Reject, At, Abandon, catalog, store, bounds
<1>2. CatalogInv' /\ DoneInv' /\ OutsideInv'
  BY DEF IInv, CatalogInv, DoneInv, OutsideInv, Reject, At, Abandon, catalog, store, bounds
<1>3. OwnerInv'
  BY DEF IInv, OwnerInv, IsQuiet, Reject, At, Abandon, catalog, store, bounds
<1>4. JobInv'
  BY DEF IInv, JobInv, Listing, NoJob, Reject, At, Abandon, catalog, store, bounds
<1>5. IntentInv'
  BY <1>0 DEF IInv, IntentInv, Reject, At, Abandon, catalog, store, bounds
<1>6. ProgressInv'
  BY DEF IInv, ProgressInv, NoJob, Reject, At, Abandon, catalog, store, bounds
<1>7. ChangeInv'
  BY DEF IInv, ChangeInv, Unnamed, NoJob, Reject, store, At, Abandon, catalog, bounds
<1> QED BY <1>1, <1>2, <1>3, <1>4, <1>5, <1>6, <1>7 DEF IInv

(* The chats are stopped, so the second list can no longer change.         *)
LEMMA RecordStep ==
    ASSUME IInv, Record PROVE IInv'
<1>0. BotRoots' = BotRoots /\ BotTrees' = BotTrees /\ Tree(Owned, born)' = Tree(Owned, born)
  BY DEF Record, BotRoots, BotTrees, store
<1>a. /\ Listing /\ job.pc = "stop" /\ job.kind = "delete"
      /\ BotTrees \subseteq Sessions /\ BotRoots \subseteq Sessions
      /\ BotRoots \subseteq BotTrees /\ BotRoots \subseteq Owned
  BY RootsInTrees, DeletionAssumption DEF IInv, TypeOK, Record, At, Listing
<1>b. /\ intent' = [roots |-> BotRoots, ids |-> BotTrees, instructions |-> routines]
      /\ intent' # None
  <2>1. intent' = [roots |-> BotRoots, ids |-> BotTrees, instructions |-> routines]
    BY DEF Record, Listed
  <2>2. intent' \in Intents
    BY <1>a, <2>1 DEF Intents, IInv, TypeOK
  <2> QED BY <2>1, <2>2, DeletionAssumption
<1>c. job' = [job EXCEPT !.pc = "records", !.roots = BotRoots, !.ids = BotTrees]
  BY DEF Record, Listed
<1>1. TypeOK'
  <2>1. job' \in Jobs /\ intent' \in Intents
    BY <1>a, <1>b, <1>c DEF IInv, TypeOK, Jobs, Intents
  <2> QED
    BY <2>1 DEF IInv, TypeOK, Record, store, volatile, bounds
<1>2. CatalogInv' /\ DoneInv'
  BY DEF IInv, CatalogInv, DoneInv, JobInv, Listing, Record, At, Stopped, Deletable, Listed, store,
     volatile, bounds
<1>3. OwnerInv'
  BY DEF IInv, OwnerInv, TypeOK, IsQuiet, JobInv, Record, At, Stopped, Deletable, Listed, store,
     volatile, bounds
<1>4. JobInv'
  <2>1. /\ job'.pc = "records" /\ job'.roots = BotRoots /\ job'.ids = BotTrees
        /\ job'.files = job.files /\ ~Listing' /\ job' # NoJob
    BY <1>c DEF IInv, TypeOK, Jobs, NoJob, Listing
  <2> QED
    BY <1>a, <1>b, <2>1 DEF IInv, JobInv
<1>5. IntentInv'
  <2>1. instructions \subseteq routines \cup stray /\ saved = {} /\ born = rows
    BY <1>a DEF IInv, JobInv, CatalogInv, ChangeInv, Unnamed, NoChange, NoJob
  <2> QED
    BY <1>0, <1>a, <1>b, <2>1 DEF IInv, IntentInv, Record, store
<1>6. ProgressInv' /\ OutsideInv'
  BY DEF IInv, ProgressInv, OutsideInv, Record, At, Stopped, Deletable, Listed, store, volatile,
     bounds
<1>7. ChangeInv'
  BY DEF IInv, ChangeInv, Unnamed, NoJob, Record, store, At, volatile, bounds
<1> QED BY <1>1, <1>2, <1>3, <1>4, <1>5, <1>6, <1>7 DEF IInv

(* It goes on with the catalog if the Bot is there, else with the trees.   *)
LEMMA ResumeStep ==
    ASSUME IInv, Resume PROVE IInv'
<1>0. BotRoots' = BotRoots /\ BotTrees' = BotTrees /\ Tree(Owned, born)' = Tree(Owned, born)
  BY DEF Resume, BotRoots, BotTrees, store
<1>1. TypeOK'
  BY DEF IInv, TypeOK, Jobs, Resume, At, Goto, Stopped, catalog, store, volatile, bounds
<1>2. CatalogInv' /\ ProgressInv' /\ DoneInv' /\ OutsideInv'
  BY DEF IInv, CatalogInv, ProgressInv, DoneInv, OutsideInv, Resume, At, Goto, Stopped, catalog,
     store, volatile, bounds
<1>3. OwnerInv'
  BY DEF IInv, OwnerInv, IsQuiet, Resume, At, Goto, Stopped, catalog, store, volatile, bounds
<1>4. JobInv'
  BY DEF IInv, JobInv, Listing, NoJob, Resume, At, Goto, Stopped, catalog, store, volatile, bounds
<1>5. IntentInv'
  BY <1>0 DEF IInv, IntentInv, Resume, At, Goto, Stopped, catalog, store, volatile, bounds
<1>6. ChangeInv'
  BY DEF IInv, ChangeInv, Unnamed, NoJob, Resume, store, At, Goto, catalog, volatile, bounds
<1> QED BY <1>1, <1>2, <1>3, <1>4, <1>5, <1>6 DEF IInv

(* From here on the Bot is gone.                                           *)
LEMMA DeleteRecordsStep ==
    ASSUME IInv, DeleteRecords PROVE IInv'
<1>0. BotRoots' = BotRoots /\ BotTrees' = BotTrees /\ Tree(Owned, born)' = Tree(Owned, born)
  BY DEF DeleteRecords, BotRoots, BotTrees, store
<1>1. TypeOK'
  BY DEF IInv, TypeOK, Jobs, DeleteRecords, At, Goto, store, volatile, bounds
<1>2. CatalogInv' /\ ProgressInv' /\ OutsideInv'
  BY DEF IInv, CatalogInv, ProgressInv, OutsideInv, DeleteRecords, At, Goto, store, volatile, bounds
<1>3. OwnerInv'
  BY DEF IInv, OwnerInv, IsQuiet, JobInv, Listing, DeleteRecords, At, Goto, store, volatile, bounds
<1>4. JobInv'
  BY DEF IInv, JobInv, Listing, NoJob, DeleteRecords, At, Goto, store, volatile, bounds
<1>5. IntentInv'
  BY <1>0 DEF IInv, IntentInv, DeleteRecords, At, Goto, store, volatile, bounds
<1>6. DoneInv'
  BY DEF IInv, DoneInv, JobInv, Listing, DeleteRecords, At, Goto, store, volatile, bounds
<1>7. ChangeInv'
  BY DEF IInv, ChangeInv, Unnamed, NoChange, NoJob, DeleteRecords, store, At, Goto, volatile, bounds
<1> QED BY <1>1, <1>2, <1>3, <1>4, <1>5, <1>6, <1>7 DEF IInv

(* Files that remain are named by the intent.                              *)
LEMMA RemoveInstructionsStep ==
    ASSUME IInv, RemoveInstructions PROVE IInv'
<1>0. BotRoots' = BotRoots /\ BotTrees' = BotTrees /\ Tree(Owned, born)' = Tree(Owned, born)
  BY DEF RemoveInstructions, BotRoots, BotTrees, store
<1>1. TypeOK'
  BY DEF IInv, TypeOK, Jobs, RemoveInstructions, At, Goto, Fault, catalog, store, volatile
<1>2. CatalogInv'
  BY DEF IInv, CatalogInv, ProgressInv, RemoveInstructions, At, Goto, Fault, catalog, store,
     volatile
<1>3. OwnerInv'
  BY DEF IInv, OwnerInv, IsQuiet, RemoveInstructions, At, Goto, Fault, catalog, store, volatile
<1>4. JobInv'
  BY DEF IInv, JobInv, Listing, NoJob, RemoveInstructions, At, Goto, Fault, catalog, store, volatile
<1>5. IntentInv'
  BY <1>0 DEF IInv, IntentInv, RemoveInstructions, At, Goto, Fault, catalog, store, volatile
<1>6. ProgressInv' /\ OutsideInv'
  BY DEF IInv, ProgressInv, OutsideInv, RemoveInstructions, At, Goto, Fault, catalog, store,
     volatile
<1>7. DoneInv'
  BY DEF IInv, DoneInv, TypeOK, RemoveInstructions, At, Goto, Fault, catalog, store, volatile
<1>8. ChangeInv'
  BY DEF IInv, ChangeInv, Unnamed, NoJob, RemoveInstructions, store, At, Goto, Fault, catalog,
     volatile
<1> QED BY <1>1, <1>2, <1>3, <1>4, <1>5, <1>6, <1>7, <1>8 DEF IInv

(* No session in the intent means that none of the Bot is left.            *)
LEMMA BeginTreesStep ==
    ASSUME IInv, BeginTrees PROVE IInv'
<1>0. BotRoots' = BotRoots /\ BotTrees' = BotTrees /\ Tree(Owned, born)' = Tree(Owned, born)
  BY DEF BeginTrees, BotRoots, BotTrees, store

<1>a. intent # None /\ job.ids = intent.ids /\ ~bot /\ job # NoJob /\ ~Listing
  BY DEF IInv, JobInv, ProgressInv, Listing, BeginTrees, At, NoJob
<1>1. TypeOK'
  BY DEF IInv, TypeOK, Jobs, BeginTrees, At, Goto, RecoverClosures, catalog, volatile, bounds
<1>2. CatalogInv' /\ DoneInv' /\ OutsideInv'
  BY DEF IInv, CatalogInv, DoneInv, OutsideInv, BeginTrees, At, Goto, RecoverClosures, catalog,
     volatile, bounds
<1>3. OwnerInv'
  BY DEF IInv, OwnerInv, IsQuiet, BeginTrees, At, Goto, RecoverClosures, catalog, volatile, bounds
<1>4. JobInv'
  BY DEF IInv, JobInv, Listing, NoJob, TypeOK, Jobs, BeginTrees, At, Goto, RecoverClosures, catalog,
     volatile, bounds
<1>5. IntentInv'
  BY <1>0 DEF IInv, IntentInv, BeginTrees, At, Goto, RecoverClosures, catalog, volatile, bounds
<1>6. ProgressInv'
  <2>1. CASE job.ids = {}
    <3>1. saved = {} /\ born \ rows = {} /\ Owned \cap rows = {}
      BY <1>a, <2>1, OwnedInTrees DEF IInv, IntentInv
    <3> QED
      BY <1>a, <2>1, <3>1 DEF IInv, ProgressInv, TypeOK, Jobs, BeginTrees, Goto, catalog
  <2>2. CASE job.ids # {}
    BY <1>a, <2>2 DEF IInv, ProgressInv, TypeOK, Jobs, BeginTrees, Goto, RecoverClosures, catalog
  <2> QED BY <2>1, <2>2
<1>7. ChangeInv'
  BY DEF IInv, ChangeInv, Unnamed, NoJob, BeginTrees, store, At, Goto, RecoverClosures, catalog,
     volatile, bounds
<1> QED BY <1>1, <1>2, <1>3, <1>4, <1>5, <1>6, <1>7 DEF IInv

(* Facts are saved for the rows that are about to go.                      *)
LEMMA SaveClosuresStep ==
    ASSUME IInv, SaveClosures PROVE IInv'
<1>0. BotRoots' = BotRoots /\ BotTrees' = BotTrees /\ Tree(Owned, born)' = Tree(Owned, born)
  BY DEF SaveClosures, BotRoots, BotTrees, store
<1>1. TypeOK'
  BY DEF IInv, TypeOK, Jobs, SaveClosures, At, Goto, catalog, volatile, bounds
<1>2. CatalogInv'
  BY DEF IInv, CatalogInv, JobInv, ProgressInv, SaveClosures, At, Goto, catalog, volatile, bounds
<1>3. OwnerInv'
  BY DEF IInv, OwnerInv, IsQuiet, SaveClosures, At, Goto, catalog, volatile, bounds
<1>4. JobInv'
  BY DEF IInv, JobInv, Listing, NoJob, SaveClosures, At, Goto, catalog, volatile, bounds
<1>5. IntentInv'
  BY <1>0 DEF IInv, IntentInv, JobInv, SaveClosures, At, Goto, catalog, volatile, bounds
<1>6. ProgressInv' /\ DoneInv' /\ OutsideInv'
  BY DEF IInv, ProgressInv, DoneInv, OutsideInv, SaveClosures, At, Goto, catalog, volatile, bounds
<1>7. ChangeInv'
  BY DEF IInv, ChangeInv, Unnamed, NoJob, SaveClosures, store, At, Goto, catalog, volatile, bounds
<1> QED BY <1>1, <1>2, <1>3, <1>4, <1>5, <1>6, <1>7 DEF IInv

(* The trees of the roots that are left are the rows that are left.        *)
LEMMA DeleteRowsStep ==
    ASSUME IInv, DeleteRows PROVE IInv'
<1>0. /\ intent # None /\ job.roots = intent.roots /\ job.ids = intent.ids /\ ~bot
      /\ saved = job.ids \cap rows /\ born \ rows \subseteq closed /\ job # NoJob /\ ~Listing
  BY DEF IInv, JobInv, ProgressInv, Listing, DeleteRows, At, NoJob
<1>a. Tree(ExistingRoots, rows) = intent.ids \cap rows
  <2>1. CASE intent.roots = BotRoots /\ intent.ids = BotTrees
    <3>1. ExistingRoots = BotRoots
      BY <1>0, <2>1 DEF ExistingRoots, BotRoots
    <3> QED BY <2>1, <3>1, RootsInTrees DEF BotTrees
  <2>2. CASE intent.ids \cap rows = {}
    <3>1. ExistingRoots \cap rows = {}
      BY <1>0, <2>2 DEF IInv, IntentInv, ExistingRoots
    <3> QED BY <2>2, <3>1, TreeOfNone
  <2> QED BY <1>0, <2>1, <2>2 DEF IInv, IntentInv
<1>b. rows' = rows \ intent.ids
  BY <1>a DEF DeleteRows
<1>c. Owned \cap rows' = {}
  BY <1>0, <1>b, OwnedInTrees DEF IInv, IntentInv
<1>d. /\ \A s \in rows' : Parent[s] \in rows' \cup {None}
      /\ job' = [job EXCEPT !.pc = "close"]
  BY <1>a, <1>b, TreeChildren DEF IInv, CatalogInv, DeleteRows, Goto
<1>1. TypeOK'
  BY DEF IInv, TypeOK, Jobs, DeleteRows, At, Goto, ExistingRoots, catalog, volatile, bounds
<1>2. CatalogInv'
  BY <1>0, <1>b, <1>d DEF IInv, CatalogInv, DeleteRows, catalog
<1>3. OwnerInv'
  BY <1>0 DEF IInv, OwnerInv, IsQuiet, DeleteRows, At, Goto, ExistingRoots, catalog, volatile,
     bounds
<1>4. JobInv'
  BY DEF IInv, JobInv, Listing, NoJob, DeleteRows, At, Goto, ExistingRoots, catalog, volatile,
     bounds
<1>5. IntentInv'
  BY <1>0, <1>b, <1>c DEF IInv, IntentInv, TypeOK, CatalogInv, DeleteRows, catalog
<1>6. ProgressInv'
  BY <1>0, <1>b, <1>c, <1>d DEF IInv, ProgressInv, TypeOK, Jobs, DeleteRows, catalog, bounds
<1>7. DoneInv'
  BY <1>0 DEF IInv, DoneInv, DeleteRows, At, Goto, ExistingRoots, catalog, volatile, bounds
<1>8. OutsideInv'
  <2>1. ExistingRoots \cap rows \subseteq Tree(Owned, born)
    BY <1>0, TreeRoots DEF IInv, IntentInv, CatalogInv, ExistingRoots
  <2>2. Tree(ExistingRoots, rows) \subseteq Tree(Owned, born)
    BY <2>1, TreeGrows DEF IInv, CatalogInv
  <2> QED BY <2>2 DEF IInv, OutsideInv, DeleteRows
<1>9. ChangeInv'
  BY DEF IInv, ChangeInv, Unnamed, NoJob, DeleteRows, At, Goto, ExistingRoots, catalog, volatile,
     bounds
<1> QED BY <1>1, <1>2, <1>3, <1>4, <1>5, <1>6, <1>7, <1>8, <1>9 DEF IInv

(* The saved facts of rows that are gone are published.                    *)
LEMMA CloseSessionsStep ==
    ASSUME IInv, CloseSessions PROVE IInv'
<1>0. BotRoots' = BotRoots /\ BotTrees' = BotTrees /\ Tree(Owned, born)' = Tree(Owned, born)
  BY DEF CloseSessions, BotRoots, BotTrees, store
<1>1. TypeOK'
  BY DEF IInv, TypeOK, Jobs, CloseSessions, At, Goto, RecoverClosures, catalog, bounds
<1>2. CatalogInv' /\ ProgressInv' /\ DoneInv' /\ OutsideInv'
  BY DEF IInv, CatalogInv, ProgressInv, DoneInv, OutsideInv, CloseSessions, At, Goto,
     RecoverClosures, catalog, bounds
<1>3. OwnerInv'
  BY DEF IInv, OwnerInv, IsQuiet, CloseSessions, At, Goto, RecoverClosures, catalog, bounds
<1>4. JobInv'
  BY DEF IInv, JobInv, Listing, NoJob, CloseSessions, At, Goto, RecoverClosures, catalog, bounds
<1>5. IntentInv'
  BY <1>0 DEF IInv, IntentInv, CloseSessions, At, Goto, RecoverClosures, catalog, bounds
<1>6. ChangeInv'
  BY DEF IInv, ChangeInv, Unnamed, NoJob, CloseSessions, store, At, Goto, RecoverClosures,
     catalog, bounds
<1> QED BY <1>1, <1>2, <1>3, <1>4, <1>5, <1>6 DEF IInv

(* What is not in the list of directories is a fork.                       *)
LEMMA StageFilesStep ==
    ASSUME IInv, StageFiles PROVE IInv'
<1>0. BotRoots' = BotRoots /\ BotTrees' = BotTrees /\ Tree(Owned, born)' = Tree(Owned, born)
  BY DEF StageFiles, BotRoots, BotTrees, store
<1>1. TypeOK'
  BY DEF IInv, TypeOK, Jobs, StageFiles, At, Goto, Fault, Staged, catalog, store
<1>2. CatalogInv' /\ OutsideInv'
  BY DEF IInv, CatalogInv, OutsideInv, StageFiles, At, Goto, Fault, Staged, catalog, store
<1>3. OwnerInv'
  BY DEF IInv, OwnerInv, IsQuiet, StageFiles, At, Goto, Fault, Staged, catalog, store
<1>4. JobInv'
  BY DEF IInv, JobInv, Listing, NoJob, StageFiles, At, Goto, Fault, Staged, catalog, store
<1>5. IntentInv'
  BY <1>0 DEF IInv, IntentInv, StageFiles, At, Goto, Fault, Staged, catalog, store
<1>6. ProgressInv'
  BY DEF IInv, ProgressInv, TypeOK, JobInv, IntentInv, StageFiles, At, Goto, Fault, Staged, catalog,
     store
<1>7. DoneInv'
  BY DEF IInv, DoneInv, TypeOK, StageFiles, At, Goto, Fault, Staged, catalog, store
<1>8. ChangeInv'
  BY DEF IInv, ChangeInv, Unnamed, NoJob, StageFiles, store, At, Goto, Fault, catalog
<1> QED BY <1>1, <1>2, <1>3, <1>4, <1>5, <1>6, <1>7, <1>8 DEF IInv

(* The instruction files are those the intent names.                       *)
LEMMA FinishStep ==
    ASSUME IInv, Finish PROVE IInv'
<1>0. BotRoots' = BotRoots /\ BotTrees' = BotTrees /\ Tree(Owned, born)' = Tree(Owned, born)
  BY DEF Finish, BotRoots, BotTrees, store
<1>1. TypeOK'
  BY DEF IInv, TypeOK, Jobs, Finish, At, Goto, catalog, store, volatile, bounds
<1>2. CatalogInv'
  BY DEF IInv, CatalogInv, ProgressInv, Finish, At, Goto, catalog, store, volatile, bounds
<1>3. OwnerInv'
  BY DEF IInv, OwnerInv, IsQuiet, Finish, At, Goto, catalog, store, volatile, bounds
<1>4. JobInv'
  BY DEF IInv, JobInv, Listing, NoJob, Finish, At, Goto, catalog, store, volatile, bounds
<1>5. IntentInv'
  BY <1>0 DEF IInv, IntentInv, Finish, At, Goto, catalog, store, volatile, bounds
<1>6. ProgressInv'
  BY DEF IInv, ProgressInv, JobInv, IntentInv, Finish, At, Goto, catalog, store, volatile, bounds
<1>7. DoneInv' /\ OutsideInv'
  BY DEF IInv, DoneInv, OutsideInv, Finish, At, Goto, catalog, store, volatile, bounds
<1>8. ChangeInv'
  BY DEF IInv, ChangeInv, Unnamed, NoJob, Finish, store, At, Goto, catalog, volatile, bounds
<1> QED BY <1>1, <1>2, <1>3, <1>4, <1>5, <1>6, <1>7, <1>8 DEF IInv

(* The intent is given up only when all is done.                           *)
LEMMA ClearIntentStep ==
    ASSUME IInv, ClearIntent PROVE IInv'
<1>1. TypeOK'
  BY DEF IInv, TypeOK, Jobs, NoJob, ClearIntent, At, store, bounds
<1>2. CatalogInv' /\ DoneInv'
  BY DEF IInv, CatalogInv, DoneInv, ProgressInv, ClearIntent, At, store, bounds
<1>3. OwnerInv'
  BY DEF IInv, OwnerInv, IsQuiet, ClearIntent, At, store, bounds
<1>4. JobInv'
  BY DEF IInv, JobInv, Listing, NoJob, ClearIntent, At, store, bounds
<1>5. IntentInv' /\ OutsideInv'
  BY DEF IInv, IntentInv, OutsideInv, ClearIntent, At, store, bounds
<1>6. ProgressInv'
  BY DEF IInv, ProgressInv, NoJob, ClearIntent, At, store, bounds
<1>7. ChangeInv'
  BY DEF IInv, ChangeInv, Unnamed, NoJob, ClearIntent, At, store, bounds
<1> QED BY <1>1, <1>2, <1>3, <1>4, <1>5, <1>6, <1>7 DEF IInv

(* A failed write ends the attempt and keeps the intent.                   *)
LEMMA WriteFailsStep ==
    ASSUME IInv, WriteFails PROVE IInv'
<1>0. BotRoots' = BotRoots /\ BotTrees' = BotTrees /\ Tree(Owned, born)' = Tree(Owned, born)
  BY DEF WriteFails, BotRoots, BotTrees, store
<1>1. TypeOK'
  BY DEF IInv, TypeOK, Jobs, NoJob, WriteFails, Fault, Abandon, catalog, store
<1>2. CatalogInv' /\ OutsideInv'
  BY DEF IInv, CatalogInv, OutsideInv, WriteFails, Fault, Abandon, catalog, store
<1>3. OwnerInv'
  BY DEF IInv, OwnerInv, IsQuiet, WriteFails, Fault, Abandon, catalog, store
<1>4. JobInv'
  BY DEF IInv, JobInv, Listing, NoJob, WriteFails, Fault, Abandon, catalog, store
<1>5. IntentInv'
  BY <1>0 DEF IInv, IntentInv, WriteFails, Fault, Abandon, catalog, store
<1>6. ProgressInv'
  BY DEF IInv, ProgressInv, NoJob, WriteFails, Fault, Abandon, catalog, store
<1>7. DoneInv'
  BY DEF IInv, DoneInv, TypeOK, WriteFails, Fault, Abandon, catalog, store
<1>8. ChangeInv'
  BY DEF IInv, ChangeInv, Unnamed, NoJob, WriteFails, store, Fault, Abandon, catalog
<1> QED BY <1>1, <1>2, <1>3, <1>4, <1>5, <1>6, <1>7, <1>8 DEF IInv

(* A crash ends the job and keeps what is on disk.                         *)
LEMMA CrashStep ==
    ASSUME IInv, Crash PROVE IInv'
<1>0. BotRoots' = BotRoots /\ BotTrees' = BotTrees /\ Tree(Owned, born)' = Tree(Owned, born)
  BY DEF Crash, BotRoots, BotTrees, store
<1>1. TypeOK'
  <2>1. job' \in Jobs
    BY DEF Crash, NoJob, Jobs
  <2>2. owner' \in [Sessions -> {"none", "starting", "idle", "busy", "stopped"}]
    BY DEF Crash
  <2>3. crashes' \in Nat
    BY DEF Crash, IInv, TypeOK
  <2> QED
    BY <2>1, <2>2, <2>3 DEF IInv, TypeOK, NoChange, Changes, Unnamed, Crash, catalog, store
<1>2. CatalogInv' /\ DoneInv' /\ OutsideInv'
  BY DEF IInv, CatalogInv, DoneInv, OutsideInv, Crash, catalog, store
<1>3. OwnerInv'
  BY DEF IInv, OwnerInv, IsQuiet, Crash, catalog, store
<1>4. JobInv'
  BY DEF IInv, JobInv, Listing, NoJob, Crash, catalog, store
<1>5. IntentInv'
  BY <1>0 DEF IInv, IntentInv, Crash, catalog, store
<1>6. ProgressInv'
  BY DEF IInv, ProgressInv, NoJob, Crash, catalog, store
<1>7. ChangeInv'
  BY DEF IInv, ChangeInv, Unnamed, NoChange, Crash, store, catalog
<1> QED BY <1>1, <1>2, <1>3, <1>4, <1>5, <1>6, <1>7 DEF IInv

(* What an interrupted attempt saved is published now.                     *)
LEMMA RestartStep ==
    ASSUME IInv, Restart PROVE IInv'
<1>0. BotRoots' = BotRoots /\ BotTrees' = BotTrees /\ Tree(Owned, born)' = Tree(Owned, born)
  BY DEF Restart, BotRoots, BotTrees, store
<1>1. TypeOK'
  BY DEF IInv, TypeOK, Intents, Jobs, Restart, RecoverClosures, Reconciles, Refuses, catalog, bounds
<1>2. CatalogInv' /\ DoneInv' /\ OutsideInv'
  BY DEF IInv, CatalogInv, DoneInv, OutsideInv, Restart, RecoverClosures, Reconciles, Refuses,
     catalog, bounds
<1>3. OwnerInv'
  BY DEF IInv, OwnerInv, IsQuiet, Restart, RecoverClosures, Reconciles, Refuses, catalog, bounds
<1>4. JobInv'
  BY <1>0 DEF IInv, JobInv, Listing, NoJob, Restart, RecoverClosures, Reconciles, Refuses, catalog,
     bounds
<1>5. IntentInv'
  BY <1>0 DEF IInv, IntentInv, Restart, RecoverClosures, Reconciles, Refuses, catalog, bounds
<1>6. ProgressInv'
  BY DEF IInv, ProgressInv, JobInv, Restart, RecoverClosures, Reconciles, Refuses, catalog, bounds
<1>7. ChangeInv'
  BY DEF IInv, ChangeInv, Unnamed, NoJob, Restart, store, RecoverClosures, Reconciles, catalog,
     bounds
<1> QED BY <1>1, <1>2, <1>3, <1>4, <1>5, <1>6, <1>7 DEF IInv

-----------------------------------------------------------------------------
(* The theorems.                                                           *)

(* Nothing is under way at first.                                         *)
LEMMA InitInv == Init => IInv
<1> SUFFICES ASSUME Init PROVE IInv
  OBVIOUS
<1>1. /\ rows \subseteq Sessions /\ born = rows
      /\ \A s \in rows : Parent[s] \in rows \cup {None}
  BY DeletionAssumption DEF Init
<1>2. TypeOK
  BY <1>1 DEF Init, TypeOK, NoJob, Jobs, NoChange, Changes
<1>3. CatalogInv /\ ChangeInv /\ OwnerInv /\ IntentInv /\ DoneInv
  BY <1>1 DEF Init, CatalogInv, ChangeInv, NoChange, OwnerInv, IntentInv, DoneInv, IsQuiet
<1>4. JobInv /\ ProgressInv
  BY <1>1 DEF Init, JobInv, ProgressInv, NoJob, Listing
<1>5. OutsideInv
  BY <1>1 DEF OutsideInv
<1> QED BY <1>2, <1>3, <1>4, <1>5 DEF IInv

(* Nothing changes.                                                        *)
LEMMA StutterStep ==
    ASSUME IInv, UNCHANGED vars PROVE IInv'
BY DEF vars, catalog, store, volatile, bounds, IInv, TypeOK, CatalogInv, ChangeInv, Unnamed,
   OwnerInv,
       JobInv, IntentInv, ProgressInv, DoneInv, OutsideInv, BotTrees, BotRoots, IsQuiet, Listing

(* Every step of the system.                                               *)
LEMMA StepInv ==
    IInv /\ [Next]_vars => IInv'
<1> SUFFICES ASSUME IInv, [Next]_vars PROVE IInv'
  OBVIOUS
<1>1. CASE \/ \E s \in Sessions : Reserve(s) \/ Started(s) \/ StartFails(s) \/ CleanUp(s)
           \/ \E s \in Sessions : Work(s) \/ Fork(s) \/ EndTurn(s)
  BY <1>1, ReserveStep, StartedStep, StartFailsStep, WorkStep, ForkStep, EndTurnStep, CleanUpStep
<1>2. CASE \/ \E r \in Routines, old \in Routines \cup {None} : PublishInstructions(r, old)
           \/ \E r \in Routines : DeleteRoutine(r) \/ BeginRun(r) \/ FinishRun(r)
           \/ CommitRoutine \/ DropFile
  BY <1>2, PublishInstructionsStep, CommitRoutineStep, DeleteRoutineStep, DropFileStep,
     BeginRunStep,
     FinishRunStep
<1>3. CASE BeginDelete \/ BeginReconcile \/ WriteFails \/ Crash \/ Restart
  BY <1>3, BeginDeleteStep, BeginReconcileStep, WriteFailsStep, CrashStep, RestartStep
<1>4. CASE JobStep
  BY <1>4, StopOwnerStep, RejectStep, RecordStep, ResumeStep, DeleteRecordsStep,
     RemoveInstructionsStep, BeginTreesStep, SaveClosuresStep, DeleteRowsStep, CloseSessionsStep,
     StageFilesStep, FinishStep, ClearIntentStep DEF JobStep
<1>5. CASE UNCHANGED vars
  BY <1>5, StutterStep
<1> QED BY <1>1, <1>2, <1>3, <1>4, <1>5 DEF Next

(* The inductive invariant holds in every reachable state.                 *)
THEOREM Inductive == Spec => []IInv
BY InitInv, StepInv, PTL DEF Spec

(* Every variable keeps its type.                                          *)
THEOREM TypeCorrect == Spec => []TypeOK
<1>1. IInv => TypeOK
  BY DEF IInv
<1> QED BY <1>1, Inductive, PTL

(* The deletion of a Bot (delete_bot and reconcile_pending_bot_deletion of *)
(* host/deletion.rs) takes everything of the Bot and nothing else, however *)
(* many sessions and routines there are, wherever writes fail and however  *)
(* often the process dies and resumes it.                                  *)
THEOREM DeletionSafety == Spec => []DeletedIsWhole
<1>1. ASSUME IInv PROVE DeletedIsWhole
  <2>1. ~bot => \A s \in Owned : owner[s] \in {"none", "stopped"}
    BY <1>1, DeletionAssumption DEF IInv, OwnerInv, IsQuiet
  <2>2. Owned \cap rows = {} => BotTrees = {}
    BY TreeOfNone DEF BotTrees, BotRoots
  <2>3. ~bot /\ intent = None =>
          /\ Owned \cap rows = {} /\ routines = {} /\ instructions \subseteq stray /\ saved = {}
          /\ \A s \in born \ rows : s \in closed
          /\ faults = 0 => \A s \in born \ rows : files[s] = "live" => Parent[s] \in Owned
    BY <1>1 DEF IInv, CatalogInv, DoneInv
  <2>4. \A s \in born \ rows : s \in Tree(Owned, born)
    BY <1>1 DEF IInv, OutsideInv
  <2> QED BY <2>1, <2>2, <2>3, <2>4 DEF DeletedIsWhole
<1> QED BY <1>1, Inductive, PTL

=============================================================================
