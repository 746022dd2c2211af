----------------------- MODULE SessionRegistry_proofs -----------------------
(***************************************************************************)
(* Proofs about SessionRegistry, for any chats, requests, actors and       *)
(* capacity.                                                               *)
(*                                                                         *)
(* The argument turns on the capacity gate.  Whoever holds it is the only  *)
(* one that adds a chat to the registry, so the registry, the chat it has  *)
(* in its hands and the chats a takeover drains are all the places where a *)
(* running agent of a chat can be (OwnersInv).                             *)
(***************************************************************************)
EXTENDS SessionRegistry, FiniteSetTheorems, TLAPS

(* A registered actor was started, for the session it is registered under; *)
(* its agent is no longer in the hands of a start and was not left by one. *)
RegistryInv ==
    /\ \A o \in Owners : phase[o] # "new" => session[o] \in Sessions
    /\ \A s \in Sessions :
         registry[s] # None => session[registry[s]] = s /\ phase[registry[s]] \notin {"new", "spawned", "left"}

(* Who is where: the gate has one holder, a start is reserved until it is  *)
(* over, and a request is counted as a reader until its start is reserved. *)
GateInv ==
    /\ \A c \in Clients : pc[c] \in GateLabels <=> gate = c
    /\ gate = "takeover" <=> drain = "draining"
    /\ \A c \in Clients : pc[c] \in StartLabels => target[c] \in starting
    /\ \A c \in Clients :
         pc[c] \in {"load", "gate", "room", "evict", "reserve"} \cup OutLabels => c \in readers

(* What a request asks for.                                                *)
TargetInv ==
    \A c \in Clients :
        /\ pc[c] # "idle" => target[c] \in Sessions
        /\ op[c] \in {"routine", "preview"} => target[c] \in Routines
        /\ pc[c] \in {"accept", "cleanup", "discarding", "unlist"} => op[c] = "routine"
        /\ pc[c] \in {"previewing", "lingering"} => op[c] \in {"routine", "preview"}

(* The chat a request has in its hands: the one of its own session, or one *)
(* it took out of the registry, whose place then stays empty.              *)
HandleInv ==
    \A c \in Clients :
        /\ handle[c] # None => phase[handle[c]] \notin {"new", "left"}
        /\ handle[c] # None /\ phase[handle[c]] = "spawned" => pc[c] = "loading"
        /\ pc[c] = "loading" => handle[c] # None /\ session[handle[c]] = target[c] /\ phase[handle[c]] = "spawned"
        /\ pc[c] \in {"accept", "cleanup", "discarding", "lingering", "previewing", "started",
                      "checked", "abandoning"} => handle[c] # None /\ session[handle[c]] = target[c]
        /\ pc[c] \in OutLabels => handle[c] # None /\ registry[session[handle[c]]] = None
        /\ pc[c] \in {"started", "checked"} => registry[target[c]] # handle[c]

(* A running agent of a chat is registered, in the hands of the holder of  *)
(* the gate, or being drained.                                             *)
InHand(o) ==
    gate \in Clients /\ pc[gate] \in OutLabels \cup {"loading", "started", "checked", "abandoning"} /\ handle[gate] = o

OwnersInv ==
    \A o \in Owners :
        Live(o) /\ session[o] \notin Routines =>
            registry[session[o]] = o \/ InHand(o) \/ o \in draining

(* A chat is started only when no agent of it runs.                        *)
StartInv ==
    \A c \in Clients, o \in Owners :
        pc[c] \in StartLabels /\ Live(o) /\ session[o] = target[c] /\ target[c] \notin Routines =>
            pc[c] # "starting" /\ handle[c] = o

(* A registered chat that agreed to stop is the one a deletion waits for:  *)
(* nobody takes its place in the registry while its agent shuts down.      *)
QuitInv ==
    /\ \A s \in Sessions \ Routines :
         registry[s] # None /\ phase[registry[s]] = "quitting" =>
            dpc = "stop" /\ victim = registry[s] /\ s \in doomed
    /\ \A c \in Clients :
         pc[c] \in {"putback", "started", "checked"} /\ session[handle[c]] \notin Routines =>
            phase[handle[c]] # "quitting"

(* A deletion excludes the requests that were admitted before it.          *)
DeletionInv ==
    /\ dpc = "stop" <=> stateLock = "deletion"
    /\ dpc = "stop" <=> writer = TRUE
    /\ dpc = "stop" => readers = {} /\ doomed \cap starting = {}

(* A takeover keeps the registry empty while it drains, and the gate shut  *)
(* for requests afterwards.                                                *)
DrainInv ==
    /\ held = TRUE <=> drain # "none"
    /\ drain \in {"drained", "granted"} => gate = None
    /\ drain = "draining" => \A s \in Sessions : registry[s] = None
    /\ drain # "draining" => draining = {}

Registered == {s \in Sessions : registry[s] # None}

(* The place of a chat that was taken out to be stopped stays free.        *)
CapacityInv ==
    /\ IsFiniteSet(Registered) /\ IsFiniteSet(starting)
    /\ CapacityBound
    /\ \A c \in Clients : pc[c] \in OutLabels => ResidentSessions < Capacity

ControlInv == TypeOK /\ RegistryInv /\ GateInv /\ TargetInv /\ HandleInv /\ DeletionInv /\ DrainInv

IInv == ControlInv /\ QuitInv /\ StartInv /\ OwnersInv /\ OneOwner /\ DeletedIsUnowned /\ NoActorBehindDrain

-----------------------------------------------------------------------------
(* Types.                                                                  *)

LEMMA InitControl == Init => ControlInv
<1> SUFFICES ASSUME Init PROVE ControlInv
  OBVIOUS
<1> USE RegistryAssumption DEF Init, Phases, Labels, GateLabels, OutLabels, StartLabels
<1>1. TypeOK
  BY DEF TypeOK
<1>2. RegistryInv
  BY DEF RegistryInv
<1>3. GateInv /\ TargetInv /\ HandleInv
  BY DEF GateInv, TargetInv, HandleInv
<1>4. DeletionInv
  BY DEF DeletionInv
<1>5. DrainInv
  BY DEF DrainInv
<1> QED
  BY <1>1, <1>2, <1>3, <1>4, <1>5 DEF ControlInv

LEMMA TypesKept == ControlInv /\ [Next]_vars => TypeOK'
<1> SUFFICES ASSUME ControlInv, [Next]_vars PROVE TypeOK'
  OBVIOUS
<1> USE DEF ControlInv, TypeOK, Phases, Labels, GateLabels, OutLabels, StartLabels, requests, owners, locks,
            deletion, takeover
<1>1. ASSUME NEW c \in Clients, Load(c) \/ CreateUnstarted(c) \/ CreateRejected(c) PROVE TypeOK'
  BY <1>1 DEF Load, CreateUnstarted, CreateRejected, Goto
<1>2. ASSUME NEW c \in Clients, TakeGate(c) \/ Room(c) PROVE TypeOK'
  <2>1. CASE TakeGate(c)
    BY <2>1 DEF TakeGate, Goto
  <2>2. CASE Room(c)
    BY <2>2 DEF Room, Goto
  <2> QED
    BY <1>2, <2>1, <2>2
<1>3. ASSUME NEW c \in Clients, Asked(c) PROVE TypeOK'
  <2>1. phase' \in [Owners -> Phases] /\ pc' \in [Clients -> Labels]
    BY <1>3 DEF Asked, Goto, StopIfIdle
  <2> QED
    BY <1>3, <2>1 DEF Asked
<1>4. ASSUME NEW c \in Clients, Evicted(c) \/ PutBack(c) \/ Exhausted(c) PROVE TypeOK'
  <2>1. CASE Evicted(c)
    BY <2>1 DEF Evicted, Goto
  <2>2. CASE PutBack(c)
    BY <2>2 DEF PutBack, Goto
  <2>3. CASE Exhausted(c)
    <3>1. /\ pc' \in [Clients -> Labels] /\ readers' \subseteq Clients
          /\ gate' \in Clients \cup {None, "takeover"}
      BY <2>3 DEF Exhausted, Goto, Leave
    <3>2. todo' \in [Clients -> SUBSET Sessions] /\ retried' \in [Clients -> BOOLEAN]
      BY <2>3 DEF Exhausted, Leave
    <3> QED
      BY <2>3, <3>1, <3>2 DEF Exhausted
  <2> QED
    BY <1>4, <2>1, <2>2, <2>3
<1>5. ASSUME NEW c \in Clients, NEW s \in Sessions, Evict(c, s) PROVE TypeOK'
  BY <1>5 DEF Evict, Goto
<1>6. ASSUME NEW c \in Clients, Reserve(c) PROVE TypeOK'
  <2>1. /\ starting' \subseteq Sessions /\ registry' \in [Sessions -> Owners \cup {None}]
        /\ handle' \in [Clients -> Owners \cup {None}] /\ pc' \in [Clients -> Labels]
    BY <1>6 DEF Reserve, Goto, Leave, TargetInv
  <2>2. /\ gate' \in Clients \cup {None, "takeover"} /\ readers' \subseteq Clients
        /\ todo' \in [Clients -> SUBSET Sessions] /\ retried' \in [Clients -> BOOLEAN]
    BY <1>6 DEF Reserve, Leave
  <2> QED
    BY <1>6, <2>1, <2>2 DEF Reserve
<1>7. ASSUME NEW c \in Clients, StartFails(c) \/ Start(c) \/ StartDropped(c) \/ Check(c) \/ Publish(c) \/ Abandon(c)
                               \/ Abandoned(c)
      PROVE  TypeOK'
  <2>1. CASE StartFails(c)
    BY <2>1 DEF StartFails, Goto, Leave, TargetInv
  <2>2. CASE Publish(c)
    BY <2>2 DEF Publish, Goto, Leave
  <2>3. CASE Abandon(c)
    BY <2>3 DEF Abandon, Goto, Leave
  <2>4. CASE Abandoned(c)
    BY <2>4 DEF Abandoned, Goto, Leave
  <2>5. CASE Start(c)
    BY <2>5 DEF Start, Goto
  <2>6. CASE StartDropped(c)
    BY <2>6 DEF StartDropped, Goto, Leave
  <2>7. CASE Check(c)
    BY <2>7 DEF Check, Goto
  <2> QED
    BY <1>7, <2>1, <2>2, <2>3, <2>4, <2>5, <2>6, <2>7
<1>8. ASSUME NEW c \in Clients, NEW o \in Owners, Spawn(c, o) PROVE TypeOK'
  BY <1>8 DEF Spawn, Goto, TargetInv
<1>9. ASSUME NEW c \in Clients, PreviewRead(c) \/ Accept(c) \/ RunEnded(c) \/ Lingered(c) \/ Unlist(c) PROVE TypeOK'
  <2>1. CASE PreviewRead(c)
    <3>1. phase' \in [Owners -> Phases]
      BY <2>1 DEF PreviewRead, StopIfIdle
    <3>2. pc' \in [Clients -> Labels] /\ handle' \in [Clients -> Owners \cup {None}]
      BY <2>1 DEF PreviewRead, Goto
    <3> QED
      BY <2>1, <3>1, <3>2 DEF PreviewRead
  <2>2. CASE Accept(c)
    <3>1. pc' \in [Clients -> Labels] /\ busy' \in [Owners -> BOOLEAN]
      BY <2>2 DEF Accept, Goto
    <3> QED
      BY <2>2, <3>1 DEF Accept
  <2>3. CASE RunEnded(c)
    <3>1. pc' \in [Clients -> Labels]
      BY <2>3 DEF RunEnded, Goto
    <3> QED
      BY <2>3, <3>1 DEF RunEnded
  <2>4. CASE Lingered(c)
    <3>1. pc' \in [Clients -> Labels] /\ handle' \in [Clients -> Owners \cup {None}]
      BY <2>4 DEF Lingered, Goto
    <3> QED
      BY <2>4, <3>1 DEF Lingered
  <2>5. CASE Unlist(c)
    <3>1. /\ pc' \in [Clients -> Labels] /\ handle' \in [Clients -> Owners \cup {None}]
          /\ registry' \in [Sessions -> Owners \cup {None}]
      BY <2>5 DEF Unlist, Goto
    <3> QED
      BY <2>5, <3>1 DEF Unlist
  <2> QED
    BY <1>9, <2>1, <2>2, <2>3, <2>4, <2>5
<1>10. ASSUME NEW c \in Clients, Request(c) PROVE TypeOK'
  <2>1. ASSUME NEW s \in Sessions, NEW kind \in {"open", "preview"}, Authorize(c, s, kind) PROVE TypeOK'
    BY <2>1 DEF Authorize, Goto
  <2>2. ASSUME NEW s \in Sessions, NEW kind \in {"create", "routine"}, Create(c, s, kind) PROVE TypeOK'
    BY <2>2 DEF Create, Goto
  <2>3. CASE Submit(c)
    BY <2>3 DEF Submit, Goto
  <2>4. CASE Close(c)
    BY <2>4 DEF Close, Goto
  <2> QED
    BY <1>10, <2>1, <2>2, <2>3, <2>4 DEF Request
<1>11. ASSUME NEW o \in Owners, Actor(o) PROVE TypeOK'
  <2>1. CASE EndTurn(o)
    BY <2>1 DEF EndTurn
  <2>2. CASE Wake(o)
    BY <2>2 DEF Wake
  <2>3. CASE Stop(o)
    BY <2>3 DEF Stop
  <2>4. CASE Terminate(o)
    BY <2>4 DEF Terminate
  <2>5. CASE ShutDown(o)
    BY <2>5 DEF ShutDown
  <2>6. CASE Save(o)
    BY <2>6 DEF Save, Executes, Live, RegistryInv
  <2> QED
    BY <1>11, <2>1, <2>2, <2>3, <2>4, <2>5, <2>6 DEF Actor
<1>12. ASSUME NEW D \in SUBSET Sessions, BeginDelete(D) PROVE TypeOK'
  BY <1>12 DEF BeginDelete
<1>13. ASSUME NEW s \in Sessions, StopResident(s) PROVE TypeOK'
  BY <1>13 DEF StopResident, StopIfIdle, EndDelete, Residents
<1>14. CASE Delete
  BY <1>14 DEF Delete, EndDelete
<1>15. CASE BeginTakeover \/ TakeResidents \/ Drained \/ Grant \/ Release
  <2>1. CASE TakeResidents
    BY <2>1 DEF TakeResidents
  <2>2. CASE BeginTakeover \/ Drained \/ Grant \/ Release
    BY <2>2 DEF BeginTakeover, Drained, Grant, Release
  <2> QED
    BY <1>15, <2>1, <2>2
<1>16. CASE UNCHANGED vars
  BY <1>16 DEF vars
<1> QED
  BY <1>1, <1>2, <1>3, <1>4, <1>5, <1>6, <1>7, <1>8, <1>9, <1>10, <1>11, <1>12, <1>13, <1>14, <1>15, <1>16
     DEF Next, Step

-----------------------------------------------------------------------------
(* The parts of ControlInv.                                                *)

(* What a step does to the registry and to the actors: an actor is made    *)
(* only by Spawn, of a new owner.                                          *)
LEMMA RegistryKept == ControlInv /\ [Next]_vars => RegistryInv'
<1> SUFFICES ASSUME ControlInv, [Next]_vars PROVE RegistryInv'
  OBVIOUS
<1> USE RegistryAssumption DEF ControlInv, TypeOK, RegistryInv, requests, owners, OutLabels
<1>1. ASSUME NEW c \in Clients,
             \/ Load(c) \/ CreateUnstarted(c) \/ CreateRejected(c) \/ TakeGate(c) \/ Room(c) \/ Check(c) \/ Evicted(c)
             \/ Exhausted(c) \/ StartFails(c) \/ Abandoned(c) \/ Accept(c) \/ RunEnded(c) \/ Lingered(c)
             \/ Submit(c) \/ Close(c)
      PROVE  RegistryInv'
  BY <1>1 DEF Load, CreateUnstarted, CreateRejected, TakeGate, Room, Check, Evicted, Exhausted, StartFails, Abandoned,
              Accept, RunEnded, Lingered, Submit, Close
<1>2. ASSUME NEW c \in Clients, Asked(c) \/ Abandon(c) \/ PreviewRead(c) PROVE RegistryInv'
  BY <1>2 DEF Asked, Abandon, PreviewRead, StopIfIdle, HandleInv
<1>3. ASSUME NEW c \in Clients, Unlist(c) PROVE RegistryInv'
  BY <1>3 DEF Unlist
<1>4. ASSUME NEW c \in Clients, NEW s \in Sessions, Evict(c, s) PROVE RegistryInv'
  BY <1>4 DEF Evict
<1>5. ASSUME NEW c \in Clients, PutBack(c) PROVE RegistryInv'
  BY <1>5 DEF PutBack, HandleInv
<1>6. ASSUME NEW c \in Clients, Reserve(c) PROVE RegistryInv'
  BY <1>6 DEF Reserve
<1>7. ASSUME NEW c \in Clients, Publish(c) PROVE RegistryInv'
  BY <1>7 DEF Publish, HandleInv
<1>8. ASSUME NEW c \in Clients, NEW o \in Owners, Spawn(c, o) PROVE RegistryInv'
  BY <1>8 DEF Spawn, TargetInv
<1>9. ASSUME NEW c \in Clients, NEW s \in Sessions, NEW kind, Authorize(c, s, kind) \/ Create(c, s, kind)
      PROVE  RegistryInv'
  BY <1>9 DEF Authorize, Create
<1>10. ASSUME NEW o \in Owners, Actor(o) PROVE RegistryInv'
  BY <1>10 DEF Actor, EndTurn, Wake, Stop, Terminate, ShutDown, Save
<1>11. ASSUME NEW s \in Sessions, StopResident(s) PROVE RegistryInv'
  BY <1>11 DEF StopResident, StopIfIdle
<1>12. CASE Delete \/ TakeResidents
  BY <1>12 DEF Delete, TakeResidents
<1>13. CASE (\E D \in SUBSET Sessions : BeginDelete(D)) \/ BeginTakeover \/ Drained \/ Grant \/ Release
  BY <1>13 DEF BeginDelete, BeginTakeover, Drained, Grant, Release
<1>14. CASE UNCHANGED vars
  BY <1>14 DEF vars
<1>15. ASSUME NEW c \in Clients, Start(c) \/ StartDropped(c) PROVE RegistryInv'
  BY <1>15 DEF Start, StartDropped, HandleInv
<1> QED
  BY <1>1, <1>2, <1>3, <1>4, <1>5, <1>6, <1>7, <1>8, <1>9, <1>10, <1>11, <1>12, <1>13, <1>14,
     <1>15 DEF Next, Step, Request

(* The gate: only one request is past it.                                  *)
LEMMA GateKept == ControlInv /\ [Next]_vars => GateInv'
<1> SUFFICES ASSUME ControlInv, [Next]_vars PROVE GateInv'
  OBVIOUS
<1> USE RegistryAssumption DEF ControlInv, TypeOK, GateInv, requests, locks, takeover, Labels, GateLabels,
                               OutLabels, StartLabels
<1>1. ASSUME NEW c \in Clients, Load(c) \/ CreateUnstarted(c) \/ CreateRejected(c) PROVE GateInv'
  BY <1>1 DEF Load, CreateUnstarted, CreateRejected, Goto
<1>2. ASSUME NEW c \in Clients, TakeGate(c) PROVE GateInv'
  BY <1>2 DEF TakeGate, Goto
<1>3. ASSUME NEW c \in Clients, Room(c) \/ Check(c) \/ Asked(c) PROVE GateInv'
  BY <1>3 DEF Room, Check, Asked, Goto
<1>4. ASSUME NEW c \in Clients, Evicted(c) \/ PutBack(c) PROVE GateInv'
  BY <1>4 DEF Evicted, PutBack, Goto
<1>5. ASSUME NEW c \in Clients, Exhausted(c) PROVE GateInv'
  BY <1>5 DEF Exhausted, Goto, Leave
<1>6. ASSUME NEW c \in Clients, NEW s \in Sessions, Evict(c, s) PROVE GateInv'
  BY <1>6 DEF Evict, Goto
<1>7. ASSUME NEW c \in Clients, Reserve(c) PROVE GateInv'
  BY <1>7 DEF Reserve, Goto, Leave
<1>8. ASSUME NEW c \in Clients, StartFails(c) \/ StartDropped(c) \/ Publish(c) \/ Abandoned(c) PROVE GateInv'
  BY <1>8 DEF StartFails, StartDropped, Publish, Abandoned, Goto, Leave
<1>9. ASSUME NEW c \in Clients, Abandon(c) \/ Start(c) \/ \E o \in Owners : Spawn(c, o) PROVE GateInv'
  BY <1>9 DEF Abandon, Start, Spawn, Goto
<1>10. ASSUME NEW c \in Clients, PreviewRead(c) \/ Accept(c) \/ RunEnded(c) \/ Lingered(c) \/ Unlist(c)
       PROVE  GateInv'
  BY <1>10 DEF PreviewRead, Accept, RunEnded, Lingered, Unlist, Goto
<1>11. ASSUME NEW c \in Clients, NEW s \in Sessions, NEW kind, Authorize(c, s, kind) \/ Create(c, s, kind)
       PROVE  GateInv'
  BY <1>11 DEF Authorize, Create, Goto
<1>12. ASSUME NEW c \in Clients, Submit(c) \/ Close(c) PROVE GateInv'
  BY <1>12 DEF Submit, Close, Goto
<1>13. ASSUME NEW o \in Owners, Actor(o) PROVE GateInv'
  BY <1>13 DEF Actor, EndTurn, Wake, Stop, Terminate, ShutDown, Save
<1>14. CASE Delete \/ (\E D \in SUBSET Sessions : BeginDelete(D)) \/ (\E s \in Sessions : StopResident(s))
  BY <1>14 DEF Delete, BeginDelete, StopResident
<1>15. CASE BeginTakeover \/ TakeResidents \/ Drained \/ Grant \/ Release
  BY <1>15 DEF BeginTakeover, TakeResidents, Drained, Grant, Release, DrainInv
<1>16. CASE UNCHANGED vars
  BY <1>16 DEF vars
<1> QED
  BY <1>1, <1>2, <1>3, <1>4, <1>5, <1>6, <1>7, <1>8, <1>9, <1>10, <1>11, <1>12, <1>13, <1>14, <1>15, <1>16
     DEF Next, Step, Request

(* The session of a request and what the request is for.                   *)
LEMMA TargetKept == ControlInv /\ [Next]_vars => TargetInv'
<1> SUFFICES ASSUME ControlInv, [Next]_vars PROVE TargetInv'
  OBVIOUS
<1> USE DEF ControlInv, TypeOK, TargetInv, requests, Labels, GateLabels, OutLabels, StartLabels
<1>1. ASSUME NEW c \in Clients, Load(c) \/ CreateUnstarted(c) \/ CreateRejected(c) \/ TakeGate(c) \/ Room(c) \/ Check(c)
      PROVE  TargetInv'
  BY <1>1 DEF Load, CreateUnstarted, CreateRejected, TakeGate, Room, Check, Goto
<1>2. ASSUME NEW c \in Clients, Asked(c) \/ Evicted(c) \/ PutBack(c) PROVE TargetInv'
  BY <1>2 DEF Asked, Evicted, PutBack, Goto
<1>3. ASSUME NEW c \in Clients, Exhausted(c) \/ \E s \in Sessions : Evict(c, s) PROVE TargetInv'
  BY <1>3 DEF Exhausted, Evict, Goto, Leave
<1>4. ASSUME NEW c \in Clients, Reserve(c) PROVE TargetInv'
  BY <1>4 DEF Reserve, Goto, Leave
<1>5. ASSUME NEW c \in Clients, StartFails(c) \/ StartDropped(c) \/ Publish(c) \/ Abandoned(c) PROVE TargetInv'
  BY <1>5 DEF StartFails, StartDropped, Publish, Abandoned, Goto, Leave
<1>6. ASSUME NEW c \in Clients, Abandon(c) \/ Start(c) \/ \E o \in Owners : Spawn(c, o) PROVE TargetInv'
  BY <1>6 DEF Abandon, Start, Spawn, Goto
<1>7. ASSUME NEW c \in Clients, PreviewRead(c) \/ Accept(c) \/ RunEnded(c) \/ Lingered(c) \/ Unlist(c)
      PROVE  TargetInv'
  BY <1>7 DEF PreviewRead, Accept, RunEnded, Lingered, Unlist, Goto
<1>8. ASSUME NEW c \in Clients, NEW s \in Sessions, NEW kind \in {"open", "preview"}, Authorize(c, s, kind)
      PROVE  TargetInv'
  BY <1>8 DEF Authorize, Goto
<1>9. ASSUME NEW c \in Clients, NEW s \in Sessions, NEW kind \in {"create", "routine"}, Create(c, s, kind)
      PROVE  TargetInv'
  BY <1>9 DEF Create, Goto
<1>10. ASSUME NEW c \in Clients, Submit(c) \/ Close(c) PROVE TargetInv'
  BY <1>10 DEF Submit, Close, Goto
<1>11. ASSUME UNCHANGED requests PROVE TargetInv'
  BY <1>11
<1>12. ASSUME NEW o \in Owners, Actor(o) PROVE UNCHANGED requests
  BY <1>12 DEF Actor, EndTurn, Wake, Stop, Terminate, ShutDown, Save
<1>13. CASE \/ Delete \/ (\E D \in SUBSET Sessions : BeginDelete(D)) \/ (\E s \in Sessions : StopResident(s))
            \/ BeginTakeover \/ TakeResidents \/ Drained \/ Grant \/ Release \/ UNCHANGED vars
  BY <1>11, <1>13 DEF Delete, BeginDelete, StopResident, BeginTakeover, TakeResidents, Drained, Grant, Release, vars
<1> QED
  BY <1>1, <1>2, <1>3, <1>4, <1>5, <1>6, <1>7, <1>8, <1>9, <1>10, <1>11, <1>12, <1>13
     DEF Next, Step, Request

(* The chats in the requests' hands.  Only the holder of the gate puts a   *)
(* chat into the registry, so the place of the one in its hand stays free. *)
LEMMA HandleKept == ControlInv /\ [Next]_vars => HandleInv'
<1> SUFFICES ASSUME ControlInv, [Next]_vars PROVE HandleInv'
  OBVIOUS
<1> USE RegistryAssumption DEF ControlInv, TypeOK, HandleInv, requests, owners, Labels, GateLabels,
                               OutLabels, StartLabels
<1>1. ASSUME NEW c \in Clients, Load(c) \/ CreateUnstarted(c) \/ CreateRejected(c) \/ TakeGate(c) \/ Room(c) \/ Check(c)
      PROVE  HandleInv'
  BY <1>1 DEF Load, CreateUnstarted, CreateRejected, TakeGate, Room, Check, Goto
<1>2. ASSUME NEW c \in Clients, Asked(c) PROVE HandleInv'
  BY <1>2 DEF Asked, StopIfIdle, Goto
<1>3. ASSUME NEW c \in Clients, Evicted(c) PROVE HandleInv'
  BY <1>3 DEF Evicted, Goto
<1>4. ASSUME NEW c \in Clients, PutBack(c) PROVE HandleInv'
  BY <1>4 DEF PutBack, Goto, GateInv, RegistryInv
<1>5. ASSUME NEW c \in Clients, Exhausted(c) PROVE HandleInv'
  BY <1>5 DEF Exhausted, Goto, Leave
<1>6. ASSUME NEW c \in Clients, NEW s \in Sessions, Evict(c, s) PROVE HandleInv'
  BY <1>6 DEF Evict, Goto, RegistryInv, IsUnreferenced
<1>7. ASSUME NEW c \in Clients, Reserve(c) PROVE HandleInv'
  <2>1. gate = c /\ target[c] \in Sessions /\ pc[c] = "reserve"
    BY <1>7 DEF Reserve, GateInv, TargetInv
  <2>2. \A d \in Clients : d # c => pc[d] \notin GateLabels /\ pc'[d] = pc[d] /\ handle'[d] = handle[d]
    BY <1>7, <2>1 DEF Reserve, Goto, Leave, GateInv
  <2>3. CASE Resident(target[c])
    BY <1>7, <2>1, <2>2, <2>3 DEF Reserve, Leave, Goto, RegistryInv, Resident
  <2>4. CASE ~Resident(target[c])
    BY <1>7, <2>1, <2>2, <2>4 DEF Reserve, Leave, Goto
  <2> QED
    BY <2>3, <2>4
<1>8. ASSUME NEW c \in Clients, StartFails(c) \/ Abandoned(c) PROVE HandleInv'
  BY <1>8 DEF StartFails, Abandoned, Goto, Leave
<1>9. ASSUME NEW c \in Clients, Publish(c) PROVE HandleInv'
  BY <1>9 DEF Publish, Goto, Leave, GateInv, RegistryInv, TargetInv
<1>10. ASSUME NEW c \in Clients, Abandon(c) PROVE HandleInv'
  BY <1>10 DEF Abandon, Goto
<1>11. ASSUME NEW c \in Clients, NEW o \in Owners, Spawn(c, o) PROVE HandleInv'
  BY <1>11 DEF Spawn, Goto, GateInv, RegistryInv, TargetInv
<1>12. ASSUME NEW c \in Clients, PreviewRead(c) \/ Accept(c) \/ RunEnded(c) \/ Lingered(c)
       PROVE  HandleInv'
  BY <1>12 DEF PreviewRead, StopIfIdle, Accept, RunEnded, Lingered, Goto
<1>13. ASSUME NEW c \in Clients, Unlist(c) PROVE HandleInv'
  BY <1>13 DEF Unlist, Goto, RegistryInv
<1>14. ASSUME NEW c \in Clients, NEW s \in Sessions, NEW kind, Authorize(c, s, kind) PROVE HandleInv'
  BY <1>14 DEF Authorize, Goto, RegistryInv, Resident
<1>15. ASSUME NEW c \in Clients, NEW s \in Sessions, NEW kind, Create(c, s, kind) PROVE HandleInv'
  BY <1>15 DEF Create, Goto
<1>16. ASSUME NEW c \in Clients, Submit(c) \/ Close(c) PROVE HandleInv'
  BY <1>16 DEF Submit, Close, Goto
<1>17. ASSUME NEW o \in Owners, Actor(o) PROVE HandleInv'
  BY <1>17 DEF Actor, EndTurn, Wake, Stop, Terminate, ShutDown, Save
<1>18. ASSUME NEW s \in Sessions, StopResident(s) PROVE HandleInv'
  BY <1>18 DEF StopResident, StopIfIdle
<1>19. CASE Delete \/ TakeResidents
  BY <1>19 DEF Delete, TakeResidents, RegistryInv, TargetInv
<1>20. CASE (\E D \in SUBSET Sessions : BeginDelete(D)) \/ BeginTakeover \/ Drained \/ Grant \/ Release
  BY <1>20 DEF BeginDelete, BeginTakeover, Drained, Grant, Release
<1>21. CASE UNCHANGED vars
  BY <1>21 DEF vars
<1>22. ASSUME NEW c \in Clients, Start(c) \/ StartDropped(c) PROVE HandleInv'
  <2>1. gate = c /\ pc[c] = "loading" /\ target[c] \in Sessions /\ phase[handle[c]] = "spawned"
    BY <1>22 DEF Start, StartDropped, GateInv, TargetInv
  <2>2. \A d \in Clients : d # c => pc[d] # "loading" /\ handle[d] # handle[c]
    BY <2>1 DEF GateInv
  <2>3. \A s \in Sessions : registry[s] # handle[c]
    BY <2>1 DEF RegistryInv
  <2>4. CASE Start(c)
    BY <2>1, <2>2, <2>3, <2>4 DEF Start, Goto
  <2>5. CASE StartDropped(c)
    BY <2>1, <2>2, <2>3, <2>5 DEF StartDropped, Goto, Leave
  <2> QED
    BY <1>22, <2>4, <2>5
<1> QED
  BY <1>1, <1>2, <1>3, <1>4, <1>5, <1>6, <1>7, <1>8, <1>9, <1>10, <1>11, <1>12, <1>13, <1>14, <1>15, <1>16, <1>17,
     <1>18, <1>19, <1>20, <1>21, <1>22
     DEF Next, Step, Request

(* The locks of a deletion: it starts without readers and none is admitted *)
(* before it ends, and a start is reserved under the lock it holds.        *)
LEMMA DeletionKept == ControlInv /\ [Next]_vars => DeletionInv'
<1> SUFFICES ASSUME ControlInv, [Next]_vars PROVE DeletionInv'
  OBVIOUS
<1> USE RegistryAssumption DEF ControlInv, TypeOK, DeletionInv, requests, locks, deletion
<1>1. ASSUME NEW c \in Clients, Load(c) \/ CreateUnstarted(c) \/ CreateRejected(c) \/ TakeGate(c) \/ Room(c) \/ Check(c)
      PROVE  DeletionInv'
  BY <1>1 DEF Load, CreateUnstarted, CreateRejected, TakeGate, Room, Check, Admitted
<1>2. ASSUME NEW c \in Clients, Asked(c) \/ Evicted(c) \/ PutBack(c) \/ Abandon(c) \/ Start(c)
      PROVE  DeletionInv'
  BY <1>2 DEF Asked, Evicted, PutBack, Abandon, Start
<1>3. ASSUME NEW c \in Clients, Exhausted(c) \/ StartFails(c) \/ StartDropped(c) \/ Publish(c) \/ Abandoned(c)
      PROVE  DeletionInv'
  BY <1>3 DEF Exhausted, StartFails, StartDropped, Publish, Abandoned, Leave
<1>4. ASSUME NEW c \in Clients, NEW s \in Sessions, Evict(c, s) PROVE DeletionInv'
  BY <1>4 DEF Evict
<1>5. ASSUME NEW c \in Clients, NEW o \in Owners, Spawn(c, o) PROVE DeletionInv'
  BY <1>5 DEF Spawn
<1>6. ASSUME NEW c \in Clients, Reserve(c) PROVE DeletionInv'
  BY <1>6 DEF Reserve
<1>7. ASSUME NEW c \in Clients, PreviewRead(c) \/ Accept(c) \/ RunEnded(c) \/ Lingered(c) \/ Unlist(c)
                                \/ Submit(c) \/ Close(c)
      PROVE  DeletionInv'
  BY <1>7 DEF PreviewRead, Accept, RunEnded, Lingered, Unlist, Submit, Close
<1>8. ASSUME NEW c \in Clients, NEW s \in Sessions, NEW kind, Authorize(c, s, kind) \/ Create(c, s, kind)
      PROVE  DeletionInv'
  BY <1>8 DEF Authorize, Create, Admitted
<1>9. ASSUME NEW o \in Owners, Actor(o) PROVE DeletionInv'
  BY <1>9 DEF Actor, EndTurn, Wake, Stop, Terminate, ShutDown, Save
<1>10. ASSUME NEW D \in SUBSET Sessions, BeginDelete(D) PROVE DeletionInv'
  BY <1>10 DEF BeginDelete
<1>11. CASE Delete \/ \E s \in Sessions : StopResident(s)
  BY <1>11 DEF Delete, StopResident, EndDelete
<1>12. CASE BeginTakeover \/ TakeResidents \/ Drained \/ Grant \/ Release
  BY <1>12 DEF BeginTakeover, TakeResidents, Drained, Grant, Release
<1>13. CASE UNCHANGED vars
  BY <1>13 DEF vars
<1> QED
  BY <1>1, <1>2, <1>3, <1>4, <1>5, <1>6, <1>7, <1>8, <1>9, <1>10, <1>11, <1>12, <1>13 DEF Next, Step, Request

(* The takeover: nobody gets past the gate while execution is held.        *)
LEMMA DrainKept == ControlInv /\ [Next]_vars => DrainInv'
<1> SUFFICES ASSUME ControlInv, [Next]_vars PROVE DrainInv'
  OBVIOUS
<1> USE RegistryAssumption DEF ControlInv, TypeOK, DrainInv, requests, locks, takeover, GateLabels, OutLabels,
                               StartLabels
<1>1. ASSUME NEW c \in Clients, Load(c) \/ CreateUnstarted(c) \/ CreateRejected(c) \/ TakeGate(c) \/ Room(c) \/ Check(c)
      PROVE  DrainInv'
  BY <1>1 DEF Load, CreateUnstarted, CreateRejected, TakeGate, Room, Check, MayExecute
<1>2. ASSUME NEW c \in Clients, Asked(c) \/ Evicted(c) \/ Abandon(c) \/ Start(c) PROVE DrainInv'
  BY <1>2 DEF Start, Asked, Evicted, Abandon
<1>3. ASSUME NEW c \in Clients, PutBack(c) PROVE DrainInv'
  BY <1>3 DEF PutBack, GateInv
<1>4. ASSUME NEW c \in Clients, Exhausted(c) \/ StartFails(c) \/ StartDropped(c) \/ Abandoned(c) PROVE DrainInv'
  BY <1>4 DEF Exhausted, StartFails, StartDropped, Abandoned, Leave
<1>5. ASSUME NEW c \in Clients, Publish(c) PROVE DrainInv'
  BY <1>5 DEF Publish, Leave, GateInv
<1>6. ASSUME NEW c \in Clients, NEW s \in Sessions, Evict(c, s) PROVE DrainInv'
  BY <1>6 DEF Evict
<1>7. ASSUME NEW c \in Clients, NEW o \in Owners, Spawn(c, o) PROVE DrainInv'
  BY <1>7 DEF Spawn
<1>8. ASSUME NEW c \in Clients, Reserve(c) PROVE DrainInv'
  BY <1>8 DEF Reserve, Leave
<1>9. ASSUME NEW c \in Clients, PreviewRead(c) \/ Accept(c) \/ RunEnded(c) \/ Lingered(c) \/ Unlist(c)
                                \/ Submit(c) \/ Close(c)
      PROVE  DrainInv'
  BY <1>9 DEF PreviewRead, Accept, RunEnded, Lingered, Unlist, Submit, Close
<1>10. ASSUME NEW c \in Clients, NEW s \in Sessions, NEW kind, Authorize(c, s, kind) \/ Create(c, s, kind)
      PROVE  DrainInv'
  BY <1>10 DEF Authorize, Create
<1>11. ASSUME NEW o \in Owners, Actor(o) PROVE DrainInv'
  BY <1>11 DEF Actor, EndTurn, Wake, Stop, Terminate, ShutDown, Save
<1>12. CASE Delete \/ (\E D \in SUBSET Sessions : BeginDelete(D)) \/ (\E s \in Sessions : StopResident(s))
  BY <1>12 DEF Delete, BeginDelete, StopResident
<1>13. CASE BeginTakeover \/ TakeResidents \/ Drained \/ Grant \/ Release
  BY <1>13 DEF BeginTakeover, TakeResidents, Drained, Grant, Release
<1>14. CASE UNCHANGED vars
  BY <1>14 DEF vars
<1> QED
  BY <1>1, <1>2, <1>3, <1>4, <1>5, <1>6, <1>7, <1>8, <1>9, <1>10, <1>11, <1>12, <1>13, <1>14 DEF Next, Step, Request

(* Types, locks and hands together are inductive.                          *)
LEMMA ControlKept == ControlInv /\ [Next]_vars => ControlInv'
BY TypesKept, RegistryKept, GateKept, TargetKept, HandleKept, DeletionKept, DrainKept DEF ControlInv

-----------------------------------------------------------------------------
(* Agents.  Only Spawn makes one; every other step leaves the sessions of  *)
(* the actors alone and can only end agents.                               *)
LEMMA OnlySpawnMakes ==
    ASSUME ControlInv, [Next]_vars, ~ \E c \in Clients, o \in Owners : Spawn(c, o)
    PROVE  session' = session /\ \A o \in Owners : Live(o)' => Live(o)
<1> USE DEF ControlInv, TypeOK, Live, owners
<1> DEFINE Goal == session' = session /\ \A o \in Owners : Live(o)' => Live(o)
<1>1. ASSUME NEW c \in Clients,
             \/ Load(c) \/ CreateUnstarted(c) \/ CreateRejected(c) \/ TakeGate(c) \/ Room(c) \/ Check(c) \/ Evicted(c)
             \/ PutBack(c) \/ Exhausted(c) \/ Reserve(c) \/ StartFails(c) \/ Publish(c) \/ Abandoned(c)
             \/ Accept(c) \/ RunEnded(c) \/ Lingered(c) \/ Unlist(c) \/ Submit(c) \/ Close(c)
             \/ \E s \in Sessions : Evict(c, s)
      PROVE  Goal
  BY <1>1 DEF Load, CreateUnstarted, CreateRejected, TakeGate, Room, Check, Evicted, PutBack, Exhausted, Reserve,
              StartFails, Publish, Abandoned, Accept, RunEnded, Lingered, Unlist, Submit, Close, Evict
<1>2. ASSUME NEW c \in Clients, Asked(c) \/ Abandon(c) \/ PreviewRead(c) \/ Start(c) \/ StartDropped(c)
      PROVE  Goal
  BY <1>2 DEF Asked, Abandon, PreviewRead, StopIfIdle, Start, StartDropped, HandleInv
<1>3. ASSUME NEW c \in Clients, NEW s \in Sessions, NEW kind, Authorize(c, s, kind) \/ Create(c, s, kind)
      PROVE  Goal
  BY <1>3 DEF Authorize, Create
<1>4. ASSUME NEW o \in Owners, Actor(o) PROVE Goal
  BY <1>4 DEF Actor, EndTurn, Wake, Stop, Terminate, ShutDown, Save
<1>5. ASSUME NEW s \in Sessions, StopResident(s) PROVE Goal
  BY <1>5 DEF StopResident, StopIfIdle
<1>6. CASE \/ Delete \/ (\E D \in SUBSET Sessions : BeginDelete(D))
           \/ BeginTakeover \/ TakeResidents \/ Drained \/ Grant \/ Release \/ UNCHANGED vars
  BY <1>6 DEF Delete, BeginDelete, BeginTakeover, TakeResidents, Drained, Grant, Release, vars
<1> QED
  BY <1>1, <1>2, <1>3, <1>4, <1>5, <1>6 DEF Next, Step, Request

(* Which chats can be quitting: whoever asks one to stop has taken it out  *)
(* of the registry first, or is the deletion, or a routine run.            *)
LEMMA QuitKept == ControlInv /\ QuitInv /\ [Next]_vars => QuitInv'
<1> SUFFICES ASSUME ControlInv, QuitInv, [Next]_vars PROVE QuitInv'
  OBVIOUS
<1> USE RegistryAssumption DEF ControlInv, TypeOK, QuitInv, requests, owners, deletion, Labels, GateLabels, OutLabels,
                               StartLabels
<1>1. ASSUME NEW c \in Clients, Load(c) \/ CreateUnstarted(c) \/ CreateRejected(c) \/ TakeGate(c) \/ Room(c) \/ Check(c)
      PROVE  QuitInv'
  BY <1>1 DEF Load, CreateUnstarted, CreateRejected, TakeGate, Room, Check, Goto
<1>2. ASSUME NEW c \in Clients, Asked(c) PROVE QuitInv'
  <2>1. CASE pc[c] = "asking"
    BY <1>2, <2>1 DEF Asked, StopIfIdle, Refuses, Goto, HandleInv, GateInv, RegistryInv
  <2>2. CASE pc[c] = "discarding"
    BY <1>2, <2>2 DEF Asked, StopIfIdle, Refuses, Goto, HandleInv, TargetInv, RegistryInv
  <2> QED
    BY <1>2, <2>1, <2>2 DEF Asked
<1>3. ASSUME NEW c \in Clients, PreviewRead(c) PROVE QuitInv'
  BY <1>3 DEF PreviewRead, StopIfIdle, Goto, HandleInv, TargetInv, RegistryInv
<1>4. ASSUME NEW c \in Clients, Evicted(c) \/ Exhausted(c) \/ StartFails(c) \/ Abandoned(c) PROVE QuitInv'
  BY <1>4 DEF Evicted, Exhausted, StartFails, Abandoned, Goto, Leave
<1>5. ASSUME NEW c \in Clients, PutBack(c) PROVE QuitInv'
  BY <1>5 DEF PutBack, Goto, HandleInv, RegistryInv
<1>6. ASSUME NEW c \in Clients, NEW s \in Sessions, Evict(c, s) PROVE QuitInv'
  BY <1>6 DEF Evict, Goto
<1>7. ASSUME NEW c \in Clients, Reserve(c) PROVE QuitInv'
  <2>1. pc[c] = "reserve" /\ gate = c
    BY <1>7 DEF Reserve, GateInv
  <2>2. pc'[c] \in {"accept", "holding", "starting", "idle"}
        /\ \A d \in Clients : d # c => pc'[d] = pc[d] /\ handle'[d] = handle[d]
    BY <1>7 DEF Reserve, Goto, Leave
  <2>3. \A s \in Sessions : registry'[s] = registry[s] \/ registry'[s] = None
    BY <1>7 DEF Reserve
  <2>4. UNCHANGED <<session, phase, dpc, doomed, victim>>
    BY <1>7 DEF Reserve
  <2> QED
    BY <2>1, <2>2, <2>3, <2>4
<1>8. ASSUME NEW c \in Clients, Publish(c) PROVE QuitInv'
  BY <1>8 DEF Publish, Goto, Leave, HandleInv, TargetInv
<1>9. ASSUME NEW c \in Clients, Abandon(c) PROVE QuitInv'
  BY <1>9 DEF Abandon, Goto, HandleInv
<1>10. ASSUME NEW c \in Clients, NEW o \in Owners, Spawn(c, o) PROVE QuitInv'
  BY <1>10 DEF Spawn, Goto, HandleInv, RegistryInv
<1>11. ASSUME NEW c \in Clients, Accept(c) \/ RunEnded(c) \/ Lingered(c) \/ Submit(c) \/ Close(c) PROVE QuitInv'
  BY <1>11 DEF Accept, RunEnded, Lingered, Submit, Close, Goto
<1>12. ASSUME NEW c \in Clients, Unlist(c) PROVE QuitInv'
  BY <1>12 DEF Unlist, Goto
<1>13. ASSUME NEW c \in Clients, NEW s \in Sessions, NEW kind, Authorize(c, s, kind) \/ Create(c, s, kind)
       PROVE  QuitInv'
  BY <1>13 DEF Authorize, Create, Goto
<1>14. ASSUME NEW o \in Owners, Actor(o) PROVE QuitInv'
  BY <1>14 DEF Actor, EndTurn, Wake, Stop, Terminate, ShutDown, Save, HandleInv
<1>15. ASSUME NEW s \in Sessions, StopResident(s) PROVE QuitInv'
  <2>1. \A d \in Clients : pc[d] \in {"putback", "started", "checked"} => handle[d] # registry[s]
    BY <1>15 DEF StopResident, Residents, HandleInv, RegistryInv
  <2>2. \A t \in Sessions \ Routines : registry[t] # None => phase[registry[t]] # "quitting"
    BY <1>15 DEF StopResident, Gone
  <2>3. s \in doomed /\ registry[s] \in Owners /\ dpc = "stop"
    BY <1>15 DEF StopResident, Residents
  <2>4. CASE Refuses(registry[s])
    BY <1>15, <2>1, <2>2, <2>4 DEF StopResident, StopIfIdle, Refuses
  <2>5. CASE ~Refuses(registry[s])
    BY <1>15, <2>1, <2>2, <2>3, <2>5 DEF StopResident, StopIfIdle, RegistryInv
  <2> QED
    BY <2>4, <2>5
<1>16. CASE Delete
  BY <1>16 DEF Delete, Residents, Gone
<1>17. CASE TakeResidents
  BY <1>17 DEF TakeResidents
<1>18. CASE \E D \in SUBSET Sessions : BeginDelete(D)
  BY <1>18 DEF BeginDelete
<1>19. CASE BeginTakeover \/ Drained \/ Grant \/ Release
  BY <1>19 DEF BeginTakeover, Drained, Grant, Release
<1>20. CASE UNCHANGED vars
  BY <1>20 DEF vars
<1>21. ASSUME NEW c \in Clients, Start(c) \/ StartDropped(c) PROVE QuitInv'
  BY <1>21 DEF Start, StartDropped, Goto, Leave, HandleInv
<1> QED
  BY <1>1, <1>2, <1>3, <1>4, <1>5, <1>6, <1>7, <1>8, <1>9, <1>10, <1>11, <1>12, <1>13, <1>14, <1>15, <1>16, <1>17,
     <1>18, <1>19, <1>20, <1>21
     DEF Next, Step, Request

(* No agent of a chat runs when its start is reserved.  If one ran it      *)
(* would be registered, for the gate is in this request's hands; it would  *)
(* be quitting, for the chat is not resident; and the deletion that waits  *)
(* for it would hold the lock under which the start is reserved.           *)
LEMMA NoneRunsAtReserve ==
    ASSUME IInv, NEW c \in Clients, Reserve(c), ~Resident(target[c]),
           NEW o \in Owners, session[o] = target[c], target[c] \notin Routines
    PROVE  ~Live(o)
<1> SUFFICES ASSUME Live(o) PROVE FALSE
  OBVIOUS
<1>1. pc[c] = "reserve" /\ gate = c /\ stateLock = None /\ target[c] \in Sessions
  BY DEF Reserve, IInv, ControlInv, GateInv, GateLabels, TargetInv
<1>2. ~InHand(o)
  BY <1>1 DEF InHand, OutLabels
<1>3. o \notin draining
  BY <1>1, RegistryAssumption DEF IInv, ControlInv, GateInv, DrainInv
<1>4. registry[target[c]] = o
  BY <1>2, <1>3 DEF IInv, OwnersInv
<1>5. o # None
  BY RegistryAssumption
<1>6. phase[o] = "quitting"
  BY <1>1, <1>4, <1>5 DEF Resident, IsAlive, Live, IInv, ControlInv, RegistryInv
<1>7. dpc = "stop"
  BY <1>1, <1>4, <1>5, <1>6 DEF IInv, QuitInv
<1> QED
  BY <1>1, <1>7, RegistryAssumption DEF IInv, ControlInv, DeletionInv

(* How a request comes to the labels of a start: from where it was, or by  *)
(* reserving.                                                              *)
LEMMA StartLabelsFrom ==
    ASSUME ControlInv, [Next]_vars, ~ \E c \in Clients, o \in Owners : Spawn(c, o),
           NEW d \in Clients, pc'[d] \in StartLabels
    PROVE  /\ target'[d] = target[d] /\ handle'[d] = handle[d]
           /\ \/ pc[d] \in StartLabels /\ (pc[d] = "starting" <=> pc'[d] = "starting")
              \/ Reserve(d) /\ ~Resident(target[d]) /\ pc'[d] = "starting"
<1> USE DEF ControlInv, TypeOK, requests, Labels, GateLabels, OutLabels, StartLabels
<1> DEFINE Goal == /\ target'[d] = target[d] /\ handle'[d] = handle[d]
                   /\ \/ pc[d] \in StartLabels /\ (pc[d] = "starting" <=> pc'[d] = "starting")
                      \/ Reserve(d) /\ ~Resident(target[d]) /\ pc'[d] = "starting"
<1>1. ASSUME NEW c \in Clients,
             \/ Load(c) \/ CreateUnstarted(c) \/ CreateRejected(c) \/ TakeGate(c) \/ Room(c) \/ Check(c) \/ Asked(c)
      PROVE  Goal
  BY <1>1 DEF Load, CreateUnstarted, CreateRejected, TakeGate, Room, Check, Asked, Goto
<1>2. ASSUME NEW c \in Clients, Evicted(c) \/ PutBack(c) \/ Exhausted(c) \/ \E s \in Sessions : Evict(c, s)
      PROVE  Goal
  BY <1>2 DEF Evicted, PutBack, Exhausted, Evict, Goto, Leave
<1>3. ASSUME NEW c \in Clients, Reserve(c) PROVE Goal
  <2>1. CASE c = d
    BY <1>3, <2>1 DEF Reserve, Goto, Leave
  <2>2. CASE c # d
    BY <1>3, <2>2 DEF Reserve, Goto, Leave
  <2> QED
    BY <2>1, <2>2
<1>4. ASSUME NEW c \in Clients, StartFails(c) \/ Start(c) \/ StartDropped(c) \/ Publish(c) \/ Abandon(c) \/ Abandoned(c)
      PROVE  Goal
  BY <1>4 DEF StartFails, Start, StartDropped, Publish, Abandon, Abandoned, Goto, Leave
<1>5. ASSUME NEW c \in Clients, PreviewRead(c) \/ Accept(c) \/ RunEnded(c) \/ Lingered(c) \/ Unlist(c) PROVE Goal
  BY <1>5 DEF PreviewRead, Accept, RunEnded, Lingered, Unlist, Goto
<1>6. ASSUME NEW c \in Clients, NEW s \in Sessions, NEW kind, Authorize(c, s, kind) \/ Create(c, s, kind)
      PROVE  Goal
  BY <1>6 DEF Authorize, Create, Goto
<1>7. ASSUME NEW c \in Clients, Submit(c) \/ Close(c) PROVE Goal
  BY <1>7 DEF Submit, Close, Goto
<1>8. ASSUME NEW o \in Owners, Actor(o) PROVE UNCHANGED requests
  BY <1>8 DEF Actor, EndTurn, Wake, Stop, Terminate, ShutDown, Save
<1>9. CASE \/ Delete \/ (\E D \in SUBSET Sessions : BeginDelete(D)) \/ (\E s \in Sessions : StopResident(s))
           \/ BeginTakeover \/ TakeResidents \/ Drained \/ Grant \/ Release \/ UNCHANGED vars
  BY <1>9 DEF Delete, BeginDelete, StopResident, BeginTakeover, TakeResidents, Drained, Grant, Release, vars
<1>10. CASE UNCHANGED requests
  BY <1>10
<1> QED
  BY <1>1, <1>2, <1>3, <1>4, <1>5, <1>6, <1>7, <1>8, <1>9, <1>10 DEF Next, Step, Request

(* The chats being started.                                                *)
LEMMA StartKept == IInv /\ [Next]_vars => StartInv'
<1> SUFFICES ASSUME IInv, [Next]_vars PROVE StartInv'
  OBVIOUS
<1>0. ControlInv /\ StartInv
  BY DEF IInv
<1>1. ASSUME NEW c \in Clients, NEW o \in Owners, Spawn(c, o) PROVE StartInv'
  <2>1. \A d \in Clients : d # c => pc'[d] \notin StartLabels
    BY <1>0, <1>1 DEF Spawn, Goto, ControlInv, GateInv, TypeOK, GateLabels, StartLabels
  <2>2. \A p \in Owners : p # o => session'[p] = session[p] /\ (Live(p)' => Live(p))
    BY <1>0, <1>1 DEF Spawn, Live, ControlInv, TypeOK
  <2>3. target' = target /\ pc[c] = "starting" /\ pc'[c] = "loading" /\ handle'[c] = o
    BY <1>0, <1>1 DEF Spawn, Goto, ControlInv, TypeOK
  <2> QED
    BY <1>0, <2>1, <2>2, <2>3 DEF StartInv, StartLabels
<1>2. CASE ~ \E c \in Clients, o \in Owners : Spawn(c, o)
  <2> SUFFICES ASSUME NEW d \in Clients, NEW q \in Owners, pc'[d] \in StartLabels, Live(q)',
                      session'[q] = target'[d], target'[d] \notin Routines
               PROVE  pc'[d] # "starting" /\ handle'[d] = q
    BY DEF StartInv
  <2>1. Live(q) /\ session'[q] = session[q]
    BY <1>0, <1>2, OnlySpawnMakes
  <2>2. target'[d] = target[d] /\ handle'[d] = handle[d]
    BY <1>0, <1>2, StartLabelsFrom
  <2>3. ~(Reserve(d) /\ ~Resident(target[d]))
    BY <2>1, <2>2, NoneRunsAtReserve
  <2>4. pc[d] \in StartLabels /\ (pc[d] = "starting" <=> pc'[d] = "starting")
    BY <1>0, <1>2, <2>3, StartLabelsFrom
  <2> QED
    BY <1>0, <2>1, <2>2, <2>4 DEF StartInv
<1> QED
  BY <1>1, <1>2

(* Where the running agents are.                                           *)
LEMMA OwnersKept == IInv /\ [Next]_vars => OwnersInv'
<1> SUFFICES ASSUME IInv, [Next]_vars PROVE OwnersInv'
  OBVIOUS
<1>0. ControlInv /\ OwnersInv /\ QuitInv
  BY DEF IInv
<1> USE RegistryAssumption DEF TypeOK, InHand, requests, locks, takeover, Labels, GateLabels, OutLabels, StartLabels
<1>1. ASSUME NEW c \in Clients, NEW o \in Owners, Spawn(c, o) PROVE OwnersInv'
  <2>1. \A p \in Owners : p # o => session'[p] = session[p] /\ (Live(p)' => Live(p))
    BY <1>0, <1>1 DEF Spawn, Live, ControlInv
  <2>2. gate = c /\ gate' = gate /\ pc[c] = "starting" /\ pc'[c] = "loading" /\ handle'[c] = o
    BY <1>0, <1>1 DEF Spawn, Goto, ControlInv, GateInv
  <2>3. registry' = registry /\ draining' = draining
    BY <1>1 DEF Spawn
  <2> QED
    BY <1>0, <2>1, <2>2, <2>3 DEF OwnersInv
<1>2. CASE ~ \E c \in Clients, o \in Owners : Spawn(c, o)
  <2> SUFFICES ASSUME NEW q \in Owners, Live(q)', session'[q] \notin Routines
               PROVE  registry'[session'[q]] = q \/ InHand(q)' \/ q \in draining'
    BY DEF OwnersInv
  <2> DEFINE Goal == registry'[session'[q]] = q \/ InHand(q)' \/ q \in draining'
  <2>0. /\ Live(q) /\ session' = session
        /\ registry[session[q]] = q \/ InHand(q) \/ q \in draining
        /\ session[q] \in Sessions \ Routines
    BY <1>0, <1>2, OnlySpawnMakes DEF OwnersInv, ControlInv, RegistryInv, Live
  <2> USE <1>0, <2>0 DEF ControlInv
  <2>1. ASSUME NEW c \in Clients, \/ Load(c) \/ CreateUnstarted(c) \/ CreateRejected(c)
                                  \/ TakeGate(c) \/ Room(c) \/ Check(c)
        PROVE  Goal
    BY <2>1 DEF Load, CreateUnstarted, CreateRejected, TakeGate, Room, Check, Goto, GateInv
  <2>2. ASSUME NEW c \in Clients, Asked(c) \/ Abandon(c) \/ Start(c) PROVE Goal
    BY <2>2 DEF Asked, Abandon, Start, Goto, GateInv
  <2>3. ASSUME NEW c \in Clients, Evicted(c) PROVE Goal
    BY <2>3 DEF Evicted, Goto, GateInv, Gone, Live
  <2>4. ASSUME NEW c \in Clients, PutBack(c) PROVE Goal
    BY <2>4 DEF PutBack, Goto, GateInv, HandleInv
  <2>5. ASSUME NEW c \in Clients, Exhausted(c) PROVE Goal
    BY <2>5 DEF Exhausted, Goto, Leave, GateInv
  <2>6. ASSUME NEW c \in Clients, NEW s \in Sessions, Evict(c, s) PROVE Goal
    BY <2>6 DEF Evict, Goto, GateInv
  <2>7. ASSUME NEW c \in Clients, Reserve(c) PROVE Goal
    <3>1. gate = c /\ pc[c] = "reserve" /\ target[c] \in Sessions
      BY <2>7 DEF Reserve, GateInv, TargetInv
    <3>2. registry[session[q]] = q \/ q \in draining
      BY <3>1
    <3>3. registry[session[q]] = q => registry'[session[q]] = q
      <4>1. CASE session[q] # target[c] \/ Resident(target[c])
        BY <2>7, <3>1, <4>1 DEF Reserve
      <4>2. CASE session[q] = target[c] /\ ~Resident(target[c])
        BY <2>7, <4>2, NoneRunsAtReserve
      <4> QED
        BY <4>1, <4>2
    <3> QED
      BY <2>7, <3>2, <3>3 DEF Reserve
  <2>8. ASSUME NEW c \in Clients, StartFails(c) \/ Abandoned(c) PROVE Goal
    BY <2>8 DEF StartFails, Abandoned, Goto, Leave, GateInv, Live
  <2>9. ASSUME NEW c \in Clients, Publish(c) PROVE Goal
    <3>1. gate = c /\ pc[c] = "checked" /\ target[c] \in Sessions /\ session[handle[c]] = target[c]
      BY <2>9 DEF Publish, GateInv, TargetInv, HandleInv
    <3>2. session[q] = target[c] => handle[c] = q /\ op[c] # "preview"
      BY <3>1 DEF IInv, StartInv, TargetInv
    <3> QED
      BY <2>9, <3>1, <3>2 DEF Publish, Leave
  <2>10. ASSUME NEW c \in Clients, PreviewRead(c) \/ Accept(c) \/ RunEnded(c) \/ Lingered(c) PROVE Goal
    BY <2>10 DEF PreviewRead, Accept, RunEnded, Lingered, Goto, GateInv
  <2>11. ASSUME NEW c \in Clients, Unlist(c) PROVE Goal
    BY <2>11 DEF Unlist, Goto, GateInv, TargetInv
  <2>12. ASSUME NEW c \in Clients, NEW s \in Sessions, NEW kind, Authorize(c, s, kind) PROVE Goal
    <3>1. registry[session[q]] = q /\ s = session[q] => Resident(s)
      BY <2>12 DEF Authorize, Resident, IsAlive, Live, RegistryInv, QuitInv, DeletionInv
    <3> QED
      BY <2>12, <3>1 DEF Authorize, Goto, GateInv
  <2>13. ASSUME NEW c \in Clients, NEW s \in Sessions, NEW kind, Create(c, s, kind) PROVE Goal
    BY <2>13 DEF Create, Goto, GateInv
  <2>14. ASSUME NEW c \in Clients, Submit(c) \/ Close(c) PROVE Goal
    BY <2>14 DEF Submit, Close, Goto, GateInv
  <2>15. ASSUME NEW o \in Owners, Actor(o) PROVE Goal
    BY <2>15 DEF Actor, EndTurn, Wake, Stop, Terminate, ShutDown, Save
  <2>16. CASE Delete
    BY <2>16 DEF Delete, Residents, Gone, Live
  <2>17. CASE (\E D \in SUBSET Sessions : BeginDelete(D)) \/ (\E s \in Sessions : StopResident(s))
    BY <2>17 DEF BeginDelete, StopResident
  <2>18. CASE TakeResidents
    <3>1. registry[session[q]] = q
      BY <2>18 DEF TakeResidents, DrainInv
    <3> QED
      BY <2>18, <3>1 DEF TakeResidents
  <2>19. CASE Drained
    BY <2>19 DEF Drained, Live, DrainInv, GateInv
  <2>20. CASE BeginTakeover \/ Grant \/ Release \/ UNCHANGED vars
    BY <2>20 DEF BeginTakeover, Grant, Release, vars
  <2>21. ASSUME NEW c \in Clients, StartDropped(c) PROVE Goal
    <3>1. gate = c /\ handle[c] # q /\ ~InHand(q)
      BY <2>21 DEF StartDropped, GateInv, HandleInv, Live
    <3> QED
      BY <2>21, <3>1 DEF StartDropped
  <2> QED
    BY <1>2, <2>1, <2>2, <2>3, <2>4, <2>5, <2>6, <2>7, <2>8, <2>9, <2>10, <2>11, <2>12, <2>13, <2>14, <2>15, <2>16,
       <2>17, <2>18, <2>19, <2>20, <2>21
       DEF Next, Step, Request
<1> QED
  BY <1>1, <1>2

(* A second agent of a chat: Spawn is taken only when none runs.           *)
LEMMA OneOwnerKept == IInv /\ [Next]_vars => OneOwner'
<1> SUFFICES ASSUME IInv, [Next]_vars PROVE OneOwner'
  OBVIOUS
<1>1. ASSUME NEW c \in Clients, NEW o \in Owners, Spawn(c, o) PROVE OneOwner'
  <2>1. \A p \in Owners : p # o => session'[p] = session[p] /\ (Live(p)' => Live(p))
    BY <1>1 DEF Spawn, Live, IInv, ControlInv, TypeOK
  <2>2. pc[c] = "starting" /\ session'[o] = target[c]
    BY <1>1 DEF Spawn, IInv, ControlInv, TypeOK
  <2>3. \A p \in Owners : p # o /\ Live(p)' /\ session'[p] = target[c] => target[c] \in Routines
    BY <2>1, <2>2 DEF IInv, StartInv, StartLabels
  <2> QED
    BY <2>1, <2>2, <2>3 DEF IInv, OneOwner
<1>2. CASE ~ \E c \in Clients, o \in Owners : Spawn(c, o)
  <2>1. session' = session /\ \A o \in Owners : Live(o)' => Live(o)
    BY <1>2, OnlySpawnMakes DEF IInv
  <2> QED
    BY <2>1 DEF IInv, OneOwner
<1> QED
  BY <1>1, <1>2

(* A deletion finds no agent of its sessions running: the registered ones  *)
(* have terminated; nobody makes room, for there are no readers; and the   *)
(* chat that is being started is another one.                              *)
LEMMA NoneRunsAtDelete ==
    ASSUME IInv, Delete, NEW o \in Owners, Live(o), o \notin draining, session[o] \notin Routines
    PROVE  session[o] \notin doomed
<1> SUFFICES ASSUME session[o] \in doomed PROVE FALSE
  OBVIOUS
<1>1. dpc = "stop" /\ readers = {} /\ doomed \cap starting = {}
  BY DEF Delete, IInv, ControlInv, DeletionInv
<1>2. CASE registry[session[o]] = o
  BY <1>2, RegistryAssumption DEF Delete, Residents, Gone, Live
<1>3. CASE InHand(o)
  <2>1. pc[gate] \notin OutLabels
    BY <1>1, <1>3 DEF InHand, IInv, ControlInv, GateInv
  <2>2. session[o] = target[gate] /\ target[gate] \in starting
    BY <1>3, <2>1 DEF InHand, IInv, ControlInv, HandleInv, GateInv, StartLabels
  <2> QED
    BY <1>1, <2>2
<1> QED
  BY <1>2, <1>3 DEF IInv, OwnersInv

LEMMA DeletedKept == IInv /\ [Next]_vars => DeletedIsUnowned'
<1> SUFFICES ASSUME IInv, [Next]_vars PROVE DeletedIsUnowned'
  OBVIOUS
<1>1. ASSUME NEW c \in Clients, NEW o \in Owners, Spawn(c, o) PROVE DeletedIsUnowned'
  <2>1. \A p \in Owners : p # o => session'[p] = session[p] /\ (Live(p)' => Live(p))
    BY <1>1 DEF Spawn, Live, IInv, ControlInv, TypeOK
  <2>2. session'[o] = target[c] /\ stored' = stored \cup {target[c]} /\ draining' = draining
    BY <1>1 DEF Spawn, IInv, ControlInv, TypeOK, takeover
  <2> QED
    BY <2>1, <2>2 DEF IInv, DeletedIsUnowned
<1>2. CASE ~ \E c \in Clients, o \in Owners : Spawn(c, o)
  <2>1. session' = session /\ \A o \in Owners : Live(o)' => Live(o)
    BY <1>2, OnlySpawnMakes DEF IInv
  <2>2. CASE Delete
    <3>1. stored' = stored \ doomed /\ draining' = draining
      BY <2>2 DEF Delete, takeover
    <3> QED
      BY <2>1, <2>2, <3>1, NoneRunsAtDelete DEF IInv, DeletedIsUnowned
  <2>3. CASE TakeResidents
    <3>1. stored' = stored /\ draining = {}
      BY <2>3 DEF TakeResidents, IInv, ControlInv, DrainInv
    <3> QED
      BY <2>1, <3>1 DEF IInv, DeletedIsUnowned
  <2>4. CASE Drained
    <3>1. stored' = stored /\ \A o \in draining : ~Live(o)
      BY <2>4 DEF Drained, Live
    <3> QED
      BY <2>1, <3>1 DEF IInv, DeletedIsUnowned
  <2>5. ASSUME stored \subseteq stored', draining' = draining PROVE DeletedIsUnowned'
    BY <2>1, <2>5 DEF IInv, DeletedIsUnowned
  <2>6. ASSUME NEW c \in Clients, Step(c) \/ Request(c) PROVE stored \subseteq stored' /\ draining' = draining
    BY <1>2, <2>6 DEF Step, Request, Load, CreateUnstarted, CreateRejected, TakeGate, Room, Check, Asked,
       Evicted, PutBack, Exhausted, Evict, Reserve, StartFails, Start, StartDropped, Publish, Abandon, Abandoned,
       PreviewRead, Accept, RunEnded, Lingered, Unlist, Authorize, Create, Submit, Close, takeover
  <2>7. ASSUME NEW o \in Owners, Actor(o) PROVE stored \subseteq stored' /\ draining' = draining
    BY <2>7 DEF Actor, EndTurn, Wake, Stop, Terminate, ShutDown, Save, takeover
  <2>8. CASE \/ (\E D \in SUBSET Sessions : BeginDelete(D)) \/ (\E s \in Sessions : StopResident(s))
             \/ BeginTakeover \/ Grant \/ Release \/ UNCHANGED vars
    BY <2>5, <2>8 DEF BeginDelete, StopResident, BeginTakeover, Grant, Release, vars, takeover
  <2> QED
    BY <2>2, <2>3, <2>4, <2>5, <2>6, <2>7, <2>8 DEF Next
<1> QED
  BY <1>1, <1>2

(* An agent that executes and was not left by a failed start is live.      *)
LEMMA DrainedForm ==
    NoActorBehindDrain <=>
        (drain \in {"drained", "granted"} => \A o \in Owners : Live(o) => session[o] \in Routines)
BY DEF NoActorBehindDrain, Executes, Live

LEMMA DrainedFormNext ==
    NoActorBehindDrain' <=>
        (drain' \in {"drained", "granted"} => \A o \in Owners : Live(o)' => session'[o] \in Routines)
BY DEF NoActorBehindDrain, Executes, Live

(* The end of the drain: the registry is empty, no request has the gate,   *)
(* and the drained chats are dead.  Until the desktop is given back nobody *)
(* gets past the gate to start another one.                                *)
LEMMA NoActorKept == IInv /\ [Next]_vars => NoActorBehindDrain'
<1> SUFFICES ASSUME IInv, [Next]_vars PROVE NoActorBehindDrain'
  OBVIOUS
<1>1. ASSUME NEW c \in Clients, NEW o \in Owners, Spawn(c, o) PROVE NoActorBehindDrain'
  <2>1. gate = c /\ drain' = drain
    BY <1>1 DEF Spawn, IInv, ControlInv, GateInv, GateLabels, StartLabels, takeover
  <2>2. drain \notin {"drained", "granted"}
    BY <2>1, RegistryAssumption DEF IInv, ControlInv, DrainInv
  <2> QED
    BY <2>1, <2>2, DrainedFormNext
<1>2. CASE ~ \E c \in Clients, o \in Owners : Spawn(c, o)
  <2>1. session' = session /\ \A o \in Owners : Live(o)' => Live(o)
    BY <1>2, OnlySpawnMakes DEF IInv
  <2>2. CASE Drained
    <3>1. gate = "takeover" /\ \A s \in Sessions : registry[s] = None
      BY <2>2 DEF Drained, IInv, ControlInv, GateInv, DrainInv
    <3>2. \A o \in draining : ~Live(o)
      BY <2>2 DEF Drained, Live
    <3>3. \A o \in Owners : ~InHand(o)
      BY <3>1, RegistryAssumption DEF InHand
    <3>4. \A o \in Owners : Live(o) => session[o] \in Sessions
      BY DEF IInv, ControlInv, RegistryInv, Live
    <3>5. \A o \in Owners : Live(o) => session[o] \in Routines
      BY <3>1, <3>2, <3>3, <3>4, RegistryAssumption DEF IInv, OwnersInv
    <3> QED
      BY <2>1, <3>5, DrainedFormNext
  <2>3. ASSUME drain' \in {"drained", "granted"} => drain \in {"drained", "granted"} PROVE NoActorBehindDrain'
    BY <2>1, <2>3, DrainedForm, DrainedFormNext DEF IInv
  <2>4. ASSUME NEW c \in Clients, Step(c) \/ Request(c) PROVE drain' = drain
    BY <1>2, <2>4 DEF Step, Request, Load, CreateUnstarted, CreateRejected, TakeGate, Room, Check, Asked,
       Evicted, PutBack, Exhausted, Evict, Reserve, StartFails, Start, StartDropped, Publish, Abandon, Abandoned,
       PreviewRead, Accept, RunEnded, Lingered, Unlist, Authorize, Create, Submit, Close, takeover
  <2>5. ASSUME NEW o \in Owners, Actor(o) PROVE drain' = drain
    BY <2>5 DEF Actor, EndTurn, Wake, Stop, Terminate, ShutDown, Save, takeover
  <2>6. CASE \/ Delete \/ (\E D \in SUBSET Sessions : BeginDelete(D)) \/ (\E s \in Sessions : StopResident(s))
             \/ BeginTakeover \/ TakeResidents \/ Grant \/ Release \/ UNCHANGED vars
    BY <2>3, <2>6 DEF Delete, BeginDelete, StopResident, BeginTakeover, TakeResidents, Grant, Release, vars, takeover
  <2> QED
    BY <2>2, <2>3, <2>4, <2>5, <2>6 DEF Next
<1> QED
  BY <1>1, <1>2

LEMMA InitSafe == Init => IInv
<1> SUFFICES ASSUME Init PROVE IInv
  OBVIOUS
<1>1. ControlInv
  BY InitControl
<1>2. \A o \in Owners : ~Live(o)
  BY DEF Init, Live
<1>3. QuitInv /\ StartInv
  BY <1>2 DEF Init, QuitInv, StartInv
<1>4. OwnersInv /\ OneOwner /\ DeletedIsUnowned /\ NoActorBehindDrain
  BY <1>2, DrainedForm DEF OwnersInv, OneOwner, DeletedIsUnowned
<1> QED
  BY <1>1, <1>3, <1>4 DEF IInv

LEMMA SafeKept == IInv /\ [Next]_vars => IInv'
<1> SUFFICES ASSUME IInv, [Next]_vars PROVE IInv'
  OBVIOUS
<1>1. ControlInv' /\ QuitInv'
  BY ControlKept, QuitKept DEF IInv
<1>2. StartInv' /\ OwnersInv' /\ OneOwner' /\ DeletedIsUnowned' /\ NoActorBehindDrain'
  BY StartKept, OwnersKept, OneOwnerKept, DeletedKept, NoActorKept
<1> QED
  BY <1>1, <1>2 DEF IInv

-----------------------------------------------------------------------------
(* Reservations.                                                           *)

(* A reservation is that of a request which is starting the chat.          *)
Reserved == \A s \in starting : \E c \in Clients : pc[c] \in StartLabels /\ target[c] = s

(* A start that ends, in whatever way, takes its own reservation with it.  *)
LEMMA ReservedKept == ControlInv /\ Reserved /\ [Next]_vars => Reserved'
<1> SUFFICES ASSUME ControlInv, Reserved, [Next]_vars PROVE Reserved'
  OBVIOUS
<1> USE DEF ControlInv, TypeOK, requests, StartLabels
<1>0. ASSUME starting' = starting,
             \A c \in Clients : pc[c] \in StartLabels => pc'[c] \in StartLabels /\ target'[c] = target[c]
      PROVE  Reserved'
  BY <1>0 DEF Reserved
<1>1. ASSUME NEW c \in Clients,
             \/ Load(c) \/ CreateUnstarted(c) \/ CreateRejected(c) \/ TakeGate(c) \/ Room(c) \/ Asked(c)
             \/ Evicted(c) \/ PutBack(c) \/ Exhausted(c) \/ \E s \in Sessions : Evict(c, s)
      PROVE  Reserved'
  BY <1>0, <1>1 DEF Load, CreateUnstarted, CreateRejected, TakeGate, Room, Asked, Evicted, PutBack, Exhausted, Evict,
     Goto, Leave
<1>2. ASSUME NEW c \in Clients, Start(c) \/ Check(c) \/ Abandon(c) \/ \E o \in Owners : Spawn(c, o) PROVE Reserved'
  BY <1>0, <1>2 DEF Start, Check, Abandon, Spawn, Goto
<1>3. ASSUME NEW c \in Clients, Reserve(c) PROVE Reserved'
  <2>1. /\ pc[c] = "reserve" /\ target' = target
        /\ \A d \in Clients : d # c => pc'[d] = pc[d]
        /\ starting' = starting \/ (starting' = starting \cup {target[c]} /\ pc'[c] = "starting")
    BY <1>3 DEF Reserve, Goto, Leave
  <2> QED
    BY <2>1 DEF Reserved
<1>4. ASSUME NEW c \in Clients, StartFails(c) \/ StartDropped(c) \/ Publish(c) \/ Abandoned(c) PROVE Reserved'
  <2>1. /\ target' = target /\ starting' = starting \ {target[c]}
        /\ \A d \in Clients : d # c => pc'[d] = pc[d]
    BY <1>4 DEF StartFails, StartDropped, Publish, Abandoned, Goto, Leave
  <2> QED
    BY <2>1 DEF Reserved
<1>5. ASSUME NEW c \in Clients, PreviewRead(c) \/ Accept(c) \/ RunEnded(c) \/ Lingered(c) \/ Unlist(c)
      PROVE  Reserved'
  BY <1>0, <1>5 DEF PreviewRead, Accept, RunEnded, Lingered, Unlist, Goto
<1>6. ASSUME NEW c \in Clients, NEW s \in Sessions, NEW kind, Authorize(c, s, kind) \/ Create(c, s, kind)
      PROVE  Reserved'
  BY <1>0, <1>6 DEF Authorize, Create, Goto
<1>7. ASSUME NEW c \in Clients, Submit(c) \/ Close(c) PROVE Reserved'
  BY <1>0, <1>7 DEF Submit, Close, Goto
<1>8. ASSUME NEW o \in Owners, Actor(o) PROVE Reserved'
  BY <1>0, <1>8 DEF Actor, EndTurn, Wake, Stop, Terminate, ShutDown, Save
<1>9. CASE \/ Delete \/ (\E D \in SUBSET Sessions : BeginDelete(D)) \/ (\E s \in Sessions : StopResident(s))
           \/ BeginTakeover \/ TakeResidents \/ Drained \/ Grant \/ Release \/ UNCHANGED vars
  BY <1>0, <1>9 DEF Delete, BeginDelete, StopResident, BeginTakeover, TakeResidents, Drained, Grant, Release, vars
<1> QED
  BY <1>1, <1>2, <1>3, <1>4, <1>5, <1>6, <1>7, <1>8, <1>9 DEF Next, Step, Request

-----------------------------------------------------------------------------
(* Capacity.                                                               *)

LEMMA InitCapacity == Init => CapacityInv
<1> SUFFICES ASSUME Init PROVE CapacityInv
  OBVIOUS
<1>1. Registered = {} /\ starting = {}
  BY DEF Init, Registered
<1>2. IsFiniteSet({}) /\ Cardinality({}) = 0
  BY FS_EmptySet
<1>3. ResidentSessions = 0
  BY <1>1, <1>2 DEF ResidentSessions, Registered
<1>4. \A c \in Clients : pc[c] \notin OutLabels
  BY DEF Init, OutLabels
<1> QED
  BY <1>1, <1>2, <1>3, <1>4, RegistryAssumption DEF CapacityInv, CapacityBound

(* A step that registers and reserves nothing keeps the bound, and so does *)
(* one that takes a chat out.                                              *)
LEMMA CapacityShrinks ==
    ASSUME CapacityInv, Registered' \subseteq Registered, starting' \subseteq starting,
           \A c \in Clients : pc'[c] \in OutLabels =>
               pc[c] \in OutLabels \/ \E s \in Registered : Registered' = Registered \ {s}
    PROVE  CapacityInv'
<1>1. /\ IsFiniteSet(Registered') /\ Cardinality(Registered') <= Cardinality(Registered)
      /\ IsFiniteSet(starting') /\ Cardinality(starting') <= Cardinality(starting)
  BY FS_Subset DEF CapacityInv
<1>2. /\ Cardinality(Registered) \in Nat /\ Cardinality(starting) \in Nat
      /\ Cardinality(Registered') \in Nat /\ Cardinality(starting') \in Nat
  BY <1>1, FS_CardinalityType DEF CapacityInv
<1>3. /\ ResidentSessions = Cardinality(Registered) + Cardinality(starting)
      /\ ResidentSessions' = Cardinality(Registered') + Cardinality(starting')
  BY DEF ResidentSessions, Registered
<1>4. ResidentSessions' <= ResidentSessions /\ ResidentSessions \in Nat /\ ResidentSessions' \in Nat
  BY <1>1, <1>2, <1>3
<1>5. ASSUME NEW s \in Registered, Registered' = Registered \ {s} PROVE ResidentSessions' < ResidentSessions
  <2>1. Cardinality(Registered \ {s}) = Cardinality(Registered) - 1
    BY FS_RemoveElement DEF CapacityInv
  <2> QED
    BY <1>1, <1>2, <1>3, <1>5, <2>1
<1>6. ASSUME NEW c \in Clients, pc'[c] \in OutLabels PROVE ResidentSessions' < Capacity
  <2>1. CASE pc[c] \in OutLabels
    BY <1>4, <2>1, RegistryAssumption DEF CapacityInv
  <2>2. CASE \E s \in Registered : Registered' = Registered \ {s}
    BY <1>4, <1>5, <2>2, RegistryAssumption DEF CapacityInv, CapacityBound
  <2> QED
    BY <1>6, <2>1, <2>2
<1> QED
  BY <1>1, <1>4, <1>6, RegistryAssumption DEF CapacityInv, CapacityBound

(* One more chat, registered or reserved, fits while there is room.        *)
LEMMA CapacityGrows ==
    ASSUME CapacityInv, NEW s,
           \/ Registered' \subseteq Registered \cup {s} /\ starting' \subseteq starting /\ ResidentSessions < Capacity
           \/ Registered' \subseteq Registered \cup {s} /\ s \in starting /\ starting' = starting \ {s}
           \/ /\ starting' = starting \cup {s} /\ Registered' \subseteq Registered
              /\ Cardinality(Registered') + Cardinality(starting) < Capacity,
           \A c \in Clients : pc'[c] \notin OutLabels
    PROVE  CapacityInv'
<1>1. /\ IsFiniteSet(Registered) /\ IsFiniteSet(starting)
      /\ IsFiniteSet(Registered \cup {s}) /\ IsFiniteSet(starting \cup {s})
      /\ Cardinality(Registered \cup {s}) <= Cardinality(Registered) + 1
      /\ Cardinality(starting \cup {s}) <= Cardinality(starting) + 1
      /\ Cardinality(Registered) \in Nat /\ Cardinality(starting) \in Nat
  <2>1. ASSUME NEW S, IsFiniteSet(S)
        PROVE  IsFiniteSet(S \cup {s}) /\ Cardinality(S \cup {s}) <= Cardinality(S) + 1 /\ Cardinality(S) \in Nat
    <3>1. Cardinality(S) \in Nat
      BY <2>1, FS_CardinalityType
    <3>2. IsFiniteSet(S \cup {s}) /\ Cardinality(S \cup {s}) = IF s \in S THEN Cardinality(S) ELSE Cardinality(S) + 1
      BY <2>1, FS_AddElement
    <3> QED
      BY <3>1, <3>2
  <2> QED
    BY <2>1 DEF CapacityInv
<1>2. /\ IsFiniteSet(Registered') /\ IsFiniteSet(starting')
  BY <1>1, FS_Subset
<1>3. /\ Cardinality(Registered') \in Nat /\ Cardinality(starting') \in Nat
      /\ Cardinality(Registered \cup {s}) \in Nat /\ Cardinality(starting \cup {s}) \in Nat
  BY <1>1, <1>2, FS_CardinalityType
<1>4. /\ ResidentSessions = Cardinality(Registered) + Cardinality(starting)
      /\ ResidentSessions' = Cardinality(Registered') + Cardinality(starting')
  BY DEF ResidentSessions, Registered
<1>5. ResidentSessions' <= Capacity
  <2>1. CASE Registered' \subseteq Registered \cup {s} /\ starting' \subseteq starting /\ ResidentSessions < Capacity
    <3>1. Cardinality(Registered') <= Cardinality(Registered \cup {s}) /\ Cardinality(starting') <= Cardinality(starting)
      BY <1>1, <2>1, FS_Subset
    <3> QED
      BY <1>1, <1>3, <1>4, <2>1, <3>1, RegistryAssumption
  <2>2. CASE Registered' \subseteq Registered \cup {s} /\ s \in starting /\ starting' = starting \ {s}
    <3>1. Cardinality(Registered') <= Cardinality(Registered \cup {s})
      BY <1>1, <2>2, FS_Subset
    <3>2. Cardinality(starting') = Cardinality(starting) - 1
      BY <1>1, <2>2, FS_RemoveElement
    <3>3. Cardinality(Registered) + Cardinality(starting) <= Capacity
      BY <1>4 DEF CapacityInv, CapacityBound
    <3> QED
      BY <1>1, <1>3, <1>4, <3>1, <3>2, <3>3, RegistryAssumption
  <2>3. CASE /\ starting' = starting \cup {s} /\ Registered' \subseteq Registered
             /\ Cardinality(Registered') + Cardinality(starting) < Capacity
    BY <1>1, <1>3, <1>4, <2>3, RegistryAssumption
  <2> QED
    BY <2>1, <2>2, <2>3
<1> QED
  BY <1>2, <1>5 DEF CapacityInv, CapacityBound

LEMMA CapacityKept == ControlInv /\ CapacityInv /\ [Next]_vars => CapacityInv'
<1> SUFFICES ASSUME ControlInv, CapacityInv, [Next]_vars PROVE CapacityInv'
  OBVIOUS
<1> USE DEF ControlInv, TypeOK, requests, Labels, GateLabels, OutLabels, StartLabels
<1>0. ASSUME Registered' \subseteq Registered, starting' \subseteq starting,
             \A c \in Clients : pc'[c] \in OutLabels => pc[c] \in OutLabels
      PROVE  CapacityInv'
  BY <1>0, CapacityShrinks
<1>1. ASSUME NEW c \in Clients, Load(c) \/ CreateUnstarted(c) \/ CreateRejected(c) \/ TakeGate(c) \/ Room(c) \/ Check(c)
      PROVE  CapacityInv'
  BY <1>0, <1>1 DEF Load, CreateUnstarted, CreateRejected, TakeGate, Room, Check, Goto, Registered
<1>2. ASSUME NEW c \in Clients, Asked(c) \/ Evicted(c) \/ Exhausted(c) PROVE CapacityInv'
  BY <1>0, <1>2 DEF Asked, Evicted, Exhausted, Goto, Leave, Registered
<1>3. ASSUME NEW c \in Clients, NEW s \in Sessions, Evict(c, s) PROVE CapacityInv'
  <2>1. CASE IsUnreferenced(s)
    <3>1. s \in Registered /\ Registered' = Registered \ {s} /\ starting' = starting
      BY <1>3, <2>1, RegistryAssumption DEF Evict, IsUnreferenced, Registered
    <3> QED
      BY <3>1, CapacityShrinks
  <2>2. CASE ~IsUnreferenced(s)
    BY <1>0, <1>3, <2>2 DEF Evict, Registered
  <2> QED
    BY <2>1, <2>2
<1>4. ASSUME NEW c \in Clients, PutBack(c) PROVE CapacityInv'
  <2>1. gate = c /\ pc[c] = "putback" /\ pc'[c] = "evict" /\ \A d \in Clients : d # c => pc'[d] = pc[d]
    BY <1>4 DEF PutBack, Goto, GateInv
  <2>2. \A d \in Clients : pc'[d] \notin OutLabels
    BY <2>1 DEF GateInv
  <2>3. ResidentSessions < Capacity
    BY <2>1 DEF CapacityInv
  <2>4. starting' = starting /\ Registered' \subseteq Registered \cup {session[handle[c]]}
    BY <1>4 DEF PutBack, Registered
  <2> QED
    BY <2>2, <2>3, <2>4, CapacityGrows
<1>5. ASSUME NEW c \in Clients, Reserve(c) PROVE CapacityInv'
  <2>1. gate = c /\ pc[c] = "reserve" /\ pc'[c] \notin OutLabels /\ \A d \in Clients : d # c => pc'[d] = pc[d]
    BY <1>5 DEF Reserve, Goto, Leave, GateInv
  <2>2. \A d \in Clients : pc'[d] \notin OutLabels
    BY <2>1 DEF GateInv
  <2>3. Registered' \subseteq Registered
    BY <1>5 DEF Reserve, Registered
  <2>4. CASE starting' = starting
    BY <1>0, <2>2, <2>3, <2>4
  <2>5. CASE starting' # starting
    <3>1. ~Resident(target[c]) /\ starting' = starting \cup {target[c]}
      BY <1>5, <2>5 DEF Reserve
    <3>2. Cardinality({t \in Sessions : registry'[t] # None}) + Cardinality(starting) < Capacity
      <4>1. PICK v : /\ registry' = v
                     /\ Cardinality({t \in Sessions : v[t] # None}) + Cardinality(starting) < Capacity
        <5> DEFINE vacated == IF op[c] \in {"open", "preview"}
                              THEN [registry EXCEPT ![target[c]] = None] ELSE registry
        <5>1. /\ registry' = vacated
              /\ Cardinality({t \in Sessions : vacated[t] # None}) + Cardinality(starting) < Capacity
          <6>1. \/ UNCHANGED starting
                \/ /\ registry' = vacated
                   /\ Cardinality({t \in Sessions : vacated[t] # None}) + Cardinality(starting) < Capacity
            BY <1>5, Zenon DEF Reserve
          <6> QED
            BY <2>5, <6>1, Zenon
        <5> HIDE DEF vacated
        <5> QED
          BY <5>1, Zenon
      <4> QED
        BY <4>1, Zenon
    <3>3. Registered' = {t \in Sessions : registry'[t] # None}
      BY DEF Registered
    <3> QED
      BY <2>2, <2>3, <3>1, <3>2, <3>3, CapacityGrows
  <2> QED
    BY <2>4, <2>5
<1>6. ASSUME NEW c \in Clients, Publish(c) PROVE CapacityInv'
  <2>1. gate = c /\ pc[c] = "checked" /\ pc'[c] \notin OutLabels /\ \A d \in Clients : d # c => pc'[d] = pc[d]
    BY <1>6 DEF Publish, Goto, Leave, GateInv
  <2>2. \A d \in Clients : pc'[d] \notin OutLabels
    BY <2>1 DEF GateInv
  <2>3. target[c] \in starting /\ starting' = starting \ {target[c]} /\ Registered' \subseteq Registered \cup {target[c]}
    BY <1>6, <2>1 DEF Publish, GateInv, Registered
  <2> QED
    BY <2>2, <2>3, CapacityGrows
<1>7. ASSUME NEW c \in Clients, \/ StartFails(c) \/ Start(c) \/ StartDropped(c) \/ Abandon(c) \/ Abandoned(c)
                               \/ \E o \in Owners : Spawn(c, o)
      PROVE  CapacityInv'
  BY <1>0, <1>7 DEF StartFails, Start, StartDropped, Abandon, Abandoned, Spawn, Goto, Leave, Registered
<1>8. ASSUME NEW c \in Clients, PreviewRead(c) \/ Accept(c) \/ RunEnded(c) \/ Lingered(c) \/ Unlist(c)
      PROVE  CapacityInv'
  BY <1>0, <1>8, RegistryAssumption DEF PreviewRead, Accept, RunEnded, Lingered, Unlist, Goto, Registered
<1>9. ASSUME NEW c \in Clients, NEW s \in Sessions, NEW kind, Authorize(c, s, kind) \/ Create(c, s, kind)
      PROVE  CapacityInv'
  BY <1>0, <1>9 DEF Authorize, Create, Goto, Registered
<1>10. ASSUME NEW c \in Clients, Submit(c) \/ Close(c) PROVE CapacityInv'
  BY <1>0, <1>10 DEF Submit, Close, Goto, Registered
<1>11. ASSUME NEW o \in Owners, Actor(o) PROVE CapacityInv'
  BY <1>0, <1>11 DEF Actor, EndTurn, Wake, Stop, Terminate, ShutDown, Save, Registered
<1>12. CASE \/ Delete \/ (\E D \in SUBSET Sessions : BeginDelete(D)) \/ (\E s \in Sessions : StopResident(s))
            \/ BeginTakeover \/ TakeResidents \/ Drained \/ Grant \/ Release \/ UNCHANGED vars
  BY <1>0, <1>12 DEF Delete, BeginDelete, StopResident, BeginTakeover, TakeResidents, Drained, Grant, Release, vars,
     Registered
<1> QED
  BY <1>1, <1>2, <1>3, <1>4, <1>5, <1>6, <1>7, <1>8, <1>9, <1>10, <1>11, <1>12 DEF Next, Step, Request

-----------------------------------------------------------------------------
(* The theorems.                                                           *)

(* The invariant about locks, hands and agents holds in every state.       *)
THEOREM Inductive == Spec => []IInv
BY InitSafe, SafeKept, PTL DEF Spec

(* Every variable keeps its type.                                          *)
THEOREM TypeCorrect == Spec => []TypeOK
<1>1. IInv => TypeOK
  BY DEF IInv, ControlInv
<1> QED
  BY <1>1, Inductive, PTL

(* No interleaving of opening, evicting, deleting and draining chats runs  *)
(* two agents of a chat at once that a start or an actor looks after.  An  *)
(* agent left by a start that failed late may run beside them.             *)
THEOREM OwnerSafety == Spec => []OneOwner
<1>1. IInv => OneOwner
  BY DEF IInv
<1> QED
  BY <1>1, Inductive, PTL

(* A chat's checkpoint is not deleted under a running agent, except one    *)
(* that a takeover is shutting down or that a failed start left behind.    *)
THEOREM DeletionSafety == Spec => []DeletedIsUnowned
<1>1. IInv => DeletedIsUnowned
  BY DEF IInv
<1> QED
  BY <1>1, Inductive, PTL

(* Between the drain and the return of the desktop the only agents of a    *)
(* chat that execute are those which failed starts left to end.            *)
THEOREM DrainSafety == Spec => []NoActorBehindDrain
<1>1. IInv => NoActorBehindDrain
  BY DEF IInv
<1> QED
  BY <1>1, Inductive, PTL

(* A reserved start belongs to exactly one request that is starting the    *)
(* chat (SessionStartGuard of host.rs), however its start ends.            *)
THEOREM ReservationSafety == Spec => []NoLeakedStart
<1>1. Init => ControlInv /\ Reserved
  BY InitControl DEF Init, Reserved
<1>2. (ControlInv /\ Reserved) /\ [Next]_vars => (ControlInv /\ Reserved)'
  BY ControlKept, ReservedKept
<1>3. ControlInv /\ Reserved => NoLeakedStart
  BY DEF ControlInv, GateInv, GateLabels, Reserved, NoLeakedStart
<1> QED
  BY <1>1, <1>2, <1>3, PTL DEF Spec

(* Registered and reserved chats together never exceed the capacity.       *)
THEOREM CapacitySafety == Spec => []CapacityBound
<1>1. Init => ControlInv /\ CapacityInv
  BY InitControl, InitCapacity
<1>2. (ControlInv /\ CapacityInv) /\ [Next]_vars => (ControlInv /\ CapacityInv)'
  BY ControlKept, CapacityKept
<1>3. ControlInv /\ CapacityInv => CapacityBound
  BY DEF CapacityInv
<1> QED
  BY <1>1, <1>2, <1>3, PTL DEF Spec
=============================================================================
