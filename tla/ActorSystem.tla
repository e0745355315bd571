---------------------------- MODULE ActorSystem ----------------------------
(***************************************************************************)
(* core/system.go: creation of actors and services, Shutdown, Send and     *)
(* Call, composed with the routing table, the handle directory, the        *)
(* service registry and the actors.  NewActor, NewService and Shutdown     *)
(* hold s.mu; actors run beside them.                                      *)
(*                                                                         *)
(* A creator calls NewActor or NewService once, and its actor is named     *)
(* after it (NextID gives every call an id of its own).  The handle maps   *)
(* appear as the set of their entries, which is what Directory promises,   *)
(* and an actor as the part of module Actor that Start and Stop see.       *)
(***************************************************************************)
EXTENDS Integers, Sequences

CONSTANTS
  Creators,   \* goroutines that create an actor each; also the actor ids
  InHandler,  \* creators that are called by the handler of some actor
  Names,      \* service names other than the empty one
  NoName,     \* "", a service name the registry refuses
  Unnamed,    \* stands for NewActor, which asks for no service
  None,
  MaxSends    \* bound: number of messages sent in all

ASSUME CreatorsAssumption ==
  /\ InHandler \subseteq Creators
  /\ None \notin Creators /\ "shutdown" \notin Creators /\ None # "shutdown"
  /\ NoName \notin Names /\ Unnamed \notin Names /\ Unnamed # NoName
  /\ MaxSends \in Nat

VARIABLES
  mu,         \* holder of s.mu: a creator, "shutdown" or None
  sysDone,    \* s.ctx is cancelled
  actors,     \* router.actors
  handles,    \* entries of the HandleManager
  services,   \* names in the service registry
  pc,         \* where each creator stands
  want,       \* the name it asks for
  host,       \* the actor whose handler runs an InHandler creator
  start,      \* the goroutine that runs actor.Start, counted by s.wg
  loop,       \* each actor's message loop
  state,      \* each actor's state word
  cancelled,  \* each actor's context
  inbox,      \* each actor's mailbox: the Target fields of its messages
  sends,      \* messages sent so far
  sd,         \* where Shutdown stands
  todo,       \* actors it has not stopped yet
  victim,     \* the actor whose Stop it is executing
  attempted,  \* history: actors whose Stop was called
  spared      \* history: actors whose Stop was refused or met a Start in flight

creation == <<actors, handles, services, pc, want, host>>
running  == <<start, loop, state, cancelled, inbox, sends>>
shutting == <<sd, todo, victim, attempted, spared>>
vars     == <<mu, sysDone, creation, running, shutting>>

Init ==
  /\ mu = None
  /\ sysDone = FALSE
  /\ actors = {}
  /\ handles = {}
  /\ services = {}
  /\ pc = [c \in Creators |-> "new"]
  /\ want = [c \in Creators |-> None]
  /\ host = [c \in Creators |-> None]
  /\ start = [a \in Creators |-> "none"]
  /\ loop = [a \in Creators |-> "none"]
  /\ state = [a \in Creators |-> "Idle"]
  /\ cancelled = [a \in Creators |-> FALSE]
  /\ inbox = [a \in Creators |-> << >>]
  /\ sends = 0
  /\ sd = "new"
  /\ todo = {}
  /\ victim = None
  /\ attempted = {}
  /\ spared = {}

----------------------------------------------------------------------------
(* NewActor and NewService                                                 *)

At(c, label) == pc' = [pc EXCEPT ![c] = label]

Called(c, n, h) ==
  /\ pc[c] = "new"
  /\ want' = [want EXCEPT ![c] = n]
  /\ host' = [host EXCEPT ![c] = h]
  /\ At(c, "lock")
  /\ UNCHANGED <<mu, sysDone, actors, handles, services, running, shutting>>

\* Actor h is executing its handler, which is not waiting for a creation of its own.
InHandlerOf(h) ==
  /\ loop[h] = "handling"
  /\ \A c \in InHandler : host[c] = h => pc[c] \in {"created", "failed"}

\* The call, from outside or from the handler of an actor.
Create(c, n) ==
  \/ c \notin InHandler /\ Called(c, n, None)
  \/ c \in InHandler /\ \E h \in Creators : InHandlerOf(h) /\ Called(c, n, h)

\* Mutant of CreateLock: the shutdown check is lost.
CreateLockUnchecked(c) ==
  /\ pc[c] = "lock"
  /\ mu = None
  /\ mu' = c /\ At(c, "register")
  /\ UNCHANGED <<sysDone, actors, handles, services, want, host, running, shutting>>

\* s.mu.Lock(), then the check whether the system is shutting down.
CreateLock(c) ==
  /\ pc[c] = "lock"
  /\ mu = None
  /\ IF sysDone THEN At(c, "failed") /\ UNCHANGED mu
                ELSE mu' = c /\ At(c, "register")
  /\ UNCHANGED <<sysDone, actors, handles, services, want, host, running, shutting>>

\* router.Register: the id is new, so it is accepted.
CreateRegister(c) ==
  /\ pc[c] = "register"
  /\ actors' = actors \cup {c}
  /\ At(c, "handle")
  /\ UNCHANGED <<mu, sysDone, handles, services, want, host, running, shutting>>

Named(n) == {h \in handles : h.name = n}

\* Mutant of CreateHandle: a name that is taken is not refused.
CreateHandleDuplicate(c) ==
  /\ pc[c] = "handle"
  /\ handles' = handles \cup {[actor |-> c, name |-> IF want[c] = Unnamed THEN NoName ELSE want[c]]}
  /\ At(c, IF want[c] = Unnamed THEN "spawn" ELSE "discover")
  /\ UNCHANGED <<mu, sysDone, actors, services, want, host, running, shutting>>

\* AllocateHandle.  When the name is taken the call fails, and the actor stays in
\* the routing table.
CreateHandle(c) ==
  /\ pc[c] = "handle"
  /\ IF want[c] \in Names /\ Named(want[c]) # {}
     THEN mu' = None /\ At(c, "failed") /\ UNCHANGED handles
     ELSE /\ handles' = handles \cup
                          {[actor |-> c, name |-> IF want[c] = Unnamed THEN NoName ELSE want[c]]}
          /\ At(c, IF want[c] = Unnamed THEN "spawn" ELSE "discover")
          /\ UNCHANGED mu
  /\ UNCHANGED <<sysDone, actors, services, want, host, running, shutting>>

\* serviceDiscovery.RegisterService: an empty or taken name is refused.
CreateDiscover(c) ==
  /\ pc[c] = "discover"
  /\ IF want[c] = NoName \/ want[c] \in services
     THEN At(c, "rollback") /\ UNCHANGED services
     ELSE At(c, "spawn") /\ services' = services \cup {want[c]}
  /\ UNCHANGED <<mu, sysDone, actors, handles, want, host, running, shutting>>

\* router.UnregisterService(name), which looks the name up: the empty name is never
\* found, and then nothing is undone.
CreateRollback(c) ==
  /\ pc[c] = "rollback"
  /\ LET found == IF want[c] = NoName THEN {} ELSE Named(want[c])
     IN  actors' = actors \ {h.actor : h \in found} /\ handles' = handles \ found
  /\ mu' = None
  /\ At(c, "failed")
  /\ UNCHANGED <<sysDone, services, want, host, running, shutting>>

\* s.wg.Add(1); go actor.Start; the deferred unlock.
CreateSpawn(c) ==
  /\ pc[c] = "spawn"
  /\ start' = [start EXCEPT ![c] = "load"]
  /\ mu' = None
  /\ At(c, "created")
  /\ UNCHANGED <<sysDone, actors, handles, services, want, host, loop, state, cancelled,
                 inbox, sends, shutting>>

----------------------------------------------------------------------------
(* The actors: Start, the message loop, Send and Call                      *)

StartLoad(a) ==
  /\ start[a] = "load"
  /\ start' = [start EXCEPT ![a] = IF state[a] = "Idle" THEN "spawn" ELSE "done"]
  /\ UNCHANGED <<mu, sysDone, creation, loop, state, cancelled, inbox, sends, shutting>>

StartSpawn(a) ==
  /\ start[a] = "spawn"
  /\ start' = [start EXCEPT ![a] = "done"]
  /\ loop' = [loop EXCEPT ![a] = "select"]
  /\ UNCHANGED <<mu, sysDone, creation, state, cancelled, inbox, sends, shutting>>

\* A message with the given Target is put in the mailbox of actor a.
Deliver(a, target) ==
  /\ sends < MaxSends
  /\ a \in actors
  /\ state[a] \notin {"Stopping", "Stopped"}
  /\ loop[a] # "exited"
  /\ inbox' = [inbox EXCEPT ![a] = Append(@, target)]
  /\ sends' = sends + 1
  /\ UNCHANGED <<mu, sysDone, creation, start, loop, state, cancelled, shutting>>

\* system.Send: Route looks the target up and sends to it.
Send(to) == Deliver(to, to)

\* system.Call: the source actor is looked up, and it is its Call that is called.
Call(from, to) == Deliver(from, to)

Receive(a) ==
  /\ loop[a] = "select"
  /\ inbox[a] # << >>
  /\ loop' = [loop EXCEPT ![a] = "received"]
  /\ inbox' = [inbox EXCEPT ![a] = Tail(@)]
  /\ UNCHANGED <<mu, sysDone, creation, start, state, cancelled, sends, shutting>>

HandleBegin(a) ==
  /\ loop[a] = "received"
  /\ loop' = [loop EXCEPT ![a] = "handling"]
  /\ state' = [state EXCEPT ![a] = "Running"]
  /\ UNCHANGED <<mu, sysDone, creation, start, cancelled, inbox, sends, shutting>>

\* The handler returns, once the creation it called has returned; state is Idle again.
HandleEnd(a) ==
  /\ InHandlerOf(a)
  /\ loop' = [loop EXCEPT ![a] = "select"]
  /\ state' = [state EXCEPT ![a] = "Idle"]
  /\ UNCHANGED <<mu, sysDone, creation, start, cancelled, inbox, sends, shutting>>

\* The rest of the mailbox is drained without the handler.
LoopExit(a) ==
  /\ loop[a] = "select"
  /\ cancelled[a]
  /\ loop' = [loop EXCEPT ![a] = "exited"]
  /\ inbox' = [inbox EXCEPT ![a] = << >>]
  /\ UNCHANGED <<mu, sysDone, creation, start, state, cancelled, sends, shutting>>

----------------------------------------------------------------------------
(* Shutdown                                                                *)

ShutdownLock ==
  /\ sd = "new"
  /\ mu = None
  /\ mu' = "shutdown"
  /\ sysDone' = TRUE
  /\ sd' = "list"
  /\ UNCHANGED <<creation, running, todo, victim, attempted, spared>>

ShutdownList ==
  /\ sd = "list"
  /\ todo' = actors
  /\ sd' = "next"
  /\ UNCHANGED <<mu, sysDone, creation, running, victim, attempted, spared>>

\* The next actor of the list that is still registered; its Stop begins.
ShutdownNext(a) ==
  /\ sd = "next"
  /\ a \in todo
  /\ todo' = todo \ {a}
  /\ victim' = a
  /\ attempted' = attempted \cup {a}
  /\ sd' = "cas1"
  /\ UNCHANGED <<mu, sysDone, creation, running, spared>>

\* The compare-and-swap from the given state succeeds.
StopAdmitted(from) ==
  /\ state[victim] = from
  /\ state' = [state EXCEPT ![victim] = "Stopping"]
  /\ sd' = "cancel"
  /\ UNCHANGED spared

StopFromIdle ==
  /\ sd = "cas1"
  /\ \/ StopAdmitted("Idle")
     \/ state[victim] # "Idle" /\ sd' = "cas2" /\ UNCHANGED <<state, spared>>
  /\ UNCHANGED <<mu, sysDone, creation, start, loop, cancelled, inbox, sends, todo,
                 victim, attempted>>

\* When both fail, Shutdown ignores the error and goes on.
StopFromRunning ==
  /\ sd = "cas2"
  /\ \/ StopAdmitted("Running")
     \/ /\ state[victim] # "Running"
        /\ sd' = "next"
        /\ spared' = spared \cup {victim}
        /\ UNCHANGED state
  /\ UNCHANGED <<mu, sysDone, creation, start, loop, cancelled, inbox, sends, todo,
                 victim, attempted>>

\* Mutant of StopCancel: the actor's context is not cancelled.
StopCancelForgotten ==
  /\ sd = "cancel"
  /\ sd' = "wait"
  /\ UNCHANGED <<mu, sysDone, creation, running, todo, victim, attempted, spared>>

StopCancel ==
  /\ sd = "cancel"
  /\ cancelled' = [cancelled EXCEPT ![victim] = TRUE]
  /\ sd' = "wait"
  /\ UNCHANGED <<mu, sysDone, creation, start, loop, state, inbox, sends, todo, victim,
                 attempted, spared>>

\* Mutant of StopWait: Stop does not wait for the loop.
StopNoWait ==
  /\ sd = "wait"
  /\ state' = [state EXCEPT ![victim] = "Stopped"]
  /\ spared' = IF start[victim] = "spawn" THEN spared \cup {victim} ELSE spared
  /\ sd' = "next"
  /\ UNCHANGED <<mu, sysDone, creation, start, loop, cancelled, inbox, sends, todo,
                 victim, attempted>>

\* a.wg.Wait() returns at once when Start has not added the loop yet.
StopWait ==
  /\ sd = "wait"
  /\ loop[victim] \in {"none", "exited"}
  /\ state' = [state EXCEPT ![victim] = "Stopped"]
  /\ spared' = IF start[victim] = "spawn" THEN spared \cup {victim} ELSE spared
  /\ sd' = "next"
  /\ UNCHANGED <<mu, sysDone, creation, start, loop, cancelled, inbox, sends, todo,
                 victim, attempted>>

\* All Stops are done and s.wg.Wait() has returned.
ShutdownReturn ==
  /\ sd = "next"
  /\ todo = {}
  /\ \A a \in Creators : start[a] \notin {"load", "spawn"}
  /\ sd' = "returned"
  /\ mu' = None
  /\ UNCHANGED <<sysDone, creation, running, todo, victim, attempted, spared>>

\* The caller's context ends first.  It is looked at only after all the Stops.
ShutdownTimeout ==
  /\ sd = "next"
  /\ todo = {}
  /\ sd' = "timedOut"
  /\ mu' = None
  /\ UNCHANGED <<sysDone, creation, running, todo, victim, attempted, spared>>

----------------------------------------------------------------------------
Requests == Names \cup {NoName, Unnamed}

CreatorStep(c) ==
  \/ CreateLock(c) \/ CreateRegister(c) \/ CreateHandle(c) \/ CreateDiscover(c)
  \/ CreateRollback(c) \/ CreateSpawn(c)

ActorStep(a) ==
  \/ StartLoad(a) \/ StartSpawn(a)
  \/ Receive(a) \/ HandleBegin(a) \/ HandleEnd(a) \/ LoopExit(a)

ShutdownStep ==
  \/ ShutdownList \/ (\E a \in Creators : ShutdownNext(a)) \/ StopFromIdle \/ StopFromRunning
  \/ StopCancel \/ StopWait \/ ShutdownReturn

Next ==
  \/ \E c \in Creators : (\E n \in Requests : Create(c, n)) \/ CreatorStep(c)
  \/ \E a \in Creators : ActorStep(a) \/ Send(a)
  \/ \E a, b \in Creators : Call(a, b)
  \/ ShutdownLock
  \/ ShutdownStep
  \/ ShutdownTimeout

Spec == Init /\ [][Next]_vars

\* Goroutines that can run do run and handlers return; nobody is obliged to call
\* anything, and no context is obliged to end.
FairSpec ==
  /\ Spec
  /\ WF_vars(ShutdownStep)
  /\ \A c \in Creators : WF_vars(CreatorStep(c)) /\ WF_vars(ActorStep(c))

----------------------------------------------------------------------------
(* Properties                                                              *)

CreatorPC == {"new", "lock", "register", "handle", "discover", "rollback", "spawn", "created", "failed"}
Locked(c) == pc[c] \in {"register", "handle", "discover", "rollback", "spawn"}
Ended     == sd \in {"returned", "timedOut"}

\* The fields of system, of its router, directory and registry, and of the actors
\* keep their types.
TypeOK ==
  /\ mu \in Creators \cup {"shutdown", None}
  /\ sysDone \in BOOLEAN
  /\ actors \subseteq Creators
  /\ handles \subseteq [actor : Creators, name : Names \cup {NoName}]
  /\ services \subseteq Names
  /\ pc \in [Creators -> CreatorPC]
  /\ want \in [Creators -> Requests \cup {None}]
  /\ host \in [Creators -> Creators \cup {None}]
  /\ start \in [Creators -> {"none", "load", "spawn", "done"}]
  /\ loop \in [Creators -> {"none", "select", "received", "handling", "exited"}]
  /\ state \in [Creators -> {"Idle", "Running", "Stopping", "Stopped"}]
  /\ cancelled \in [Creators -> BOOLEAN]
  /\ inbox \in [Creators -> Seq(Creators)]
  /\ sends \in 0 .. MaxSends
  /\ sd \in {"new", "list", "next", "cas1", "cas2", "cancel", "wait", "returned", "timedOut"}
  /\ todo \subseteq Creators
  /\ victim \in Creators \cup {None}
  /\ attempted \subseteq Creators /\ spared \subseteq Creators

\* Shutdown misses nobody: when it ends, every actor in the routing table has had its
\* Stop called, because no actor is registered once Shutdown has listed them.
NoActorMissed == Ended => actors \subseteq attempted

\* Outside the critical section the registry, the handles and the routing table tell
\* the same story: the registered service names are the names of the handles, each
\* name has one handle, and the actor behind it is routed.
ServicesAgree ==
  mu \notin Creators =>
    /\ services = {h.name : h \in handles} \ {NoName}
    /\ \A h \in handles : h.actor \in actors
    /\ \A g, h \in handles : g.name = h.name /\ g.name # NoName => g = h

\* Shutdown returns once it has begun, whatever the actors are doing, unless a handler
\* has called NewActor or NewService: the handler then waits for s.mu, which Shutdown
\* holds while it waits for the handler.
HandlerWaitsForLock == \E c \in InHandler : pc[c] = "lock"
ShutdownReturns == (sd # "new") ~> (Ended \/ HandlerWaitsForLock)

\* When Shutdown has returned nil no message loop is alive, except of actors whose
\* Stop it saw refused and of actors whose Start was still in flight when their Stop
\* found no loop to wait for.
ShutdownStopsAll ==
  sd = "returned" => \A a \in Creators \ spared : loop[a] \in {"none", "exited"}
=============================================================================
