---------------------------- MODULE Application ----------------------------
(***************************************************************************)
(* Run and Shutdown of bootstrap/application.go over the LifecycleManager. *)
(* app.mutex protects only the flag running, so each use of the flag is    *)
(* one step and everything else interleaves.  A runner calls Run once and  *)
(* a closer calls Shutdown once.                                           *)
(***************************************************************************)
EXTENDS LifecycleManager

CONSTANTS
  Runners,  \* goroutines that call Run
  Closers,  \* goroutines that call Shutdown
  ActorSystemService, NetworkServerService,  \* the core services
  MaxDeps   \* bound: dependencies of the services the program registers, in all

ASSUME CoreAssumption ==
  /\ {ActorSystemService, NetworkServerService} \subseteq Services
  /\ ActorSystemService # NetworkServerService
  /\ Infallible = {ActorSystemService}

ASSUME RunnersAssumption ==
  Callers = Runners \cup Closers /\ Runners \cap Closers = {} /\ IsFiniteSet(Callers)

VARIABLES
  running,   \* app.running
  overtaken  \* history: Stop found nothing started while a Start was on its way, or a
             \* failed Run cleared the flag of another

vars == <<lmVars, running, overtaken>>

registerCoreServices ==
  /\ registered = {ActorSystemService, NetworkServerService}
  /\ deps = [s \in Services |-> IF s = NetworkServerService THEN {ActorSystemService} ELSE {}]

Init ==
  /\ NewLifecycleManager
  /\ registerCoreServices
  /\ running = FALSE
  /\ overtaken = FALSE

\* The rest of the lifecycle manager's variables, when a step only moves the caller.
OnlyMoves(w, label) ==
  /\ At(w, label)
  /\ UNCHANGED <<table, startOrder, started, mutex, sorting, todo, outside, circular>>

----------------------------------------------------------------------------
(* Run                                                                     *)

\* An application that is running refuses to run again.
Run(w) ==
  /\ pc[w] = "new"
  /\ running' = TRUE
  /\ OnlyMoves(w, IF running THEN "done" ELSE "lockStart")
  /\ UNCHANGED overtaken

\* Another Run has taken the flag and has not given it back.
OtherRun(w) ==
  \E v \in Runners \ {w} : pc[v] \in {"lockStart", "order", "start", "startDone", "shutdown"}

\* Start returned an error: the flag is cleared, nothing is stopped.
RunFails(w) ==
  /\ pc[w] = "startFailed"
  /\ running' = FALSE
  /\ overtaken' = (overtaken \/ OtherRun(w))
  /\ OnlyMoves(w, "done")

\* A signal arrives or the context ends; Run calls Shutdown.
RunWakes(w) ==
  /\ pc[w] = "startDone"
  /\ OnlyMoves(w, "shutdown")
  /\ UNCHANGED <<running, overtaken>>

----------------------------------------------------------------------------
(* Shutdown                                                                *)

CallShutdown(w) ==
  /\ pc[w] = "new"
  /\ OnlyMoves(w, "shutdown")
  /\ UNCHANGED <<running, overtaken>>

\* Only one caller takes the flag and stops the services.
Shutdown(w) ==
  /\ pc[w] = "shutdown"
  /\ running' = FALSE
  /\ OnlyMoves(w, IF running THEN "lockStop" ELSE "done")
  /\ UNCHANGED overtaken

ShutdownReturns(w) ==
  /\ pc[w] = "stopDone"
  /\ OnlyMoves(w, "done")
  /\ UNCHANGED <<running, overtaken>>

----------------------------------------------------------------------------
\* A step of the lifecycle manager on behalf of w.
Manage(w) ==
  /\ LifecycleStep(w)
  /\ overtaken' = (overtaken \/ (pc[w] = "lockStop" /\ ~started
                                  /\ \E v \in Runners : pc[v] = "lockStart"))
  /\ UNCHANGED running

\* Dependencies of the services registered by the program.
OwnDependencies ==
  {e \in (Services \ {NetworkServerService}) \X Services : e[2] \in deps[e[1]]}

WithService ==
  /\ \E s \in Services, D \in SUBSET Services :
       Register(s, D) /\ Cardinality(OwnDependencies) + Cardinality(D) <= MaxDeps
  /\ UNCHANGED <<running, overtaken>>

CallerStep(w) == RunFails(w) \/ Shutdown(w) \/ ShutdownReturns(w) \/ Manage(w)

Next ==
  \/ WithService
  \/ \E w \in Runners : Run(w) \/ RunWakes(w)
  \/ \E w \in Closers : CallShutdown(w)
  \/ \E w \in Callers : CallerStep(w)

Spec == Init /\ [][Next]_vars

----------------------------------------------------------------------------
(* Properties                                                              *)

PCs == {"new", "lockStart", "order", "start", "startFailed", "startDone", "shutdown",
        "lockStop", "stop", "stopDone", "done"}

\* The fields of the lifecycle manager and of the application keep their types, and
\* the mutex is held exactly by the caller inside Start or Stop.
TypeOK ==
  /\ registered \subseteq Services
  /\ deps \in [Services -> SUBSET Services]
  /\ startOrder \in Seq(Services)
  /\ started \in BOOLEAN
  /\ mutex \in Callers \cup {Nobody}
  /\ pc \in [Callers -> PCs]
  /\ \A w \in Callers : mutex = w <=> pc[w] \in {"order", "start", "stop"}
  /\ pending \in [Services -> SUBSET Services]
  /\ queue \in Seq(Services)
  /\ order \in Seq(Services)
  /\ todo \in Seq(Services)
  /\ up \subseteq Services /\ stuck \subseteq Services /\ leftover \subseteq Services
  /\ circular \in BOOLEAN /\ running \in BOOLEAN /\ overtaken \in BOOLEAN

\* Start starts a service only after all its dependencies: in startOrder, failed and
\* repeated Starts included, every dependency of a service comes before it.
StartsInOrder ==
  \A i \in DOMAIN startOrder : \A d \in deps[startOrder[i]] :
    \E j \in 1 .. i - 1 : startOrder[j] = d

\* A service that is up has its dependencies up, through partial Starts, repeated
\* Starts and Stops in reverse order, unless its own Stop has failed.
DependenciesUp == \A s \in up \ stuck : deps[s] \subseteq up

\* Start reports "circular dependency detected" only when there is a cycle: a set of
\* registered services each of which depends on one of the set.
CyclesAreReal ==
  circular =>
    \E C \in (SUBSET registered) \ {{}} : \A s \in C : deps[s] \cap C # {}

\* When every Run and Shutdown has returned, nothing is left running but services
\* whose Stop failed and those that a failed Start left behind, unless a Shutdown or a
\* failed Run overtook another Run.
NothingLeftRunning ==
  (\A w \in Callers : pc[w] \in {"new", "done"}) /\ ~overtaken =>
    up \subseteq stuck \cup leftover
=============================================================================
