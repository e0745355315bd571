-------------------------- MODULE LifecycleManager --------------------------
(***************************************************************************)
(* DefaultLifecycleManager of bootstrap/lifecycle.go: Register, Start with *)
(* the start order it computes (Kahn's algorithm) and Stop.  Start and     *)
(* Stop hold lm.mutex from their first line to their last, across every    *)
(* service they call; callers wait for it, and the flag lm.stopping is     *)
(* never seen set.  Events are left out: they are sent without blocking    *)
(* and nothing depends on them.                                            *)
(***************************************************************************)
EXTENDS Integers, Sequences, FiniteSets, Functions

CONSTANTS
  Services,  \* names of services
  Callers,   \* goroutines that call Start and Stop
  Infallible, \* services whose Start never fails
  Nobody

ASSUME CallersAssumption == Nobody \notin Callers

VARIABLES
  registered,  \* keys of services
  deps,        \* dependencies
  startOrder,  \* services in the order they were started
  started,     \* lm.started
  mutex,       \* holder of lm.mutex
  pc,          \* where each caller stands
  pending,     \* calculateStartOrder: the dependencies that inDegree still counts
  queue,       \* calculateStartOrder: services that wait for nothing
  order,       \* calculateStartOrder: result
  todo,        \* services still to be started or stopped, in order
  up,          \* external: services that are running
  stuck,       \* history: services whose Stop failed
  leftover,    \* history: services left running by a Start that failed
  circular     \* history: some Start reported a circular dependency

table    == <<registered, deps>>
sorting  == <<pending, queue, order>>
outside  == <<up, stuck, leftover>>
lmVars   == <<table, startOrder, started, mutex, pc, sorting, todo, outside, circular>>

\* The application registers its core services, in Init, before anything else happens.
NewLifecycleManager ==
  /\ startOrder = << >>
  /\ started = FALSE
  /\ mutex = Nobody
  /\ pc = [w \in Callers |-> "new"]
  /\ pending = [s \in Services |-> {}]
  /\ queue = << >>
  /\ order = << >>
  /\ todo = << >>
  /\ up = {}
  /\ stuck = {}
  /\ leftover = {}
  /\ circular = FALSE

\* Ranging over a map takes its keys in any order.
AnyOrder(S) == Bijection(1 .. Cardinality(S), S)

\* Stop reverses its copy of the start order.
Reverse(q) == [i \in 1 .. Len(q) |-> q[(Len(q) - i) + 1]]

At(w, label) == pc' = [pc EXCEPT ![w] = label]

\* A service is registered once, with any dependencies, and not after Start.
Register(s, D) ==
  /\ mutex = Nobody
  /\ ~started
  /\ s \notin registered
  /\ registered' = registered \cup {s}
  /\ deps' = [deps EXCEPT ![s] = D]
  /\ UNCHANGED <<startOrder, started, mutex, pc, sorting, todo, outside, circular>>

----------------------------------------------------------------------------
(* Start                                                                   *)

StartFails(w) == At(w, "startFailed") /\ mutex' = Nobody

\* The first half of calculateStartOrder: map iteration queues the services without
\* dependencies in any order.
OrderBegin ==
  /\ \A s \in registered : deps[s] \subseteq registered
  /\ pending' = deps
  /\ queue' \in AnyOrder({s \in registered : deps[s] = {}})
  /\ order' = << >>

\* The checks of Start; a dependency that is not registered is an error.
StartLock(w) ==
  /\ pc[w] = "lockStart"
  /\ mutex = Nobody
  /\ \/ /\ started
        /\ StartFails(w)
        /\ UNCHANGED sorting
     \/ /\ ~started
        /\ \E s \in registered : ~(deps[s] \subseteq registered)
        /\ StartFails(w)
        /\ UNCHANGED sorting
     \/ /\ ~started
        /\ OrderBegin
        /\ mutex' = w
        /\ At(w, "order")
  /\ UNCHANGED <<table, startOrder, started, todo, outside, circular>>

\* Mutant of OrderStep: a service is queued when its first dependency is done.
OrderStepEarly(w) ==
  /\ pc[w] = "order"
  /\ queue # << >>
  /\ order' = Append(order, Head(queue))
  /\ pending' = [s \in Services |-> pending[s] \ {Head(queue)}]
  /\ \E q \in AnyOrder({s \in registered : Head(queue) \in pending[s]}
                         \ Range(order \o queue)) : queue' = Tail(queue) \o q
  /\ UNCHANGED <<table, startOrder, started, mutex, pc, todo, outside, circular>>

\* One turn of the loop of calculateStartOrder; the services that now wait for
\* nothing are queued in the order their registration was iterated over.
OrderStep(w) ==
  /\ pc[w] = "order"
  /\ queue # << >>
  /\ order' = Append(order, Head(queue))
  /\ pending' = [s \in Services |-> pending[s] \ {Head(queue)}]
  /\ \E q \in AnyOrder({s \in registered : pending[s] = {Head(queue)}}) :
       queue' = Tail(queue) \o q
  /\ UNCHANGED <<table, startOrder, started, mutex, pc, todo, outside, circular>>

\* calculateStartOrder returns; its local variables are gone.
Sorted ==
  /\ pending' = [s \in Services |-> {}]
  /\ queue' = << >>
  /\ order' = << >>

\* The check for circular dependencies.
OrderEnd(w) ==
  /\ pc[w] = "order"
  /\ queue = << >>
  /\ Sorted
  /\ IF Len(order) # Cardinality(registered)
     THEN StartFails(w) /\ circular' = TRUE /\ UNCHANGED todo
     ELSE todo' = order /\ At(w, "start") /\ UNCHANGED <<mutex, circular>>
  /\ UNCHANGED <<table, startOrder, started, outside>>

\* service.Start of the next service succeeds.
StartService(w) ==
  /\ pc[w] = "start"
  /\ todo # << >>
  /\ startOrder' = Append(startOrder, Head(todo))
  /\ up' = up \cup {Head(todo)}
  /\ stuck' = stuck \ {Head(todo)}
  /\ todo' = Tail(todo)
  /\ UNCHANGED <<table, started, mutex, pc, sorting, leftover, circular>>

\* It fails: Start returns at once, and what was started stays up.
StartServiceFails(w) ==
  /\ pc[w] = "start"
  /\ todo # << >>
  /\ Head(todo) \notin Infallible
  /\ StartFails(w)
  /\ todo' = << >>
  /\ leftover' = leftover \cup Range(startOrder)
  /\ UNCHANGED <<table, startOrder, started, sorting, up, stuck, circular>>

\* Mutant of StartEnd: the manager is not marked as started.
StartEndUnmarked(w) ==
  /\ pc[w] = "start"
  /\ todo = << >>
  /\ mutex' = Nobody
  /\ At(w, "startDone")
  /\ UNCHANGED <<table, startOrder, started, sorting, todo, outside, circular>>

StartEnd(w) ==
  /\ pc[w] = "start"
  /\ todo = << >>
  /\ started' = TRUE
  /\ mutex' = Nobody
  /\ At(w, "startDone")
  /\ UNCHANGED <<table, startOrder, sorting, todo, outside, circular>>

----------------------------------------------------------------------------
(* Stop                                                                    *)

\* Mutant of StopLock: services are stopped in the order they were started.
StopLockForward(w) ==
  /\ pc[w] = "lockStop"
  /\ mutex = Nobody
  /\ IF started THEN mutex' = w /\ todo' = startOrder /\ At(w, "stop")
                ELSE At(w, "stopDone") /\ UNCHANGED <<mutex, todo>>
  /\ UNCHANGED <<table, startOrder, started, sorting, outside, circular>>

\* A manager that is not started has nothing to stop.
StopLock(w) ==
  /\ pc[w] = "lockStop"
  /\ mutex = Nobody
  /\ IF started THEN mutex' = w /\ todo' = Reverse(startOrder) /\ At(w, "stop")
                ELSE At(w, "stopDone") /\ UNCHANGED <<mutex, todo>>
  /\ UNCHANGED <<table, startOrder, started, sorting, outside, circular>>

\* service.Stop of the next service; an error does not end the loop.
StopService(w) ==
  /\ pc[w] = "stop"
  /\ todo # << >>
  /\ \/ up' = up \ {Head(todo)} /\ stuck' = stuck \ {Head(todo)}
     \/ stuck' = stuck \cup (up \cap {Head(todo)}) /\ UNCHANGED up
  /\ leftover' = leftover \ {Head(todo)}
  /\ todo' = Tail(todo)
  /\ UNCHANGED <<table, startOrder, started, mutex, pc, sorting, circular>>

StopEnd(w) ==
  /\ pc[w] = "stop"
  /\ todo = << >>
  /\ started' = FALSE
  /\ startOrder' = << >>
  /\ mutex' = Nobody
  /\ At(w, "stopDone")
  /\ UNCHANGED <<table, sorting, todo, outside, circular>>

LifecycleStep(w) ==
  \/ StartLock(w) \/ OrderStep(w) \/ OrderEnd(w) \/ StartService(w) \/ StartServiceFails(w)
  \/ StartEnd(w) \/ StopLock(w) \/ StopService(w) \/ StopEnd(w)
=============================================================================
