--------------------------- MODULE AdvancedRouter ---------------------------
(***************************************************************************)
(* core/advanced_router.go over core/router.go and core/handle.go.  The    *)
(* routing table (a sync.Map) and the HandleManager are updated in two     *)
(* separate atomic steps, in an order that differs from one operation to   *)
(* another; workers are goroutines that call these operations at will.     *)
(***************************************************************************)
EXTENDS HandleManager

CONSTANT Workers

VARIABLES
  actors,  \* keys of router.actors
  pc,      \* the second step a worker still has to do, or "idle"
  op,      \* the actor, name and handle number that step works on
  raced    \* history: actors on which two operations overlapped

rtVars == <<actors, pc, op, raced>>
vars   == <<hmVars, rtVars>>

RouterPC == {"idle", "allocate", "release", "remove", "removeService", "releaseService"}
Nothing  == [actor |-> None, name |-> NoName, handle |-> None]

Init ==
  /\ NewHandleManager
  /\ actors = {}
  /\ pc = [w \in Workers |-> "idle"]
  /\ op = [w \in Workers |-> Nothing]
  /\ raced = {}

\* An operation on actor a is between its two steps.
InFlight(a) == \E w \in Workers : pc[w] # "idle" /\ op[w].actor = a

\* The call goes on: worker w's next step is label, working on o.
Continue(w, label, o) ==
  /\ pc' = [pc EXCEPT ![w] = label]
  /\ op' = [op EXCEPT ![w] = o]
  /\ UNCHANGED raced

\* The first step of a call; it may overlap another operation on the same actor.
Begin(w, label, o) ==
  /\ pc' = [pc EXCEPT ![w] = label]
  /\ op' = [op EXCEPT ![w] = o]
  /\ raced' = IF InFlight(o.actor) THEN raced \cup {o.actor} ELSE raced

Done(w) == Continue(w, "idle", Nothing)

----------------------------------------------------------------------------
(* Register (with NoName) and RegisterService                              *)

\* router.Register, LoadOrStore: an actor id already present is an error.
RegisterInRouter(w, a, n) ==
  /\ pc[w] = "idle"
  /\ a \notin actors
  /\ actors' = actors \cup {a}
  /\ Begin(w, "allocate", [actor |-> a, name |-> n, handle |-> None])
  /\ UNCHANGED hmVars

\* AllocateHandle; a name already taken is an error and the actor stays routed.
RegisterHandle(w) ==
  /\ pc[w] = "allocate"
  /\ AllocateHandle(op[w].actor, op[w].name)
  /\ Done(w)
  /\ UNCHANGED actors

----------------------------------------------------------------------------
(* Unregister: the handle first, then the routing table                    *)

UnregisterLookup(w, a) ==
  /\ pc[w] = "idle"
  /\ Begin(w, IF GetHandleByActor(a) # None THEN "release" ELSE "remove",
           [actor |-> a, name |-> NoName, handle |-> GetHandleByActor(a)])
  /\ UNCHANGED <<hmVars, actors>>

\* Mutant of UnregisterRelease: the router entry is removed, the handle is kept.
UnregisterNoRelease(w) ==
  /\ pc[w] = "release"
  /\ Continue(w, "remove", op[w])
  /\ UNCHANGED <<hmVars, actors>>

UnregisterRelease(w) ==
  /\ pc[w] = "release"
  /\ ReleaseHandle(op[w].handle)
  /\ Continue(w, "remove", op[w])
  /\ UNCHANGED actors

\* router.Unregister, LoadAndDelete: a missing id is an error and changes nothing.
UnregisterRemove(w) ==
  /\ pc[w] = "remove"
  /\ actors' = actors \ {op[w].actor}
  /\ Done(w)
  /\ UNCHANGED hmVars

----------------------------------------------------------------------------
(* UnregisterService: the routing table first, then the handle             *)

ServiceLookup(w, n) ==
  /\ pc[w] = "idle"
  /\ GetHandleByName(n) # None
  /\ Begin(w, "removeService", [actor  |-> handles[GetHandleByName(n)].actor,
                                name   |-> n,
                                handle |-> GetHandleByName(n)])
  /\ UNCHANGED <<hmVars, actors>>

\* A missing actor is an error, and the handle is not released.
ServiceRemove(w) ==
  /\ pc[w] = "removeService"
  /\ IF op[w].actor \in actors THEN Continue(w, "releaseService", op[w]) ELSE Done(w)
  /\ actors' = actors \ {op[w].actor}
  /\ UNCHANGED hmVars

ServiceRelease(w) ==
  /\ pc[w] = "releaseService"
  /\ ReleaseHandle(op[w].handle)
  /\ Done(w)
  /\ UNCHANGED actors

----------------------------------------------------------------------------
\* LookupService finds the name.
Resolves(n) == GetHandleByName(n) # None

WorkerStep(w) ==
  \/ \E a \in Actors, n \in Names \cup {NoName} : RegisterInRouter(w, a, n)
  \/ RegisterHandle(w)
  \/ \E a \in Actors : UnregisterLookup(w, a)
  \/ UnregisterRelease(w)
  \/ UnregisterRemove(w)
  \/ \E n \in Names : ServiceLookup(w, n)
  \/ ServiceRemove(w)
  \/ ServiceRelease(w)

Next == \E w \in Workers : WorkerStep(w)

Spec == Init /\ [][Next]_vars

----------------------------------------------------------------------------
(* Properties                                                              *)

\* The routing table, the handle maps and the operations in flight keep their types:
\* in particular every operation that is going to release a handle holds a handle
\* number, so Unregister never dereferences a nil handle.
TypeOK ==
  /\ ManagerTypes
  /\ actors \subseteq Actors
  /\ pc \in [Workers -> RouterPC]
  /\ op \in [Workers -> [actor : Actors \cup {None}, name : Names \cup {NoName},
                         handle : HandleIds \cup {None}]]
  /\ raced \subseteq Actors
  /\ \A w \in Workers :
       /\ pc[w] # "idle" => op[w].actor \in Actors
       /\ pc[w] \in {"release", "removeService", "releaseService"} => op[w].handle \in HandleIds

\* A name that LookupService finds can be routed to by RouteByName, except while an
\* operation on its actor is in flight or after two operations on that actor have
\* overlapped: however many goroutines use the router, operations on different actors
\* never leave a handle without the routing entry of its actor.
NoGhostNames ==
  \A n \in Names : Resolves(n) =>
    LET a == handles[GetHandleByName(n)].actor
    IN  a \in actors \/ InFlight(a) \/ a \in raced
=============================================================================
