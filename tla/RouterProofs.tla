---------------------------- MODULE RouterProofs ----------------------------
(***************************************************************************)
(* Proofs about the tables that lead to an actor, a node or a service, for *)
(* any names, handles, nodes, watchers and connections.  HandleManager,    *)
(* which AdvancedRouter is built on, implements the abstract directory;    *)
(* ClusterManager closes a connection of its transport once, and panics    *)
(* only in the known order of events; ClusterRegistry tells its watchers   *)
(* the truth.                                                              *)
(***************************************************************************)
EXTENDS AdvancedRouter, ClusterManager, ClusterRegistry, TLAPS

----------------------------------------------------------------------------
(* HandleManager and AdvancedRouter                                         *)

\* Numbers at or above the counter have never been handed out and, below the
\* bound, the counter has not wrapped.
FreshInv ==
  /\ handleCounter >= FirstHandle
  /\ \A h \in HandleIds : handles[h] # None => h >= FirstHandle /\ h < handleCounter

HandleInv == ManagerTypes /\ MapsAgree /\ FreshInv

\* The first number is one of the numbers.
LEMMA FirstHandleType == FirstHandle \in HandleIds
  <1>1. NodeID * NodeSpan + 1 \in Nat
    BY NodeAssumption
  <1>2. \A x \in Nat, m \in Nat \ {0} : x % m \in 0 .. m - 1
    OBVIOUS
  <1> QED  BY <1>1, <1>2, NodeAssumption, Zenon DEF FirstHandle, HandleIds

\* Below the bound, the counter advances without wrapping.
LEMMA CounterAdvances ==
  ASSUME handleCounter \in HandleIds, handleCounter < HandleLimit
  PROVE  (handleCounter + 1) % HandleSpace = handleCounter + 1 /\ handleCounter + 1 \in HandleIds
  <1>1. \A x \in Nat, m \in Nat \ {0} : x < m => x % m = x
    OBVIOUS
  <1> QED  BY <1>1, NodeAssumption DEF HandleIds

\* A new manager has empty maps.
LEMMA ManagerInit == NewHandleManager => HandleInv
  BY FirstHandleType
     DEF NewHandleManager, HandleInv, ManagerTypes, MapsAgree, FreshInv, HandleIds

\* What AllocateHandle does when it really allocates.
Allocates(a, n) ==
  /\ actorToHandle[a] = None
  /\ n \in Names => nameToHandle[n] = None
  /\ handleCounter < HandleLimit
  /\ handleCounter' = handleCounter + 1
  /\ handles' = [handles EXCEPT ![handleCounter] = [actor |-> a, name |-> n]]
  /\ actorToHandle' = [actorToHandle EXCEPT ![a] = handleCounter]
  /\ nameToHandle' = IF n = NoName THEN nameToHandle
                     ELSE [nameToHandle EXCEPT ![n] = handleCounter]

\* AllocateHandle fails and changes nothing, or allocates.
LEMMA AllocateCases ==
  ASSUME HandleInv, NEW a \in Actors, NEW n \in Names \cup {NoName}, AllocateHandle(a, n)
  PROVE  UNCHANGED hmVars \/ Allocates(a, n)
  BY CounterAdvances, Zenon
     DEF AllocateHandle, Allocates, GetHandleByActor, GetHandleByName, HandleInv, ManagerTypes

\* AllocateHandle keeps the maps inverse: the number is fresh, the actor and the name are free.
LEMMA AllocateKeepsInv ==
  ASSUME HandleInv, NEW a \in Actors, NEW n \in Names \cup {NoName}, AllocateHandle(a, n)
  PROVE  HandleInv'
  <1>1. CASE UNCHANGED hmVars
    BY <1>1, Zenon DEF hmVars, HandleInv, ManagerTypes, MapsAgree, FreshInv
  <1>2. CASE Allocates(a, n)
    <2> DEFINE new == handleCounter
               rec == [actor |-> a, name |-> n]
    <2>1. new \in HandleIds /\ new + 1 \in HandleIds /\ handles[new] = None
      BY <1>2, CounterAdvances DEF Allocates, HandleInv, ManagerTypes, FreshInv, HandleIds
    <2>2. rec \in Handles /\ rec # None /\ rec.actor = a /\ rec.name = n
      BY AbsentAssumption DEF Handles
    <2>3. new # None /\ NoName \notin Names
      BY <2>1, AbsentAssumption, Zenon
    <2>4. ManagerTypes'
      BY <1>2, <2>1, <2>2, Zenon DEF Allocates, HandleInv, ManagerTypes
    <2>5. \A h \in HandleIds : handles'[h] = IF h = new THEN rec ELSE handles[h]
      BY <1>2, <2>1, Zenon DEF Allocates, HandleInv, ManagerTypes
    <2>6. \A b \in Actors : actorToHandle'[b] = IF b = a THEN new ELSE actorToHandle[b]
      BY <1>2, Zenon DEF Allocates, HandleInv, ManagerTypes
    <2>7. \A m \in Names : nameToHandle'[m] = IF m = n THEN new ELSE nameToHandle[m]
      BY <1>2, <2>3, Zenon DEF Allocates, HandleInv, ManagerTypes
    <2>8. \A h \in HandleIds : handles[h] # None => handles[h] \in Handles
                               /\ handles[h].actor # a /\ (n # NoName => handles[h].name # n)
      <3>1. \A h \in HandleIds : handles[h] # None => handles[h] \in Handles
        BY Zenon DEF HandleInv, ManagerTypes
      <3>2. actorToHandle[a] = None /\ (n \in Names => nameToHandle[n] = None)
        BY <1>2, Zenon DEF Allocates
      <3>3. \A h \in HandleIds : h # None
        BY AbsentAssumption, Zenon
      <3> QED  BY <3>1, <3>2, <3>3 DEF HandleInv, MapsAgree
    <2>9. MapsAgree'
      <3>1. \A b \in Actors : actorToHandle'[b] # None =>
              handles'[actorToHandle'[b]] # None /\ handles'[actorToHandle'[b]].actor = b
        BY <2>1, <2>2, <2>5, <2>6 DEF HandleInv, ManagerTypes, MapsAgree
      <3>2. \A m \in Names : nameToHandle'[m] # None =>
              handles'[nameToHandle'[m]] # None /\ handles'[nameToHandle'[m]].name = m
        BY <2>1, <2>2, <2>5, <2>7 DEF HandleInv, ManagerTypes, MapsAgree
      <3>3. ASSUME NEW h \in HandleIds, handles'[h] # None
            PROVE  /\ actorToHandle'[handles'[h].actor] = h
                   /\ handles'[h].name # NoName => nameToHandle'[handles'[h].name] = h
        <4>1. CASE h = new
          BY <4>1, <2>2, <2>5, <2>6, <2>7
        <4>2. CASE h # new
          <5>1. handles'[h] = handles[h] /\ handles[h] # None /\ handles[h].actor \in Actors
                /\ handles[h].name \in Names \cup {NoName}
            BY <3>3, <4>2, <2>5, <2>8, Zenon DEF Handles
          <5> QED  BY <5>1, <2>6, <2>7, <2>8 DEF HandleInv, MapsAgree
        <4> QED  BY <4>1, <4>2, Zenon
      <3> QED  BY <3>1, <3>2, <3>3, Zenon DEF MapsAgree
    <2>10. FreshInv'
      BY <1>2, <2>1, <2>5, FirstHandleType
         DEF Allocates, FreshInv, HandleInv, ManagerTypes, HandleIds
    <2> QED  BY <2>4, <2>9, <2>10, Zenon DEF HandleInv
  <1> QED  BY <1>1, <1>2, AllocateCases, Zenon

\* ReleaseHandle removes the handle from all three maps, and nothing else.
LEMMA ReleaseKeepsInv ==
  ASSUME HandleInv, NEW h \in HandleIds, ReleaseHandle(h)
  PROVE  HandleInv'
  <1>1. CASE UNCHANGED hmVars
    BY <1>1, Zenon DEF hmVars, HandleInv, ManagerTypes, MapsAgree, FreshInv
  <1>2. CASE handles[h] # None
    <2> DEFINE a == handles[h].actor
               n == handles[h].name
    <2>1. a \in Actors /\ n \in Names \cup {NoName} /\ NoName \notin Names
      BY <1>2, AbsentAssumption, Zenon DEF HandleInv, ManagerTypes, Handles
    <2>2. handleCounter' = handleCounter
      BY <1>2, Zenon DEF ReleaseHandle
    <2>3. \A g \in HandleIds : handles'[g] = IF g = h THEN None ELSE handles[g]
      BY <1>2, Zenon DEF ReleaseHandle, HandleInv, ManagerTypes
    <2>4. \A b \in Actors : actorToHandle'[b] = IF b = a THEN None ELSE actorToHandle[b]
      BY <1>2, <2>1, Zenon DEF ReleaseHandle, HandleInv, ManagerTypes
    <2>5. \A m \in Names : nameToHandle'[m] = IF m = n THEN None ELSE nameToHandle[m]
      BY <1>2, <2>1, Zenon DEF ReleaseHandle, HandleInv, ManagerTypes
    <2>6. ManagerTypes'
      BY <1>2, <2>1, Zenon DEF ReleaseHandle, HandleInv, ManagerTypes
    <2>7. actorToHandle[a] = h /\ (n \in Names => nameToHandle[n] = h)
      BY <1>2, <2>1, Zenon DEF HandleInv, MapsAgree
    <2>8. MapsAgree'
      <3>1. \A b \in Actors : actorToHandle'[b] # None =>
              handles'[actorToHandle'[b]] # None /\ handles'[actorToHandle'[b]].actor = b
        BY <2>3, <2>4, <2>7 DEF HandleInv, ManagerTypes, MapsAgree
      <3>2. \A m \in Names : nameToHandle'[m] # None =>
              handles'[nameToHandle'[m]] # None /\ handles'[nameToHandle'[m]].name = m
        BY <2>3, <2>5, <2>7 DEF HandleInv, ManagerTypes, MapsAgree
      <3>3. ASSUME NEW g \in HandleIds, handles'[g] # None
            PROVE  /\ actorToHandle'[handles'[g].actor] = g
                   /\ handles'[g].name # NoName => nameToHandle'[handles'[g].name] = g
        <4>1. g # h /\ handles'[g] = handles[g] /\ handles[g] # None
              /\ handles[g].actor \in Actors /\ handles[g].name \in Names \cup {NoName}
          BY <3>3, <2>3, Zenon DEF HandleInv, ManagerTypes, Handles
        <4>2. /\ actorToHandle[handles[g].actor] = g
              /\ handles[g].name # NoName => nameToHandle[handles[g].name] = g
          BY <4>1, Zenon DEF HandleInv, MapsAgree
        <4> QED  BY <4>1, <4>2, <2>4, <2>5, <2>7
      <3> QED  BY <3>1, <3>2, <3>3, Zenon DEF MapsAgree
    <2>9. FreshInv'
      BY <2>2, <2>3, Zenon DEF HandleInv, FreshInv
    <2> QED  BY <2>6, <2>8, <2>9, Zenon DEF HandleInv
  <1> QED  BY <1>1, <1>2, Zenon DEF ReleaseHandle

\* The inductive invariant holds in every reachable state.
LEMMA ManagerInvHolds == ManagerSpec => []HandleInv
  <1>1. HandleInv /\ [ManagerNext]_hmVars => HandleInv'
    <2>1. HandleInv /\ UNCHANGED hmVars => HandleInv'
      BY DEF hmVars, HandleInv, ManagerTypes, MapsAgree, FreshInv
    <2> QED  BY <2>1, AllocateKeepsInv, ReleaseKeepsInv, Zenon DEF ManagerNext
  <1> QED  BY ManagerInit, <1>1, PTL DEF ManagerSpec

\* The maps of HandleManager are always inverse to each other, for any number of
\* actors, names, allocations and releases below the bound on the counter.
THEOREM MapsStayInverse == ManagerSpec => [](ManagerTypes /\ MapsAgree)
  <1>1. HandleInv => ManagerTypes /\ MapsAgree
    BY Zenon DEF HandleInv
  <1> QED  BY <1>1, ManagerInvHolds, PTL

\* HandleManager implements Directory: handle numbers are never reused.
THEOREM ImplementsDirectory == ManagerSpec => NumbersNeverReused
  <1>1. NewHandleManager => Dir!Init
    <2>1. FirstHandle .. FirstHandle - 1 = {}
      BY FirstHandleType DEF HandleIds
    <2> QED  BY <2>1, Zenon DEF NewHandleManager, Dir!Init
  <1>2. HandleInv /\ [ManagerNext]_hmVars => [Dir!Next]_(Dir!dv)
    <2> SUFFICES ASSUME HandleInv, [ManagerNext]_hmVars PROVE [Dir!Next]_(Dir!dv)
      BY Zenon
    <2>1. CASE UNCHANGED hmVars
      BY <2>1, Zenon DEF hmVars, Dir!dv
    <2>2. ASSUME NEW a \in Actors, NEW n \in Names \cup {NoName}, Allocates(a, n)
          PROVE  Dir!Enter(handleCounter, a, n) /\ handleCounter \in HandleIds
      <3>1. handleCounter \in HandleIds /\ handleCounter >= FirstHandle
        BY Zenon DEF HandleInv, ManagerTypes, FreshInv
      <3>2. handleCounter \notin FirstHandle .. handleCounter - 1
        BY <3>1 DEF HandleIds
      <3>3. FirstHandle .. handleCounter' - 1 = (FirstHandle .. handleCounter - 1) \cup {handleCounter}
        BY <2>2, <3>1, FirstHandleType DEF Allocates, HandleIds
      <3>4. ~Dir!Bound(a)
        BY <2>2, AbsentAssumption DEF Dir!Bound, Allocates, HandleInv, MapsAgree
      <3>5. n # NoName => ~Dir!Named(n)
        BY <2>2, AbsentAssumption DEF Dir!Named, Allocates, HandleInv, MapsAgree
      <3> QED  BY <2>2, <3>1, <3>2, <3>3, <3>4, <3>5, Zenon DEF Dir!Enter, Allocates
    <2>3. ASSUME NEW h \in HandleIds, ReleaseHandle(h)
          PROVE  UNCHANGED hmVars \/ Dir!Remove(h)
      BY <2>3, Zenon DEF ReleaseHandle, Dir!Remove
    <2> QED  BY <2>1, <2>2, <2>3, AllocateCases, Zenon DEF ManagerNext, Dir!Next, hmVars, Dir!dv
  <1> QED  BY <1>1, <1>2, ManagerInvHolds, PTL DEF ManagerSpec, NumbersNeverReused, Dir!Spec

----------------------------------------------------------------------------
(* The router                                                              *)

\* What each worker's pending step relies on.
OpTypes ==
  /\ actors \subseteq Actors
  /\ pc \in [Workers -> RouterPC]
  /\ op \in [Workers -> [actor : Actors \cup {None}, name : Names \cup {NoName},
                         handle : HandleIds \cup {None}]]
  /\ raced \subseteq Actors
  /\ \A w \in Workers :
       /\ pc[w] # "idle" => op[w].actor \in Actors
       /\ pc[w] \in {"release", "removeService", "releaseService"} => op[w].handle \in HandleIds

RouterInv == HandleInv /\ OpTypes

\* A worker that goes on with a well-typed operation keeps OpTypes.
LEMMA ContinueTypes ==
  ASSUME OpTypes, NEW w \in Workers, NEW label \in RouterPC,
         NEW o \in [actor : Actors \cup {None}, name : Names \cup {NoName},
                    handle : HandleIds \cup {None}],
         label # "idle" => o.actor \in Actors,
         label \in {"release", "removeService", "releaseService"} => o.handle \in HandleIds,
         Continue(w, label, o) \/ Begin(w, label, o), actors' \subseteq Actors
  PROVE  OpTypes'
  <1>1. pc' = [pc EXCEPT ![w] = label] /\ op' = [op EXCEPT ![w] = o]
    BY Zenon DEF Continue, Begin
  <1>2. raced' \subseteq Actors
    <2>1. InFlight(o.actor) => o.actor \in Actors
      BY Zenon DEF InFlight, OpTypes
    <2> QED  BY <2>1, Zenon DEF OpTypes, Continue, Begin
  <1> QED  BY <1>1, <1>2, Zenon DEF OpTypes

\* The end of an operation keeps the types.
LEMMA DoneTypes ==
  ASSUME OpTypes, NEW w \in Workers, Done(w), actors' \subseteq Actors
  PROVE  OpTypes'
  BY Zenon DEF OpTypes, Done, Continue, Nothing, RouterPC

\* Steps that leave the maps alone keep HandleInv.
LEMMA ManagerStutter == ASSUME HandleInv, UNCHANGED hmVars PROVE HandleInv'
  BY Zenon DEF hmVars, HandleInv, ManagerTypes, MapsAgree, FreshInv

\* Every step of every worker keeps RouterInv.
LEMMA RouterInvStep == ASSUME RouterInv, [Next]_vars PROVE RouterInv'
  <1> USE DEF RouterInv
  <1>1. CASE UNCHANGED vars
    BY <1>1, ManagerStutter, Zenon DEF vars, rtVars, OpTypes
  <1>2. ASSUME NEW w \in Workers, NEW a \in Actors, NEW n \in Names \cup {NoName},
               RegisterInRouter(w, a, n)
        PROVE  RouterInv'
    BY <1>2, ContinueTypes, ManagerStutter, Zenon DEF RegisterInRouter, RouterPC, OpTypes
  <1>3. ASSUME NEW w \in Workers, RegisterHandle(w)
        PROVE  RouterInv'
    <2>1. op[w].actor \in Actors /\ op[w].name \in Names \cup {NoName}
      BY <1>3, Zenon DEF RegisterHandle, OpTypes
    <2> QED  BY <1>3, <2>1, AllocateKeepsInv, DoneTypes, Zenon DEF RegisterHandle, OpTypes
  <1>4. ASSUME NEW w \in Workers, NEW a \in Actors, UnregisterLookup(w, a)
        PROVE  RouterInv'
    <2>1. GetHandleByActor(a) \in HandleIds \cup {None}
      BY Zenon DEF GetHandleByActor, HandleInv, ManagerTypes
    <2>2. CASE GetHandleByActor(a) # None
      BY <1>4, <2>1, <2>2, ContinueTypes, ManagerStutter, Zenon DEF UnregisterLookup, RouterPC, OpTypes
    <2>3. CASE GetHandleByActor(a) = None
      BY <1>4, <2>1, <2>3, ContinueTypes, ManagerStutter, Zenon DEF UnregisterLookup, RouterPC, OpTypes
    <2> QED  BY <2>2, <2>3, Zenon
  <1>5. ASSUME NEW w \in Workers, UnregisterRelease(w)
        PROVE  RouterInv'
    <2>1. op[w].handle \in HandleIds /\ op[w].actor \in Actors
      BY <1>5, Zenon DEF UnregisterRelease, OpTypes
    <2>2. HandleInv'
      BY <1>5, <2>1, ReleaseKeepsInv, Zenon DEF UnregisterRelease
    <2> QED  BY <1>5, <2>1, <2>2, ContinueTypes, Zenon DEF UnregisterRelease, RouterPC, OpTypes
  <1>6. ASSUME NEW w \in Workers, UnregisterRemove(w)
        PROVE  RouterInv'
    BY <1>6, DoneTypes, ManagerStutter, Zenon DEF UnregisterRemove, OpTypes
  <1>7. ASSUME NEW w \in Workers, NEW n \in Names, ServiceLookup(w, n)
        PROVE  RouterInv'
    <2>1. nameToHandle[n] \in HandleIds /\ handles[nameToHandle[n]] \in Handles
          /\ GetHandleByName(n) = nameToHandle[n]
      BY <1>7 DEF ServiceLookup, GetHandleByName, HandleInv, ManagerTypes, MapsAgree
    <2>2. handles[nameToHandle[n]].actor \in Actors
      BY <2>1, Zenon DEF Handles
    <2> QED  BY <1>7, <2>1, <2>2, ContinueTypes, ManagerStutter, Zenon
             DEF ServiceLookup, RouterPC, OpTypes
  <1>8. ASSUME NEW w \in Workers, ServiceRemove(w)
        PROVE  RouterInv'
    <2>1. op[w].handle \in HandleIds /\ op[w].actor \in Actors
      BY <1>8, Zenon DEF ServiceRemove, OpTypes
    <2>2. CASE op[w].actor \in actors
      BY <1>8, <2>1, <2>2, ContinueTypes, ManagerStutter, Zenon DEF ServiceRemove, RouterPC, OpTypes
    <2>3. CASE op[w].actor \notin actors
      BY <1>8, <2>3, DoneTypes, ManagerStutter, Zenon DEF ServiceRemove, OpTypes
    <2> QED  BY <2>2, <2>3, Zenon
  <1>9. ASSUME NEW w \in Workers, ServiceRelease(w)
        PROVE  RouterInv'
    <2>1. op[w].handle \in HandleIds
      BY <1>9, Zenon DEF ServiceRelease, OpTypes
    <2>2. HandleInv'
      BY <1>9, <2>1, ReleaseKeepsInv, Zenon DEF ServiceRelease
    <2> QED  BY <1>9, <2>2, DoneTypes, Zenon DEF ServiceRelease, OpTypes
  <1> QED  BY <1>1, <1>2, <1>3, <1>4, <1>5, <1>6, <1>7, <1>8, <1>9, Zenon DEF Next, WorkerStep

\* So RouterInv holds throughout.
LEMMA RouterInvHolds == Spec => []RouterInv
  <1>1. Init => RouterInv
    BY ManagerInit DEF Init, RouterInv, OpTypes, Nothing, RouterPC
  <1> QED  BY <1>1, RouterInvStep, PTL DEF Spec

\* However many goroutines use the router, the handle maps stay inverse to each other
\* and no operation reaches its second step with a nil handle.
THEOREM RouterSafe == Spec => [](TypeOK /\ MapsAgree)
  <1>1. RouterInv => TypeOK /\ MapsAgree
    BY Zenon DEF RouterInv, HandleInv, OpTypes, TypeOK
  <1> QED  BY <1>1, RouterInvHolds, PTL

\* The router refines the directory whatever its callers do: it changes the handle maps
\* only through AllocateHandle and ReleaseHandle, so handle numbers are never reused.
THEOREM RouterImplementsDirectory == Spec => NumbersNeverReused
  <1>1. Init => NewHandleManager
    BY Zenon DEF Init
  <1>2. RouterInv /\ [Next]_vars => [ManagerNext]_hmVars
    <2> SUFFICES ASSUME RouterInv, [Next]_vars PROVE [ManagerNext]_hmVars
      BY Zenon
    <2>1. CASE UNCHANGED vars
      BY <2>1, Zenon DEF vars, hmVars
    <2>2. ASSUME NEW w \in Workers, RegisterHandle(w) PROVE ManagerNext
      BY <2>2, Zenon DEF RegisterHandle, ManagerNext, RouterInv, OpTypes
    <2>3. ASSUME NEW w \in Workers, UnregisterRelease(w) \/ ServiceRelease(w) PROVE ManagerNext
      BY <2>3, Zenon DEF UnregisterRelease, ServiceRelease, ManagerNext, RouterInv, OpTypes
    <2>4. ASSUME NEW w \in Workers, WorkerStep(w) PROVE [ManagerNext]_hmVars
      BY <2>2, <2>3, <2>4, Zenon
         DEF WorkerStep, RegisterInRouter, UnregisterLookup, UnregisterRemove, ServiceLookup,
             ServiceRemove
    <2> QED  BY <2>1, <2>4, Zenon DEF Next
  <1>3. Spec => ManagerSpec
    BY <1>1, <1>2, RouterInvHolds, PTL DEF Spec, ManagerSpec
  <1> QED  BY <1>3, ImplementsDirectory, Zenon

----------------------------------------------------------------------------
(* A ghost name takes two operations that overlap on one actor             *)

\* The number an operation is about to release still belongs to its actor or to nobody.
OwnHandles ==
  \A w \in Workers : pc[w] \in {"release", "removeService", "releaseService"} =>
    /\ op[w].handle < handleCounter
    /\ handles[op[w].handle] # None => handles[op[w].handle].actor = op[w].actor

\* What the pending step of worker w relies on when nobody else is at its actor.
Pending(w) ==
  /\ pc[w] = "allocate" => op[w].actor \in actors
  /\ pc[w] \in {"release", "removeService", "releaseService"} =>
       actorToHandle[op[w].actor] = op[w].handle
  /\ pc[w] = "remove" => actorToHandle[op[w].actor] = None
  /\ pc[w] = "removeService" => op[w].actor \in actors

\* Of an actor that was never raced: at most one worker is at it, what that worker
\* relies on holds, and when there is none a handle implies a routing entry.
GhostInv ==
  /\ \A v, w \in Workers :
       pc[v] # "idle" /\ pc[w] # "idle" /\ op[v].actor = op[w].actor /\ op[v].actor \notin raced
       => v = w
  /\ \A w \in Workers : pc[w] # "idle" /\ op[w].actor \notin raced => Pending(w)
  /\ \A a \in Actors : a \notin raced /\ actorToHandle[a] # None /\ ~InFlight(a) => a \in actors

\* The step of worker w concerns actor a only.
Frame(w, a) ==
  /\ \A v \in Workers : v # w => pc'[v] = pc[v] /\ op'[v] = op[v]
  /\ \A b \in Actors : b # a =>
       actorToHandle'[b] = actorToHandle[b] /\ (b \in actors' <=> b \in actors)
  /\ pc[w] # "idle" => op[w].actor = a
  /\ pc'[w] # "idle" => op'[w].actor = a
  /\ raced \subseteq raced'
  /\ pc[w] = "idle" /\ InFlight(a) => a \in raced'

\* A step that concerns one actor only has to be looked at for that actor.
LEMMA FrameKeeps ==
  ASSUME RouterInv, RouterInv', GhostInv, NEW w \in Workers, NEW a \in Actors, Frame(w, a),
         a \notin raced' => /\ pc'[w] # "idle" => Pending(w)'
                            /\ pc'[w] = "idle" /\ actorToHandle'[a] # None => a \in actors'
  PROVE  GhostInv'
  <1>1. \A v \in Workers : v # w /\ pc[v] # "idle" /\ a \notin raced' => op[v].actor # a
    <2> SUFFICES ASSUME NEW v \in Workers, v # w, pc[v] # "idle", a \notin raced',
                        op[v].actor = a
                 PROVE  FALSE
      BY Zenon
    <2>1. a \notin raced
      BY Zenon DEF Frame
    <2>2. CASE pc[w] = "idle"
      BY <2>2, Zenon DEF Frame, InFlight
    <2>3. CASE pc[w] # "idle"
      BY <2>1, <2>3, Zenon DEF Frame, GhostInv
    <2> QED  BY <2>2, <2>3, Zenon
  <1>2. ASSUME NEW u \in Workers, NEW v \in Workers, pc'[u] # "idle", pc'[v] # "idle",
               op'[u].actor = op'[v].actor, op'[u].actor \notin raced'
        PROVE  u = v
    <2>1. CASE u # w /\ v # w
      BY <1>2, <2>1, Zenon DEF Frame, GhostInv
    <2>2. CASE u = w \/ v = w
      BY <1>1, <1>2, <2>2 DEF Frame
    <2> QED  BY <2>1, <2>2, Zenon
  <1>3. ASSUME NEW v \in Workers, pc'[v] # "idle", op'[v].actor \notin raced'
        PROVE  Pending(v)'
    <2>1. CASE v = w
      BY <1>3, <2>1, Zenon DEF Frame
    <2>2. CASE v # w
      <3>1. pc'[v] = pc[v] /\ op'[v] = op[v] /\ op[v].actor # a /\ op[v].actor \in Actors
        BY <1>1, <1>3, <2>2, Zenon DEF Frame, RouterInv, OpTypes
      <3>2. Pending(v)
        BY <1>3, <3>1, Zenon DEF Frame, GhostInv
      <3> QED  BY <3>1, <3>2, Zenon DEF Frame, Pending
    <2> QED  BY <2>1, <2>2, Zenon
  <1>4. ASSUME NEW b \in Actors, b \notin raced', actorToHandle'[b] # None, ~InFlight(b)'
        PROVE  b \in actors'
    <2>1. CASE b = a
      BY <1>4, <2>1, Zenon DEF Frame, InFlight
    <2>2. CASE b # a
      <3>1. ~InFlight(b)
        BY <1>4, <2>2, Zenon DEF Frame, InFlight
      <3> QED  BY <1>4, <2>2, <3>1, Zenon DEF Frame, GhostInv
    <2> QED  BY <2>1, <2>2, Zenon
  <1> QED  BY <1>2, <1>3, <1>4, Zenon DEF GhostInv

\* An operation that goes on or ends moves only its own worker.
LEMMA ContinueFrame ==
  ASSUME OpTypes, NEW w \in Workers, NEW label, NEW o, Continue(w, label, o)
  PROVE  /\ \A v \in Workers : v # w => pc'[v] = pc[v] /\ op'[v] = op[v]
         /\ pc'[w] = label /\ op'[w] = o /\ raced' = raced
  BY Zenon DEF Continue, OpTypes

\* An operation that begins moves only its own worker, and marks an actor it overlaps on.
LEMMA BeginFrame ==
  ASSUME OpTypes, NEW w \in Workers, NEW label, NEW o, Begin(w, label, o)
  PROVE  /\ \A v \in Workers : v # w => pc'[v] = pc[v] /\ op'[v] = op[v]
         /\ pc'[w] = label /\ op'[w] = o /\ raced \subseteq raced'
         /\ InFlight(o.actor) => o.actor \in raced'
  BY Zenon DEF Begin, OpTypes

\* What the two lookups leave behind: the handle found and the actor it stands for.
LEMMA UnregisterLookupFrame ==
  ASSUME RouterInv, NEW w \in Workers, NEW a \in Actors, UnregisterLookup(w, a)
  PROVE  /\ UNCHANGED <<hmVars, actors>> /\ pc[w] = "idle"
         /\ \A v \in Workers : v # w => pc'[v] = pc[v] /\ op'[v] = op[v]
         /\ pc'[w] = IF actorToHandle[a] # None THEN "release" ELSE "remove"
         /\ op'[w].actor = a /\ op'[w].handle = actorToHandle[a]
         /\ raced \subseteq raced' /\ (InFlight(a) => a \in raced')
  <1> DEFINE label == IF actorToHandle[a] # None THEN "release" ELSE "remove"
             o == [actor |-> a, name |-> NoName, handle |-> actorToHandle[a]]
  <1>1. UNCHANGED <<hmVars, actors>> /\ pc[w] = "idle" /\ Begin(w, label, o)
    BY Zenon DEF UnregisterLookup, GetHandleByActor
  <1>2. o.actor = a /\ o.handle = actorToHandle[a]
    BY Zenon
  <1> HIDE DEF label, o
  <1>3. /\ \A v \in Workers : v # w => pc'[v] = pc[v] /\ op'[v] = op[v]
        /\ pc'[w] = label /\ op'[w] = o /\ raced \subseteq raced'
        /\ InFlight(o.actor) => o.actor \in raced'
    BY <1>1, BeginFrame, Zenon DEF RouterInv
  <1> QED  BY <1>1, <1>2, <1>3, Zenon DEF label

\* The same for the lookup by name.
LEMMA ServiceLookupFrame ==
  ASSUME RouterInv, NEW w \in Workers, NEW n \in Names, ServiceLookup(w, n)
  PROVE  LET h == nameToHandle[n]
             a == handles[h].actor
         IN  /\ UNCHANGED <<hmVars, actors>> /\ pc[w] = "idle"
             /\ \A v \in Workers : v # w => pc'[v] = pc[v] /\ op'[v] = op[v]
             /\ h \in HandleIds /\ handles[h] # None /\ pc'[w] = "removeService"
             /\ op'[w].actor = a /\ op'[w].handle = h
             /\ raced \subseteq raced' /\ (InFlight(a) => a \in raced')
  <1> DEFINE h == nameToHandle[n]
             o == [actor |-> handles[h].actor, name |-> n, handle |-> h]
  <1>1. GetHandleByName(n) = h /\ h \in HandleIds /\ handles[h] # None
    BY DEF ServiceLookup, GetHandleByName, RouterInv, HandleInv, ManagerTypes, MapsAgree
  <1>2. UNCHANGED <<hmVars, actors>> /\ pc[w] = "idle" /\ Begin(w, "removeService", o)
    BY <1>1, Zenon DEF ServiceLookup
  <1>3. o.actor = handles[h].actor /\ o.handle = h
    BY Zenon
  <1> HIDE DEF o
  <1>4. /\ \A v \in Workers : v # w => pc'[v] = pc[v] /\ op'[v] = op[v]
        /\ pc'[w] = "removeService" /\ op'[w] = o /\ raced \subseteq raced'
        /\ InFlight(o.actor) => o.actor \in raced'
    BY <1>2, BeginFrame, Zenon DEF RouterInv
  <1> QED  BY <1>1, <1>2, <1>3, <1>4, Zenon

\* Every number in use is below the counter, so no allocation reuses it.
LEMMA OwnHandlesStep ==
  ASSUME RouterInv, RouterInv', OwnHandles, [Next]_vars
  PROVE  OwnHandles'
  <1> USE DEF RouterInv
  <1>0. \A h \in HandleIds : handles[h] # None => handles[h] \in Handles /\ h < handleCounter
    BY Zenon DEF HandleInv, ManagerTypes, FreshInv
  <1>1. CASE UNCHANGED vars
    BY <1>1, Zenon DEF vars, rtVars, hmVars, OwnHandles
  <1>2. ASSUME NEW w \in Workers, NEW a \in Actors, NEW n \in Names \cup {NoName},
               RegisterInRouter(w, a, n)
        PROVE  OwnHandles'
    <2>1. /\ UNCHANGED hmVars /\ pc'[w] = "allocate"
          /\ \A v \in Workers : v # w => pc'[v] = pc[v] /\ op'[v] = op[v]
      BY <1>2, BeginFrame, Zenon DEF RegisterInRouter
    <2> QED  BY <2>1, Zenon DEF hmVars, OwnHandles
  <1>3. ASSUME NEW w \in Workers, RegisterHandle(w)
        PROVE  OwnHandles'
    <2> DEFINE a == op[w].actor
               n == op[w].name
    <2>1. /\ a \in Actors /\ n \in Names \cup {NoName} /\ pc'[w] = "idle"
          /\ \A v \in Workers : v # w => pc'[v] = pc[v] /\ op'[v] = op[v]
      BY <1>3, ContinueFrame, Zenon DEF RegisterHandle, OpTypes, Done
    <2>2. CASE UNCHANGED hmVars
      BY <2>1, <2>2 DEF hmVars, OwnHandles
    <2>3. CASE Allocates(a, n)
      <3>1. handleCounter \in HandleIds /\ handleCounter' = handleCounter + 1
        BY <2>3, Zenon DEF Allocates, HandleInv, ManagerTypes
      <3>2. \A h \in HandleIds : h < handleCounter =>
              handles'[h] = handles[h] /\ h < handleCounter'
        BY <2>3, <3>1 DEF Allocates, HandleInv, ManagerTypes, HandleIds
      <3> QED  BY <2>1, <3>2 DEF OwnHandles, OpTypes
    <2> QED  BY <1>3, <2>1, <2>2, <2>3, AllocateCases, Zenon DEF RegisterHandle
  <1>4. ASSUME NEW w \in Workers, NEW a \in Actors, UnregisterLookup(w, a)
        PROVE  OwnHandles'
    <2>1. actorToHandle[a] # None =>
            actorToHandle[a] \in HandleIds /\ handles[actorToHandle[a]] # None
            /\ handles[actorToHandle[a]].actor = a
      BY DEF HandleInv, ManagerTypes, MapsAgree
    <2>2. /\ UNCHANGED hmVars
          /\ \A v \in Workers : v # w => pc'[v] = pc[v] /\ op'[v] = op[v]
          /\ op'[w].handle = actorToHandle[a] /\ op'[w].actor = a
          /\ pc'[w] = IF actorToHandle[a] # None THEN "release" ELSE "remove"
      BY <1>4, UnregisterLookupFrame, Zenon
    <2> QED  BY <1>0, <2>1, <2>2 DEF hmVars, OwnHandles
  <1>5. ASSUME NEW w \in Workers, UnregisterRelease(w) \/ ServiceRelease(w)
        PROVE  OwnHandles'
    <2>1. /\ op[w].handle \in HandleIds
          /\ \A v \in Workers : pc'[v] \in {"release", "removeService", "releaseService"} =>
               pc'[v] = pc[v] /\ op'[v] = op[v]
      <3>1. CASE UnregisterRelease(w)
        BY <3>1, ContinueFrame DEF UnregisterRelease, OpTypes
      <3>2. CASE ServiceRelease(w)
        BY <3>2, ContinueFrame DEF ServiceRelease, OpTypes, Done
      <3> QED  BY <1>5, <3>1, <3>2, Zenon
    <2>2. handleCounter' = handleCounter
          /\ \A h \in HandleIds : handles'[h] # None => handles'[h] = handles[h]
      BY <1>5, <2>1, Zenon
         DEF UnregisterRelease, ServiceRelease, ReleaseHandle, hmVars, HandleInv, ManagerTypes
    <2> QED  BY <2>1, <2>2 DEF OwnHandles, OpTypes
  <1>6. ASSUME NEW w \in Workers, UnregisterRemove(w)
        PROVE  OwnHandles'
    <2>1. /\ UNCHANGED hmVars /\ pc'[w] = "idle"
          /\ \A v \in Workers : v # w => pc'[v] = pc[v] /\ op'[v] = op[v]
      BY <1>6, ContinueFrame, Zenon DEF UnregisterRemove, Done
    <2> QED  BY <2>1, Zenon DEF hmVars, OwnHandles
  <1>7. ASSUME NEW w \in Workers, NEW n \in Names, ServiceLookup(w, n)
        PROVE  OwnHandles'
    <2>1. /\ UNCHANGED hmVars
          /\ \A v \in Workers : v # w => pc'[v] = pc[v] /\ op'[v] = op[v]
          /\ op'[w].handle = nameToHandle[n] /\ op'[w].actor = handles[nameToHandle[n]].actor
          /\ nameToHandle[n] \in HandleIds /\ handles[nameToHandle[n]] # None
      BY <1>7, ServiceLookupFrame, Zenon
    <2> QED  BY <1>0, <2>1, ZenonT(30) DEF hmVars, OwnHandles
  <1>8. ASSUME NEW w \in Workers, ServiceRemove(w)
        PROVE  OwnHandles'
    <2>1. /\ UNCHANGED hmVars
          /\ \A v \in Workers : v # w => pc'[v] = pc[v] /\ op'[v] = op[v]
          /\ pc[w] = "removeService"
          /\ pc'[w] = "idle" \/ op'[w] = op[w]
      BY <1>8, ContinueFrame, Zenon DEF ServiceRemove, Done
    <2> QED  BY <2>1, SMTT(30) DEF hmVars, OwnHandles
  <1> QED  BY <1>1, <1>2, <1>3, <1>4, <1>5, <1>6, <1>7, <1>8, Zenon DEF Next, WorkerStep

\* Every step of every worker keeps GhostInv: it concerns one actor, and on an actor
\* that is not raced the operation runs as if alone.
LEMMA GhostStep ==
  ASSUME RouterInv, RouterInv', OwnHandles, GhostInv, [Next]_vars
  PROVE  GhostInv'
  <1> USE DEF RouterInv
  <1>0. /\ \A h \in HandleIds : handles[h] # None => handles[h].actor \in Actors
                                 /\ actorToHandle[handles[h].actor] = h
        /\ \A a \in Actors : actorToHandle[a] # None =>
             actorToHandle[a] \in HandleIds /\ handles[actorToHandle[a]] # None
             /\ handles[actorToHandle[a]].actor = a
    BY DEF HandleInv, ManagerTypes, MapsAgree, Handles
  <1>1. CASE UNCHANGED vars
    BY <1>1, ZenonT(30) DEF vars, rtVars, hmVars, GhostInv, Pending, InFlight
  <1>2. ASSUME NEW w \in Workers, NEW a \in Actors, NEW n \in Names \cup {NoName},
               RegisterInRouter(w, a, n)
        PROVE  GhostInv'
    <2>1. /\ UNCHANGED hmVars /\ actors' = actors \cup {a} /\ pc[w] = "idle"
          /\ pc'[w] = "allocate" /\ op'[w].actor = a /\ raced \subseteq raced'
          /\ InFlight(a) => a \in raced'
          /\ \A v \in Workers : v # w => pc'[v] = pc[v] /\ op'[v] = op[v]
      BY <1>2, BeginFrame DEF RegisterInRouter
    <2>2. Frame(w, a)
      BY <2>1, Zenon DEF Frame, hmVars
    <2>3. Pending(w)'
      BY <2>1, Zenon DEF Pending
    <2> QED  BY <2>1, <2>2, <2>3, FrameKeeps, Zenon
  <1>3. ASSUME NEW w \in Workers, RegisterHandle(w)
        PROVE  GhostInv'
    <2> DEFINE a == op[w].actor
               n == op[w].name
    <2>1. /\ a \in Actors /\ n \in Names \cup {NoName}
          /\ pc[w] = "allocate" /\ pc'[w] = "idle" /\ actors' = actors /\ raced' = raced
          /\ \A v \in Workers : v # w => pc'[v] = pc[v] /\ op'[v] = op[v]
      BY <1>3, ContinueFrame, Zenon DEF RegisterHandle, OpTypes, Done
    <2>2. UNCHANGED hmVars \/ Allocates(a, n)
      BY <1>3, <2>1, AllocateCases, Zenon DEF RegisterHandle
    <2>3. \A b \in Actors : b # a => actorToHandle'[b] = actorToHandle[b]
      BY <2>2, Zenon DEF hmVars, Allocates, HandleInv, ManagerTypes
    <2>4. Frame(w, a)
      BY <2>1, <2>3, Zenon DEF Frame
    <2>5. a \notin raced' => a \in actors'
      BY <2>1, Zenon DEF GhostInv, Pending
    <2> QED  BY <2>1, <2>4, <2>5, FrameKeeps, Zenon
  <1>4. ASSUME NEW w \in Workers, NEW a \in Actors, UnregisterLookup(w, a)
        PROVE  GhostInv'
    <2>1. /\ UNCHANGED <<hmVars, actors>> /\ pc[w] = "idle" /\ op'[w].actor = a
          /\ op'[w].handle = actorToHandle[a] /\ raced \subseteq raced'
          /\ pc'[w] = IF actorToHandle[a] # None THEN "release" ELSE "remove"
          /\ InFlight(a) => a \in raced'
          /\ \A v \in Workers : v # w => pc'[v] = pc[v] /\ op'[v] = op[v]
      BY <1>4, UnregisterLookupFrame, Zenon
    <2>2. Frame(w, a)
      BY <2>1, Zenon DEF Frame, hmVars
    <2>3. Pending(w)'
      BY <2>1, Zenon DEF Pending, hmVars
    <2> QED  BY <2>1, <2>2, <2>3, FrameKeeps, Zenon
  <1>5. ASSUME NEW w \in Workers, UnregisterRelease(w)
        PROVE  GhostInv'
    <2> DEFINE h == op[w].handle
               a == op[w].actor
    <2>1. /\ h \in HandleIds /\ a \in Actors /\ actors' = actors /\ raced' = raced
          /\ pc[w] = "release" /\ pc'[w] = "remove" /\ op'[w] = op[w]
          /\ \A v \in Workers : v # w => pc'[v] = pc[v] /\ op'[v] = op[v]
      BY <1>5, ContinueFrame, Zenon DEF UnregisterRelease, OpTypes
    <2>2. handles[h] # None => handles[h].actor = a
      BY <2>1, Zenon DEF OwnHandles
    <2>3. \A b \in Actors : actorToHandle'[b] =
            IF b = a /\ handles[h] # None THEN None ELSE actorToHandle[b]
      <3>1. actorToHandle' = IF handles[h] = None THEN actorToHandle
                             ELSE [actorToHandle EXCEPT ![a] = None]
        BY <1>5, <2>2, Zenon DEF UnregisterRelease, ReleaseHandle, hmVars
      <3>2. actorToHandle \in [Actors -> HandleIds \cup {None}]
        BY Zenon DEF HandleInv, ManagerTypes
      <3> QED  BY <2>1, <3>1, <3>2, Zenon
    <2>4. Frame(w, a)
      BY <2>1, <2>3, Zenon DEF Frame
    <2>5. a \notin raced' => Pending(w)'
      <3> SUFFICES ASSUME a \notin raced' PROVE actorToHandle'[a] = None
        BY <2>1, Zenon DEF Pending
      <3>1. actorToHandle[a] = h /\ h # None
        BY <2>1, AbsentAssumption, Zenon DEF GhostInv, Pending
      <3> QED  BY <1>0, <2>1, <2>3, <3>1
    <2> QED  BY <2>1, <2>4, <2>5, FrameKeeps, Zenon
  <1>6. ASSUME NEW w \in Workers, UnregisterRemove(w)
        PROVE  GhostInv'
    <2> DEFINE a == op[w].actor
    <2>1. /\ UNCHANGED hmVars /\ actors' = actors \ {a} /\ pc[w] = "remove" /\ a \in Actors
          /\ pc'[w] = "idle" /\ raced' = raced
          /\ \A v \in Workers : v # w => pc'[v] = pc[v] /\ op'[v] = op[v]
      BY <1>6, ContinueFrame, Zenon DEF UnregisterRemove, Done, OpTypes
    <2>2. Frame(w, a)
      BY <2>1, Zenon DEF Frame, hmVars
    <2>3. a \notin raced' => actorToHandle'[a] = None
      BY <2>1, Zenon DEF GhostInv, Pending, hmVars
    <2> QED  BY <2>1, <2>2, <2>3, FrameKeeps, Zenon
  <1>7. ASSUME NEW w \in Workers, NEW n \in Names, ServiceLookup(w, n)
        PROVE  GhostInv'
    <2> DEFINE h == nameToHandle[n]
               a == handles[h].actor
    <2>1. h \in HandleIds /\ handles[h] # None
      BY <1>7, ServiceLookupFrame, Zenon
    <2>2. a \in Actors /\ actorToHandle[a] = h /\ h # None
      BY <1>0, <2>1, AbsentAssumption, Zenon
    <2>3. /\ UNCHANGED <<hmVars, actors>> /\ pc[w] = "idle" /\ pc'[w] = "removeService"
          /\ op'[w].handle = h /\ op'[w].actor = a /\ raced \subseteq raced'
          /\ InFlight(a) => a \in raced'
          /\ \A v \in Workers : v # w => pc'[v] = pc[v] /\ op'[v] = op[v]
      BY <1>7, ServiceLookupFrame, Zenon
    <2>4. Frame(w, a)
      BY <2>3, Zenon DEF Frame, hmVars
    <2>5. a \notin raced' => a \in actors
      BY <2>2, <2>3, Zenon DEF GhostInv
    <2>6. a \notin raced' => Pending(w)'
      BY <2>2, <2>3, <2>5, Zenon DEF Pending, hmVars
    <2> QED  BY <2>2, <2>3, <2>4, <2>6, FrameKeeps, Zenon
  <1>8. ASSUME NEW w \in Workers, ServiceRemove(w)
        PROVE  GhostInv'
    <2> DEFINE a == op[w].actor
    <2>1. /\ UNCHANGED hmVars /\ actors' = actors \ {a} /\ pc[w] = "removeService"
          /\ a \in Actors /\ raced' = raced
          /\ \A v \in Workers : v # w => pc'[v] = pc[v] /\ op'[v] = op[v]
          /\ \/ a \in actors /\ pc'[w] = "releaseService" /\ op'[w] = op[w]
             \/ a \notin actors /\ pc'[w] = "idle"
      BY <1>8, ContinueFrame, Zenon DEF ServiceRemove, Done, OpTypes
    <2>2. Frame(w, a)
      BY <2>1, Zenon DEF Frame, hmVars
    <2>3. a \notin raced' => a \in actors /\ Pending(w)
      BY <2>1, Zenon DEF GhostInv, Pending
    <2>4. a \notin raced' => pc'[w] # "idle" /\ Pending(w)'
      BY <2>1, <2>3, Zenon DEF Pending, hmVars
    <2> QED  BY <2>1, <2>2, <2>4, FrameKeeps, Zenon
  <1>9. ASSUME NEW w \in Workers, ServiceRelease(w)
        PROVE  GhostInv'
    <2> DEFINE h == op[w].handle
               a == op[w].actor
    <2>1. /\ h \in HandleIds /\ a \in Actors /\ actors' = actors /\ raced' = raced
          /\ pc[w] = "releaseService" /\ pc'[w] = "idle"
          /\ \A v \in Workers : v # w => pc'[v] = pc[v] /\ op'[v] = op[v]
      BY <1>9, ContinueFrame, Zenon DEF ServiceRelease, Done, OpTypes
    <2>2. handles[h] # None => handles[h].actor = a
      BY <2>1, Zenon DEF OwnHandles
    <2>3. \A b \in Actors : actorToHandle'[b] =
            IF b = a /\ handles[h] # None THEN None ELSE actorToHandle[b]
      <3>1. actorToHandle' = IF handles[h] = None THEN actorToHandle
                             ELSE [actorToHandle EXCEPT ![a] = None]
        BY <1>9, <2>2, Zenon DEF ServiceRelease, ReleaseHandle, hmVars
      <3>2. actorToHandle \in [Actors -> HandleIds \cup {None}]
        BY Zenon DEF HandleInv, ManagerTypes
      <3> QED  BY <2>1, <3>1, <3>2, Zenon
    <2>4. Frame(w, a)
      BY <2>1, <2>3, Zenon DEF Frame
    <2>5. a \notin raced' => actorToHandle'[a] = None
      <3> SUFFICES ASSUME a \notin raced' PROVE actorToHandle'[a] = None
        BY Zenon
      <3>1. actorToHandle[a] = h /\ h # None
        BY <2>1, AbsentAssumption, Zenon DEF GhostInv, Pending
      <3> QED  BY <1>0, <2>1, <2>3, <3>1
    <2> QED  BY <2>1, <2>4, <2>5, FrameKeeps, Zenon
  <1> QED  BY <1>1, <1>2, <1>3, <1>4, <1>5, <1>6, <1>7, <1>8, <1>9, Zenon DEF Next, WorkerStep

\* With any number of goroutines, a name that resolves can be routed to unless two
\* operations overlapped on its actor or one is in flight.
THEOREM GhostNeedsRace == Spec => []NoGhostNames
  <1>1. Init => OwnHandles /\ GhostInv
    BY Zenon DEF Init, NewHandleManager, OwnHandles, GhostInv
  <1>2. RouterInv /\ GhostInv => NoGhostNames
    <2> SUFFICES ASSUME RouterInv, GhostInv, NEW n \in Names, Resolves(n),
                        ~InFlight(handles[GetHandleByName(n)].actor),
                        handles[GetHandleByName(n)].actor \notin raced
                 PROVE  handles[GetHandleByName(n)].actor \in actors
      BY Zenon DEF NoGhostNames
    <2>1. nameToHandle[n] \in HandleIds /\ handles[nameToHandle[n]] # None
          /\ GetHandleByName(n) = nameToHandle[n]
      BY DEF Resolves, GetHandleByName, RouterInv, HandleInv, ManagerTypes, MapsAgree
    <2>2. handles[nameToHandle[n]].actor \in Actors
          /\ actorToHandle[handles[nameToHandle[n]].actor] = nameToHandle[n]
      BY <2>1 DEF RouterInv, HandleInv, ManagerTypes, MapsAgree, Handles
    <2> QED  BY <2>1, <2>2, AbsentAssumption, Zenon DEF GhostInv
  <1>3. RouterInv /\ RouterInv' /\ OwnHandles /\ GhostInv /\ [Next]_vars => OwnHandles' /\ GhostInv'
    BY OwnHandlesStep, GhostStep, Zenon
  <1> QED  BY <1>1, <1>2, <1>3, RouterInvHolds, PTL DEF Spec

----------------------------------------------------------------------------
(* ClusterManager and MessageTransport                                      *)

\* The map holds connections that were made and whose handshake is over; one whose
\* handshake is not over was never closed.
ConnInv ==
  /\ \A n \in Nodes : connections[n] <= count
  /\ \A n \in Nodes : connections[n] # 0 => c[connections[n]].reader \notin {"none", "handshake"}
  /\ \A i \in Ids : c[i].reader # "none" => i <= count
  /\ \A i \in Ids : c[i].reader = "handshake" => ~c[i].closed

ClusterInv == TransportTypeOK /\ ConnInv /\ ClosedAtMostOnce

----------------------------------------------------------------------------

\* A new manager has no connection.
LEMMA InitCluster == NewClusterManager => ClusterInv
  <1> SUFFICES ASSUME NewClusterManager PROVE ClusterInv
    BY Zenon
  <1> USE TransportAssumption
  <1>1. NewMessageTransport
    BY Zenon DEF NewClusterManager
  <1>2. Fresh \in ConnRecords
    BY Zenon DEF Fresh, ConnRecords
  <1>3. \A i \in Ids : c[i] = Fresh /\ c[i].reader = "none"
    BY <1>1, Zenon DEF NewMessageTransport, Fresh
  <1>4. TransportTypeOK
    BY <1>1, <1>2 DEF NewMessageTransport, TransportTypeOK
  <1>5. ConnInv /\ ClosedAtMostOnce
    BY <1>1, <1>3 DEF NewMessageTransport, ConnInv, ClosedAtMostOnce
  <1> QED  BY <1>4, <1>5, Zenon DEF ClusterInv

\* The map's entries and the number of connections.
LEMMA MapRange ==
  ASSUME TransportTypeOK
  PROVE  /\ count \in Nat /\ count <= MaxConns
         /\ \A n \in Nodes : connections[n] \in Nat /\ (connections[n] # 0 => connections[n] \in Ids)
  <1>1. count \in 0 .. MaxConns /\ connections \in [Nodes -> 0 .. MaxConns]
    BY Zenon DEF TransportTypeOK
  <1>2. \A n \in Nodes : connections[n] \in 0 .. MaxConns
    BY <1>1, Zenon
  <1> QED  BY <1>1, <1>2, TransportAssumption DEF Ids

\* Steps that neither make nor close connections and leave the map as it is.
LEMMA KeepStep ==
  ASSUME ClusterInv, UNCHANGED <<connections, count>>, TransportTypeOK', crash' # "closedTwice",
         \A i \in Ids : /\ c'[i].node = c[i].node /\ c'[i].closed = c[i].closed
                        /\ c'[i].reader \in {"none", "handshake"} => c'[i].reader = c[i].reader
                        /\ c'[i].reader # "none" => c[i].reader # "none"
                        /\ c'[i].reader = "none" => c[i].reader = "none"
  PROVE  ClusterInv'
  <1>1. \A n \in Nodes : connections[n] # 0 => connections[n] \in Ids
    BY MapRange, Zenon DEF ClusterInv
  <1>2. ConnInv'
    BY <1>1, Zenon DEF ClusterInv, ConnInv
  <1>3. ClosedAtMostOnce'
    BY <1>1, Zenon DEF ClusterInv, ClosedAtMostOnce
  <1> QED  BY <1>2, <1>3, Zenon DEF ClusterInv

\* What a change of fields of one connection's record amounts to.
LEMMA ChangeOne ==
  ASSUME TransportTypeOK, NEW i \in Ids, NEW r \in ConnRecords, c' = [c EXCEPT ![i] = r]
  PROVE  c' \in [Ids -> ConnRecords] /\ c'[i] = r /\ \A j \in Ids \ {i} : c'[j] = c[j]
  BY Zenon DEF TransportTypeOK

\* A connection is entered in the map: a new one, or one whose handshake has come.
LEMMA EnterStep ==
  ASSUME ClusterInv, NEW i \in Ids, NEW n \in Nodes, NEW r \in ConnRecords, TransportTypeOK',
         c' = [c EXCEPT ![i] = r], connections' = [connections EXCEPT ![n] = i],
         count' >= count, count' \in Nat, i <= count', crash' # "closedTwice",
         \A m \in Nodes : connections[m] # i,
         r.node = n, ~r.closed, r.reader = "run"
  PROVE  ClusterInv'
  <1>1. TransportTypeOK /\ ConnInv /\ ClosedAtMostOnce
    BY Zenon DEF ClusterInv
  <1>2. c'[i] = r /\ \A j \in Ids \ {i} : c'[j] = c[j]
    BY <1>1, ChangeOne, Zenon
  <1>3. connections'[n] = i /\ \A m \in Nodes \ {n} : connections'[m] = connections[m]
    BY <1>1, Zenon DEF TransportTypeOK
  <1>4. /\ \A m \in Nodes : connections[m] \in Nat /\ (connections[m] # 0 => connections[m] \in Ids \ {i})
        /\ count \in Nat /\ i \in Nat /\ \A j \in Ids : j \in Nat
    <2>1. \A j \in Ids : j \in Nat
      BY TransportAssumption DEF Ids
    <2> QED  BY <1>1, <2>1, MapRange, Zenon
  <1>5. ConnInv'
    <2>1. \A m \in Nodes : connections'[m] <= count'
      <3>1. \A m \in Nodes : connections[m] <= count'
        BY <1>1, <1>4 DEF ConnInv
      <3> QED  BY <1>3, <3>1, Zenon
    <2>2. \A m \in Nodes : connections'[m] # 0 => c'[connections'[m]].reader \notin {"none", "handshake"}
      <3>1. c'[i].reader \notin {"none", "handshake"}
        BY <1>2, Zenon
      <3>2. \A m \in Nodes \ {n} : connections[m] # 0 => c'[connections[m]].reader \notin {"none", "handshake"}
        BY <1>1, <1>2, <1>4, Zenon DEF ConnInv
      <3> QED  BY <1>3, <3>1, <3>2, Zenon
    <2>3. \A j \in Ids : c'[j].reader # "none" => j <= count'
      <3>1. \A j \in Ids \ {i} : c[j].reader # "none" => j <= count'
        BY <1>1, <1>4 DEF ConnInv
      <3> QED  BY <1>2, <3>1, Zenon
    <2>4. \A j \in Ids : c'[j].reader = "handshake" => ~c'[j].closed
      BY <1>1, <1>2, Zenon DEF ConnInv
    <2> QED  BY <2>1, <2>2, <2>3, <2>4, Zenon DEF ConnInv
  <1>6. ClosedAtMostOnce'
    <2>1. ~c'[i].closed /\ c'[i].node = n
      BY <1>2, Zenon
    <2>2. \A m \in Nodes \ {n} : connections[m] # 0 => ~c'[connections[m]].closed /\ c'[connections[m]].node = m
      BY <1>1, <1>2, <1>4 DEF ClosedAtMostOnce
    <2> QED  BY <1>3, <2>1, <2>2 DEF ClosedAtMostOnce
  <1> QED  BY <1>5, <1>6, Zenon DEF ClusterInv

\* Steps that do not touch the connections at all.
LEMMA ElsewhereStep ==
  ASSUME ClusterInv, UNCHANGED <<connections, count, c>>,
         up' \in {"no", "yes", "closing"}, tctx' \in {"none", "live", "done"},
         active' \subseteq active \/ \E n \in Nodes : connections[n] # 0 /\ active' = active \cup {n},
         crash' \in {crash, "sendChan", "events", "join"}
  PROVE  ClusterInv'
  <1>1. TransportTypeOK /\ crash # "closedTwice"
    BY Zenon DEF ClusterInv, ClosedAtMostOnce
  <1>2. TransportTypeOK'
    BY <1>1, Zenon DEF TransportTypeOK
  <1> QED  BY <1>1, <1>2, KeepStep, Zenon

\* Steps that change other fields of one connection's record than the node and whether it
\* is closed.
LEMMA FieldStep ==
  ASSUME ClusterInv, NEW i \in Ids, NEW r \in ConnRecords,
         c' = [c EXCEPT ![i] = r], r.node = c[i].node, r.closed = c[i].closed,
         r.reader = c[i].reader \/ {r.reader, c[i].reader} \cap {"none", "handshake"} = {}
           \/ (c[i].reader = "handshake" /\ r.reader = "done"),
         UNCHANGED <<up, tctx, connections, active, count>>, crash' \in {crash, "events"}
  PROVE  ClusterInv'
  <1>1. TransportTypeOK /\ crash # "closedTwice"
    BY Zenon DEF ClusterInv, ClosedAtMostOnce
  <1>2. c' \in [Ids -> ConnRecords] /\ c'[i] = r /\ \A j \in Ids \ {i} : c'[j] = c[j]
    BY <1>1, ChangeOne, Zenon
  <1>3. TransportTypeOK'
    BY <1>1, <1>2, Zenon DEF TransportTypeOK
  <1>4. \A j \in Ids : /\ c'[j].node = c[j].node /\ c'[j].closed = c[j].closed
                       /\ c'[j].reader \in {"none", "handshake"} => c'[j].reader = c[j].reader
                       /\ c'[j].reader # "none" => c[j].reader # "none"
                       /\ c'[j].reader = "none" => c[j].reader = "none"
    BY <1>2, Zenon
  <1> QED  BY <1>1, <1>3, <1>4, KeepStep, Zenon

\* The steps of a connection's goroutines that change its own record only.
LEMMA GoroutineStep ==
  ASSUME ClusterInv, NEW i \in Ids,
         \/ HandshakeFails(i) \/ SendLoopEnds(i) \/ ReadEnds(i) \/ IncomingEnds(i)
         \/ HandleConnectionEstablished(i) \/ HandleConnectionLost(i)
  PROVE  ClusterInv'
  <1>1. c[i] \in ConnRecords /\ c \in [Ids -> ConnRecords]
    BY Zenon DEF ClusterInv, TransportTypeOK
  <1>2. CASE HandshakeFails(i)
    <2> DEFINE r == [c[i] EXCEPT !.reader = "done", !.sock = FALSE]
    <2>1. /\ r \in ConnRecords /\ r.node = c[i].node /\ r.closed = c[i].closed /\ r.reader = "done"
      BY <1>1, Zenon DEF ConnRecords
    <2>2. c' = [c EXCEPT ![i] = r] /\ c[i].reader = "handshake" /\ UNCHANGED <<up, tctx, connections, active, count, crash>>
      BY <1>1, <1>2, Zenon DEF HandshakeFails
    <2> HIDE DEF r
    <2> QED  BY <2>1, <2>2, FieldStep, Zenon
  <1>3. CASE SendLoopEnds(i)
    <2> DEFINE r == [c[i] EXCEPT !.sender = FALSE]
    <2>1. /\ r \in ConnRecords /\ r.node = c[i].node /\ r.closed = c[i].closed /\ r.reader = c[i].reader
      BY <1>1, Zenon DEF ConnRecords
    <2>2. c' = [c EXCEPT ![i] = r] /\ UNCHANGED <<up, tctx, connections, active, count, crash>>
      BY <1>1, <1>3, Zenon DEF SendLoopEnds
    <2> HIDE DEF r
    <2> QED  BY <2>1, <2>2, FieldStep, Zenon
  <1>4. CASE ReadEnds(i)
    <2> DEFINE r == [c[i] EXCEPT !.reader = "remove"]
    <2>1. /\ r \in ConnRecords /\ r.node = c[i].node /\ r.closed = c[i].closed /\ r.reader = "remove"
      BY <1>1, Zenon DEF ConnRecords
    <2>2. c' = [c EXCEPT ![i] = r] /\ c[i].reader = "run" /\ UNCHANGED <<up, tctx, connections, active, count, crash>>
      BY <1>1, <1>4, Zenon DEF ReadEnds
    <2> HIDE DEF r
    <2> QED  BY <2>1, <2>2, FieldStep, Zenon
  <1>5. CASE IncomingEnds(i)
    <2> DEFINE r == [c[i] EXCEPT !.sock = FALSE]
    <2>1. /\ r \in ConnRecords /\ r.node = c[i].node /\ r.closed = c[i].closed /\ r.reader = c[i].reader
      BY <1>1, Zenon DEF ConnRecords
    <2>2. c' = [c EXCEPT ![i] = r] /\ UNCHANGED <<up, tctx, connections, active, count, crash>>
      BY <1>1, <1>5, Zenon DEF IncomingEnds
    <2> HIDE DEF r
    <2> QED  BY <2>1, <2>2, FieldStep, Zenon
  <1>6. CASE HandleConnectionEstablished(i)
    <2> DEFINE r == [c[i] EXCEPT !.told = TRUE]
    <2>1. /\ r \in ConnRecords /\ r.node = c[i].node /\ r.closed = c[i].closed /\ r.reader = c[i].reader
      BY <1>1, Zenon DEF ConnRecords
    <2>2. c' = [c EXCEPT ![i] = r] /\ UNCHANGED <<up, tctx, connections, active, count>>
      BY <1>1, <1>6, Zenon DEF HandleConnectionEstablished
    <2>3. crash' \in {crash, "events"}
      BY <1>6, Zenon DEF HandleConnectionEstablished, Tell, UpdateState, Publish
    <2> HIDE DEF r
    <2> QED  BY <2>1, <2>2, <2>3, FieldStep, Zenon
  <1>7. CASE HandleConnectionLost(i)
    <2> DEFINE r == [c[i] EXCEPT !.reader = "done"]
    <2>1. /\ r \in ConnRecords /\ r.node = c[i].node /\ r.closed = c[i].closed /\ r.reader = "done"
      BY <1>1, Zenon DEF ConnRecords
    <2>2. c' = [c EXCEPT ![i] = r] /\ c[i].reader = "lost" /\ UNCHANGED <<up, tctx, connections, active, count>>
      BY <1>1, <1>7, Zenon DEF HandleConnectionLost
    <2>3. crash' \in {crash, "events"}
      BY <1>7, Zenon DEF HandleConnectionLost, Tell, UpdateState, Publish
    <2> HIDE DEF r
    <2> QED  BY <2>1, <2>2, <2>3, FieldStep, Zenon
  <1> QED  BY <1>2, <1>3, <1>4, <1>5, <1>6, <1>7, Zenon

\* A new connection's number is not in the map.
LEMMA NewNumber ==
  ASSUME ClusterInv, count < MaxConns
  PROVE  /\ count + 1 \in Ids /\ count + 1 \in 0 .. MaxConns /\ count \in Nat
         /\ \A n \in Nodes : connections[n] # count + 1
         /\ c[count + 1].reader = "none"
  <1>1. /\ count \in Nat /\ \A n \in Nodes : connections[n] \in Nat /\ connections[n] <= count
    BY MapRange, Zenon DEF ClusterInv, ConnInv
  <1>2. count + 1 \in Ids /\ count + 1 \in 0 .. MaxConns
    BY <1>1, TransportAssumption DEF Ids
  <1>3. c[count + 1].reader = "none"
    BY <1>1, <1>2 DEF ClusterInv, ConnInv
  <1> QED  BY <1>1, <1>2, <1>3

\* Entering connection i under node n keeps the types.
LEMMA EnterTypes ==
  ASSUME TransportTypeOK, NEW i \in Ids, i \in 0 .. MaxConns, NEW n \in Nodes, NEW r \in ConnRecords,
         c' = [c EXCEPT ![i] = r], connections' = [connections EXCEPT ![n] = i], active' = active \ {n},
         UNCHANGED <<up, tctx>>, count' \in 0 .. MaxConns, crash' \in {crash, "events"}
  PROVE  TransportTypeOK'
  <1>1. c' \in [Ids -> ConnRecords]
    BY ChangeOne, Zenon
  <1>2. connections' \in [Nodes -> 0 .. MaxConns] /\ \A m \in Nodes \ {n} : connections'[m] = connections[m]
    BY Zenon DEF TransportTypeOK
  <1> QED  BY <1>1, <1>2, Zenon DEF TransportTypeOK

\* Send makes a connection where the map has none, and closes none.
LEMMA SendStep == ASSUME ClusterInv, NEW n \in Nodes, SendTold(n) PROVE ClusterInv'
  <1> DEFINE r == [Fresh EXCEPT !.node = n, !.dir = "out", !.sock = TRUE,
                                !.done = (tctx = "done"), !.reader = "run", !.sender = TRUE]
             i == count + 1
  <1>1. /\ count < MaxConns /\ count' = i /\ c' = [c EXCEPT ![i] = r]
        /\ connections' = [connections EXCEPT ![n] = i] /\ active' = active \ {n} /\ UNCHANGED <<up, tctx>>
    BY Zenon DEF SendTold, Send, createConnection
  <1>2. crash' \in {crash, "events"} /\ TransportTypeOK /\ crash # "closedTwice"
    BY Zenon DEF SendTold, Tell, UpdateState, Publish, ClusterInv, ClosedAtMostOnce
  <1>3. r \in ConnRecords /\ r.node = n /\ ~r.closed /\ r.reader = "run"
    BY Zenon DEF ConnRecords, Fresh
  <1>4. i \in Ids /\ i \in 0 .. MaxConns /\ count \in Nat /\ i >= count /\ i \in Nat /\ \A m \in Nodes : connections[m] # i
    BY <1>1, NewNumber
  <1> HIDE DEF r, i
  <1>5. TransportTypeOK'
    BY <1>1, <1>2, <1>3, <1>4, EnterTypes, Zenon
  <1>6. i <= count'
    BY <1>1, <1>4
  <1> QED  BY <1>1, <1>2, <1>3, <1>4, <1>5, <1>6, EnterStep, Zenon

\* A handshake enters its connection and closes the one it replaces, if that is still there.
LEMMA HandshakeStep == ASSUME ClusterInv, NEW i \in Ids, NEW n \in Nodes, Handshake(i, n) PROVE ClusterInv'
  <1> DEFINE r == [c[i] EXCEPT !.node = n, !.reader = "run", !.sender = TRUE,
                               !.done = (tctx = "done"), !.told = (n # Self)]
  <1>1. /\ c[i].reader = "handshake" /\ c' = [c EXCEPT ![i] = r] /\ UNCHANGED <<up, tctx, count, crash>>
        /\ connections' = [connections EXCEPT ![n] = i] /\ active' = active \ {n}
    BY Zenon DEF Handshake
  <1>2. TransportTypeOK /\ ConnInv /\ crash # "closedTwice"
    BY Zenon DEF ClusterInv, ClosedAtMostOnce
  <1>3. c[i] \in ConnRecords /\ ~c[i].closed
    BY <1>1, <1>2, Zenon DEF TransportTypeOK, ConnInv
  <1>4. r \in ConnRecords /\ r.node = n /\ ~r.closed /\ r.reader = "run"
    BY <1>3, Zenon DEF ConnRecords
  <1> HIDE DEF r
  <1>5. i \in 0 .. MaxConns /\ i <= count /\ count \in Nat /\ count \in 0 .. MaxConns /\ count >= count
    BY <1>1, <1>2, MapRange, TransportAssumption DEF ConnInv, Ids
  <1>6. \A m \in Nodes : connections[m] # i
    <2>1. i # 0
      BY TransportAssumption DEF Ids
    <2> QED  BY <1>1, <1>2, <2>1, Zenon DEF ConnInv
  <1>7. TransportTypeOK'
    BY <1>1, <1>2, <1>4, <1>5, EnterTypes, Zenon
  <1> QED  BY <1>1, <1>2, <1>4, <1>5, <1>6, <1>7, EnterStep, Zenon

\* An accepted connection is not in the map before its handshake.
LEMMA AcceptStep == ASSUME ClusterInv, Accept PROVE ClusterInv'
  <1> DEFINE r == [Fresh EXCEPT !.dir = "in", !.sock = TRUE, !.reader = "handshake"]
             i == count + 1
  <1>1. /\ count < MaxConns /\ count' = i /\ c' = [c EXCEPT ![i] = r]
        /\ UNCHANGED <<up, tctx, connections, active, crash>>
    BY Zenon DEF Accept
  <1>2. TransportTypeOK /\ ConnInv /\ ClosedAtMostOnce
    BY Zenon DEF ClusterInv
  <1>3. r \in ConnRecords /\ ~r.closed /\ r.reader = "handshake"
    BY TransportAssumption, Zenon DEF ConnRecords, Fresh
  <1>4. i \in Ids /\ i \in 0 .. MaxConns /\ count \in Nat /\ i > count /\ \A m \in Nodes : connections[m] # i
    BY <1>1, NewNumber
  <1> HIDE DEF r, i
  <1>5. c' \in [Ids -> ConnRecords] /\ c'[i] = r /\ \A j \in Ids \ {i} : c'[j] = c[j]
    BY <1>1, <1>2, <1>3, <1>4, ChangeOne, Zenon
  <1>6. TransportTypeOK'
    BY <1>1, <1>2, <1>4, <1>5, Zenon DEF TransportTypeOK
  <1>7. /\ \A m \in Nodes : connections[m] \in Nat /\ (connections[m] # 0 => connections[m] \in Ids \ {i})
        /\ \A j \in Ids : j \in Nat
    BY <1>2, <1>4, MapRange, TransportAssumption DEF Ids
  <1>8. ConnInv'
    <2>1. \A m \in Nodes : connections'[m] <= count'
      BY <1>1, <1>2, <1>4, <1>7 DEF ConnInv
    <2>2. \A m \in Nodes : connections'[m] # 0 => c'[connections'[m]].reader \notin {"none", "handshake"}
      BY <1>1, <1>2, <1>5, <1>7, Zenon DEF ConnInv
    <2>3. \A j \in Ids : c'[j].reader # "none" => j <= count'
      BY <1>1, <1>2, <1>4, <1>5, <1>7 DEF ConnInv
    <2>4. \A j \in Ids : c'[j].reader = "handshake" => ~c'[j].closed
      BY <1>2, <1>3, <1>5, Zenon DEF ConnInv
    <2> QED  BY <2>1, <2>2, <2>3, <2>4, Zenon DEF ConnInv
  <1>9. ClosedAtMostOnce'
    BY <1>1, <1>2, <1>5, <1>7, Zenon DEF ClosedAtMostOnce
  <1> QED  BY <1>6, <1>8, <1>9, Zenon DEF ClusterInv

\* Closing connections that are in the map, and taking them out.
LEMMA CloseStep ==
  ASSUME ClusterInv, TransportTypeOK', NEW is \in SUBSET Ids, UNCHANGED count,
         \A j \in is : \E n \in Nodes : connections[n] = j,
         ClosePanics(is),
         \A j \in Ids : /\ c'[j].node = c[j].node
                        /\ j \notin is => c'[j].closed = c[j].closed
                        /\ \/ c'[j].reader = c[j].reader
                           \/ {c'[j].reader, c[j].reader} \cap {"none", "handshake"} = {},
         \A n \in Nodes : connections'[n] # 0 => connections'[n] = connections[n] /\ connections[n] \notin is
  PROVE  ClusterInv'
  <1>1. TransportTypeOK /\ ConnInv /\ ClosedAtMostOnce
    BY Zenon DEF ClusterInv
  <1>2. \A j \in is : j # 0 /\ ~c[j].closed /\ c[j].reader \notin {"none", "handshake"}
    <2>1. \A j \in is : j # 0
      BY TransportAssumption DEF Ids
    <2> QED  BY <1>1, <2>1 DEF ConnInv, ClosedAtMostOnce
  <1>3. crash' = crash
    BY <1>2, Zenon DEF ClosePanics
  <1>4. \A n \in Nodes : connections'[n] # 0 =>
          connections'[n] = connections[n] /\ connections[n] \in Ids \ is /\ connections[n] # 0
    BY <1>1, MapRange, Zenon
  <1>5. ConnInv'
    <2>1. \A n \in Nodes : connections'[n] <= count
      <3>1. 0 <= count
        BY <1>1, MapRange
      <3> QED  BY <1>1, <1>4, <3>1, Zenon DEF ConnInv
    <2>2. \A n \in Nodes : connections'[n] # 0 => c'[connections'[n]].reader \notin {"none", "handshake"}
      BY <1>1, <1>4, ZenonT(30) DEF ConnInv
    <2>3. \A j \in Ids : c'[j].reader # "none" => j <= count
      BY <1>1, Zenon DEF ConnInv
    <2>4. \A j \in Ids : c'[j].reader = "handshake" => ~c'[j].closed
      BY <1>1, <1>2, Zenon DEF ConnInv
    <2> QED  BY <2>1, <2>2, <2>3, <2>4, Zenon DEF ConnInv
  <1>6. ClosedAtMostOnce'
    BY <1>1, <1>3, <1>4 DEF ClosedAtMostOnce
  <1> QED  BY <1>5, <1>6, Zenon DEF ClusterInv

\* What closing does to a record.
LEMMA CloseRecord ==
  ASSUME NEW r \in ConnRecords
  PROVE  close(r) \in ConnRecords /\ close(r).node = r.node /\ close(r).reader = r.reader
  BY Zenon DEF close, ConnRecords

\* Stop closes what the map holds and empties it, so that nobody closes it again.
LEMMA StopStep == ASSUME ClusterInv, StopTransport PROVE ClusterInv'
  <1>1. /\ up' = "closing" /\ ClosePanics(InMap) /\ UNCHANGED <<tctx, count>> /\ active' = {}
        /\ connections' = [n \in Nodes |-> 0]
        /\ c' = [i \in Ids |-> IF i \in InMap THEN close(c[i]) ELSE c[i]]
    BY Zenon DEF StopTransport
  <1>2. TransportTypeOK /\ \A i \in Ids : c[i] \in ConnRecords
    BY Zenon DEF ClusterInv, TransportTypeOK
  <1>3. InMap \in SUBSET Ids /\ \A j \in InMap : \E n \in Nodes : connections[n] = j
    BY <1>2, MapRange, Zenon DEF InMap
  <1>4. \A i \in Ids : /\ c'[i] \in ConnRecords /\ c'[i].node = c[i].node /\ c'[i].reader = c[i].reader
                       /\ i \notin InMap => c'[i].closed = c[i].closed
    BY <1>1, <1>2, CloseRecord, Zenon
  <1>5. TransportTypeOK'
    <2>1. c' \in [Ids -> ConnRecords]
      BY <1>1, <1>4, Zenon
    <2>2. crash' \in {"no", "closedTwice", "sendChan", "events", "join"}
      BY <1>1, <1>2, Zenon DEF ClosePanics, TransportTypeOK
    <2>3. connections' \in [Nodes -> 0 .. MaxConns] /\ count \in 0 .. MaxConns /\ tctx \in {"none", "live", "done"}
      BY <1>1, <1>2, TransportAssumption DEF TransportTypeOK
    <2> QED  BY <1>1, <2>1, <2>2, <2>3, Zenon DEF TransportTypeOK
  <1>6. \A n \in Nodes : connections'[n] = 0
    BY <1>1, Zenon
  <1> HIDE DEF InMap
  <1> QED  BY <1>1, <1>3, <1>4, <1>5, <1>6, CloseStep, Zenon

\* A reader closes its connection only if the map still has it.
LEMMA RemoveStep == ASSUME ClusterInv, NEW i \in Ids, removeConnection(i) PROVE ClusterInv'
  <1> DEFINE n == c[i].node
             gone == {connections[n]} \ {0}
             after == IF n = Self THEN "lost" ELSE "done"
             r == [c[i] EXCEPT !.reader = after]
             d == [c EXCEPT ![i] = r]
  <1>1. /\ c[i].reader = "remove" /\ ClosePanics(gone) /\ UNCHANGED <<up, tctx, count>>
        /\ connections' = [connections EXCEPT ![n] = 0] /\ active' = active \ {n}
    BY Zenon DEF removeConnection
  <1>2. TransportTypeOK /\ ClosedAtMostOnce /\ c \in [Ids -> ConnRecords] /\ c[i] \in ConnRecords /\ n \in Nodes
    BY Zenon DEF ClusterInv, TransportTypeOK, ConnRecords
  <1>3. c' = [j \in Ids |-> IF j \in gone THEN close(d[j]) ELSE d[j]]
    BY <1>2, Zenon DEF removeConnection, Removed
  <1>4. r \in ConnRecords /\ r.node = n /\ r.closed = c[i].closed /\ r.reader \in {"lost", "done"}
    BY <1>2, Zenon DEF ConnRecords
  <1>5. d[i] = r /\ \A j \in Ids \ {i} : d[j] = c[j]
    BY <1>2, Zenon
  <1>6. gone \in SUBSET Ids /\ \A j \in gone : \E m \in Nodes : connections[m] = j
    BY <1>2, MapRange, Zenon
  <1>7. \A m \in Nodes \ {n} : connections[m] # 0 => connections[m] \notin gone
    BY <1>2, Zenon DEF ClosedAtMostOnce
  <1>8. connections'[n] = 0 /\ \A m \in Nodes \ {n} : connections'[m] = connections[m]
    BY <1>1, <1>2, Zenon DEF TransportTypeOK
  <1> HIDE DEF d, r, gone
  <1>9. \A j \in Ids : /\ d[j] \in ConnRecords /\ d[j].node = c[j].node /\ d[j].closed = c[j].closed
                       /\ d[j].reader = c[j].reader \/ {d[j].reader, c[j].reader} \cap {"none", "handshake"} = {}
    BY <1>1, <1>2, <1>4, <1>5, Zenon
  <1>10. \A j \in Ids : /\ c'[j] \in ConnRecords /\ c'[j].node = c[j].node
                        /\ j \notin gone => c'[j].closed = c[j].closed
                        /\ \/ c'[j].reader = c[j].reader
                           \/ {c'[j].reader, c[j].reader} \cap {"none", "handshake"} = {}
    <2> SUFFICES ASSUME NEW j \in Ids
                 PROVE  /\ c'[j] \in ConnRecords /\ c'[j].node = c[j].node
                        /\ j \notin gone => c'[j].closed = c[j].closed
                        /\ \/ c'[j].reader = c[j].reader
                           \/ {c'[j].reader, c[j].reader} \cap {"none", "handshake"} = {}
      BY Zenon
    <2>1. CASE j \in gone
      BY <1>3, <1>9, <2>1, CloseRecord
    <2>2. CASE j \notin gone
      BY <1>3, <1>9, <2>2, Zenon
    <2> QED  BY <2>1, <2>2, Zenon
  <1>11. TransportTypeOK'
    <2>1. c' \in [Ids -> ConnRecords]
      BY <1>3, <1>10, Zenon
    <2>2. crash' \in {"no", "closedTwice", "sendChan", "events", "join"}
      BY <1>1, <1>2, Zenon DEF ClosePanics, TransportTypeOK
    <2>3. connections' \in [Nodes -> 0 .. MaxConns]
      BY <1>1, <1>2, TransportAssumption DEF TransportTypeOK
    <2> QED  BY <1>1, <1>2, <1>8, <2>1, <2>2, <2>3, Zenon DEF TransportTypeOK
  <1>12. \A m \in Nodes : connections'[m] # 0 => connections'[m] = connections[m] /\ connections[m] \notin gone
    BY <1>7, <1>8, Zenon
  <1> QED  BY <1>1, <1>6, <1>10, <1>11, <1>12, CloseStep, Zenon

\* Cancelling the transport's context touches the contexts of the connections only.
LEMMA CancelStep == ASSUME ClusterInv, CancelTransport PROVE ClusterInv'
  <1>1. /\ tctx' = "done" /\ UNCHANGED <<up, connections, active, count, crash>>
        /\ c' = [i \in Ids |-> [c[i] EXCEPT !.done = @ \/ c[i].reader \notin {"none", "handshake"}]]
    BY Zenon DEF CancelTransport
  <1>2. TransportTypeOK /\ crash # "closedTwice" /\ \A i \in Ids : c[i] \in ConnRecords
    BY Zenon DEF ClusterInv, ClosedAtMostOnce, TransportTypeOK
  <1>3. \A r \in ConnRecords : \A b \in BOOLEAN :
          LET s == [r EXCEPT !.done = b]
          IN  s \in ConnRecords /\ s.node = r.node /\ s.closed = r.closed /\ s.reader = r.reader
    BY Zenon DEF ConnRecords
  <1>4. \A i \in Ids : /\ c'[i] \in ConnRecords /\ c'[i].node = c[i].node /\ c'[i].closed = c[i].closed
                       /\ c'[i].reader = c[i].reader
    <2> SUFFICES ASSUME NEW i \in Ids
                 PROVE  /\ c'[i] \in ConnRecords /\ c'[i].node = c[i].node /\ c'[i].closed = c[i].closed
                        /\ c'[i].reader = c[i].reader
      BY Zenon
    <2> DEFINE b == c[i].done \/ c[i].reader \notin {"none", "handshake"}
    <2>1. c'[i] = [c[i] EXCEPT !.done = b] /\ b \in BOOLEAN
      BY <1>1, Zenon
    <2> HIDE DEF b
    <2> QED  BY <1>2, <1>3, <2>1
  <1>5. TransportTypeOK'
    <2>1. c' \in [Ids -> ConnRecords]
      BY <1>1, <1>4, Zenon
    <2> QED  BY <1>1, <1>2, <2>1, Zenon DEF TransportTypeOK
  <1> QED  BY <1>1, <1>2, <1>4, <1>5, KeepStep, Zenon

\* Every step of the transport keeps the invariant.
LEMMA TransportNext == ASSUME ClusterInv, TransportStep PROVE ClusterInv'
  <1>1. /\ up \in {"no", "yes", "closing"} /\ tctx \in {"none", "live", "done"}
        /\ \A i \in Ids : c[i].node \in Nodes /\ i # 0
    BY TransportAssumption DEF ClusterInv, TransportTypeOK, ConnRecords, Ids
  <1>2. CASE acceptLoopEnds
    BY <1>1, <1>2, ElsewhereStep, Zenon DEF acceptLoopEnds
  <1>3. ASSUME NEW i \in Ids, SendLoopWrites(i) \/ Reads(i)
        PROVE  ClusterInv'
    <2>1. active' \subseteq active \/ \E n \in Nodes : connections[n] # 0 /\ active' = active \cup {n}
      BY <1>1, <1>3, Zenon DEF SendLoopWrites, Reads, Lives
    <2> QED  BY <1>1, <1>3, <2>1, ElsewhereStep, Zenon DEF SendLoopWrites, Reads
  <1>4. ASSUME NEW i \in Ids, SendOnClosed(i)
        PROVE  ClusterInv'
    BY <1>1, <1>4, ElsewhereStep, Zenon DEF SendOnClosed
  <1>5. ASSUME NEW n \in Nodes, Idle(n)
        PROVE  ClusterInv'
    BY <1>1, <1>5, ElsewhereStep, Zenon DEF Idle
  <1> QED
    BY <1>2, <1>3, <1>4, <1>5, AcceptStep, GoroutineStep, HandshakeStep, RemoveStep, Zenon DEF TransportStep

\* Every step of the manager and of the transport keeps it.
LEMMA ClusterStep == ASSUME ClusterInv, [ClusterNext]_clusterVars PROVE ClusterInv'
  <1>1. up \in {"no", "yes", "closing"} /\ tctx \in {"none", "live", "done"}
    BY Zenon DEF ClusterInv, TransportTypeOK
  <1>2. CASE UNCHANGED clusterVars
    BY <1>1, <1>2, ElsewhereStep, Zenon DEF clusterVars, transportVars
  <1>3. CASE Start
    BY <1>1, <1>3, ElsewhereStep, Zenon DEF Start, StartTransport
  <1>4. CASE StartNode \/ Join \/ Stop \/ StopEnds
    <2>1. crash' \in {crash, "events", "join"} /\ UNCHANGED <<up, tctx, connections, active, c, count>>
      BY <1>4, Zenon DEF StartNode, Join, Stop, StopEnds, UpdateState, Publish
    <2> QED  BY <1>1, <2>1, ElsewhereStep, Zenon
  <1>5. CASE LoopsEnd
    BY <1>1, <1>5, ElsewhereStep, Zenon DEF LoopsEnd, transportVars
  <1>6. CASE StopCancel \/ ContextEnds
    BY <1>6, CancelStep, Zenon DEF StopCancel, ContextEnds
  <1>7. CASE StopWaited
    <2>1. CASE up = "yes"
      BY <1>7, <2>1, StopStep, Zenon DEF StopWaited
    <2>2. CASE up # "yes"
      BY <1>1, <1>7, <2>2, ElsewhereStep, Zenon DEF StopWaited, transportVars
    <2> QED  BY <2>1, <2>2, Zenon
  <1> QED
    BY <1>2, <1>3, <1>4, <1>5, <1>6, <1>7, SendStep, GoroutineStep, TransportNext, Zenon DEF ClusterNext, ManagerStep

----------------------------------------------------------------------------

\* So it holds throughout.
LEMMA ClusterSafe == ClusterSpec => []ClusterInv
  BY InitCluster, ClusterStep, PTL DEF ClusterSpec

\* Whatever handshakes replace, dying readers remove and Stop closes, no connection of the
\* transport is closed twice, for any nodes and any number of connections.
THEOREM NeverClosedTwice == ClusterSpec => []ClosedAtMostOnce
  <1>1. ClusterInv => ClosedAtMostOnce
    BY Zenon DEF ClusterInv
  <1> QED  BY ClusterSafe, <1>1, PTL

\* The transport's variables keep their types; a node counts as active only while the map
\* has a connection for it.
THEOREM TransportTypeCorrect == ClusterSpec => []TransportTypeOK
  <1>1. ClusterInv => TransportTypeOK
    BY Zenon DEF ClusterInv
  <1> QED  BY ClusterSafe, <1>1, PTL

----------------------------------------------------------------------------
(* The manager over the transport.                                          *)

\* What connects the manager's steps with the state of the transport: a started manager
\* counts its Start, the events channel is closed by the last step of a Stop, a manager
\* between the two halves of Start listens, and the node is active only while it listens,
\* unless a connection under its own id has set it so.  A connection that has yet to be
\* told of is past its handshake.
ManagerInv ==
  /\ ManagerTypeOK
  /\ started \/ boss # "idle" => starts >= 1
  /\ eventsClosed => starts > 1 \/ (starts = 1 /\ boss = "idle" /\ ~started)
  /\ boss \in {"cancel", "wait", "transport"} => ~started
  /\ boss = "starting" => started /\ up = "yes"
  /\ state = "active" => SelfConnected \/ (started /\ boss = "idle" /\ up = "yes")
  /\ \A i \in Ids : ~c[i].told => c[i].reader \notin {"none", "handshake"}
  /\ EventsPanicExplained

\* A record after a step: a connection past its handshake stays so, under the same node,
\* and it is told of only then.
Past(r) == r.reader \notin {"none", "handshake"}
Ages(r, s) ==
  /\ Past(r) => Past(s) /\ s.node = r.node
  /\ (~r.told => Past(r)) => (~s.told => Past(s))

\* A step that changes the record of one connection.
LEMMA AgeOne ==
  ASSUME c \in [Ids -> ConnRecords], NEW i \in Ids, NEW r, c' = [c EXCEPT ![i] = r], Ages(c[i], r)
  PROVE  \A j \in Ids : Ages(c[j], c'[j])
  <1>1. c'[i] = r /\ \A j \in Ids \ {i} : c'[j] = c[j]
    BY Zenon
  <1>2. \A j \in Ids : Ages(c[j], c[j])
    BY Zenon DEF Ages
  <1> QED  BY <1>1, <1>2, Zenon

\* Steps that change the records of connections in place.
LEMMA AgeInPlace ==
  ASSUME ClusterInv, NEW i \in Ids,
         \/ HandshakeFails(i) \/ SendLoopEnds(i) \/ ReadEnds(i) \/ IncomingEnds(i)
         \/ HandleConnectionEstablished(i) \/ HandleConnectionLost(i) \/ \E n \in Nodes : Handshake(i, n)
  PROVE  \A j \in Ids : Ages(c[j], c'[j])
  <1>1. c \in [Ids -> ConnRecords] /\ c[i] \in ConnRecords
    BY Zenon DEF ClusterInv, TransportTypeOK
  <1>2. CASE HandshakeFails(i)
    <2> DEFINE r == [c[i] EXCEPT !.reader = "done", !.sock = FALSE]
    <2>1. c' = [c EXCEPT ![i] = r]
      BY <1>1, <1>2, Zenon DEF HandshakeFails
    <2>2. r.reader = "done" /\ r.node = c[i].node /\ r.told = c[i].told
      BY <1>1, Zenon DEF ConnRecords
    <2>3. Ages(c[i], r)
      BY <2>2, Zenon DEF Ages, Past
    <2> HIDE DEF r
    <2> QED  BY <1>1, <2>1, <2>3, AgeOne, Zenon
  <1>3. CASE SendLoopEnds(i)
    <2> DEFINE r == [c[i] EXCEPT !.sender = FALSE]
    <2>1. c' = [c EXCEPT ![i] = r]
      BY <1>1, <1>3, Zenon DEF SendLoopEnds
    <2>2. r.reader = c[i].reader /\ r.node = c[i].node /\ r.told = c[i].told
      BY <1>1, Zenon DEF ConnRecords
    <2>3. Ages(c[i], r)
      BY <2>2, Zenon DEF Ages, Past
    <2> HIDE DEF r
    <2> QED  BY <1>1, <2>1, <2>3, AgeOne, Zenon
  <1>4. CASE ReadEnds(i)
    <2> DEFINE r == [c[i] EXCEPT !.reader = "remove"]
    <2>1. c' = [c EXCEPT ![i] = r]
      BY <1>1, <1>4, Zenon DEF ReadEnds
    <2>2. r.reader = "remove" /\ r.node = c[i].node /\ r.told = c[i].told
      BY <1>1, Zenon DEF ConnRecords
    <2>3. Ages(c[i], r)
      BY <2>2, Zenon DEF Ages, Past
    <2> HIDE DEF r
    <2> QED  BY <1>1, <2>1, <2>3, AgeOne, Zenon
  <1>5. CASE IncomingEnds(i)
    <2> DEFINE r == [c[i] EXCEPT !.sock = FALSE]
    <2>1. c' = [c EXCEPT ![i] = r]
      BY <1>1, <1>5, Zenon DEF IncomingEnds
    <2>2. r.reader = c[i].reader /\ r.node = c[i].node /\ r.told = c[i].told
      BY <1>1, Zenon DEF ConnRecords
    <2>3. Ages(c[i], r)
      BY <2>2, Zenon DEF Ages, Past
    <2> HIDE DEF r
    <2> QED  BY <1>1, <2>1, <2>3, AgeOne, Zenon
  <1>6. CASE HandleConnectionEstablished(i)
    <2> DEFINE r == [c[i] EXCEPT !.told = TRUE]
    <2>1. c' = [c EXCEPT ![i] = r]
      BY <1>1, <1>6, Zenon DEF HandleConnectionEstablished
    <2>2. r.reader = c[i].reader /\ r.node = c[i].node /\ r.told
      BY <1>1, Zenon DEF ConnRecords
    <2>3. Ages(c[i], r)
      BY <2>2, Zenon DEF Ages, Past
    <2> HIDE DEF r
    <2> QED  BY <1>1, <2>1, <2>3, AgeOne, Zenon
  <1>7. CASE HandleConnectionLost(i)
    <2> DEFINE r == [c[i] EXCEPT !.reader = "done"]
    <2>1. c' = [c EXCEPT ![i] = r]
      BY <1>1, <1>7, Zenon DEF HandleConnectionLost
    <2>2. r.reader = "done" /\ r.node = c[i].node /\ r.told = c[i].told
      BY <1>1, Zenon DEF ConnRecords
    <2>3. Ages(c[i], r)
      BY <2>2, Zenon DEF Ages, Past
    <2> HIDE DEF r
    <2> QED  BY <1>1, <2>1, <2>3, AgeOne, Zenon
  <1>8. ASSUME NEW n \in Nodes, Handshake(i, n)
        PROVE  \A j \in Ids : Ages(c[j], c'[j])
    <2> DEFINE r == [c[i] EXCEPT !.node = n, !.reader = "run", !.sender = TRUE,
                                 !.done = (tctx = "done"), !.told = (n # Self)]
    <2>1. c' = [c EXCEPT ![i] = r] /\ c[i].reader = "handshake"
      BY <1>8, Zenon DEF Handshake
    <2>2. r.reader = "run"
      BY <1>1, Zenon DEF ConnRecords
    <2>3. Ages(c[i], r)
      BY <2>1, <2>2, Zenon DEF Ages, Past
    <2> HIDE DEF r
    <2> QED  BY <1>1, <2>1, <2>3, AgeOne, Zenon
  <1> QED  BY <1>2, <1>3, <1>4, <1>5, <1>6, <1>7, <1>8, Zenon

\* A new connection takes a number whose record is fresh.
LEMMA AgeNew ==
  ASSUME ClusterInv, Accept \/ \E n \in Nodes : Send(n)
  PROVE  \A j \in Ids : Ages(c[j], c'[j])
  <1>1. c \in [Ids -> ConnRecords] /\ count < MaxConns
    BY Zenon DEF ClusterInv, TransportTypeOK, Accept, Send, createConnection
  <1>2. count + 1 \in Ids /\ c[count + 1].reader = "none"
    BY <1>1, NewNumber, Zenon
  <1>3. CASE Accept
    <2> DEFINE r == [Fresh EXCEPT !.dir = "in", !.sock = TRUE, !.reader = "handshake"]
    <2>1. c' = [c EXCEPT ![count + 1] = r]
      BY <1>3, Zenon DEF Accept
    <2>2. r.told
      BY Zenon DEF Fresh
    <2>3. Ages(c[count + 1], r)
      BY <1>2, <2>2, Zenon DEF Ages, Past
    <2> HIDE DEF r
    <2> QED  BY <1>1, <1>2, <2>1, <2>3, AgeOne, Zenon
  <1>4. ASSUME NEW n \in Nodes, Send(n)
        PROVE  \A j \in Ids : Ages(c[j], c'[j])
    <2> DEFINE r == [Fresh EXCEPT !.node = n, !.dir = "out", !.sock = TRUE,
                                  !.done = (tctx = "done"), !.reader = "run", !.sender = TRUE]
    <2>1. c' = [c EXCEPT ![count + 1] = r]
      BY <1>4, Zenon DEF Send, createConnection
    <2>2. r.told
      BY Zenon DEF Fresh
    <2>3. Ages(c[count + 1], r)
      BY <1>2, <2>2, Zenon DEF Ages, Past
    <2> HIDE DEF r
    <2> QED  BY <1>1, <1>2, <2>1, <2>3, AgeOne, Zenon
  <1> QED  BY <1>3, <1>4, Zenon

\* Steps that close connections or cancel their contexts.
LEMMA AgeClosing ==
  ASSUME ClusterInv, StopTransport \/ CancelTransport \/ \E i \in Ids : removeConnection(i)
  PROVE  \A j \in Ids : Ages(c[j], c'[j])
  <1>1. c \in [Ids -> ConnRecords] /\ \A j \in Ids : c[j] \in ConnRecords
    BY Zenon DEF ClusterInv, TransportTypeOK
  <1>2. \A r \in ConnRecords : close(r).reader = r.reader /\ close(r).node = r.node /\ close(r).told = r.told
    BY Zenon DEF close, ConnRecords
  <1>3. ASSUME NEW r \in ConnRecords, NEW s, s.reader = r.reader, s.node = r.node, s.told = r.told
        PROVE  Ages(r, s)
    BY <1>3, Zenon DEF Ages, Past
  <1>4. CASE StopTransport
    <2>1. \A j \in Ids : c'[j] = close(c[j]) \/ c'[j] = c[j]
      BY <1>4, Zenon DEF StopTransport
    <2> QED  BY <1>1, <1>2, <1>3, <2>1
  <1>5. CASE CancelTransport
    <2> SUFFICES ASSUME NEW j \in Ids PROVE Ages(c[j], c'[j])
      BY Zenon
    <2> DEFINE b == c[j].done \/ c[j].reader \notin {"none", "handshake"}
               s == [c[j] EXCEPT !.done = b]
    <2>1. c'[j] = s
      BY <1>5, Zenon DEF CancelTransport
    <2>2. s.reader = c[j].reader /\ s.node = c[j].node /\ s.told = c[j].told
      BY <1>1, Zenon DEF ConnRecords
    <2> HIDE DEF s
    <2> QED  BY <1>1, <1>3, <2>1, <2>2, Zenon
  <1>6. ASSUME NEW i \in Ids, removeConnection(i)
        PROVE  \A j \in Ids : Ages(c[j], c'[j])
    <2> DEFINE after == IF c[i].node = Self THEN "lost" ELSE "done"
               r == [c[i] EXCEPT !.reader = after]
               d == [c EXCEPT ![i] = r]
    <2>1. c[i].reader = "remove" /\ d = Removed(i)
      BY <1>1, <1>6, Zenon DEF removeConnection, Removed
    <2>2. r \in ConnRecords /\ r.reader \notin {"none", "handshake"} /\ r.node = c[i].node /\ r.told = c[i].told
      BY <1>1, Zenon DEF ConnRecords
    <2>3. d[i] = r /\ \A j \in Ids \ {i} : d[j] = c[j]
      BY <1>1, Zenon
    <2> HIDE DEF r, d
    <2>4. \A j \in Ids : c'[j] = close(d[j]) \/ c'[j] = d[j]
      BY <1>6, <2>1, Zenon DEF removeConnection
    <2>5. \A j \in Ids : d[j] \in ConnRecords /\ Ages(c[j], d[j])
      BY <1>1, <2>1, <2>2, <2>3, Zenon DEF Ages, Past
    <2>6. \A j \in Ids : Ages(c[j], close(d[j]))
      BY <1>2, <2>5, Zenon DEF Ages, Past
    <2> QED  BY <2>4, <2>5, <2>6, Zenon
  <1> QED  BY <1>4, <1>5, <1>6, Zenon

\* So it is with every step.
LEMMA AgeStep == ASSUME ClusterInv, [ClusterNext]_clusterVars PROVE \A j \in Ids : Ages(c[j], c'[j])
  <1>1. CASE UNCHANGED c
    BY <1>1, Zenon DEF Ages
  <1>2. CASE TransportStep
    <2>1. CASE acceptLoopEnds \/ (\E n \in Nodes : Idle(n))
               \/ \E i \in Ids : SendLoopWrites(i) \/ Reads(i) \/ SendOnClosed(i)
      <3>1. UNCHANGED c
        BY <2>1, Zenon DEF acceptLoopEnds, Idle, SendLoopWrites, Reads, SendOnClosed
      <3> QED  BY <1>1, <3>1, Zenon
    <2> QED  BY <1>2, <2>1, AgeInPlace, AgeNew, AgeClosing, Zenon DEF TransportStep
  <1>3. CASE ManagerStep
    <2>1. CASE Start \/ StartNode \/ Join \/ Stop \/ LoopsEnd \/ StopEnds
      <3>1. UNCHANGED c
        BY <2>1, Zenon DEF Start, StartTransport, StartNode, Join, Stop, LoopsEnd, StopEnds, transportVars
      <3> QED  BY <1>1, <3>1, Zenon
    <2>2. CASE StopCancel \/ ContextEnds
      BY <2>2, AgeClosing, Zenon DEF StopCancel, ContextEnds
    <2>3. CASE StopWaited
      <3>1. StopTransport \/ UNCHANGED c
        BY <2>3, Zenon DEF StopWaited, transportVars
      <3> QED  BY <1>1, <3>1, AgeClosing, Zenon
    <2>4. ASSUME NEW n \in Nodes, SendTold(n)
          PROVE  \A j \in Ids : Ages(c[j], c'[j])
      BY <2>4, AgeNew, Zenon DEF SendTold
    <2> QED  BY <1>3, <2>1, <2>2, <2>3, <2>4, AgeInPlace, Zenon DEF ManagerStep
  <1>4. CASE UNCHANGED clusterVars
    BY <1>1, <1>4, Zenon DEF clusterVars, transportVars
  <1> QED  BY <1>2, <1>3, <1>4, Zenon DEF ClusterNext
\* A connection under the node's own id remains one, and what is to be told is told of
\* connections past their handshake.
LEMMA SelfStays ==
  ASSUME ClusterInv, ManagerInv, [ClusterNext]_clusterVars
  PROVE  /\ SelfConnected => SelfConnected'
         /\ \A i \in Ids : ~c'[i].told => c'[i].reader \notin {"none", "handshake"}
  <1>1. \A i \in Ids : Ages(c[i], c'[i]) /\ (~c[i].told => Past(c[i]))
    BY AgeStep, Zenon DEF ManagerInv, Past
  <1>2. SelfConnected => SelfConnected'
    BY <1>1, Zenon DEF SelfConnected, Ages, Past
  <1>3. \A i \in Ids : ~c'[i].told => c'[i].reader \notin {"none", "handshake"}
    BY <1>1, Zenon DEF Ages, Past
  <1> QED  BY <1>2, <1>3, Zenon

\* A transport step leaves the context alone, takes down no open listener and does not
\* touch the events channel.
LEMMA TransportFrame ==
  ASSUME TransportStep, crash = "no"
  PROVE  tctx' = tctx /\ (up = "yes" => up' = "yes") /\ crash' # "events"
  <1>1. CASE acceptLoopEnds \/ Accept \/ \E n \in Nodes : Idle(n)
    BY <1>1, Zenon DEF acceptLoopEnds, Accept, Idle
  <1>2. ASSUME NEW i \in Ids,
               \/ HandshakeFails(i) \/ (\E n \in Nodes : Handshake(i, n)) \/ SendLoopWrites(i) \/ SendLoopEnds(i)
               \/ Reads(i) \/ ReadEnds(i) \/ IncomingEnds(i) \/ SendOnClosed(i)
        PROVE  tctx' = tctx /\ up' = up /\ crash' # "events"
    BY <1>2, Zenon DEF HandshakeFails, Handshake, SendLoopWrites, SendLoopEnds, Reads, ReadEnds, IncomingEnds, SendOnClosed
  <1>3. ASSUME NEW i \in Ids, removeConnection(i)
        PROVE  tctx' = tctx /\ up' = up /\ crash' # "events"
    BY <1>3, Zenon DEF removeConnection, ClosePanics
  <1> QED  BY <1>1, <1>2, <1>3, Zenon DEF TransportStep

\* The events channel is told of a connection only if that stands under the node's own id.
LEMMA TellStep ==
  ASSUME ClusterInv, ManagerInv, crash = "no", [ClusterNext]_clusterVars,
         \/ \E n \in Nodes : SendTold(n)
         \/ \E i \in Ids : HandleConnectionEstablished(i) \/ HandleConnectionLost(i)
  PROVE  (crash' # "events" /\ state' = state) \/ SelfConnected'
  <1>1. c \in [Ids -> ConnRecords]
    BY Zenon DEF ClusterInv, TransportTypeOK
  <1>2. ASSUME NEW n \in Nodes, SendTold(n)
        PROVE  (crash' # "events" /\ state' = state) \/ SelfConnected'
    <2> DEFINE r == [Fresh EXCEPT !.node = n, !.dir = "out", !.sock = TRUE,
                                  !.done = (tctx = "done"), !.reader = "run", !.sender = TRUE]
    <2>1. c' = [c EXCEPT ![count + 1] = r] /\ count < MaxConns
      BY <1>2, Zenon DEF SendTold, Send, createConnection
    <2>2. r.node = n /\ r.reader = "run"
      BY Zenon DEF Fresh
    <2>3. count + 1 \in Ids
      BY <2>1, NewNumber, Zenon
    <2> HIDE DEF r
    <2>4. c'[count + 1] = r
      BY <1>1, <2>1, <2>3, Zenon
    <2>5. CASE n = Self
      BY <2>2, <2>3, <2>4, <2>5, Zenon DEF SelfConnected
    <2>6. CASE n # Self
      BY <1>2, <2>6, Zenon DEF SendTold, Tell, GetNode
    <2> QED  BY <2>5, <2>6, Zenon
  <1>3. ASSUME NEW i \in Ids, HandleConnectionEstablished(i) \/ HandleConnectionLost(i)
        PROVE  (crash' # "events" /\ state' = state) \/ SelfConnected'
    <2>1. c[i].reader \notin {"none", "handshake"}
      BY <1>3, Zenon DEF HandleConnectionEstablished, HandleConnectionLost, ManagerInv
    <2>2. CASE c[i].node = Self
      <3>1. SelfConnected
        BY <2>1, <2>2, Zenon DEF SelfConnected
      <3> QED  BY <3>1, SelfStays, Zenon
    <2>3. CASE c[i].node # Self
      BY <1>3, <2>3, Zenon DEF HandleConnectionEstablished, HandleConnectionLost, Tell, GetNode
    <2> QED  BY <2>2, <2>3, Zenon
  <1> QED  BY <1>2, <1>3, Zenon

\* A new manager.
LEMMA InitManager == NewClusterManager => ManagerInv
  <1> SUFFICES ASSUME NewClusterManager PROVE ManagerInv
    BY Zenon
  <1>1. TransportTypeOK
    BY InitCluster, Zenon DEF ClusterInv
  <1>2. crash = "no" /\ \A i \in Ids : c[i].told
    BY Zenon DEF NewClusterManager, NewMessageTransport, Fresh
  <1>3. ManagerTypeOK
    <2>1. starts \in 0 .. MaxStarts
      BY ManagerAssumption DEF NewClusterManager
    <2> QED  BY <1>1, <2>1, Zenon DEF NewClusterManager, ManagerTypeOK
  <1> QED  BY <1>2, <1>3, Zenon DEF NewClusterManager, ManagerInv, EventsPanicExplained

\* Every step keeps what connects the manager with its transport.
LEMMA ManagerKeeps ==
  ASSUME ClusterInv, ClusterInv', ManagerInv, [ClusterNext]_clusterVars
  PROVE  ManagerInv'
  <1>1. /\ SelfConnected => SelfConnected'
        /\ \A i \in Ids : ~c'[i].told => c'[i].reader \notin {"none", "handshake"}
    BY SelfStays, Zenon
  <1>2. TransportTypeOK' /\ ManagerTypeOK /\ starts \in Nat
    BY ManagerAssumption DEF ClusterInv, ManagerInv, ManagerTypeOK
  <1> USE ManagerAssumption
  <1>3. CASE UNCHANGED clusterVars
    BY <1>1, <1>2, <1>3 DEF ManagerInv, ManagerTypeOK, EventsPanicExplained, clusterVars, managerVars, transportVars
  <1>4. CASE crash = "no" /\ TransportStep /\ UNCHANGED managerVars
    <2>1. tctx' = tctx /\ (up = "yes" => up' = "yes") /\ crash' # "events"
      BY <1>4, TransportFrame, Zenon
    <2> QED  BY <1>1, <1>2, <1>4, <2>1 DEF ManagerInv, ManagerTypeOK, EventsPanicExplained, managerVars
  <1>5. CASE crash = "no" /\ Start
    <2>1. /\ boss = "idle" /\ ~started /\ started' /\ starts < MaxStarts /\ starts' = starts + 1 /\ tctx' = "live"
          /\ crash' = crash /\ UNCHANGED <<seeds, state, known, leader, loops, eventsClosed, service>>
          /\ boss' = "idle" \/ (boss' = "starting" /\ up' = "yes")
      BY <1>5, Zenon DEF Start, StartTransport
    <2>2. ManagerTypeOK'
      BY <1>2, <1>5, <2>1 DEF ManagerTypeOK, Start
    <2> QED  BY <1>1, <1>2, <1>5, <2>1, <2>2 DEF ManagerInv, EventsPanicExplained
  <1>6. CASE crash = "no" /\ StartNode
    <2>1. /\ boss = "starting" /\ boss' = "idle" /\ state' = "active" /\ UNCHANGED <<started, starts, eventsClosed, up, tctx>>
          /\ crash' = IF eventsClosed THEN "events" ELSE crash
      BY <1>6, Zenon DEF StartNode, Publish
    <2>2. ManagerTypeOK'
      BY <1>2, <1>6, Zenon DEF ManagerTypeOK, StartNode, addNode, electSelf, ServiceStarts
    <2>3. started
      BY <2>1, Zenon DEF ManagerInv
    <2> QED  BY <1>1, <1>2, <1>6, <2>1, <2>2, <2>3, Zenon DEF ManagerInv, EventsPanicExplained
  <1>7. CASE crash = "no" /\ Stop
    <2>1. /\ boss = "idle" /\ started /\ boss' = "cancel" /\ ~started' /\ state' = "leaving" /\ UNCHANGED <<starts, eventsClosed, up, tctx>>
          /\ crash' = "events" => eventsClosed
      BY <1>7, Zenon DEF Stop, UpdateState, Publish
    <2>2. ManagerTypeOK'
      BY <1>2, <1>7, Zenon DEF ManagerTypeOK, Stop, UpdateState, ServiceStop
    <2> QED  BY <1>1, <1>2, <1>7, <2>1, <2>2, Zenon DEF ManagerInv, EventsPanicExplained
  <1>8. CASE crash = "no" /\ (StopCancel \/ StopWaited)
    <2>1. /\ UNCHANGED <<seeds, started, starts, state, known, leader, loops, eventsClosed, service>>
          /\ boss \in {"cancel", "wait"} /\ boss' \in {"wait", "transport"}
      BY <1>8, Zenon DEF StopCancel, StopWaited
    <2>2. crash' # "events"
      BY <1>8, Zenon DEF StopCancel, StopWaited, transportVars, CancelTransport, StopTransport, ClosePanics
    <2>3. ManagerTypeOK'
      BY <1>2, <2>1 DEF ManagerTypeOK
    <2>4. starts >= 1 /\ (eventsClosed => starts > 1) /\ (state = "active" => SelfConnected)
      BY <1>2, <2>1, Zenon DEF ManagerInv
    <2>5. /\ UNCHANGED <<starts, eventsClosed, state>> /\ boss' # "idle" /\ boss' # "starting" /\ ~started'
      BY <2>1, Zenon DEF ManagerInv
    <2> QED  BY <1>1, <2>2, <2>3, <2>4, <2>5, Zenon DEF ManagerInv, EventsPanicExplained
  <1>9. CASE crash = "no" /\ LoopsEnd
    <2>1. /\ UNCHANGED <<seeds, boss, started, starts, state, known, leader, eventsClosed, service, up, tctx, crash>>
          /\ loops' = FALSE
      BY <1>9, Zenon DEF LoopsEnd, transportVars
    <2>2. ManagerTypeOK'
      BY <1>2, <2>1, ZenonT(30) DEF ManagerTypeOK
    <2> QED  BY <1>1, <1>2, <2>1, <2>2, Zenon DEF ManagerInv, EventsPanicExplained
  <1>10. CASE crash = "no" /\ StopEnds
    <2>1. /\ boss = "transport" /\ boss' = "idle" /\ eventsClosed' /\ state' = "left" /\ UNCHANGED <<started, starts, up, tctx>>
          /\ crash' = IF eventsClosed THEN "events" ELSE crash
      BY <1>10, Zenon DEF StopEnds, Publish
    <2>2. ManagerTypeOK'
      BY <1>2, <1>10, Zenon DEF ManagerTypeOK, StopEnds, ServiceStopped
    <2> QED  BY <1>1, <1>2, <1>10, <2>1, <2>2 DEF ManagerInv, EventsPanicExplained
  <1>11. CASE /\ crash = "no"
              /\ \/ \E n \in Nodes : SendTold(n)
                 \/ \E i \in Ids : HandleConnectionEstablished(i) \/ HandleConnectionLost(i)
    <2>1. UNCHANGED <<seeds, boss, started, starts, known, leader, loops, eventsClosed, service, up, tctx>>
      BY <1>11, Zenon DEF SendTold, Send, HandleConnectionEstablished, HandleConnectionLost
    <2>2. state' \in {state, "active", "suspected"}
      BY <1>11, Zenon DEF SendTold, HandleConnectionEstablished, HandleConnectionLost, Tell, UpdateState
    <2>3. ManagerTypeOK'
      BY <1>2, <2>1, <2>2 DEF ManagerTypeOK
    <2>4. (crash' # "events" /\ state' = state) \/ SelfConnected'
      BY <1>11, TellStep, Zenon
    <2> QED  BY <1>1, <1>2, <1>11, <2>1, <2>3, <2>4, Zenon DEF ManagerInv, EventsPanicExplained
  <1>12. CASE crash = "no" /\ (Join \/ ContextEnds)
    <2>1. UNCHANGED <<seeds, boss, started, starts, state, known, loops, eventsClosed, service, up>>
      BY <1>12, Zenon DEF Join, ContextEnds, CancelTransport, managerVars
    <2>2. leader' \in BOOLEAN /\ crash' # "events"
      BY <1>2, <1>12, Zenon DEF Join, electSelf, ContextEnds, CancelTransport, managerVars, ManagerTypeOK
    <2>3. ManagerTypeOK'
      BY <1>2, <2>1, <2>2, ZenonT(30) DEF ManagerTypeOK
    <2> QED  BY <1>1, <1>2, <2>1, <2>2, <2>3, Zenon DEF ManagerInv, EventsPanicExplained
  <1> QED
    BY <1>3, <1>4, <1>5, <1>6, <1>7, <1>8, <1>9, <1>10, <1>11, <1>12, Zenon DEF ClusterNext, ManagerStep

LEMMA ManagerSafe == ClusterSpec => []ManagerInv
  BY ClusterSafe, InitManager, ManagerKeeps, PTL DEF ClusterSpec

\* Besides a Join called after Stop, publishEvent panics on the closed events channel only
\* if the manager was started again or a connection carries the node's own id, for any
\* nodes, connections and Starts.
THEOREM EventsPanicsExplained == ClusterSpec => []EventsPanicExplained
  <1>1. ManagerInv => EventsPanicExplained
    BY Zenon DEF ManagerInv
  <1> QED  BY ManagerSafe, <1>1, PTL

\* The service reports healthy only while its node's listener is open, unless a connection
\* carries the node's own id, whatever Joins and ended contexts come in between.
THEOREM HealthyListens == ClusterSpec => []HealthyMeansListening
  <1>1. ManagerInv => HealthyMeansListening
    <2> SUFFICES ASSUME ManagerInv, Health = "healthy", ~SelfConnected PROVE up = "yes"
      BY Zenon DEF HealthyMeansListening
    <2>1. GetActiveNodes # {}
      BY Zenon DEF Health, GetClusterHealth
    <2>2. state = "active"
      BY <2>1, Zenon DEF GetActiveNodes
    <2> QED  BY <2>2, Zenon DEF ManagerInv
  <1> QED  BY ManagerSafe, <1>1, PTL

\* The manager's and the transport's variables keep their types.
THEOREM ManagerTypeCorrect == ClusterSpec => []ManagerTypeOK
  <1>1. ManagerInv => ManagerTypeOK
    BY Zenon DEF ManagerInv
  <1> QED  BY ManagerSafe, <1>1, PTL

----------------------------------------------------------------------------
(* ClusterRegistry                                                          *)

Events == {"registered", "unregistered"}

\* The table of watchers holds the channels whose goroutine has not taken them out, none
\* of which is closed; a channel that nobody watches yet was told nothing.
WatchInv ==
  /\ \A w \in Watchers : w \in watchers <=> watch[w] \in {"open", "done"}
  /\ \A w \in Watchers : watch[w] = "new" => told[w] = "nothing"
  /\ ~panicked

\* While there is no instance every registration that has yet to tell was overtaken.  What
\* a watcher was told last is true, but a removal only until a registration that was not
\* overtaken tells of the next instance.
ToldInv ==
  /\ ~services => overtaken = telling
  /\ \A w \in watchers \ confused :
       /\ told[w] = "registered" => services
       /\ told[w] = "unregistered" => ~services \/ telling \ overtaken # {}

RegistryInv == RegistryTypeOK /\ WatchInv /\ ToldInv

----------------------------------------------------------------------------

\* A new registry has no watcher.
LEMMA InitRegistry == NewServiceRegistry => RegistryInv
  <1> SUFFICES ASSUME NewServiceRegistry PROVE RegistryInv
    BY Zenon
  <1>1. chan \in [Watchers -> Seq(Events)] /\ \A w \in Watchers : chan[w] = << >> /\ Len(chan[w]) = 0
    BY DEF NewServiceRegistry
  <1>2. RegistryTypeOK
    <2>1. \A w \in Watchers : Len(chan[w]) <= WatchSize
      BY <1>1, RegistryAssumption
    <2>2. services \in BOOLEAN /\ panicked \in BOOLEAN
      BY Zenon DEF NewServiceRegistry
    <2> QED  BY <1>1, <2>1, <2>2, Zenon DEF NewServiceRegistry, RegistryTypeOK, Events
  <1>3. WatchInv
    BY <1>1, Zenon DEF NewServiceRegistry, WatchInv
  <1>4. ToldInv
    BY Zenon DEF NewServiceRegistry, ToldInv
  <1> QED  BY <1>2, <1>3, <1>4, Zenon DEF RegistryInv

\* Telling the watchers: a channel takes the event if it has room, and then no longer
\* counts as confused, unless the event is no longer true; no channel of the table is closed.
LEMMA NotifyStep ==
  ASSUME RegistryInv, NEW event \in Events, NEW late \in BOOLEAN, notifyWatchers(event, late)
  PROVE  /\ chan' \in [Watchers -> Seq(Events)] /\ \A w \in Watchers : Len(chan'[w]) <= WatchSize
         /\ told' \in [Watchers -> {"nothing", "registered", "unregistered"}]
         /\ confused' \subseteq Watchers /\ panicked' = FALSE
         /\ \A w \in watchers \ confused' : told'[w] = event /\ ~late
         /\ \A w \in Watchers \ watchers : told'[w] = told[w]
  <1> DEFINE room == {w \in watchers : Len(chan[w]) < WatchSize}
  <1>1. /\ chan' = [w \in Watchers |-> IF w \in room THEN Append(chan[w], event) ELSE chan[w]]
        /\ told' = [w \in Watchers |-> IF w \in room THEN event ELSE told[w]]
        /\ confused' = IF late THEN confused \cup watchers ELSE (confused \ room) \cup (watchers \ room)
        /\ panicked' = (panicked \/ \E w \in watchers : watch[w] = "closed")
    BY Zenon DEF notifyWatchers
  <1>2. RegistryTypeOK /\ WatchInv
    BY Zenon DEF RegistryInv
  <1>3. room \subseteq watchers /\ watchers \subseteq Watchers /\ confused \subseteq Watchers
        /\ told \in [Watchers -> {"nothing", "registered", "unregistered"}]
    BY <1>2, Zenon DEF RegistryTypeOK, Events
  <1>4. \A w \in Watchers : chan[w] \in Seq(Events) /\ Len(chan[w]) \in Nat /\ Len(chan[w]) <= WatchSize
    BY <1>2 DEF WatchInv, RegistryTypeOK, Events
  <1>5. \A q \in Seq(Events) : Append(q, event) \in Seq(Events) /\ Len(Append(q, event)) = Len(q) + 1
    OBVIOUS
  <1>6. \A w \in Watchers : w \in room => Len(chan[w]) < WatchSize
    BY Zenon
  <1> HIDE DEF room
  <1>7. chan' \in [Watchers -> Seq(Events)]
    BY <1>1, <1>4, <1>5, ZenonT(30)
  <1>8. \A w \in Watchers : Len(chan'[w]) <= WatchSize
    BY <1>1, <1>4, <1>5, <1>6, RegistryAssumption
  <1>9. told' \in [Watchers -> {"nothing", "registered", "unregistered"}]
    BY <1>1, <1>3, Zenon DEF Events
  <1>10. confused' \subseteq Watchers
    BY <1>1, <1>3, Zenon
  <1>11. panicked' = FALSE
    <2>1. ~panicked /\ \A w \in watchers : watch[w] # "closed"
      BY <1>2, <1>3, Zenon DEF WatchInv
    <2> QED  BY <1>1, <2>1, Zenon
  <1>12. \A w \in watchers \ confused' : told'[w] = event /\ ~late
    BY <1>1, <1>3, Zenon
  <1>13. \A w \in Watchers \ watchers : told'[w] = told[w]
    BY <1>1, <1>3, Zenon
  <1> QED  BY <1>7, <1>8, <1>9, <1>10, <1>11, <1>12, <1>13, Zenon

\* RegisterService, up to the unlock: the goroutine has yet to tell and is not overtaken.
LEMMA RegisterServiceStep ==
  ASSUME RegistryInv, NEW r \in Registrars, RegisterService(r) PROVE RegistryInv'
  <1>1. /\ r \notin telling /\ services' = TRUE /\ telling' = telling \cup {r}
        /\ UNCHANGED <<overtaken, watchers, watch, chan, told, confused, panicked>>
    BY Zenon DEF RegisterService
  <1>2. RegistryTypeOK' /\ WatchInv'
    BY <1>1, Zenon DEF RegistryInv, RegistryTypeOK, WatchInv
  <1>3. r \in telling' \ overtaken'
    BY <1>1, Zenon DEF RegistryInv, RegistryTypeOK
  <1>4. ToldInv'
    BY <1>1, <1>3, Zenon DEF RegistryInv, ToldInv
  <1> QED  BY <1>2, <1>4, Zenon DEF RegistryInv

\* It tells: if its instance is gone by then, every watcher may be misled and is listed so.
LEMMA RegisterTellsStep ==
  ASSUME RegistryInv, NEW r \in Registrars, RegisterTells(r) PROVE RegistryInv'
  <1> DEFINE late == r \in overtaken /\ ~services
  <1>1. /\ r \in telling /\ telling' = telling \ {r} /\ overtaken' = overtaken \ {r}
        /\ notifyWatchers("registered", late) /\ UNCHANGED <<services, watchers, watch>>
    BY Zenon DEF RegisterTells
  <1>2. late \in BOOLEAN /\ "registered" \in Events
    BY Zenon DEF Events
  <1>3. RegistryTypeOK /\ WatchInv /\ ToldInv
    BY Zenon DEF RegistryInv
  <1>4. ~late => services
    BY <1>1, <1>3, Zenon DEF ToldInv
  <1> HIDE DEF late
  <1>5. /\ chan' \in [Watchers -> Seq(Events)] /\ \A w \in Watchers : Len(chan'[w]) <= WatchSize
        /\ told' \in [Watchers -> {"nothing", "registered", "unregistered"}]
        /\ confused' \subseteq Watchers /\ panicked' = FALSE
        /\ \A w \in watchers \ confused' : told'[w] = "registered" /\ ~late
        /\ \A w \in Watchers \ watchers : told'[w] = told[w]
    BY <1>1, <1>2, NotifyStep, Zenon
  <1>6. RegistryTypeOK'
    BY <1>1, <1>3, <1>5, Zenon DEF RegistryTypeOK, Events
  <1>7. WatchInv'
    BY <1>1, <1>3, <1>5, Zenon DEF WatchInv, RegistryTypeOK, Events
  <1>8. ToldInv'
    BY <1>1, <1>3, <1>4, <1>5, Zenon DEF ToldInv
  <1> QED  BY <1>6, <1>7, <1>8, Zenon DEF RegistryInv

\* The removal overtakes every registration that has yet to tell, and is told at once.
LEMMA UnregisterServiceStep == ASSUME RegistryInv, UnregisterService PROVE RegistryInv'
  <1>1. services' = FALSE /\ overtaken' = telling /\ UNCHANGED <<telling, watchers, watch>>
    BY Zenon DEF UnregisterService
  <1>2. RegistryTypeOK /\ WatchInv /\ ToldInv
    BY Zenon DEF RegistryInv
  <1>3. CASE services
    <2>1. "unregistered" \in Events /\ FALSE \in BOOLEAN /\ notifyWatchers("unregistered", FALSE)
      BY <1>3, Zenon DEF UnregisterService, Events
    <2>2. /\ chan' \in [Watchers -> Seq(Events)] /\ \A w \in Watchers : Len(chan'[w]) <= WatchSize
          /\ told' \in [Watchers -> {"nothing", "registered", "unregistered"}]
          /\ confused' \subseteq Watchers /\ panicked' = FALSE
          /\ \A w \in watchers \ confused' : told'[w] = "unregistered"
          /\ \A w \in Watchers \ watchers : told'[w] = told[w]
      BY <2>1, NotifyStep, Zenon
    <2>3. RegistryTypeOK'
      BY <1>1, <1>2, <2>2, Zenon DEF RegistryTypeOK, Events
    <2>4. WatchInv'
      BY <1>1, <1>2, <2>2, Zenon DEF WatchInv, RegistryTypeOK, Events
    <2>5. ToldInv'
      BY <1>1, <1>2, <2>2, Zenon DEF ToldInv
    <2> QED  BY <2>3, <2>4, <2>5, Zenon DEF RegistryInv
  <1>4. CASE ~services
    <2>1. UNCHANGED <<chan, told, confused, panicked>>
      BY <1>4, Zenon DEF UnregisterService
    <2> QED  BY <1>1, <1>2, <1>4, <2>1, Zenon DEF RegistryInv, RegistryTypeOK, WatchInv, ToldInv
  <1> QED  BY <1>3, <1>4, Zenon

\* A watcher comes, reads or goes; it enters the table untold, and leaves it before its
\* channel is closed.
LEMMA WatcherStep ==
  ASSUME RegistryInv, NEW w \in Watchers,
         Watch(w) \/ ReceiveEvent(w) \/ CancelWatch(w) \/ removeWatcher(w) \/ CloseWatch(w)
  PROVE  RegistryInv'
  <1>1. RegistryTypeOK /\ WatchInv /\ ToldInv
    BY Zenon DEF RegistryInv
  <1>2. CASE ReceiveEvent(w)
    <2>1. /\ chan[w] # << >> /\ chan' = [chan EXCEPT ![w] = Tail(chan[w])]
          /\ UNCHANGED <<services, telling, overtaken, watchers, watch, told, confused, panicked>>
      BY <1>2, Zenon DEF ReceiveEvent
    <2>2. \A q \in Seq(Events) : q # << >> => Tail(q) \in Seq(Events) /\ Len(Tail(q)) = Len(q) - 1 /\ Len(q) \in Nat
      OBVIOUS
    <2>3. chan \in [Watchers -> Seq(Events)] /\ Len(chan[w]) <= WatchSize
      BY <1>1, Zenon DEF WatchInv, RegistryTypeOK, Events
    <2>4. chan' \in [Watchers -> Seq(Events)] /\ chan'[w] = Tail(chan[w]) /\ \A v \in Watchers \ {w} : chan'[v] = chan[v]
      BY <2>1, <2>2, <2>3, Zenon
    <2>5. Len(chan'[w]) <= WatchSize
      BY <2>1, <2>2, <2>3, <2>4, RegistryAssumption
    <2>6. RegistryTypeOK'
      BY <1>1, <2>1, <2>4, <2>5, Zenon DEF RegistryTypeOK, Events
    <2> QED  BY <1>1, <2>1, <2>4, <2>6, Zenon DEF RegistryInv, WatchInv, ToldInv
  <1>3. CASE Watch(w)
    <2>1. /\ watch[w] = "new" /\ watch' = [watch EXCEPT ![w] = "open"] /\ watchers' = watchers \cup {w}
          /\ UNCHANGED <<services, telling, overtaken, chan, told, confused, panicked>>
      BY <1>3, Zenon DEF Watch
    <2>2. RegistryTypeOK'
      BY <1>1, <2>1, Zenon DEF RegistryTypeOK, Events
    <2>3. WatchInv'
      BY <1>1, <2>1, Zenon DEF RegistryTypeOK, WatchInv
    <2>4. ToldInv'
      BY <1>1, <2>1, Zenon DEF WatchInv, ToldInv
    <2> QED  BY <2>2, <2>3, <2>4, Zenon DEF RegistryInv
  <1>4. CASE CancelWatch(w)
    <2>1. /\ watch[w] = "open" /\ watch' = [watch EXCEPT ![w] = "done"]
          /\ UNCHANGED <<services, telling, overtaken, watchers, chan, told, confused, panicked>>
      BY <1>4, Zenon DEF CancelWatch
    <2>2. RegistryTypeOK' /\ WatchInv'
      BY <1>1, <2>1, Zenon DEF RegistryTypeOK, WatchInv
    <2> QED  BY <1>1, <2>1, <2>2, Zenon DEF RegistryInv, ToldInv
  <1>5. CASE removeWatcher(w)
    <2>1. /\ watch[w] = "done" /\ watch' = [watch EXCEPT ![w] = "removed"] /\ watchers' = watchers \ {w}
          /\ UNCHANGED <<services, telling, overtaken, chan, told, confused, panicked>>
      BY <1>5, Zenon DEF removeWatcher
    <2>2. RegistryTypeOK' /\ WatchInv'
      BY <1>1, <2>1, Zenon DEF RegistryTypeOK, WatchInv
    <2> QED  BY <1>1, <2>1, <2>2, Zenon DEF RegistryInv, ToldInv
  <1>6. CASE CloseWatch(w)
    <2>1. /\ watch[w] = "removed" /\ watch' = [watch EXCEPT ![w] = "closed"]
          /\ UNCHANGED <<services, telling, overtaken, watchers, chan, told, confused, panicked>>
      BY <1>6, Zenon DEF CloseWatch
    <2>2. RegistryTypeOK' /\ WatchInv'
      BY <1>1, <2>1, Zenon DEF RegistryTypeOK, WatchInv
    <2> QED  BY <1>1, <2>1, <2>2, Zenon DEF RegistryInv, ToldInv
  <1> QED  BY <1>2, <1>3, <1>4, <1>5, <1>6, Zenon

\* Every step of a registry keeps its invariant.
LEMMA RegistryKeeps == RegistryInv /\ [RegistryNext]_registryVars => RegistryInv'
  <1> SUFFICES ASSUME RegistryInv, [RegistryNext]_registryVars PROVE RegistryInv'
    BY Zenon
  <1>1. ASSUME NEW r \in Registrars, RegisterService(r) \/ RegisterTells(r) PROVE RegistryInv'
    BY <1>1, RegisterServiceStep, RegisterTellsStep, Zenon
  <1>2. CASE UnregisterService
    BY <1>2, UnregisterServiceStep, Zenon
  <1>3. ASSUME NEW w \in Watchers,
               Watch(w) \/ ReceiveEvent(w) \/ CancelWatch(w) \/ removeWatcher(w) \/ CloseWatch(w)
        PROVE RegistryInv'
    BY <1>3, WatcherStep, Zenon
  <1>4. CASE UNCHANGED registryVars
    BY <1>4, Zenon DEF registryVars, RegistryInv, RegistryTypeOK, WatchInv, ToldInv
  <1> QED  BY <1>1, <1>2, <1>3, <1>4, Zenon DEF RegistryNext

\* A registry keeps its invariant.
LEMMA RegistrySafe == RegistrySpec => []RegistryInv
  BY InitRegistry, RegistryKeeps, PTL DEF RegistrySpec

\* However registering, unregistering and watching interleave, the last event a watcher
\* was offered says what the table says, once every registration has told, except for the
\* watchers that missed an event or got one late.
THEOREM LastEventsTrue == RegistrySpec => []LastEventTrue
  <1>1. RegistryInv => LastEventTrue
    <2> SUFFICES ASSUME RegistryInv, telling = {}, NEW w \in watchers \ confused, told[w] # "nothing"
                 PROVE  (told[w] = "registered") = services
      BY Zenon DEF LastEventTrue
    <2>1. /\ told[w] \in {"registered", "unregistered"} /\ services \in BOOLEAN
          /\ told[w] = "registered" => services
          /\ told[w] = "unregistered" => ~services
      BY Zenon DEF RegistryInv, RegistryTypeOK, ToldInv
    <2>2. CASE services
      <3>1. told[w] = "registered" /\ services = TRUE
        BY <2>1, <2>2, Zenon
      <3> QED  BY <3>1, Zenon
    <2>3. CASE ~services
      <3>1. (told[w] = "registered") = FALSE /\ services = FALSE
        BY <2>1, <2>3, Zenon
      <3> QED  BY <3>1, Zenon
    <2> QED  BY <2>2, <2>3, Zenon
  <1> QED  BY <1>1, RegistrySafe, PTL

\* notifyWatchers never sends on a channel that its watcher's goroutine has closed.
THEOREM NoEventsAfterClose == RegistrySpec => []NoEventAfterClose
  <1>1. RegistryInv => NoEventAfterClose
    BY Zenon DEF RegistryInv, WatchInv, NoEventAfterClose
  <1> QED  BY <1>1, RegistrySafe, PTL

\* The registry's table of watchers, their channels and its bookkeeping keep their types.
THEOREM RegistryTypeCorrect == RegistrySpec => []RegistryTypeOK
  <1>1. RegistryInv => RegistryTypeOK
    BY Zenon DEF RegistryInv
  <1> QED  BY <1>1, RegistrySafe, PTL

=============================================================================
