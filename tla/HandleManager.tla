--------------------------- MODULE HandleManager ---------------------------
(***************************************************************************)
(* core/handle.go: the three maps of a HandleManager and the counter that  *)
(* numbers handles.  Every operation holds hm.mu from its first line to    *)
(* its last, so each is one atomic step.  A missing map key is None.       *)
(***************************************************************************)
EXTENDS Integers, FiniteSets

CONSTANTS
  Actors,       \* actor ids
  Names,        \* service names other than the empty one
  NoName,       \* ""
  None,         \* a missing key
  NodeID,       \* nodeID
  NodeSpan,     \* 2^24: handle numbers per node
  HandleSpace,  \* 2^32: values of a uint32
  HandleLimit   \* bound: the counter is not followed beyond this value

ASSUME NodeAssumption ==
  /\ NodeID \in Nat
  /\ NodeSpan \in Nat \ {0}
  /\ HandleSpace \in Nat \ {0}
  /\ HandleLimit \in 0 .. HandleSpace - 1

HandleIds == 0 .. HandleSpace - 1
Handles   == [actor : Actors, name : Names \cup {NoName}]

ASSUME AbsentAssumption ==
  None \notin Handles /\ None \notin HandleIds /\ NoName \notin Names

VARIABLES
  handles,        \* handle number -> Handle
  actorToHandle,  \* actor -> handle number
  nameToHandle,   \* name -> handle number
  handleCounter   \* next handle number

hmVars == <<handles, actorToHandle, nameToHandle, handleCounter>>

FirstHandle == (NodeID * NodeSpan + 1) % HandleSpace

NewHandleManager ==
  /\ handles = [h \in HandleIds |-> None]
  /\ actorToHandle = [a \in Actors |-> None]
  /\ nameToHandle = [n \in Names |-> None]
  /\ handleCounter = FirstHandle

GetHandleByActor(a) == actorToHandle[a]
GetHandleByName(n)  == IF n \in Names THEN nameToHandle[n] ELSE None

\* Mutant of AllocateHandle: the number is not consumed.
AllocateHandleSameNumber(a, n) ==
  IF GetHandleByActor(a) # None \/ GetHandleByName(n) # None
  THEN UNCHANGED hmVars
  ELSE /\ handleCounter < HandleLimit
       /\ UNCHANGED handleCounter
       /\ handles' = [handles EXCEPT ![handleCounter] = [actor |-> a, name |-> n]]
       /\ actorToHandle' = [actorToHandle EXCEPT ![a] = handleCounter]
       /\ nameToHandle' = IF n = NoName THEN nameToHandle
                          ELSE [nameToHandle EXCEPT ![n] = handleCounter]

\* An actor that has a handle keeps it and a name in use is refused; otherwise the
\* next number is taken and all three maps are filled.
AllocateHandle(a, n) ==
  IF GetHandleByActor(a) # None \/ GetHandleByName(n) # None
  THEN UNCHANGED hmVars
  ELSE /\ handleCounter < HandleLimit
       /\ handleCounter' = (handleCounter + 1) % HandleSpace
       /\ handles' = [handles EXCEPT ![handleCounter] = [actor |-> a, name |-> n]]
       /\ actorToHandle' = [actorToHandle EXCEPT ![a] = handleCounter]
       /\ nameToHandle' = IF n = NoName THEN nameToHandle
                          ELSE [nameToHandle EXCEPT ![n] = handleCounter]

ReleaseHandle(h) ==
  IF handles[h] = None
  THEN UNCHANGED hmVars
  ELSE /\ handles' = [handles EXCEPT ![h] = None]
       /\ actorToHandle' = [actorToHandle EXCEPT ![handles[h].actor] = None]
       /\ nameToHandle' = IF handles[h].name = NoName THEN nameToHandle
                          ELSE [nameToHandle EXCEPT ![handles[h].name] = None]
       /\ UNCHANGED handleCounter

ManagerNext ==
  \/ \E a \in Actors, n \in Names \cup {NoName} : AllocateHandle(a, n)
  \/ \E h \in HandleIds : ReleaseHandle(h)

ManagerSpec == NewHandleManager /\ [][ManagerNext]_hmVars

----------------------------------------------------------------------------
(* Properties                                                              *)

\* The maps of the HandleManager and its counter keep their types.
ManagerTypes ==
  /\ handles \in [HandleIds -> Handles \cup {None}]
  /\ actorToHandle \in [Actors -> HandleIds \cup {None}]
  /\ nameToHandle \in [Names -> HandleIds \cup {None}]
  /\ handleCounter \in HandleIds

\* The three maps of the HandleManager are inverse to each other: a lookup by actor
\* or by name always finds a live handle of that actor or name (GetHandleByActor and
\* GetHandleByName never return a nil handle), and every live handle is found both
\* ways.
MapsAgree ==
  /\ \A a \in Actors : actorToHandle[a] # None =>
       handles[actorToHandle[a]] # None /\ handles[actorToHandle[a]].actor = a
  /\ \A n \in Names : nameToHandle[n] # None =>
       handles[nameToHandle[n]] # None /\ handles[nameToHandle[n]].name = n
  /\ \A h \in HandleIds : handles[h] # None =>
       /\ actorToHandle[handles[h].actor] = h
       /\ handles[h].name # NoName => nameToHandle[handles[h].name] = h

\* AllocateHandle and ReleaseHandle implement a directory in which a handle number,
\* once given to an actor, never denotes another: a stale handle kept by a client
\* can fail to resolve but cannot reach the wrong actor.
Dir == INSTANCE Directory WITH
         Numbers   <- HandleIds,
         Anonymous <- NoName,
         Absent    <- None,
         entries   <- handles,
         used      <- FirstHandle .. handleCounter - 1
NumbersNeverReused == Dir!Spec
=============================================================================
