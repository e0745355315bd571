------------------------- MODULE ApplicationProofs --------------------------
(***************************************************************************)
(* Proofs about Application and its LifecycleManager, for any services and *)
(* dependencies and any finite number of goroutines in Run and Shutdown:   *)
(* services start after their dependencies and are never up without them,  *)
(* a cycle that Start reports is there, and when Run and Shutdown are over *)
(* nothing is left running but what a failure or a race explains.          *)
(*                                                                         *)
(* The argument: whoever holds lm.mutex has the table to itself, so each   *)
(* phase (sorting, starting, stopping) has an invariant of its own on the  *)
(* lists it works through.  That the manager is stopped in the end is a    *)
(* matter of counting: the callers inside Stop and the flag app.running    *)
(* outnumber the callers inside Start and the flag lm.started.             *)
(***************************************************************************)
EXTENDS Application, FiniteSetTheorems, TLAPS

\* What the holder of lm.mutex is doing.
Phase == IF mutex = Nobody THEN "idle" ELSE pc[mutex]

Occurs(q, s) == \E i \in 1 .. Len(q) : q[i] = s

\* No service occurs twice.
Once(q) == \A i, j \in 1 .. Len(q) : q[i] = q[j] => i = j

\* Each service of q has its dependencies before it.
DependenciesFirst(q) ==
  \A i \in 1 .. Len(q) : \A d \in deps[q[i]] : \E j \in 1 .. i - 1 : q[j] = d

\* Each occurrence of a dependency of s in q has one of s after it.
DependentLater(q, s) ==
  \A i \in 1 .. Len(q) : q[i] \in deps[s] => \E j \in i + 1 .. Len(q) : q[j] = s

\* While Kahn's algorithm runs: the order so far and the queue are disjoint, have no
\* repetitions and have their dependencies in the order; a service waits for exactly
\* those of its dependencies that are not in the order yet, and one that waits for
\* nothing is in the order or the queue.
OrderInv ==
  Phase = "order" =>
    /\ order \in Seq(registered) /\ queue \in Seq(registered)
    /\ Once(order) /\ Once(queue)
    /\ \A i \in 1 .. Len(order), j \in 1 .. Len(queue) : order[i] # queue[j]
    /\ DependenciesFirst(order)
    /\ \A i \in 1 .. Len(queue) : \A d \in deps[queue[i]] : Occurs(order, d)
    /\ \A s \in registered : pending[s] = {d \in deps[s] : ~Occurs(order, d)}
    /\ \A s \in registered : deps[s] \subseteq registered
    /\ \A s \in registered : pending[s] = {} => Occurs(order, s) \/ Occurs(queue, s)

\* While services are started: what is left to start has its dependencies started or
\* before it, and what depends on a service started has been started after it or is
\* still to be.
StartInv ==
  Phase = "start" =>
    /\ \A k \in 1 .. Len(todo) : \A d \in deps[todo[k]] :
         Occurs(startOrder, d) \/ \E j \in 1 .. k - 1 : todo[j] = d
    /\ \A s \in registered : Occurs(todo, s) \/ DependentLater(startOrder, s)
    /\ \A s \in registered : DependentLater(todo, s)

\* A service stands after its dependencies in startOrder, and so is stopped before them:
\* while Stop runs, a service that is up is still on the list, ahead of its dependencies.
StopInv ==
  /\ started => \A s \in registered : DependentLater(startOrder, s)
  /\ Phase = "stop" =>
       \A s \in up \ stuck :
         /\ Occurs(todo, s)
         /\ \A k \in 1 .. Len(todo) : todo[k] \in deps[s] => \E j \in 1 .. k - 1 : todo[j] = s

\* What is up, but for services whose Stop failed, is in startOrder; the flag is clear
\* until Start is done and set until Stop is; what a failed Start leaves is up.
UpInv ==
  /\ IsFiniteSet(registered) /\ up \subseteq registered
  /\ startOrder \in Seq(registered) /\ todo \in Seq(registered)
  /\ Phase \in {"order", "start"} => ~started
  /\ Phase = "stop" => started
  /\ Phase # "stop" => /\ \A s \in up \ stuck : Occurs(startOrder, s)
                       /\ \A i \in 1 .. Len(startOrder) : startOrder[i] \in up
  /\ ~started /\ Phase # "start" => \A i \in 1 .. Len(startOrder) : startOrder[i] \in leftover

\* Where a caller stands inside Start and inside Stop.
StartLabels == {"lockStart", "order", "start"}
StopLabels == {"lockStop", "stop"}

\* The callers at some labels.
Among(P) == {w \in Callers : pc[w] \in P}

One(b) == IF b THEN 1 ELSE 0

\* Only a Run gets into Start.
ClosersStop == \A w \in Closers : pc[w] \notin StartLabels \cup {"startFailed", "startDone"}

\* Unless overtaken, the flag and the callers inside Stop are as many as the manager and
\* the callers inside Start need to be stopped.
Enough ==
  Cardinality(Among(StartLabels)) + One(started) <= Cardinality(Among(StopLabels)) + One(running)

\* A manager that is started will be stopped by a caller inside Stop, or has a Run that
\* has yet to call Shutdown.
Attended ==
  started => Among(StopLabels) # {} \/ \E v \in Runners : pc[v] \in {"startDone", "shutdown"}

RunInv == ClosersStop /\ (~overtaken => Enough /\ Attended)

LifecycleInv == UpInv /\ OrderInv /\ StartInv /\ StopInv /\ StartsInOrder /\ DependenciesUp

ApplicationInv == TypeOK /\ LifecycleInv /\ RunInv /\ CyclesAreReal

----------------------------------------------------------------------------

\* A sequence of elements of a finite set without repetition leaves none out exactly when
\* it is as long as the set has elements.
LEMMA Complete ==
  ASSUME NEW S, IsFiniteSet(S), NEW q \in Seq(S), Once(q)
  PROVE  Len(q) = Cardinality(S) <=> \A s \in S : Occurs(q, s)
  <1>1. Len(q) \in Nat /\ q \in [1 .. Len(q) -> S]
    OBVIOUS
  <1>2. q \in Injection(1 .. Len(q), S)
    BY <1>1, Zenon DEF Once, Injection, IsInjective
  <1>3. IsFiniteSet(1 .. Len(q)) /\ Cardinality(1 .. Len(q)) = Len(q)
    BY <1>1, FS_Interval, SMTT(30)
  <1>4. Len(q) = Cardinality(S) <=> q \in Surjection(1 .. Len(q), S)
    BY <1>2, <1>3, FS_Injection, Zenon
  <1>5. q \in Surjection(1 .. Len(q), S) <=> \A s \in S : Occurs(q, s)
    BY <1>1, Zenon DEF Surjection, Occurs
  <1> QED  BY <1>4, <1>5, Zenon

\* An iteration over a finite set meets every element, and none twice.
LEMMA Iteration ==
  ASSUME NEW S, IsFiniteSet(S), NEW q \in AnyOrder(S)
  PROVE  q \in Seq(S) /\ Once(q) /\ \A s \in S : Occurs(q, s)
  <1>1. Cardinality(S) \in Nat
    BY FS_CardinalityType, Zenon
  <1>2. q \in [1 .. Cardinality(S) -> S]
    BY Zenon DEF AnyOrder, Bijection, Injection
  <1>3. q \in Seq(S) /\ Len(q) = Cardinality(S)
    BY <1>1, <1>2
  <1>4. Once(q)
    BY <1>2, <1>3, Zenon DEF Once, AnyOrder, Bijection, Injection, IsInjective
  <1>5. \A s \in S : Occurs(q, s)
    BY <1>3, Zenon DEF Occurs, AnyOrder, Bijection, Surjection
  <1> QED  BY <1>3, <1>4, <1>5, Zenon

\* What Append, Tail and Reverse do to the elements of a sequence.
LEMMA Elements ==
  ASSUME NEW S, NEW q \in Seq(S)
  PROVE  /\ \A x \in S : /\ Append(q, x) \in Seq(S) /\ Len(Append(q, x)) = Len(q) + 1
                         /\ Append(q, x)[Len(q) + 1] = x
                         /\ \A i \in 1 .. Len(q) : Append(q, x)[i] = q[i]
         /\ q # << >> => /\ Head(q) \in S /\ Tail(q) \in Seq(S) /\ Len(Tail(q)) = Len(q) - 1
                         /\ Head(q) = q[1] /\ 1 \in 1 .. Len(q)
                         /\ \A i \in 1 .. Len(q) - 1 : Tail(q)[i] = q[i + 1]
         /\ /\ Reverse(q) \in Seq(S) /\ Len(Reverse(q)) = Len(q)
            /\ \A i \in 1 .. Len(q) : Reverse(q)[i] = q[(Len(q) - i) + 1]
  <1>1. \A x \in S : /\ Append(q, x) \in Seq(S) /\ Len(Append(q, x)) = Len(q) + 1
                     /\ Append(q, x)[Len(q) + 1] = x
                     /\ \A i \in 1 .. Len(q) : Append(q, x)[i] = q[i]
    OBVIOUS
  <1>2. q # << >> => /\ Head(q) \in S /\ Tail(q) \in Seq(S) /\ Len(Tail(q)) = Len(q) - 1
                     /\ Head(q) = q[1] /\ 1 \in 1 .. Len(q)
                     /\ \A i \in 1 .. Len(q) - 1 : Tail(q)[i] = q[i + 1]
    OBVIOUS
  <1>3. Len(q) \in Nat /\ \A i \in 1 .. Len(q) : q[(Len(q) - i) + 1] \in S
    OBVIOUS
  <1>4. /\ Reverse(q) \in Seq(S) /\ Len(Reverse(q)) = Len(q)
        /\ \A i \in 1 .. Len(q) : Reverse(q)[i] = q[(Len(q) - i) + 1]
    BY <1>3 DEF Reverse
  <1> QED  BY <1>1, <1>2, <1>4, Zenon

\* Who holds the mutex, and in which phase that is.
LEMMA Holder ==
  ASSUME TypeOK
  PROVE  /\ \A w \in Callers : pc[w] \in {"order", "start", "stop"} => mutex = w /\ Phase = pc[w]
         /\ mutex = Nobody => Phase = "idle" /\ \A w \in Callers : pc[w] \notin {"order", "start", "stop"}
  BY CallersAssumption, Zenon DEF TypeOK, Phase

\* How the number of callers at some labels changes when w moves to l.
LEMMA Moves ==
  ASSUME TypeOK, NEW w \in Callers, NEW l \in PCs, At(w, l), NEW P
  PROVE  /\ Cardinality(Among(P)) \in Nat /\ Cardinality(Among(P)') \in Nat
         /\ (pc[w] \in P <=> l \in P) => Among(P)' = Among(P)
         /\ pc[w] \in P /\ l \notin P => Cardinality(Among(P)') = Cardinality(Among(P)) - 1
         /\ pc[w] \notin P /\ l \in P => Cardinality(Among(P)') = Cardinality(Among(P)) + 1
         /\ Among(P) = {} <=> Cardinality(Among(P)) = 0
         /\ Among(P)' = {} <=> Cardinality(Among(P)') = 0
  <1>0. pc \in [Callers -> PCs] /\ pc' = [pc EXCEPT ![w] = l]
    BY Zenon DEF TypeOK, At
  <1>1. IsFiniteSet(Among(P)) /\ IsFiniteSet(Among(P)')
    BY RunnersAssumption, FS_Subset, Zenon DEF Among
  <1>2. /\ Cardinality(Among(P)) \in Nat /\ Cardinality(Among(P)') \in Nat
        /\ Among(P) = {} <=> Cardinality(Among(P)) = 0
        /\ Among(P)' = {} <=> Cardinality(Among(P)') = 0
    BY <1>1, FS_CardinalityType, FS_EmptySet, Zenon
  <1>3. (pc[w] \in P <=> l \in P) => Among(P)' = Among(P)
    BY <1>0, Zenon DEF Among
  <1>4. ASSUME pc[w] \in P, l \notin P PROVE Cardinality(Among(P)') = Cardinality(Among(P)) - 1
    <2>1. w \in Among(P) /\ Among(P)' = Among(P) \ {w}
      BY <1>0, <1>4, Zenon DEF Among
    <2> QED  BY <2>1, <1>1, FS_RemoveElement, Zenon
  <1>5. ASSUME pc[w] \notin P, l \in P PROVE Cardinality(Among(P)') = Cardinality(Among(P)) + 1
    <2>1. w \notin Among(P) /\ Among(P)' = Among(P) \cup {w}
      BY <1>0, <1>5, Zenon DEF Among
    <2> QED  BY <2>1, <1>1, FS_AddElement, Zenon
  <1> QED  BY <1>2, <1>3, <1>4, <1>5, Zenon

\* The steps of Run and Shutdown outside the manager.
LEMMA FlagStep ==
  ASSUME ApplicationInv, NEW w \in Callers,
         \/ w \in Runners /\ (Run(w) \/ RunWakes(w))
         \/ w \in Closers /\ CallShutdown(w)
         \/ RunFails(w) \/ Shutdown(w) \/ ShutdownReturns(w)
  PROVE  RunInv'
  <1> USE RunnersAssumption
  <1>0. /\ TypeOK /\ ClosersStop /\ (~overtaken => Enough /\ Attended)
        /\ pc \in [Callers -> PCs] /\ running \in BOOLEAN /\ started \in BOOLEAN /\ overtaken \in BOOLEAN
    BY Zenon DEF ApplicationInv, RunInv, TypeOK
  <1>1. CASE w \in Runners /\ Run(w) /\ ~running
    <2>1. At(w, "lockStart") /\ "lockStart" \in PCs /\ pc[w] = "new" /\ running' = TRUE /\ UNCHANGED <<started, overtaken>>
      BY <1>1, Zenon DEF Run, OnlyMoves, PCs
    <2>2. /\ Cardinality(Among(StartLabels)') = Cardinality(Among(StartLabels)) + 1
          /\ Among(StopLabels)' = Among(StopLabels)
          /\ Cardinality(Among(StartLabels)) \in Nat /\ Cardinality(Among(StopLabels)) \in Nat
      BY <1>0, <2>1, Moves DEF StartLabels, StopLabels
    <2>3. \A v \in Callers : pc'[v] = pc[v] \/ (v = w /\ pc'[v] = "lockStart" /\ pc[v] = "new")
      BY <1>0, <2>1, Zenon DEF At
    <2>4. ClosersStop'
      BY <1>0, <1>1, <2>3, Zenon DEF ClosersStop, StartLabels
    <2>5. Enough => Enough'
      BY <1>1, <2>1, <2>2 DEF Enough, One
    <2>6. Attended => Attended'
      BY <2>1, <2>2, <2>3, Zenon DEF Attended
    <2> QED  BY <1>0, <2>1, <2>4, <2>5, <2>6, Zenon DEF RunInv
  <1>2. CASE RunFails(w)
    <2>1. /\ At(w, "done") /\ "done" \in PCs /\ pc[w] = "startFailed" /\ running' = FALSE /\ UNCHANGED started
          /\ overtaken' = (overtaken \/ OtherRun(w))
      BY <1>2, Zenon DEF RunFails, OnlyMoves, PCs
    <2>2. /\ Among(StartLabels)' = Among(StartLabels) /\ Among(StopLabels)' = Among(StopLabels)
          /\ Cardinality(Among(StopLabels)) \in Nat
          /\ Among(StartLabels) = {} <=> Cardinality(Among(StartLabels)) = 0
          /\ Among(StopLabels) = {} <=> Cardinality(Among(StopLabels)) = 0
      BY <1>0, <2>1, Moves DEF StartLabels, StopLabels
    <2>3. \A v \in Callers : pc'[v] = pc[v] \/ (v = w /\ pc'[v] = "done" /\ pc[v] = "startFailed")
      BY <1>0, <2>1, Zenon DEF At
    <2>4. ClosersStop'
      BY <1>0, <2>3, Zenon DEF ClosersStop, StartLabels
    <2>5. ASSUME ~overtaken' PROVE ~overtaken /\ ~OtherRun(w)
      BY <2>1, <2>5, Zenon
    <2>6. ASSUME ~overtaken' PROVE Among(StartLabels) = {} /\ (started => Among(StopLabels) # {})
      <3>1. \A v \in Runners \ {w} : pc[v] \notin {"lockStart", "order", "start", "startDone", "shutdown"}
        BY <2>5, <2>6, Zenon DEF OtherRun
      <3>2. Among(StartLabels) = {}
        BY <3>1, <1>0, <2>1, Zenon DEF Among, ClosersStop, StartLabels
      <3>3. started => Among(StopLabels) # {}
        BY <3>1, <1>0, <2>1, <2>5, <2>6, Zenon DEF Attended
      <3> QED  BY <3>2, <3>3, Zenon
    <2>7. ASSUME ~overtaken' PROVE Enough' /\ Attended'
      <3>1. Attended'
        BY <2>1, <2>2, <2>6, <2>7, Zenon DEF Attended
      <3>2. Cardinality(Among(StartLabels)) = 0 /\ (started => Cardinality(Among(StopLabels)) >= 1)
        BY <2>2, <2>6, <2>7
      <3>3. Enough'
        BY <2>1, <2>2, <3>2 DEF Enough, One
      <3> QED  BY <3>1, <3>3, Zenon
    <2> QED  BY <2>4, <2>7, Zenon DEF RunInv
  <1>3. CASE (Run(w) /\ running) \/ RunWakes(w) \/ CallShutdown(w) \/ ShutdownReturns(w)
    <2>1. \E l \in {"done", "shutdown"} :
            /\ At(w, l) /\ pc[w] \in {"new", "startDone", "stopDone"} /\ (pc[w] = "startDone" => l = "shutdown")
            /\ running' = running /\ UNCHANGED <<started, overtaken>>
      BY <1>0, <1>3, Zenon DEF Run, RunWakes, CallShutdown, ShutdownReturns, OnlyMoves
    <2>2. PICK l \in {"done", "shutdown"} :
            /\ At(w, l) /\ pc[w] \in {"new", "startDone", "stopDone"} /\ (pc[w] = "startDone" => l = "shutdown")
            /\ running' = running /\ UNCHANGED <<started, overtaken>>
      BY <2>1, Zenon
    <2>3. l \in PCs /\ \A v \in Callers : IF v = w THEN pc'[v] = l ELSE pc'[v] = pc[v]
      BY <1>0, <2>2, Zenon DEF At, PCs
    <2>4. Among(StartLabels)' = Among(StartLabels) /\ Among(StopLabels)' = Among(StopLabels)
      BY <1>0, <2>2, <2>3, Moves DEF StartLabels, StopLabels
    <2>5. ClosersStop'
      BY <1>0, <2>3, Zenon DEF ClosersStop, StartLabels
    <2>6. (Enough' <=> Enough) /\ (Attended => Attended')
      BY <2>2, <2>3, <2>4, Zenon DEF Enough, Attended, One
    <2> QED  BY <1>0, <2>2, <2>5, <2>6, Zenon DEF RunInv
  <1>4. CASE Shutdown(w) /\ running
    <2>1. /\ At(w, "lockStop") /\ "lockStop" \in PCs /\ pc[w] = "shutdown" /\ running' = FALSE
          /\ UNCHANGED <<started, overtaken>>
      BY <1>4, Zenon DEF Shutdown, OnlyMoves, PCs
    <2>2. /\ Among(StartLabels)' = Among(StartLabels)
          /\ Cardinality(Among(StopLabels)') = Cardinality(Among(StopLabels)) + 1
          /\ Cardinality(Among(StartLabels)) \in Nat /\ Cardinality(Among(StopLabels)) \in Nat
          /\ Among(StopLabels)' # {}
      <3>1. /\ Among(StartLabels)' = Among(StartLabels)
            /\ Cardinality(Among(StopLabels)') = Cardinality(Among(StopLabels)) + 1
            /\ Cardinality(Among(StartLabels)) \in Nat /\ Cardinality(Among(StopLabels)) \in Nat
        BY <1>0, <2>1, Moves DEF StartLabels, StopLabels
      <3>2. w \in Among(StopLabels)'
        BY <1>0, <2>1, Zenon DEF Among, At, StopLabels
      <3> QED  BY <3>1, <3>2, Zenon
    <2>3. \A v \in Callers : pc'[v] = pc[v] \/ pc'[v] = "lockStop"
      BY <1>0, <2>1, Zenon DEF At
    <2>4. ClosersStop'
      BY <1>0, <2>3, Zenon DEF ClosersStop, StartLabels
    <2>5. Enough => Enough'
      BY <1>4, <2>1, <2>2 DEF Enough, One
    <2>6. Attended'
      BY <2>2, Zenon DEF Attended
    <2> QED  BY <1>0, <2>1, <2>4, <2>5, <2>6, Zenon DEF RunInv
  <1>5. CASE Shutdown(w) /\ ~running
    <2>1. /\ At(w, "done") /\ "done" \in PCs /\ pc[w] = "shutdown" /\ running' = FALSE
          /\ UNCHANGED <<started, overtaken>>
      BY <1>5, Zenon DEF Shutdown, OnlyMoves, PCs
    <2>2. /\ Among(StartLabels)' = Among(StartLabels) /\ Among(StopLabels)' = Among(StopLabels)
          /\ Cardinality(Among(StartLabels)) \in Nat
          /\ Among(StopLabels) = {} <=> Cardinality(Among(StopLabels)) = 0
      BY <1>0, <2>1, Moves DEF StartLabels, StopLabels
    <2>3. \A v \in Callers : pc'[v] = pc[v] \/ pc'[v] = "done"
      BY <1>0, <2>1, Zenon DEF At
    <2>4. ClosersStop'
      BY <1>0, <2>3, Zenon DEF ClosersStop, StartLabels
    <2>5. Enough' <=> Enough
      BY <1>5, <2>1, <2>2, Zenon DEF Enough, One
    <2>6. Enough => Attended'
      <3>1. Enough /\ started => Cardinality(Among(StopLabels)) # 0
        BY <1>5, <2>2 DEF Enough, One
      <3> QED  BY <2>1, <2>2, <3>1, Zenon DEF Attended
    <2> QED  BY <1>0, <2>1, <2>4, <2>5, <2>6, Zenon DEF RunInv
  <1> QED  BY <1>1, <1>2, <1>3, <1>4, <1>5, Zenon

\* The manager's steps.
LEMMA ManageRun == ASSUME ApplicationInv, NEW w \in Callers, Manage(w) PROVE RunInv'
  <1> USE RunnersAssumption
  <1>0. /\ TypeOK /\ ClosersStop /\ (~overtaken => Enough /\ Attended)
        /\ pc \in [Callers -> PCs] /\ running \in BOOLEAN /\ started \in BOOLEAN /\ overtaken \in BOOLEAN
        /\ running' = running
        /\ overtaken' = (overtaken \/ (pc[w] = "lockStop" /\ ~started /\ \E v \in Runners : pc[v] = "lockStart"))
    BY Zenon DEF ApplicationInv, RunInv, TypeOK, Manage
  <1>1. ASSUME At(w, "startFailed"), pc[w] \in StartLabels, UNCHANGED started
        PROVE  RunInv'
    <2>1. "startFailed" \in PCs /\ overtaken' = overtaken
      BY <1>0, <1>1, Zenon DEF PCs, StartLabels
    <2>2. /\ Cardinality(Among(StartLabels)') = Cardinality(Among(StartLabels)) - 1
          /\ Among(StopLabels)' = Among(StopLabels)
          /\ Cardinality(Among(StartLabels)) \in Nat /\ Cardinality(Among(StopLabels)) \in Nat
      BY <1>0, <1>1, <2>1, Moves DEF StartLabels, StopLabels
    <2>3. w \notin Closers /\ \A v \in Callers \ {w} : pc'[v] = pc[v]
      BY <1>0, <1>1, Zenon DEF ClosersStop, At
    <2>4. ClosersStop'
      BY <1>0, <2>3, Zenon DEF ClosersStop
    <2>5. Enough => Enough'
      BY <1>0, <1>1, <2>2 DEF Enough, One
    <2>6. Attended => Attended'
      BY <1>0, <1>1, <2>2, <2>3, Zenon DEF Attended, StartLabels
    <2> QED  BY <1>0, <2>1, <2>4, <2>5, <2>6, Zenon DEF RunInv
  <1>2. ASSUME UNCHANGED started, overtaken' = overtaken,
               \/ UNCHANGED pc
               \/ pc[w] = "lockStart" /\ At(w, "order")
               \/ pc[w] = "order" /\ At(w, "start")
               \/ pc[w] = "lockStop" /\ At(w, "stop")
        PROVE  RunInv'
    <2>1. Among(StartLabels)' = Among(StartLabels) /\ Among(StopLabels)' = Among(StopLabels)
      <3>1. CASE UNCHANGED pc
        BY <3>1, Zenon DEF Among
      <3>2. CASE pc[w] = "lockStart" /\ At(w, "order")
        BY <1>0, <3>2, Moves, "order" \in PCs DEF StartLabels, StopLabels, PCs
      <3>3. CASE pc[w] = "order" /\ At(w, "start")
        BY <1>0, <3>3, Moves, "start" \in PCs DEF StartLabels, StopLabels, PCs
      <3>4. CASE pc[w] = "lockStop" /\ At(w, "stop")
        BY <1>0, <3>4, Moves, "stop" \in PCs DEF StartLabels, StopLabels, PCs
      <3> QED  BY <1>2, <3>1, <3>2, <3>3, <3>4, Zenon
    <2>2. /\ \A v \in Callers \ {w} : pc'[v] = pc[v]
          /\ pc'[w] = pc[w] \/ pc[w] \in StartLabels \/ (pc[w] = "lockStop" /\ pc'[w] = "stop")
      BY <1>0, <1>2, Zenon DEF At, StartLabels
    <2>3. ClosersStop'
      BY <1>0, <2>2, Zenon DEF ClosersStop, StartLabels
    <2>4. (Enough' <=> Enough) /\ (Attended => Attended')
      BY <1>0, <1>2, <2>1, <2>2, Zenon DEF Enough, Attended, One, StartLabels
    <2> QED  BY <1>0, <1>2, <2>3, <2>4, Zenon DEF RunInv
  <1>3. ASSUME StartEnd(w)
        PROVE  RunInv'
    <2>1. /\ At(w, "startDone") /\ "startDone" \in PCs /\ pc[w] = "start" /\ ~started /\ started' = TRUE
          /\ overtaken' = overtaken
      BY <1>0, <1>3, Holder, Zenon DEF StartEnd, PCs, ApplicationInv, LifecycleInv, UpInv
    <2>2. /\ Cardinality(Among(StartLabels)') = Cardinality(Among(StartLabels)) - 1
          /\ Among(StopLabels)' = Among(StopLabels)
          /\ Cardinality(Among(StartLabels)) \in Nat /\ Cardinality(Among(StopLabels)) \in Nat
      BY <1>0, <2>1, Moves DEF StartLabels, StopLabels
    <2>3. w \in Runners /\ pc'[w] = "startDone" /\ \A v \in Callers \ {w} : pc'[v] = pc[v]
      BY <1>0, <2>1, Zenon DEF ClosersStop, At, StartLabels
    <2>4. ClosersStop'
      BY <1>0, <2>3, Zenon DEF ClosersStop
    <2>5. Enough => Enough'
      BY <1>0, <2>1, <2>2 DEF Enough, One
    <2>6. Attended'
      BY <2>3, Zenon DEF Attended
    <2> QED  BY <1>0, <2>1, <2>4, <2>5, <2>6, Zenon DEF RunInv
  <1>4. ASSUME At(w, "stopDone"), started' = FALSE, pc[w] \in StopLabels,
               pc[w] = "lockStop" => mutex = Nobody /\ ~started,
               pc[w] = "stop" => started
        PROVE  RunInv'
    <2>1. "stopDone" \in PCs
      BY Zenon DEF PCs
    <2>2. /\ Among(StartLabels)' = Among(StartLabels)
          /\ Cardinality(Among(StopLabels)') = Cardinality(Among(StopLabels)) - 1
          /\ Cardinality(Among(StartLabels)) \in Nat /\ Cardinality(Among(StopLabels)) \in Nat
          /\ Cardinality(Among(StopLabels)') \in Nat
          /\ Among(StartLabels) = {} <=> Cardinality(Among(StartLabels)) = 0
      BY <1>0, <1>4, <2>1, Moves DEF StartLabels, StopLabels
    <2>3. \A v \in Callers : pc'[v] = pc[v] \/ pc'[v] = "stopDone"
      BY <1>0, <1>4, Zenon DEF At
    <2>4. ClosersStop'
      BY <1>0, <2>3, Zenon DEF ClosersStop, StartLabels
    <2>5. Attended'
      BY <1>4, Zenon DEF Attended
    <2>6. ASSUME ~overtaken' PROVE Enough'
      <3>1. CASE pc[w] = "stop"
        BY <1>0, <1>4, <2>2, <2>6, <3>1 DEF Enough, One
      <3>2. CASE pc[w] = "lockStop"
        <4>1. \A v \in Runners : pc[v] # "lockStart"
          BY <1>0, <1>4, <2>6, <3>2, Zenon
        <4>2. \A v \in Callers : pc[v] \notin StartLabels
          BY <1>0, <1>4, <3>2, <4>1, Holder, Zenon DEF StartLabels, ClosersStop
        <4>3. Cardinality(Among(StartLabels)) = 0
          BY <2>2, <4>2, Zenon DEF Among
        <4> QED  BY <1>0, <1>4, <2>2, <4>3 DEF Enough, One
      <3> QED  BY <1>4, <3>1, <3>2, Zenon DEF StopLabels
    <2> QED  BY <2>4, <2>5, <2>6, Zenon DEF RunInv
  <1>5. ASSUME pc[w] # "lockStop" PROVE overtaken' = overtaken
    BY <1>0, <1>5, Zenon
  <1>6. CASE StartLock(w)
    BY <1>1, <1>2, <1>5, <1>6, Zenon DEF StartLock, StartFails, StartLabels
  <1>7. CASE OrderStep(w) \/ StartService(w) \/ StopService(w)
    BY <1>2, <1>5, <1>7, Zenon DEF OrderStep, StartService, StopService
  <1>8. CASE OrderEnd(w)
    BY <1>1, <1>2, <1>5, <1>8, Zenon DEF OrderEnd, StartFails, StartLabels
  <1>9. CASE StartServiceFails(w)
    BY <1>1, <1>9, Zenon DEF StartServiceFails, StartFails, StartLabels
  <1>10. CASE StopLock(w)
    <2>1. CASE started
      BY <1>0, <1>2, <1>10, <2>1, Zenon DEF StopLock
    <2>2. CASE ~started
      BY <1>0, <1>4, <1>10, <2>2, Zenon DEF StopLock, StopLabels
    <2> QED  BY <2>1, <2>2, Zenon
  <1>11. CASE StopEnd(w)
    <2>1. started
      BY <1>0, <1>11, Holder, Zenon DEF StopEnd, ApplicationInv, LifecycleInv, UpInv
    <2> QED  BY <1>4, <1>11, <2>1, Zenon DEF StopEnd, StopLabels
  <1> QED  BY <1>3, <1>6, <1>7, <1>8, <1>9, <1>10, <1>11, Zenon DEF Manage, LifecycleStep

----------------------------------------------------------------------------

Held == {"order", "start", "stop"}

\* A new application has registered its core services and started nothing.
LEMMA InitApplication == Init => ApplicationInv
  <1> SUFFICES ASSUME Init PROVE ApplicationInv
    BY Zenon
  <1> USE CoreAssumption, CallersAssumption, RunnersAssumption
  <1>1. /\ startOrder = << >> /\ todo = << >> /\ up = {} /\ mutex = Nobody /\ ~started /\ ~overtaken /\ ~running
        /\ \A w \in Callers : pc[w] = "new"
        /\ registered = {ActorSystemService, NetworkServerService}
    BY Zenon DEF Init, NewLifecycleManager, registerCoreServices
  <1>2. TypeOK
    <2>1. pc \in [Callers -> PCs] /\ \A w \in Callers : mutex = w <=> pc[w] \in {"order", "start", "stop"}
      BY <1>1, Zenon DEF Init, NewLifecycleManager, PCs
    <2>2. deps \in [Services -> SUBSET Services] /\ pending \in [Services -> SUBSET Services]
      BY Zenon DEF Init, NewLifecycleManager, registerCoreServices
    <2>3. started \in BOOLEAN /\ circular \in BOOLEAN /\ running \in BOOLEAN /\ overtaken \in BOOLEAN
      BY Zenon DEF Init, NewLifecycleManager
    <2>4. /\ stuck = {} /\ leftover = {} /\ order = << >> /\ queue = << >>
      BY Zenon DEF Init, NewLifecycleManager
    <2> QED  BY <1>1, <2>1, <2>2, <2>3, <2>4 DEF TypeOK
  <1>3. Phase = "idle"
    BY <1>1, Zenon DEF Phase
  <1>4. UpInv
    <2>1. registered = {ActorSystemService} \cup {NetworkServerService}
      BY <1>1, Zenon
    <2>2. IsFiniteSet(registered)
      BY <2>1, FS_Singleton, FS_AddElement, Zenon
    <2> QED  BY <1>1, <1>3, <2>2 DEF UpInv
  <1>5. OrderInv /\ StartInv /\ StopInv /\ StartsInOrder /\ DependenciesUp
    BY <1>1, <1>3 DEF OrderInv, StartInv, StopInv, StartsInOrder, DependenciesUp
  <1>6. RunInv
    <2>1. Among(StartLabels) = {} /\ Among(StopLabels) = {} /\ ClosersStop
      BY <1>1, Zenon DEF Among, StartLabels, StopLabels, ClosersStop
    <2> QED  BY <1>1, <2>1, FS_EmptySet DEF RunInv, Enough, Attended, One
  <1>7. CyclesAreReal
    BY Zenon DEF Init, NewLifecycleManager, CyclesAreReal
  <1> QED  BY <1>2, <1>4, <1>5, <1>6, <1>7, Zenon DEF ApplicationInv, LifecycleInv

\* What a move of w means for the mutex and the phase.
LEMMA Relocate ==
  ASSUME TypeOK, NEW w \in Callers, NEW l \in PCs, At(w, l),
         \/ mutex' = mutex /\ (pc[w] \in Held <=> l \in Held)
         \/ mutex = Nobody /\ mutex' = w /\ l \in Held
         \/ pc[w] \in Held /\ mutex' = Nobody /\ l \notin Held
  PROVE  /\ pc' \in [Callers -> PCs] /\ mutex' \in Callers \cup {Nobody}
         /\ \A v \in Callers : mutex' = v <=> pc'[v] \in Held
         /\ l \in Held => Phase' = l
         /\ l \notin Held /\ pc[w] \notin Held => Phase' = Phase
         /\ mutex' = Nobody => Phase' = "idle"
  <1> USE CallersAssumption DEF Held
  <1>1. /\ pc \in [Callers -> PCs] /\ pc' = [pc EXCEPT ![w] = l] /\ mutex \in Callers \cup {Nobody}
        /\ \A v \in Callers : mutex = v <=> pc[v] \in Held
    BY Zenon DEF TypeOK, At
  <1>2. pc' \in [Callers -> PCs] /\ mutex' \in Callers \cup {Nobody}
    BY <1>1, Zenon
  <1>3. \A v \in Callers : mutex' = v <=> pc'[v] \in Held
    BY <1>1
  <1>4. l \in Held => Phase' = l
    BY <1>1, <1>3, Zenon DEF Phase
  <1>5. l \notin Held /\ pc[w] \notin Held => Phase' = Phase
    BY <1>1, <1>3, Zenon DEF Phase
  <1>6. mutex' = Nobody => Phase' = "idle"
    BY Zenon DEF Phase
  <1> QED  BY <1>2, <1>3, <1>4, <1>5, <1>6, Zenon

\* A step that neither starts nor stops a service.
LEMMA SameServices ==
  ASSUME LifecycleInv, UNCHANGED <<deps, startOrder, up, stuck>>
  PROVE  StartsInOrder' /\ DependenciesUp'
  <1>1. StartsInOrder'
    BY DEF LifecycleInv, StartsInOrder
  <1>2. DependenciesUp'
    BY Zenon DEF LifecycleInv, DependenciesUp
  <1> QED  BY <1>1, <1>2, Zenon

\* A step that leaves the services and the phase alone, or gives up sorting.
LEMMA Unmoved ==
  ASSUME LifecycleInv, UNCHANGED <<table, startOrder, started, todo, outside>>,
         (Phase' = Phase /\ UNCHANGED sorting) \/ (Phase = "order" /\ Phase' = "idle")
  PROVE  LifecycleInv'
  <1> USE DEF table, outside, sorting
  <1>1. UpInv'
    BY Zenon DEF LifecycleInv, UpInv, Occurs
  <1>2. OrderInv'
    <2>1. CASE Phase' = Phase /\ UNCHANGED sorting
      <3>1. /\ DependenciesFirst(order)' <=> DependenciesFirst(order)
            /\ Once(order)' <=> Once(order) /\ (Once(queue)' <=> Once(queue))
        BY <2>1 DEF DependenciesFirst, Once
      <3> QED  BY <2>1, <3>1 DEF LifecycleInv, OrderInv
    <2> QED  BY <2>1, Zenon DEF OrderInv
  <1>3. StartInv' /\ StopInv'
    <2>1. \A s : /\ DependentLater(todo, s)' <=> DependentLater(todo, s)
                 /\ DependentLater(startOrder, s)' <=> DependentLater(startOrder, s)
      BY Zenon DEF DependentLater
    <2>2. StartInv'
      BY <2>1 DEF LifecycleInv, StartInv
    <2>3. StopInv'
      BY <2>1, Zenon DEF LifecycleInv, StopInv
    <2> QED  BY <2>2, <2>3, Zenon
  <1>4. StartsInOrder' /\ DependenciesUp'
    BY SameServices, Zenon
  <1> QED  BY <1>1, <1>2, <1>3, <1>4, Zenon DEF LifecycleInv

\* Run and Shutdown outside the manager change none of its fields.
LEMMA OutsideStep ==
  ASSUME ApplicationInv, NEW w \in Callers, NEW l \in PCs, OnlyMoves(w, l),
         pc[w] \notin Held, l \notin Held, running' \in BOOLEAN, overtaken' \in BOOLEAN
  PROVE  TypeOK' /\ LifecycleInv'
  <1>1. /\ At(w, l) /\ UNCHANGED <<table, startOrder, started, mutex, sorting, todo, outside, circular>>
        /\ TypeOK /\ LifecycleInv
    BY Zenon DEF OnlyMoves, ApplicationInv
  <1>2. /\ pc' \in [Callers -> PCs] /\ mutex' \in Callers \cup {Nobody} /\ Phase' = Phase
        /\ \A v \in Callers : mutex' = v <=> pc'[v] \in Held
    BY <1>1, Relocate, Zenon
  <1>3. TypeOK'
    BY <1>1, <1>2, Zenon DEF TypeOK, Held, table, sorting, outside
  <1> QED  BY <1>1, <1>2, <1>3, Unmoved, Zenon

\* Start finds that it must not start, or begins to sort.
LEMMA StartLockStep ==
  ASSUME ApplicationInv, NEW w \in Callers, StartLock(w), running' = running, overtaken' \in BOOLEAN
  PROVE  TypeOK' /\ LifecycleInv'
  <1>0. /\ TypeOK /\ LifecycleInv /\ UpInv /\ pc[w] = "lockStart" /\ mutex = Nobody /\ Phase = "idle"
        /\ UNCHANGED <<table, startOrder, started, todo, outside, circular>>
    BY Holder, Zenon DEF ApplicationInv, LifecycleInv, StartLock
  <1>1. CASE StartFails(w) /\ UNCHANGED sorting
    <2>1. At(w, "startFailed") /\ mutex' = mutex /\ "startFailed" \in PCs /\ "startFailed" \notin Held
      BY <1>0, <1>1, Zenon DEF StartFails, PCs, Held
    <2>2. /\ pc' \in [Callers -> PCs] /\ mutex' \in Callers \cup {Nobody} /\ Phase' = Phase
          /\ \A v \in Callers : mutex' = v <=> pc'[v] \in Held
      BY <1>0, <2>1, "lockStart" \notin Held, Relocate, Zenon DEF Held
    <2>3. TypeOK'
      BY <1>0, <1>1, <2>2, Zenon DEF TypeOK, Held, table, sorting, outside
    <2> QED  BY <1>0, <1>1, <2>2, <2>3, Unmoved, Zenon
  <1>2. CASE ~started /\ OrderBegin /\ mutex' = w /\ At(w, "order")
    <2>1. /\ pc' \in [Callers -> PCs] /\ mutex' \in Callers \cup {Nobody} /\ Phase' = "order"
          /\ \A v \in Callers : mutex' = v <=> pc'[v] \in Held
      BY <1>0, <1>2, "order" \in Held, "order" \in PCs, Relocate, Zenon DEF Held, PCs
    <2> DEFINE N == {s \in registered : deps[s] = {}}
    <2>2. queue' \in Seq(N) /\ Once(queue') /\ \A s \in N : Occurs(queue', s)
      <3>1. IsFiniteSet(N)
        BY <1>0, FS_Subset, Zenon DEF UpInv
      <3> QED  BY <1>2, <3>1, Iteration, Zenon DEF OrderBegin
    <2>3. /\ queue' \in Seq(registered) /\ \A i \in 1 .. Len(queue') : deps[queue'[i]] = {}
      BY <2>2
    <2>4. TypeOK'
      <3>1. registered \subseteq Services /\ deps \in [Services -> SUBSET Services]
        BY <1>0, Zenon DEF TypeOK
      <3>2. queue' \in Seq(Services) /\ pending' \in [Services -> SUBSET Services] /\ order' \in Seq(Services)
        BY <1>2, <2>3, <3>1 DEF OrderBegin
      <3> QED  BY <1>0, <2>1, <3>2, Zenon DEF TypeOK, Held, table, outside
    <2>5. UpInv'
      BY <1>0, <1>2, <2>1, Zenon DEF UpInv, table, outside
    <2>6. OrderInv'
      <3>1. order' = << >> /\ pending' = deps /\ UNCHANGED <<registered, deps>>
        BY <1>0, <1>2, Zenon DEF OrderBegin, table
      <3>2. Once(order') /\ DependenciesFirst(order)' /\ \A d : ~Occurs(order', d)
        BY <3>1 DEF Once, DependenciesFirst, Occurs
      <3>3. order' \in Seq(registered)
        BY <3>1
      <3>4. \A s \in registered : pending'[s] = {d \in deps[s] : ~Occurs(order', d)}
        BY <3>1, <3>2, Zenon
      <3>5. /\ \A s \in registered : deps[s] \subseteq registered
            /\ \A s \in registered : pending'[s] = {} => Occurs(queue', s)
        BY <1>2, <2>2, <3>1, Zenon DEF OrderBegin
      <3> QED  BY <2>3, <2>2, <3>1, <3>2, <3>3, <3>4, <3>5 DEF OrderInv, Once
    <2>7. StartInv' /\ StopInv'
      BY <1>0, <1>2, <2>1, Zenon DEF StartInv, StopInv
    <2>8. StartsInOrder' /\ DependenciesUp'
      BY <1>0, SameServices, Zenon DEF table, outside
    <2> QED  BY <2>4, <2>5, <2>6, <2>7, <2>8, Zenon DEF LifecycleInv
  <1> QED  BY <1>1, <1>2, Zenon DEF StartLock

\* The elements of two sequences one after the other.
LEMMA Joined ==
  ASSUME NEW S, NEW a \in Seq(S), NEW b \in Seq(S)
  PROVE  /\ a \o b \in Seq(S) /\ Len(a \o b) = Len(a) + Len(b) /\ Len(a) \in Nat /\ Len(b) \in Nat
         /\ \A i \in 1 .. Len(a) : (a \o b)[i] = a[i]
         /\ \A i \in Len(a) + 1 .. Len(a) + Len(b) : /\ (a \o b)[i] = b[i - Len(a)]
                                                    /\ i - Len(a) \in 1 .. Len(b)
  OBVIOUS

\* What is queued behind the rest of the queue keeps it without repetition, when it has
\* none itself and nothing of the rest.
LEMMA StillOnce ==
  ASSUME NEW S, NEW a \in Seq(S), NEW b \in Seq(S), a # << >>, Once(a), Once(b),
         \A i \in 1 .. Len(a), j \in 1 .. Len(b) : a[i] # b[j]
  PROVE  Once(Tail(a) \o b)
  <1> DEFINE t == Tail(a)
  <1>1. t \in Seq(S) /\ Len(t) = Len(a) - 1 /\ \A i \in 1 .. Len(t) : t[i] = a[i + 1] /\ i + 1 \in 1 .. Len(a)
    OBVIOUS
  <1>2. /\ \A i, j \in 1 .. Len(t) : t[i] = t[j] => i = j
        /\ \A i \in 1 .. Len(t), j \in 1 .. Len(b) : t[i] # b[j]
    <2> HIDE DEF t
    <2>1. ASSUME NEW i \in 1 .. Len(t), NEW j \in 1 .. Len(t), t[i] = t[j] PROVE i = j
      <3>1. i + 1 = j + 1
        BY <1>1, <2>1 DEF Once
      <3> QED  BY <3>1
    <2>2. ASSUME NEW i \in 1 .. Len(t), NEW j \in 1 .. Len(b) PROVE t[i] # b[j]
      BY <1>1, Zenon
    <2> QED  BY <2>1, <2>2, Zenon
  <1> HIDE DEF t
  <1>3. SUFFICES ASSUME NEW i \in 1 .. Len(t \o b), NEW j \in 1 .. Len(t \o b), (t \o b)[i] = (t \o b)[j]
                 PROVE  i = j
    BY Zenon DEF Once, t
  <1>9. t \in Seq(S) /\ b \in Seq(S)
    BY <1>1, Zenon
  <1>4. /\ Len(t \o b) = Len(t) + Len(b) /\ Len(t) \in Nat /\ Len(b) \in Nat
        /\ \A k \in 1 .. Len(t) : (t \o b)[k] = t[k]
        /\ \A k \in Len(t) + 1 .. Len(t) + Len(b) : (t \o b)[k] = b[k - Len(t)] /\ k - Len(t) \in 1 .. Len(b)
    BY <1>9
  <1>5. CASE i \in 1 .. Len(t) /\ j \in 1 .. Len(t)
    BY <1>2, <1>3, <1>4, <1>5, Zenon
  <1>6. CASE i \in Len(t) + 1 .. Len(t) + Len(b) /\ j \in Len(t) + 1 .. Len(t) + Len(b)
    <2>1. b[i - Len(t)] = b[j - Len(t)] /\ i - Len(t) \in 1 .. Len(b) /\ j - Len(t) \in 1 .. Len(b)
      BY <1>3, <1>4, <1>6, Zenon
    <2>2. i - Len(t) = j - Len(t)
      BY <2>1, Zenon DEF Once
    <2> QED  BY <1>4, <1>6, <2>2
  <1>7. CASE i \in 1 .. Len(t) /\ j \in Len(t) + 1 .. Len(t) + Len(b)
    BY <1>2, <1>3, <1>4, <1>7
  <1>8. CASE j \in 1 .. Len(t) /\ i \in Len(t) + 1 .. Len(t) + Len(b)
    BY <1>2, <1>3, <1>4, <1>8
  <1> QED  BY <1>4, <1>5, <1>6, <1>7, <1>8

\* A turn of the sort moves a service to the result and queues those that waited for it
\* alone; none of them is in the result or in the queue, since those wait for nothing.
LEMMA OrderStepStep ==
  ASSUME ApplicationInv, NEW w \in Callers, OrderStep(w), running' = running, overtaken' \in BOOLEAN
  PROVE  TypeOK' /\ LifecycleInv'
  <1>0. /\ TypeOK /\ LifecycleInv /\ UpInv /\ OrderInv /\ Phase = "order" /\ Phase' = "order" /\ queue # << >>
        /\ UNCHANGED <<registered, deps, startOrder, started, mutex, pc, todo, up, stuck, leftover, circular>>
        /\ order' = Append(order, Head(queue))
        /\ pending' = [s \in Services |-> pending[s] \ {Head(queue)}]
    BY Holder, Zenon DEF ApplicationInv, LifecycleInv, OrderStep, table, outside, Phase
  <1>1. /\ order \in Seq(registered) /\ queue \in Seq(registered) /\ Once(order) /\ Once(queue)
        /\ \A i \in 1 .. Len(order), j \in 1 .. Len(queue) : order[i] # queue[j]
        /\ DependenciesFirst(order)
        /\ \A i \in 1 .. Len(queue) : \A d \in deps[queue[i]] : Occurs(order, d)
        /\ \A s \in registered : pending[s] = {d \in deps[s] : ~Occurs(order, d)}
        /\ \A s \in registered : deps[s] \subseteq registered
        /\ \A s \in registered : pending[s] = {} => Occurs(order, s) \/ Occurs(queue, s)
    BY <1>0, Zenon DEF OrderInv
  <1> DEFINE h == Head(queue)
             N == {s \in registered : pending[s] = {h}}
  <1>2. PICK q \in AnyOrder(N) : queue' = Tail(queue) \o q
    BY Zenon DEF OrderStep
  <1>3. q \in Seq(N) /\ Once(q) /\ \A s \in N : Occurs(q, s)
    <2>1. IsFiniteSet(N)
      BY <1>0, FS_Subset, Zenon DEF UpInv
    <2> QED  BY <1>2, <2>1, Iteration, Zenon
  <1>4. /\ h \in registered /\ h = queue[1] /\ 1 \in 1 .. Len(queue)
        /\ Tail(queue) \in Seq(registered) /\ Len(Tail(queue)) = Len(queue) - 1
        /\ \A i \in 1 .. Len(queue) - 1 : Tail(queue)[i] = queue[i + 1]
    BY <1>0, <1>1, Elements
  <1>5. /\ order' \in Seq(registered) /\ Len(order') = Len(order) + 1 /\ order'[Len(order) + 1] = h
        /\ Len(order) \in Nat /\ \A i \in 1 .. Len(order) : order'[i] = order[i]
    BY <1>0, <1>1, <1>4, Elements
  <1>6. \A d : Occurs(order', d) <=> Occurs(order, d) \/ d = h
    BY <1>5 DEF Occurs
  <1>7. q \in Seq(registered) /\ \A i \in 1 .. Len(q) : q[i] \in registered /\ pending[q[i]] = {h}
    BY <1>3
  <1>8. \A s \in registered : pending[s] = {h} =>
          /\ h \in deps[s] /\ ~Occurs(order, h)
          /\ \A d \in deps[s] : Occurs(order, d) \/ d = h
    BY <1>1, Zenon
  <1>9. \A i \in 1 .. Len(q) : ~Occurs(order, q[i]) /\ \A j \in 1 .. Len(queue) : queue[j] # q[i]
    <2> SUFFICES ASSUME NEW i \in 1 .. Len(q)
                 PROVE  ~Occurs(order, q[i]) /\ \A j \in 1 .. Len(queue) : queue[j] # q[i]
      BY Zenon
    <2>1. h \in deps[q[i]] /\ ~Occurs(order, h)
      BY <1>7, <1>8, Zenon
    <2>2. ASSUME NEW j \in 1 .. Len(order), order[j] = q[i] PROVE FALSE
      <3>1. PICK k \in 1 .. j - 1 : order[k] = h
        BY <1>1, <2>1, <2>2, Zenon DEF DependenciesFirst
      <3>2. k \in 1 .. Len(order)
        BY <1>5
      <3> QED  BY <2>1, <3>1, <3>2, Zenon DEF Occurs
    <2>3. ASSUME NEW j \in 1 .. Len(queue), queue[j] = q[i] PROVE FALSE
      BY <1>1, <2>1, <2>3, Zenon
    <2> QED  BY <2>2, <2>3, Zenon DEF Occurs
  <1>10. queue' \in Seq(registered) /\ Once(queue')
    <2>1. Once(Tail(queue) \o q)
      BY <1>0, <1>1, <1>3, <1>7, <1>9, StillOnce, Zenon
    <2> QED  BY <1>2, <1>4, <1>7, <2>1, Joined, Zenon
  <1> HIDE DEF h, N
  <1>11. \A i \in 1 .. Len(queue') : \/ \E j \in 1 .. Len(queue) : j > 1 /\ queue'[i] = queue[j]
                                     \/ \E j \in 1 .. Len(q) : queue'[i] = q[j]
    <2> DEFINE t == Tail(queue)
    <2>1. /\ Len(t \o q) = Len(t) + Len(q) /\ Len(t) \in Nat /\ Len(q) \in Nat
          /\ \A i \in 1 .. Len(t) : (t \o q)[i] = t[i]
          /\ \A i \in Len(t) + 1 .. Len(t) + Len(q) : (t \o q)[i] = q[i - Len(t)] /\ i - Len(t) \in 1 .. Len(q)
      BY <1>4, <1>7, Joined
    <2>2. \A i \in 1 .. Len(t) : t[i] = queue[i + 1] /\ i + 1 \in 1 .. Len(queue) /\ i + 1 > 1
      BY <1>4
    <2> HIDE DEF t
    <2>3. queue' = t \o q
      BY <1>2, Zenon DEF t
    <2> SUFFICES ASSUME NEW i \in 1 .. Len(queue')
                 PROVE  \/ \E j \in 1 .. Len(queue) : j > 1 /\ queue'[i] = queue[j]
                        \/ \E j \in 1 .. Len(q) : queue'[i] = q[j]
      BY Zenon
    <2>4. CASE i \in 1 .. Len(t)
      BY <2>1, <2>2, <2>3, <2>4, Zenon
    <2>5. CASE i \in Len(t) + 1 .. Len(t) + Len(q)
      BY <2>1, <2>3, <2>5, Zenon
    <2> QED  BY <2>1, <2>3, <2>4, <2>5
  <1>12. Once(order') /\ \A i \in 1 .. Len(order'), j \in 1 .. Len(queue') : order'[i] # queue'[j]
    <2>1. \A i \in 1 .. Len(order) : order[i] # h
      BY <1>1, <1>4, Zenon
    <2>2. Once(order')
      BY <1>1, <1>5, <2>1 DEF Once
    <2>3. \A j \in 1 .. Len(queue) : j > 1 => queue[j] # h
      BY <1>1, <1>4 DEF Once
    <2>4. \A j \in 1 .. Len(q) : q[j] # h /\ \A i \in 1 .. Len(order) : order[i] # q[j]
      BY <1>4, <1>9, Zenon DEF Occurs
    <2>5. \A i \in 1 .. Len(order') : i \in 1 .. Len(order) \/ order'[i] = h
      BY <1>5
    <2>6. ASSUME NEW i \in 1 .. Len(order'), NEW j \in 1 .. Len(queue')
          PROVE  order'[i] # queue'[j]
      <3>1. CASE i \in 1 .. Len(order)
        <4>1. order'[i] = order[i]
          BY <1>5, <3>1, Zenon
        <4> QED  BY <1>1, <1>11, <2>4, <3>1, <4>1
      <3>2. CASE order'[i] = h
        BY <1>11, <2>3, <2>4, <3>2, Zenon
      <3> QED  BY <2>5, <3>1, <3>2, Zenon
    <2> QED  BY <2>2, <2>6, Zenon
  <1>13. DependenciesFirst(order)'
    <2>1. \A d \in deps[h] : Occurs(order, d)
      BY <1>1, <1>4, Zenon
    <2> SUFFICES ASSUME NEW i \in 1 .. Len(order'), NEW d \in deps[order'[i]]
                 PROVE  \E j \in 1 .. i - 1 : order'[j] = d
      BY <1>0, Zenon DEF DependenciesFirst
    <2>2. CASE i \in 1 .. Len(order)
      <3>1. PICK j \in 1 .. i - 1 : order[j] = d
        BY <1>1, <1>5, <2>2, Zenon DEF DependenciesFirst
      <3>2. order'[j] = d
        BY <1>5, <2>2, <3>1
      <3> QED  BY <3>2, Zenon
    <2>3. CASE i = Len(order) + 1
      BY <1>5, <2>1, <2>3 DEF Occurs
    <2> QED  BY <1>5, <2>2, <2>3
  <1>14. \A i \in 1 .. Len(queue') : \A d \in deps[queue'[i]] : Occurs(order', d)
    BY <1>1, <1>6, <1>7, <1>8, <1>11, ZenonT(30)
  <1>15. \A s \in registered : pending'[s] = {d \in deps[s] : ~Occurs(order', d)}
    BY <1>0, <1>1, <1>6, Zenon DEF TypeOK, h
  <1>16. \A s \in registered : pending'[s] = {} => Occurs(order', s) \/ Occurs(queue', s)
    <2>1. ASSUME NEW s \in registered, pending'[s] = {} PROVE pending[s] = {} \/ pending[s] = {h}
      BY <1>0, <2>1, Zenon DEF TypeOK, h
    <2>2. ASSUME NEW s, Occurs(queue, s) PROVE s = h \/ Occurs(Tail(queue), s)
      <3>1. PICK i \in 1 .. Len(queue) : queue[i] = s
        BY <2>2, Zenon DEF Occurs
      <3>2. CASE i # 1
        <4>1. i - 1 \in 1 .. Len(Tail(queue)) /\ Tail(queue)[i - 1] = s
          BY <1>4, <3>1, <3>2
        <4> QED  BY <4>1, Zenon DEF Occurs
      <3> QED  BY <1>4, <3>1, <3>2, Zenon
    <2>3. \A s : Occurs(Tail(queue), s) \/ Occurs(q, s) => Occurs(queue', s)
      <3> DEFINE t == Tail(queue)
      <3>1. t \in Seq(registered) /\ queue' = t \o q
        BY <1>2, <1>4, Zenon
      <3> HIDE DEF t
      <3>2. /\ Len(t \o q) = Len(t) + Len(q) /\ Len(t) \in Nat /\ Len(q) \in Nat
            /\ \A i \in 1 .. Len(t) : (t \o q)[i] = t[i]
            /\ \A i \in 1 .. Len(q) : (t \o q)[Len(t) + i] = q[i]
        BY <1>7, <3>1
      <3>3. /\ \A i \in 1 .. Len(t) : i \in 1 .. Len(t) + Len(q)
            /\ \A i \in 1 .. Len(q) : Len(t) + i \in 1 .. Len(t) + Len(q)
        BY <3>2
      <3> QED  BY <3>1, <3>2, <3>3, Zenon DEF Occurs, t
    <2>4. ASSUME NEW s \in registered, pending[s] = {h} PROVE Occurs(q, s)
      BY <1>3, <2>4, Zenon DEF N
    <2> QED  BY <1>1, <1>6, <2>1, <2>2, <2>3, <2>4, Zenon
  <1>19. OrderInv'
    BY <1>0, <1>1, <1>5, <1>10, <1>12, <1>13, <1>14, <1>15, <1>16, Zenon DEF OrderInv, Once
  <1>17. TypeOK'
    <2>1. pending' \in [Services -> SUBSET Services]
      BY <1>0, Zenon DEF TypeOK
    <2>2. registered \subseteq Services
      BY <1>0, Zenon DEF TypeOK
    <2>3. order' \in Seq(Services) /\ queue' \in Seq(Services)
      BY <1>5, <1>10, <2>2
    <2> QED  BY <1>0, <2>1, <2>3, SMTT(30) DEF TypeOK
  <1>18. UpInv' /\ StartInv' /\ StopInv' /\ StartsInOrder' /\ DependenciesUp'
    <2>1. UpInv'
      BY <1>0, Zenon DEF LifecycleInv, UpInv
    <2>2. StartInv'
      BY <1>0, Zenon DEF StartInv
    <2>3. StopInv'
      BY <1>0, Zenon DEF LifecycleInv, StopInv, DependentLater
    <2>4. StartsInOrder' /\ DependenciesUp'
      BY <1>0, SameServices, Zenon
    <2> QED  BY <2>1, <2>2, <2>3, <2>4, Zenon
  <1> QED  BY <1>17, <1>18, <1>19, Zenon DEF LifecycleInv

\* Start fails on a cycle, or has all registered services in the order of dependencies.
LEMMA OrderEndStep ==
  ASSUME ApplicationInv, NEW w \in Callers, OrderEnd(w), running' = running, overtaken' \in BOOLEAN
  PROVE  TypeOK' /\ LifecycleInv'
  <1>0. /\ TypeOK /\ LifecycleInv /\ UpInv /\ OrderInv /\ pc[w] = "order" /\ pc[w] \in Held
        /\ Phase = "order" /\ mutex = w /\ ~started
        /\ UNCHANGED <<registered, deps, startOrder, started, up, stuck, leftover>>
        /\ pending' = [s \in Services |-> {}] /\ queue' = << >> /\ order' = << >>
    BY Holder, Zenon DEF ApplicationInv, LifecycleInv, OrderEnd, Sorted, table, outside, UpInv, Held
  <1>1. CASE Len(order) # Cardinality(registered)
    <2>1. /\ At(w, "startFailed") /\ mutex' = Nobody /\ circular' = TRUE /\ todo' = todo
          /\ "startFailed" \in PCs /\ "startFailed" \notin Held
      BY <1>1, Zenon DEF OrderEnd, StartFails, PCs, Held
    <2>2. /\ pc' \in [Callers -> PCs] /\ mutex' \in Callers \cup {Nobody} /\ Phase' = "idle"
          /\ \A v \in Callers : mutex' = v <=> pc'[v] \in Held
      BY <1>0, <2>1, Relocate, Zenon
    <2>3. TypeOK'
      BY <1>0, <2>1, <2>2 DEF TypeOK, Held
    <2> QED  BY <1>0, <2>1, <2>2, <2>3, Unmoved, Zenon DEF table, outside
  <1>2. CASE Len(order) = Cardinality(registered)
    <2>1. /\ At(w, "start") /\ mutex' = mutex /\ circular' = circular /\ todo' = order
          /\ "start" \in PCs /\ "start" \in Held
      BY <1>2, Zenon DEF OrderEnd, PCs, Held
    <2>2. /\ pc' \in [Callers -> PCs] /\ mutex' \in Callers \cup {Nobody} /\ Phase' = "start"
          /\ \A v \in Callers : mutex' = v <=> pc'[v] \in Held
      BY <1>0, <2>1, Relocate, Zenon
    <2>3. /\ order \in Seq(registered) /\ Once(order) /\ DependenciesFirst(order)
      BY <1>0, Zenon DEF OrderInv
    <2>4. TypeOK'
      <3>1. todo' \in Seq(Services)
        BY <1>0, <2>1, Zenon DEF TypeOK
      <3> QED  BY <1>0, <2>1, <2>2, <3>1 DEF TypeOK, Held
    <2>5. UpInv'
      BY <1>0, <2>1, <2>2, <2>3, Zenon DEF UpInv
    <2>6. \A s \in registered : Occurs(order, s)
      BY <1>0, <1>2, <2>3, Complete, Zenon DEF UpInv
    <2>7. ASSUME NEW s \in registered PROVE DependentLater(order, s)
      <3> SUFFICES ASSUME NEW i \in 1 .. Len(order), order[i] \in deps[s]
                   PROVE  \E j \in i + 1 .. Len(order) : order[j] = s
        BY Zenon DEF DependentLater
      <3>1. PICK j \in 1 .. Len(order) : order[j] = s
        BY <2>6, Zenon DEF Occurs
      <3>2. PICK k \in 1 .. j - 1 : order[k] = order[i]
        BY <2>3, <3>1, Zenon DEF DependenciesFirst
      <3>3. Len(order) \in Nat /\ k \in 1 .. Len(order)
        BY <2>3
      <3>4. k = i
        BY <2>3, <3>2, <3>3, Zenon DEF Once
      <3> QED  BY <3>1, <3>3, <3>4
    <2>8. StartInv'
      <3>1. \A s \in registered : DependentLater(todo, s)'
        BY <1>0, <2>1, <2>7, Zenon DEF DependentLater
      <3>2. \A k \in 1 .. Len(todo') : \A d \in deps'[todo'[k]] : \E j \in 1 .. k - 1 : todo'[j] = d
        <4>1. todo' = order /\ deps' = deps
          BY <1>0, <2>1, Zenon
        <4> QED  BY <2>3, <4>1 DEF DependenciesFirst
      <3>3. \A s \in registered' : Occurs(todo', s)
        BY <1>0, <2>1, <2>6, Zenon
      <3> QED  BY <1>0, <3>1, <3>2, <3>3, Zenon DEF StartInv
    <2>9. OrderInv' /\ StopInv' /\ StartsInOrder' /\ DependenciesUp'
      <3>1. OrderInv'
        BY <1>0, <2>2, Zenon DEF OrderInv
      <3>2. StopInv'
        BY <1>0, <2>2, Zenon DEF LifecycleInv, StopInv, DependentLater
      <3>3. StartsInOrder' /\ DependenciesUp'
        BY <1>0, SameServices, Zenon
      <3> QED  BY <3>1, <3>2, <3>3, Zenon
    <2> QED  BY <2>4, <2>5, <2>8, <2>9, Zenon DEF LifecycleInv
  <1> QED  BY <1>1, <1>2, Zenon

\* The next service is started after its dependencies.
LEMMA StartServiceStep ==
  ASSUME ApplicationInv, NEW w \in Callers, StartService(w), running' = running, overtaken' \in BOOLEAN
  PROVE  TypeOK' /\ LifecycleInv'
  <1> DEFINE h == Head(todo)
             t == Tail(todo)
  <1>0. /\ TypeOK /\ LifecycleInv /\ UpInv /\ StartInv /\ Phase = "start" /\ Phase' = "start" /\ ~started
        /\ UNCHANGED <<registered, deps, started, mutex, pc, pending, queue, order, leftover, circular>>
        /\ todo # << >> /\ startOrder' = Append(startOrder, h) /\ up' = up \cup {h} /\ stuck' = stuck \ {h} /\ todo' = t
    BY Holder, Zenon DEF ApplicationInv, LifecycleInv, UpInv, StartService, table, sorting, Phase
  <1>1. startOrder \in Seq(registered) /\ todo \in Seq(registered) /\ registered \subseteq Services /\ up \subseteq registered
    BY <1>0, Zenon DEF UpInv, TypeOK
  <1>2. /\ h \in registered /\ h = todo[1] /\ 1 \in 1 .. Len(todo)
        /\ t \in Seq(registered) /\ Len(t) = Len(todo) - 1 /\ Len(todo) \in Nat
        /\ \A i \in 1 .. Len(todo) - 1 : t[i] = todo[i + 1]
    BY <1>0, <1>1, Elements
  <1>3. /\ startOrder' \in Seq(registered) /\ Len(startOrder') = Len(startOrder) + 1
        /\ startOrder'[Len(startOrder) + 1] = h
        /\ Len(startOrder) \in Nat /\ \A i \in 1 .. Len(startOrder) : startOrder'[i] = startOrder[i]
    BY <1>0, <1>1, <1>2, Elements
  <1> HIDE DEF h, t
  <1>4. /\ \A d : Occurs(startOrder', d) <=> Occurs(startOrder, d) \/ d = h
        /\ \A d : Occurs(todo, d) <=> Occurs(t, d) \/ d = h
    <2>1. \A d : Occurs(startOrder', d) <=> Occurs(startOrder, d) \/ d = h
      BY <1>3 DEF Occurs
    <2>2. \A d : Occurs(t, d) \/ d = h => Occurs(todo, d)
      BY <1>2 DEF Occurs
    <2>3. ASSUME NEW i \in 1 .. Len(todo) PROVE todo[i] = h \/ \E j \in 1 .. Len(t) : t[j] = todo[i]
      <3>1. CASE i = 1
        BY <1>2, <3>1, Zenon
      <3>2. CASE i # 1
        <4>1. i - 1 \in 1 .. Len(t) /\ t[i - 1] = todo[i]
          BY <1>2, <3>2
        <4> QED  BY <4>1, Zenon
      <3> QED  BY <3>1, <3>2, Zenon
    <2>4. \A d : Occurs(todo, d) => Occurs(t, d) \/ d = h
      BY <2>3, Zenon DEF Occurs
    <2> QED  BY <2>1, <2>2, <2>4, Zenon
  <1>5. \A d \in deps[h] : Occurs(startOrder, d)
    BY <1>0, <1>2 DEF StartInv
  <1>6. TypeOK'
    <2>1. startOrder' \in Seq(Services) /\ todo' \in Seq(Services) /\ h \in Services
      BY <1>0, <1>1, <1>2, <1>3
    <2> QED  BY <1>0, <2>1, Zenon DEF TypeOK
  <1>7. UpInv'
    <2>1. \A s \in up' \ stuck' : Occurs(startOrder', s)
      BY <1>0, <1>4, Zenon DEF UpInv
    <2>2. \A i \in 1 .. Len(startOrder') : startOrder'[i] \in up'
      BY <1>0, <1>3 DEF UpInv
    <2> QED  BY <1>0, <1>1, <1>2, <1>3, <2>1, <2>2, Zenon DEF UpInv
  <1>8. StartInv'
    <2>1. ASSUME NEW k \in 1 .. Len(t), NEW d \in deps[t[k]]
          PROVE  Occurs(startOrder', d) \/ \E j \in 1 .. k - 1 : t[j] = d
      <3>1. k + 1 \in 1 .. Len(todo) /\ t[k] = todo[k + 1]
        BY <1>2
      <3>2. Occurs(startOrder, d) \/ \E j \in 1 .. (k + 1) - 1 : todo[j] = d
        BY <1>0, <2>1, <3>1, Zenon DEF StartInv
      <3>3. ASSUME NEW j \in 1 .. (k + 1) - 1, todo[j] = d
            PROVE  d = h \/ \E i \in 1 .. k - 1 : t[i] = d
        <4>1. CASE j = 1
          BY <1>2, <3>3, <4>1, Zenon
        <4>2. CASE j # 1
          <5>1. j - 1 \in 1 .. k - 1 /\ t[j - 1] = todo[j]
            BY <1>2, <4>2
          <5> QED  BY <3>3, <5>1, Zenon
        <4> QED  BY <4>1, <4>2, Zenon
      <3> QED  BY <1>4, <3>2, <3>3, Zenon
    <2>2. ASSUME NEW s \in registered, NEW k \in 1 .. Len(todo), todo[k] \in deps[s]
          PROVE  \E j \in k .. Len(t) : t[j] = s
      <3>1. PICK j \in k + 1 .. Len(todo) : todo[j] = s
        BY <1>0, <2>2, Zenon DEF StartInv, DependentLater
      <3>2. j - 1 \in k .. Len(t) /\ t[j - 1] = todo[j]
        BY <1>2, SMTT(40)
      <3> QED  BY <3>1, <3>2, Zenon
    <2>3. ASSUME NEW s \in registered, NEW k \in 1 .. Len(t), t[k] \in deps[s]
          PROVE  \E j \in k + 1 .. Len(t) : t[j] = s
      <3>1. k + 1 \in 1 .. Len(todo) /\ t[k] = todo[k + 1]
        BY <1>2
      <3> QED  BY <2>2, <2>3, <3>1, Zenon
    <2>4. ASSUME NEW s \in registered, ~Occurs(t, s), NEW i \in 1 .. Len(startOrder'), startOrder'[i] \in deps[s]
          PROVE  \E j \in i + 1 .. Len(startOrder') : startOrder'[j] = s
      <3>1. h \notin deps[s]
        <4>1. ASSUME h \in deps[s] PROVE \E j \in 1 .. Len(t) : t[j] = s
          BY <1>2, <2>2, <4>1, Zenon
        <4> QED  BY <2>4, <4>1, Zenon DEF Occurs
      <3>2. i \in 1 .. Len(startOrder) /\ startOrder[i] \in deps[s]
        BY <1>3, <2>4, <3>1
      <3>3. CASE s = h
        BY <1>3, <3>2, <3>3
      <3>4. CASE s # h
        <4>1. DependentLater(startOrder, s)
          BY <1>0, <1>4, <2>4, <3>4, Zenon DEF StartInv
        <4>2. PICK j \in i + 1 .. Len(startOrder) : startOrder[j] = s
          BY <3>2, <4>1, Zenon DEF DependentLater
        <4>3. j \in i + 1 .. Len(startOrder') /\ startOrder'[j] = s
          BY <1>3, <3>2, <4>2
        <4> QED  BY <4>3, Zenon
      <3> QED  BY <3>3, <3>4, Zenon
    <2>5. \A s \in registered : DependentLater(todo, s)' /\ (Occurs(t, s) \/ DependentLater(startOrder, s)')
      BY <1>0, <2>3, <2>4, ZenonT(30) DEF DependentLater
    <2>6. registered' = registered /\ deps' = deps /\ todo' = t
      BY <1>0, Zenon
    <2> QED  BY <2>1, <2>5, <2>6 DEF StartInv
  <1>9. StartsInOrder'
    <2> SUFFICES ASSUME NEW i \in 1 .. Len(startOrder'), NEW d \in deps[startOrder'[i]]
                 PROVE  \E j \in 1 .. i - 1 : startOrder'[j] = d
      <3>1. DOMAIN startOrder' = 1 .. Len(startOrder')
        BY <1>3
      <3> QED  BY <1>0, <3>1, Zenon DEF StartsInOrder
    <2>1. CASE i \in 1 .. Len(startOrder)
      <3>1. PICK j \in 1 .. i - 1 : startOrder[j] = d
        BY <1>0, <1>1, <1>3, <2>1 DEF LifecycleInv, StartsInOrder
      <3>2. startOrder'[j] = d
        BY <1>3, <2>1, <3>1
      <3> QED  BY <3>2, Zenon
    <2>2. CASE i = Len(startOrder) + 1
      BY <1>3, <1>5, <2>2 DEF Occurs
    <2> QED  BY <1>3, <2>1, <2>2
  <1>10. DependenciesUp'
    <2>1. deps[h] \subseteq up
      BY <1>0, <1>5, Zenon DEF UpInv, Occurs
    <2> QED  BY <1>0, <2>1, Zenon DEF LifecycleInv, DependenciesUp
  <1>11. OrderInv' /\ StopInv'
    BY <1>0, Zenon DEF OrderInv, StopInv
  <1> QED  BY <1>6, <1>7, <1>8, <1>9, <1>10, <1>11, Zenon DEF LifecycleInv

\* Start returns: with an error, and what it started is left over; or with all services
\* started, each before those that depend on it.
LEMMA StartReturns ==
  ASSUME ApplicationInv, NEW w \in Callers, StartServiceFails(w) \/ StartEnd(w),
         running' = running, overtaken' \in BOOLEAN
  PROVE  TypeOK' /\ LifecycleInv'
  <1>0. /\ TypeOK /\ LifecycleInv /\ UpInv /\ StartInv /\ Phase = "start" /\ pc[w] \in Held /\ ~started
        /\ UNCHANGED <<registered, deps, startOrder, pending, queue, order, up, stuck, circular>>
        /\ mutex' = Nobody /\ todo' = << >>
    BY Holder, Zenon DEF ApplicationInv, LifecycleInv, UpInv, StartServiceFails, StartFails, StartEnd, table, sorting,
                  outside, Held
  <1>1. /\ pc' \in [Callers -> PCs] /\ mutex' \in Callers \cup {Nobody} /\ Phase' = "idle"
        /\ \A v \in Callers : mutex' = v <=> pc'[v] \in Held
    <2>1. \E l \in PCs \ Held : At(w, l)
      <3>1. "startFailed" \in PCs \ Held /\ "startDone" \in PCs \ Held
        BY Zenon DEF PCs, Held
      <3> QED  BY <3>1, Zenon DEF StartServiceFails, StartFails, StartEnd
    <2> QED  BY <1>0, <2>1, Relocate, Zenon
  <1>2. startOrder \in Seq(registered) /\ registered \subseteq Services
    BY <1>0, Zenon DEF UpInv, TypeOK
  <1>3. OrderInv' /\ StartInv' /\ StartsInOrder' /\ DependenciesUp'
    <2>1. OrderInv'
      BY <1>1, Zenon DEF OrderInv
    <2>2. StartInv'
      BY <1>1, Zenon DEF StartInv
    <2>3. StartsInOrder' /\ DependenciesUp'
      BY <1>0, SameServices, Zenon
    <2> QED  BY <2>1, <2>2, <2>3, Zenon
  <1>4. CASE StartServiceFails(w)
    <2>1. started' = started /\ leftover' = leftover \cup Range(startOrder)
      BY <1>4, Zenon DEF StartServiceFails
    <2>2. /\ Range(startOrder) \subseteq Services
          /\ \A i \in 1 .. Len(startOrder) : startOrder[i] \in Range(startOrder)
      BY <1>2 DEF Range
    <2>3. TypeOK'
      <3>1. leftover' \subseteq Services
        BY <1>0, <2>1, <2>2, Zenon DEF TypeOK
      <3>2. todo' \in Seq(Services)
        BY <1>0
      <3>3. started' \in BOOLEAN
        BY <1>0, <2>1, Zenon DEF TypeOK
      <3> QED  BY <1>0, <1>1, <3>1, <3>2, <3>3, SMTT(30) DEF TypeOK, Held
    <2>4. UpInv' /\ StopInv'
      <3>1. UpInv'
        BY <1>0, <1>1, <2>1, <2>2 DEF UpInv
      <3>2. StopInv'
        BY <1>0, <1>1, <2>1, Zenon DEF StopInv, DependentLater
      <3> QED  BY <3>1, <3>2, Zenon
    <2> QED  BY <1>3, <2>3, <2>4, Zenon DEF LifecycleInv
  <1>5. CASE StartEnd(w)
    <2>1. started' = TRUE /\ leftover' = leftover /\ todo = << >>
      BY <1>5, Zenon DEF StartEnd, outside
    <2>2. TypeOK'
      <3>1. todo' \in Seq(Services) /\ started' \in BOOLEAN /\ leftover' = leftover
        BY <1>0, <2>1
      <3> QED  BY <1>0, <1>1, <3>1, SMTT(30) DEF TypeOK, Held
    <2>3. UpInv'
      BY <1>0, <1>1, <2>1, Zenon DEF UpInv
    <2>4. StopInv'
      <3>3. todo = << >> /\ \A s : ~Occurs(todo, s)
        BY <2>1 DEF Occurs
      <3>1. \A s \in registered : DependentLater(startOrder, s)
        BY <1>0, <3>3, Zenon DEF StartInv
      <3>2. \A s \in registered : DependentLater(startOrder, s)'
        BY <1>0, <3>1, Zenon DEF DependentLater
      <3> QED  BY <1>0, <1>1, <3>2, Zenon DEF StopInv
    <2> QED  BY <1>3, <2>2, <2>3, <2>4, Zenon DEF LifecycleInv
  <1> QED  BY <1>4, <1>5, Zenon

\* Stop finds nothing started, or will stop in the reverse order.
LEMMA StopLockStep ==
  ASSUME ApplicationInv, NEW w \in Callers, StopLock(w), running' = running, overtaken' \in BOOLEAN
  PROVE  TypeOK' /\ LifecycleInv'
  <1>0. /\ TypeOK /\ LifecycleInv /\ UpInv /\ StopInv /\ pc[w] = "lockStop" /\ pc[w] \notin Held
        /\ mutex = Nobody /\ Phase = "idle"
        /\ UNCHANGED <<table, startOrder, started, sorting, outside, circular>>
    BY Holder, Zenon DEF ApplicationInv, LifecycleInv, StopLock, Held
  <1>1. CASE ~started
    <2>1. At(w, "stopDone") /\ mutex' = mutex /\ todo' = todo /\ "stopDone" \in PCs /\ "stopDone" \notin Held
      BY <1>1, Zenon DEF StopLock, PCs, Held
    <2>2. /\ pc' \in [Callers -> PCs] /\ mutex' \in Callers \cup {Nobody} /\ Phase' = Phase
          /\ \A v \in Callers : mutex' = v <=> pc'[v] \in Held
      BY <1>0, <2>1, Relocate, Zenon
    <2>3. TypeOK'
      BY <1>0, <2>1, <2>2, Zenon DEF TypeOK, Held, table, sorting, outside
    <2> QED  BY <1>0, <2>1, <2>2, <2>3, Unmoved, Zenon
  <1>2. CASE started
    <2>1. At(w, "stop") /\ mutex' = w /\ todo' = Reverse(startOrder) /\ "stop" \in PCs /\ "stop" \in Held
      BY <1>2, Zenon DEF StopLock, PCs, Held
    <2>2. /\ pc' \in [Callers -> PCs] /\ mutex' \in Callers \cup {Nobody} /\ Phase' = "stop"
          /\ \A v \in Callers : mutex' = v <=> pc'[v] \in Held
      BY <1>0, <2>1, Relocate, Zenon
    <2>3. startOrder \in Seq(registered) /\ registered \subseteq Services /\ up \subseteq registered
      BY <1>0, Zenon DEF UpInv, TypeOK
    <2>4. /\ todo' \in Seq(registered) /\ Len(todo') = Len(startOrder) /\ Len(startOrder) \in Nat
          /\ \A i \in 1 .. Len(startOrder) : todo'[i] = startOrder[(Len(startOrder) - i) + 1]
      BY <2>1, <2>3, Elements
    <2>5. TypeOK'
      <3>1. todo' \in Seq(Services)
        BY <2>3, <2>4
      <3> QED  BY <1>0, <2>2, <3>1, Zenon DEF TypeOK, Held, table, sorting, outside
    <2>6. UpInv'
      BY <1>0, <1>2, <2>2, <2>4, Zenon DEF UpInv, table, outside
    <2>7. OrderInv' /\ StartInv' /\ StartsInOrder' /\ DependenciesUp'
      <3>1. OrderInv'
        BY <1>0, <2>2, Zenon DEF OrderInv
      <3>2. StartInv'
        BY <1>0, <2>2, Zenon DEF StartInv
      <3>3. StartsInOrder' /\ DependenciesUp'
        BY <1>0, <2>2, SameServices, Zenon DEF table, outside
      <3> QED  BY <3>1, <3>2, <3>3, Zenon
    <2>8. \A i \in 1 .. Len(startOrder) : /\ (Len(startOrder) - i) + 1 \in 1 .. Len(startOrder)
                                         /\ todo'[(Len(startOrder) - i) + 1] = startOrder[i]
      BY <2>4
    <2>9. ASSUME NEW s \in up \ stuck PROVE Occurs(todo', s)
      <3>1. PICK i \in 1 .. Len(startOrder) : startOrder[i] = s
        BY <1>0, Zenon DEF UpInv, Occurs
      <3> QED  BY <2>4, <2>8, <3>1, Zenon DEF Occurs
    <2>10. ASSUME NEW s \in up \ stuck, NEW k \in 1 .. Len(todo'), todo'[k] \in deps[s]
           PROVE  \E j \in 1 .. k - 1 : todo'[j] = s
      <3>1. (Len(startOrder) - k) + 1 \in 1 .. Len(startOrder) /\ startOrder[(Len(startOrder) - k) + 1] \in deps[s]
        BY <2>4, <2>8, <2>10, Zenon
      <3>2. DependentLater(startOrder, s)
        BY <1>0, <1>2, <2>3, Zenon DEF StopInv
      <3>3. PICK j \in ((Len(startOrder) - k) + 1) + 1 .. Len(startOrder) : startOrder[j] = s
        BY <3>1, <3>2, Zenon DEF DependentLater
      <3>4. j \in 1 .. Len(startOrder) /\ (Len(startOrder) - j) + 1 \in 1 .. k - 1
        BY <2>4, <3>1, SMTT(30)
      <3> QED  BY <2>8, <3>3, <3>4, Zenon
    <2>11. StopInv'
      <3>1. \A s \in registered : DependentLater(startOrder, s)'
        BY <1>0, <1>2, Zenon DEF StopInv, DependentLater, table
      <3> QED  BY <1>0, <2>9, <2>10, <3>1, Zenon DEF StopInv, table, outside
    <2> QED  BY <2>5, <2>6, <2>7, <2>11, Zenon DEF LifecycleInv
  <1> QED  BY <1>1, <1>2, Zenon

\* The next service is stopped, or fails to stop, before its dependencies.
LEMMA StopServiceStep ==
  ASSUME ApplicationInv, NEW w \in Callers, StopService(w), running' = running, overtaken' \in BOOLEAN
  PROVE  TypeOK' /\ LifecycleInv'
  <1> DEFINE h == Head(todo)
             t == Tail(todo)
  <1>0. /\ TypeOK /\ LifecycleInv /\ UpInv /\ StopInv /\ Phase = "stop" /\ Phase' = "stop" /\ started
        /\ UNCHANGED <<registered, deps, startOrder, started, mutex, pc, pending, queue, order, circular>>
        /\ todo # << >> /\ todo' = t /\ leftover' = leftover \ {h}
        /\ \/ up' = up \ {h} /\ stuck' = stuck \ {h}
           \/ stuck' = stuck \cup (up \cap {h}) /\ up' = up
    BY Holder, Zenon DEF ApplicationInv, LifecycleInv, UpInv, StopService, table, sorting, Phase
  <1>1. todo \in Seq(registered) /\ registered \subseteq Services /\ up \subseteq registered
    BY <1>0, Zenon DEF UpInv, TypeOK
  <1>2. /\ h = todo[1] /\ 1 \in 1 .. Len(todo)
        /\ t \in Seq(registered) /\ Len(t) = Len(todo) - 1 /\ Len(todo) \in Nat
        /\ \A i \in 1 .. Len(todo) - 1 : t[i] = todo[i + 1]
    BY <1>0, <1>1, Elements
  <1> HIDE DEF h, t
  <1>3. \A s \in up' \ stuck' : s \in up \ stuck /\ s # h
    BY <1>0, Zenon
  <1>4. \A i \in 1 .. Len(todo) : i # 1 => i - 1 \in 1 .. Len(t) /\ t[i - 1] = todo[i]
    BY <1>2
  <1>5. TypeOK'
    <2>1. todo' \in Seq(Services)
      BY <1>0, <1>1, <1>2
    <2>2. up' \subseteq Services /\ stuck' \subseteq Services /\ leftover' \subseteq Services
      BY <1>0, Zenon DEF TypeOK
    <2> QED  BY <1>0, <2>1, <2>2, Zenon DEF TypeOK
  <1>6. UpInv'
    BY <1>0, <1>2, Zenon DEF UpInv
  <1>7. ASSUME NEW s \in up' \ stuck'
        PROVE  /\ Occurs(t, s) /\ h \notin deps[s]
               /\ \A k \in 1 .. Len(t) : t[k] \in deps[s] => \E j \in 1 .. k - 1 : t[j] = s
    <2>1. /\ Occurs(todo, s) /\ s # h
          /\ \A k \in 1 .. Len(todo) : todo[k] \in deps[s] => \E j \in 1 .. k - 1 : todo[j] = s
      BY <1>0, <1>3, <1>7, Zenon DEF StopInv
    <2>2. Occurs(t, s)
      BY <1>2, <1>4, <2>1, Zenon DEF Occurs
    <2>3. h \notin deps[s]
      BY <1>2, <2>1
    <2>4. ASSUME NEW k \in 1 .. Len(t), t[k] \in deps[s] PROVE \E j \in 1 .. k - 1 : t[j] = s
      <3>1. k + 1 \in 1 .. Len(todo) /\ todo[k + 1] \in deps[s]
        BY <1>2, <2>4
      <3>2. PICK j \in 1 .. (k + 1) - 1 : todo[j] = s
        BY <2>1, <3>1, Zenon
      <3>3. j \in 1 .. Len(todo) /\ j # 1 /\ j - 1 \in 1 .. k - 1
        BY <1>2, <2>1, <3>1, <3>2
      <3> QED  BY <1>4, <3>2, <3>3, Zenon
    <2> QED  BY <2>2, <2>3, <2>4, Zenon
  <1>8. StopInv'
    <2>1. \A s \in registered : DependentLater(startOrder, s)'
      BY <1>0, Zenon DEF StopInv, DependentLater
    <2> QED  BY <1>0, <1>7, <2>1, Zenon DEF StopInv
  <1>9. DependenciesUp'
    BY <1>0, <1>3, <1>7, Zenon DEF LifecycleInv, DependenciesUp
  <1>10. OrderInv' /\ StartInv' /\ StartsInOrder'
    <2>1. OrderInv'
      BY <1>0, Zenon DEF OrderInv
    <2>2. StartInv'
      BY <1>0, Zenon DEF StartInv
    <2>3. StartsInOrder'
      BY <1>0 DEF LifecycleInv, StartsInOrder
    <2> QED  BY <2>1, <2>2, <2>3, Zenon
  <1> QED  BY <1>5, <1>6, <1>8, <1>9, <1>10, Zenon DEF LifecycleInv

\* Stop returns when nothing is up but what failed to stop.
LEMMA StopEndStep ==
  ASSUME ApplicationInv, NEW w \in Callers, StopEnd(w), running' = running, overtaken' \in BOOLEAN
  PROVE  TypeOK' /\ LifecycleInv'
  <1>0. /\ TypeOK /\ LifecycleInv /\ UpInv /\ StopInv /\ Phase = "stop" /\ pc[w] \in Held /\ todo = << >>
        /\ UNCHANGED <<registered, deps, pending, queue, order, todo, up, stuck, leftover, circular>>
        /\ mutex' = Nobody /\ startOrder' = << >> /\ started' = FALSE
        /\ At(w, "stopDone") /\ "stopDone" \in PCs /\ "stopDone" \notin Held
    BY Holder, Zenon DEF ApplicationInv, LifecycleInv, UpInv, StopEnd, table, sorting, outside, Held, PCs
  <1>1. /\ pc' \in [Callers -> PCs] /\ mutex' \in Callers \cup {Nobody} /\ Phase' = "idle"
        /\ \A v \in Callers : mutex' = v <=> pc'[v] \in Held
    BY <1>0, Relocate, Zenon
  <1>2. up \ stuck = {}
    BY <1>0 DEF StopInv, Occurs
  <1>3. TypeOK'
    <2>1. startOrder' \in Seq(Services)
      BY <1>0
    <2> QED  BY <1>0, <1>1, <2>1, Zenon DEF TypeOK, Held
  <1>4. UpInv'
    BY <1>0, <1>1, <1>2 DEF UpInv
  <1>5. OrderInv' /\ StartInv' /\ StopInv' /\ StartsInOrder' /\ DependenciesUp'
    <2>1. OrderInv'
      BY <1>0, <1>1, Zenon DEF OrderInv
    <2>2. StartInv'
      BY <1>0, <1>1, Zenon DEF StartInv
    <2>3. StopInv'
      BY <1>0, <1>1, <1>2, Zenon DEF StopInv
    <2>4. StartsInOrder'
      BY <1>0 DEF StartsInOrder
    <2>5. DependenciesUp'
      BY <1>0, <1>2, Zenon DEF DependenciesUp
    <2> QED  BY <2>1, <2>2, <2>3, <2>4, <2>5, Zenon
  <1> QED  BY <1>3, <1>4, <1>5, Zenon DEF LifecycleInv

\* A registration touches no service that was ever started.
LEMMA RegisterStep == ASSUME ApplicationInv, WithService PROVE TypeOK' /\ LifecycleInv' /\ RunInv'
  <1>1. PICK s \in Services, D \in SUBSET Services : Register(s, D)
    BY Zenon DEF WithService
  <1>2. /\ TypeOK /\ LifecycleInv /\ UpInv /\ RunInv /\ mutex = Nobody /\ ~started /\ s \notin registered
        /\ registered' = registered \cup {s} /\ deps' = [deps EXCEPT ![s] = D]
        /\ UNCHANGED <<startOrder, started, mutex, pc, pending, queue, order, todo, up, stuck, leftover, circular>>
        /\ UNCHANGED <<running, overtaken>>
    BY <1>1, Zenon DEF ApplicationInv, LifecycleInv, Register, WithService, sorting, outside
  <1>3. Phase = "idle" /\ Phase' = "idle"
    BY <1>2, Zenon DEF Phase
  <1>4. TypeOK'
    BY <1>2, Zenon DEF TypeOK
  <1>5. deps \in [Services -> SUBSET Services] /\ registered \subseteq Services
        /\ \A r \in registered : deps'[r] = deps[r]
    BY <1>2, Zenon DEF TypeOK
  <1>6. UpInv'
    <2>1. IsFiniteSet(registered')
      BY <1>2, FS_AddElement, Zenon DEF UpInv
    <2>2. startOrder' \in Seq(registered') /\ todo' \in Seq(registered')
      BY <1>2 DEF UpInv
    <2> QED  BY <1>2, <1>3, <2>1, <2>2, Zenon DEF UpInv
  <1>7. OrderInv' /\ StartInv' /\ StopInv'
    BY <1>2, <1>3, Zenon DEF OrderInv, StartInv, StopInv
  <1>8. StartsInOrder'
    <2>1. \A i \in DOMAIN startOrder : startOrder[i] \in registered
      BY <1>2 DEF UpInv
    <2> QED  BY <1>2, <1>5, <2>1 DEF LifecycleInv, StartsInOrder
  <1>9. DependenciesUp'
    BY <1>2, <1>5, Zenon DEF LifecycleInv, DependenciesUp, UpInv
  <1>10. RunInv'
    BY <1>2, Zenon DEF RunInv, ClosersStop, Enough, Attended, Among
  <1> QED  BY <1>4, <1>6, <1>7, <1>8, <1>9, <1>10, Zenon DEF LifecycleInv

\* The services that are left when nothing waits for nothing any more, but not all are in
\* the result, depend on one another.
LEMMA CyclesStep == ASSUME ApplicationInv, [Next]_vars PROVE CyclesAreReal'
  <1>0. TypeOK /\ LifecycleInv /\ UpInv /\ CyclesAreReal /\ deps \in [Services -> SUBSET Services]
    BY Zenon DEF ApplicationInv, LifecycleInv, TypeOK
  <1>1. ASSUME NEW w \in Callers, OrderEnd(w), Len(order) # Cardinality(registered)
        PROVE  \E C \in (SUBSET registered) \ {{}} : \A s \in C : deps[s] \cap C # {}
    <2>1. /\ order \in Seq(registered) /\ Once(order) /\ queue = << >> /\ IsFiniteSet(registered)
          /\ \A s \in registered : /\ pending[s] = {d \in deps[s] : ~Occurs(order, d)}
                                   /\ deps[s] \subseteq registered
                                   /\ pending[s] = {} => Occurs(order, s) \/ Occurs(queue, s)
      BY <1>0, <1>1, Holder, Zenon DEF OrderEnd, LifecycleInv, OrderInv, UpInv
    <2> DEFINE C == {s \in registered : ~Occurs(order, s)}
    <2>2. C # {}
      <3>1. ~\A s \in registered : Occurs(order, s)
        BY <1>1, <2>1, Complete, Zenon
      <3> QED  BY <3>1, Zenon
    <2>3. \A s \in registered : ~Occurs(queue, s)
      BY <2>1 DEF Occurs
    <2>4. \A s \in C : deps[s] \cap C # {}
      <3> SUFFICES ASSUME NEW s \in C PROVE \E d \in deps[s] : d \in registered /\ ~Occurs(order, d)
        BY Zenon
      <3> HIDE DEF C
      <3>1. s \in registered /\ ~Occurs(order, s)
        BY Zenon DEF C
      <3>2. pending[s] # {}
        BY <2>1, <2>3, <3>1, Zenon
      <3> QED  BY <2>1, <3>1, <3>2, Zenon
    <2> QED  BY <2>2, <2>4, Zenon
  <1>2. CASE WithService
    <2>1. PICK s \in Services, D \in SUBSET Services : Register(s, D)
      BY <1>2, Zenon DEF WithService
    <2>2. /\ circular' = circular /\ registered \subseteq registered'
          /\ \A r \in registered : deps'[r] = deps[r]
      BY <1>0, <2>1, Zenon DEF Register, TypeOK
    <2> QED  BY <1>0, <2>2, Zenon DEF CyclesAreReal
  <1>3. CASE \E w \in Callers : OrderEnd(w) /\ Len(order) # Cardinality(registered)
    <2>1. UNCHANGED <<registered, deps>>
      BY <1>3, Zenon DEF OrderEnd, table
    <2> QED  BY <1>1, <1>3, <2>1, Zenon DEF CyclesAreReal
  <1>4. ASSUME UNCHANGED <<registered, deps, circular>> PROVE CyclesAreReal'
    BY <1>0, <1>4, Zenon DEF CyclesAreReal
  <1>5. ASSUME NEW w \in Callers, LifecycleStep(w), ~(OrderEnd(w) /\ Len(order) # Cardinality(registered))
        PROVE  UNCHANGED <<registered, deps, circular>>
    BY <1>5, Zenon DEF LifecycleStep, StartLock, OrderStep, OrderEnd, StartService, StartServiceFails, StartEnd, StopLock,
                StopService, StopEnd, table
  <1>6. ASSUME NEW w, NEW l, OnlyMoves(w, l) PROVE UNCHANGED <<registered, deps, circular>>
    BY <1>6, Zenon DEF OnlyMoves, table
  <1>7. CASE \E w \in Callers : LifecycleStep(w)
    BY <1>3, <1>4, <1>5, <1>7, Zenon
  <1>8. CASE \E w \in Callers : \/ Run(w) \/ RunWakes(w) \/ CallShutdown(w)
                                \/ RunFails(w) \/ Shutdown(w) \/ ShutdownReturns(w)
    BY <1>4, <1>6, <1>8, Zenon DEF Run, RunWakes, CallShutdown, RunFails, Shutdown, ShutdownReturns
  <1>9. CASE UNCHANGED vars
    BY <1>4, <1>9, Zenon DEF vars, lmVars, table
  <1> QED  BY <1>2, <1>7, <1>8, <1>9, RunnersAssumption, Zenon DEF Next, CallerStep, Manage

\* Every step keeps the invariant.
LEMMA ApplicationKeeps == ApplicationInv /\ [Next]_vars => ApplicationInv'
  <1> SUFFICES ASSUME ApplicationInv, [Next]_vars PROVE TypeOK' /\ LifecycleInv' /\ RunInv'
    BY CyclesStep, Zenon DEF ApplicationInv
  <1> USE RunnersAssumption
  <1>0. TypeOK /\ LifecycleInv /\ RunInv /\ running \in BOOLEAN /\ overtaken \in BOOLEAN
    BY Zenon DEF ApplicationInv, TypeOK
  <1>1. CASE WithService
    BY <1>1, RegisterStep, Zenon
  <1>2. ASSUME NEW w \in Callers,
               \/ w \in Runners /\ (Run(w) \/ RunWakes(w))
               \/ w \in Closers /\ CallShutdown(w)
               \/ RunFails(w) \/ Shutdown(w) \/ ShutdownReturns(w)
        PROVE  TypeOK' /\ LifecycleInv' /\ RunInv'
    <2>1. \E l \in {"done", "lockStart", "shutdown", "lockStop"} : OnlyMoves(w, l)
      BY <1>2, Zenon DEF Run, RunWakes, CallShutdown, RunFails, Shutdown, ShutdownReturns
    <2>2. pc[w] \in {"new", "startDone", "startFailed", "shutdown", "stopDone"}
      BY <1>2, Zenon DEF Run, RunWakes, CallShutdown, RunFails, Shutdown, ShutdownReturns
    <2>3. running' \in BOOLEAN
      <3>1. running' = TRUE \/ running' = FALSE \/ running' = running
        BY <1>2, Zenon DEF Run, RunWakes, CallShutdown, RunFails, Shutdown, ShutdownReturns
      <3> QED  BY <1>0, <3>1, Zenon
    <2>4. overtaken' \in BOOLEAN
      <3>1. overtaken' = (overtaken \/ OtherRun(w)) \/ overtaken' = overtaken
        BY <1>2, Zenon DEF Run, RunWakes, CallShutdown, RunFails, Shutdown, ShutdownReturns
      <3>2. CASE overtaken' = overtaken
        BY <1>0, <3>2, Zenon
      <3>3. CASE overtaken' = (overtaken \/ OtherRun(w))
        BY <3>3, Zenon
      <3> QED  BY <3>1, <3>2, <3>3, Zenon
    <2>5. \A l \in {"done", "lockStart", "shutdown", "lockStop"} : l \in PCs /\ l \notin Held
      BY Zenon DEF PCs, Held
    <2>6. pc[w] \notin Held
      BY <2>2, Zenon DEF Held
    <2>7. TypeOK' /\ LifecycleInv'
      BY <2>1, <2>3, <2>4, <2>5, <2>6, OutsideStep, Zenon
    <2> QED  BY <1>2, <2>7, FlagStep, Zenon
  <1>3. ASSUME NEW w \in Callers, Manage(w) PROVE TypeOK' /\ LifecycleInv' /\ RunInv'
    <2>1. LifecycleStep(w) /\ running' = running
      BY <1>3, Zenon DEF Manage
    <2>2. overtaken' \in BOOLEAN
      <3>1. overtaken' = (overtaken \/ (pc[w] = "lockStop" /\ ~started /\ \E v \in Runners : pc[v] = "lockStart"))
        BY <1>3, Zenon DEF Manage
      <3> QED  BY <3>1, Zenon
    <2>3. TypeOK' /\ LifecycleInv'
      BY <2>1, <2>2, StartLockStep, OrderStepStep, OrderEndStep, StartServiceStep, StartReturns, StopLockStep,
         StopServiceStep, StopEndStep, Zenon DEF LifecycleStep
    <2> QED  BY <1>3, <2>3, ManageRun, Zenon
  <1>4. CASE UNCHANGED vars
    <2>1. /\ UNCHANGED <<table, startOrder, started, mutex, pc, sorting, todo, outside, circular, running, overtaken>>
          /\ Phase' = Phase
      BY <1>4, Zenon DEF vars, lmVars, Phase
    <2>2. TypeOK'
      BY <1>0, <2>1, Zenon DEF TypeOK, table, sorting, outside
    <2>3. LifecycleInv'
      BY <1>0, <2>1, Unmoved, Zenon
    <2>4. RunInv'
      BY <1>0, <2>1, Zenon DEF RunInv, ClosersStop, Enough, Attended, Among
    <2> QED  BY <2>2, <2>3, <2>4, Zenon
  <1> QED  BY <1>1, <1>2, <1>3, <1>4, Zenon DEF Next, CallerStep

LEMMA ApplicationSafe == Spec => []ApplicationInv
  BY InitApplication, ApplicationKeeps, PTL DEF Spec

\* Start starts every service after its dependencies, whatever the services depend on,
\* however many Starts have failed before and whoever else calls Run and Shutdown.
THEOREM DependenciesStartFirst == Spec => []StartsInOrder
  <1>1. ApplicationInv => StartsInOrder
    BY Zenon DEF ApplicationInv, LifecycleInv
  <1> QED  BY <1>1, ApplicationSafe, PTL

\* No service is up without its dependencies, unless its own Stop has failed: Stop takes
\* the services down in an order in which each comes before what it depends on.
THEOREM NeverUpAlone == Spec => []DependenciesUp
  <1>1. ApplicationInv => DependenciesUp
    BY Zenon DEF ApplicationInv, LifecycleInv
  <1> QED  BY <1>1, ApplicationSafe, PTL

\* When every Run and Shutdown has returned nothing is left running but what failed to
\* stop and what a failed Start left behind, unless a Run was overtaken.
THEOREM LeavesNothingRunning == Spec => []NothingLeftRunning
  <1>1. ApplicationInv => NothingLeftRunning
    <2> SUFFICES ASSUME ApplicationInv, \A w \in Callers : pc[w] \in {"new", "done"}, ~overtaken
                 PROVE  up \subseteq stuck \cup leftover
      BY Zenon DEF NothingLeftRunning
    <2>1. TypeOK /\ UpInv /\ Attended
      BY Zenon DEF ApplicationInv, LifecycleInv, RunInv
    <2>2. Phase = "idle"
      BY <2>1, Zenon DEF TypeOK, Phase
    <2>3. ~started
      BY <2>1, RunnersAssumption, Zenon DEF Attended, Among, StopLabels
    <2> QED  BY <2>1, <2>2, <2>3 DEF UpInv, Occurs
  <1> QED  BY <1>1, ApplicationSafe, PTL

\* Start reports a circular dependency only when registered services depend on one
\* another in a circle.
THEOREM ReportedCyclesAreReal == Spec => []CyclesAreReal
  <1>1. ApplicationInv => CyclesAreReal
    BY Zenon DEF ApplicationInv
  <1> QED  BY <1>1, ApplicationSafe, PTL

\* The state of the manager and of the application keeps its types, and the mutex is
\* held by the caller inside Start or Stop.
THEOREM ApplicationTypeCorrect == Spec => []TypeOK
  <1>1. ApplicationInv => TypeOK
    BY Zenon DEF ApplicationInv
  <1> QED  BY <1>1, ApplicationSafe, PTL
=============================================================================
