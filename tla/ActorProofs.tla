---------------------------- MODULE ActorProofs ----------------------------
(***************************************************************************)
(* Theorems about Actor, for every set of goroutines, every mailbox size   *)
(* and every number of sessions.                                           *)
(***************************************************************************)
EXTENDS Actor, FiniteSetTheorems, TLAPS

\* Session numbers are a non-empty range of naturals that contains zero.
LEMMA SessionsFacts == 0 \in Sessions /\ \A n \in Sessions : (n + 1) % SessionSpace \in Sessions
  BY SessionAssumption DEF Sessions

\* The initial data of NewActor is well typed, whichever stage Start is in.
LEMMA InitTypes ==
  ASSUME NEW label \in {"load", "select"}, InitData, InitPC(label)
  PROVE  TypeOK
  <1>1. PCTypes
    BY GoroutinesDisjoint, Zenon
       DEF InitPC, PCTypes, Goroutines, ClientPC, StarterPC, StopperPC, LoopPC
  <1>2. CoreTypes
    <2>1. mailbox \in Seq(Clients) /\ Len(mailbox) <= MailboxSize
      BY MailboxAssumption DEF InitData
    <2>2. cur \in [Starters -> Clients \cup {None}] /\ \A l \in Starters : cur[l] \notin Clients
      BY ClientsAssumption, Zenon DEF InitData
    <2>3. \A l \in Starters : pc[l] \in {"load", "select"}
      BY GoroutinesDisjoint, Zenon DEF InitPC, Goroutines
    <2> QED  BY <2>1, <2>2, <2>3, Zenon DEF InitData, CoreTypes, ActorState
  <1>3. CallTypes
    BY SessionsFacts, Zenon DEF InitData, CallTypes
  <1>4. HistoryTypes
    BY DEF InitData, HistoryTypes
  <1> QED  BY <1>1, <1>2, <1>3, <1>4, Zenon DEF TypeOK

\* Moving one goroutine to a stage of its own kind keeps PCTypes.
LEMMA GotoTypes ==
  ASSUME PCTypes, NEW g \in Goroutines, NEW label, Goto(g, label),
         g \in Clients => label \in ClientPC,
         g \in Starters => label \in StarterPC,
         g \in Stoppers => label \in StopperPC
  PROVE  /\ PCTypes'
         /\ pc'[g] = label
         /\ \A h \in Goroutines : h # g => pc'[h] = pc[h]
  BY GoroutinesDisjoint, Zenon DEF PCTypes, Goto, Goroutines

\* Every step of Start keeps the types.
LEMMA StarterTypes ==
  ASSUME TypeOK, NEW s \in Starters, StarterStep(s)
  PROVE  TypeOK'
  <1> USE DEF TypeOK, StarterStep, StartLoad, StartSpawn
  <1>1. PCTypes'
    BY GoroutinesDisjoint, GotoTypes, Zenon DEF Goroutines, StarterPC, LoopPC
  <1>2. CoreTypes'
    BY GoroutinesDisjoint, GotoTypes DEF CoreTypes, Goroutines, StarterPC, LoopPC
  <1>3. CallTypes' /\ HistoryTypes'
    BY Zenon DEF CallTypes, HistoryTypes, callVars, history
  <1> QED  BY <1>1, <1>2, <1>3, Zenon

\* Every step of Stop keeps the types.
LEMMA StopperTypes ==
  ASSUME TypeOK, NEW p \in Stoppers, StopperStep(p)
  PROVE  TypeOK'
  <1> USE DEF TypeOK, StopperStep, StopFromIdle, StopFromRunning, StopCancel, StopWait,
              StopStore
  <1>1. PCTypes' /\ \A l \in Starters : pc'[l] = pc[l]
    BY GoroutinesDisjoint, GotoTypes, Zenon DEF Goroutines, StopperPC
  <1>2. CoreTypes'
    BY <1>1, Zenon DEF CoreTypes, ActorState
  <1>3. CallTypes' /\ HistoryTypes'
    BY Zenon DEF CallTypes, HistoryTypes, callVars, history
  <1> QED  BY <1>1, <1>2, <1>3, Zenon

\* Return keeps the types of what Send and Call change.
LEMMA ReturnTypes ==
  ASSUME TypeOK, NEW c \in Clients, NEW r \in Results, Return(c, r)
  PROVE  /\ PCTypes'
         /\ \A l \in Starters : pc'[l] = pc[l]
         /\ result' \in [Clients -> Results \cup {None}]
         /\ pendingCalls' \in [Sessions -> Clients \cup {None}]
  <1>1. Goto(c, "done")
    BY Zenon DEF Return
  <1>2. PCTypes' /\ \A l \in Starters : pc'[l] = pc[l]
    BY <1>1, GotoTypes, GoroutinesDisjoint, Zenon DEF TypeOK, Goroutines, ClientPC
  <1> QED  BY <1>2, Zenon DEF Return, TypeOK, CallTypes

\* Every step of Send and Call keeps the types.
LEMMA ClientTypes ==
  ASSUME TypeOK, NEW c \in Clients, ClientStep(c) \/ CallTimeout(c)
  PROVE  TypeOK'
  <1> USE DEF TypeOK
  <1> \A label : Goto(c, label) /\ label \in ClientPC =>
        PCTypes' /\ \A l \in Starters : pc'[l] = pc[l]
    BY GotoTypes, GoroutinesDisjoint, Zenon DEF Goroutines
  <1>1. CASE CallBegin(c)
    <2>1. PCTypes' /\ \A l \in Starters : pc'[l] = pc[l]
      BY <1>1, Zenon DEF CallBegin, ClientPC
    <2>2. CoreTypes' /\ HistoryTypes'
      BY <1>1, <2>1, Zenon DEF CallBegin, CoreTypes, HistoryTypes, history
    <2>3. CallTypes'
      BY <1>1, SessionsFacts, Zenon DEF CallBegin, CallTypes
    <2> QED  BY <2>1, <2>2, <2>3, Zenon
  <1>2. CASE SendCheck(c)
    <2>1. /\ PCTypes' /\ \A l \in Starters : pc'[l] = pc[l]
          /\ result' \in [Clients -> Results \cup {None}]
          /\ pendingCalls' \in [Sessions -> Clients \cup {None}]
      BY <1>2, ReturnTypes, Zenon DEF SendCheck, ClientPC, Results, CallTypes
    <2> QED  BY <1>2, <2>1, Zenon DEF SendCheck, CoreTypes, CallTypes, HistoryTypes, history
  <1>3. CASE SendEnqueue(c)
    <2>1. /\ PCTypes' /\ \A l \in Starters : pc'[l] = pc[l]
          /\ result' \in [Clients -> Results \cup {None}]
          /\ pendingCalls' \in [Sessions -> Clients \cup {None}]
      BY <1>3, ReturnTypes, Zenon DEF SendEnqueue, ClientPC, Results, CallTypes
    <2>2. mailbox' \in Seq(Clients) /\ Len(mailbox') <= MailboxSize /\ accepted' \in Seq(Clients)
      BY <1>3, MailboxAssumption DEF SendEnqueue, CoreTypes, HistoryTypes
    <2> QED  BY <1>3, <2>1, <2>2, Zenon DEF SendEnqueue, CoreTypes, CallTypes, HistoryTypes
  <1>4. CASE SendOnClosed(c)
    BY <1>4, Zenon DEF SendOnClosed, PCTypes, CoreTypes, CallTypes, HistoryTypes, callVars, history
  <1>5. CASE SendRefused(c) \/ CallReturn(c) \/ CallTimeout(c)
    <2>1. PICK r \in Results : Return(c, r)
      BY <1>5, Zenon DEF SendRefused, CallReturn, CallTimeout, Results, CallTypes
    <2>2. /\ PCTypes' /\ \A l \in Starters : pc'[l] = pc[l]
          /\ result' \in [Clients -> Results \cup {None}]
          /\ pendingCalls' \in [Sessions -> Clients \cup {None}]
      BY <2>1, ReturnTypes, Zenon
    <2> QED  BY <1>5, <2>2, Zenon DEF SendRefused, CallReturn, CallTimeout, CoreTypes, CallTypes,
                               HistoryTypes, history
  <1> QED  BY <1>1, <1>2, <1>3, <1>4, <1>5, Zenon DEF ClientStep

\* sendResponse writes a response to a response channel.
LEMMA ResponseTypes ==
  ASSUME TypeOK, NEW m \in Clients, NEW r \in Responses, SendResponse(m, r)
  PROVE  resp' \in [Clients -> Responses \cup {None}]
  BY Zenon DEF TypeOK, CallTypes, SendResponse

\* Every step of the message loop keeps the types.
LEMMA LoopTypes ==
  ASSUME TypeOK, NEW l \in Starters, LoopStep(l)
  PROVE  TypeOK'
  <1> USE DEF TypeOK
  <1> \A label : Goto(l, label) /\ label \in StarterPC =>
        /\ PCTypes' /\ pc'[l] = label
        /\ \A k \in Starters : k # l => pc'[k] = pc[k]
    BY GotoTypes, GoroutinesDisjoint, Zenon DEF Goroutines
  <1>1. CASE LoopReceive(l)
    <2>1. Head(mailbox) \in Clients /\ Tail(mailbox) \in Seq(Clients)
          /\ Len(Tail(mailbox)) <= MailboxSize
      BY <1>1, MailboxAssumption DEF LoopReceive, CoreTypes
    <2>2. PCTypes' /\ CoreTypes'
      BY <1>1, <2>1, ClientsAssumption, Zenon DEF LoopReceive, CoreTypes, StarterPC, LoopPC
    <2>3. CallTypes' /\ HistoryTypes'
      BY <1>1, <2>1 DEF LoopReceive, CallTypes, HistoryTypes, callVars
    <2> QED  BY <2>2, <2>3, Zenon
  <1>2. CASE ProcessBegin(l)
    <2>1. PCTypes' /\ CoreTypes'
      BY <1>2, Zenon DEF ProcessBegin, CoreTypes, StarterPC, LoopPC, ActorState
    <2> QED  BY <1>2, <2>1, Zenon DEF ProcessBegin, CallTypes, HistoryTypes, callVars, history
  <1>3. CASE \E r \in Responses : HandlerReturn(l, r)
    <2>1. PICK r \in Responses : HandlerReturn(l, r)
      BY <1>3, Zenon
    <2>2. cur[l] \in Clients
      BY <2>1, Zenon DEF HandlerReturn, CoreTypes
    <2>3. PCTypes' /\ CoreTypes'
      BY <2>1, Zenon DEF HandlerReturn, CoreTypes, StarterPC, LoopPC
    <2>4. CallTypes' /\ HistoryTypes'
      BY <2>1, <2>2, ResponseTypes, Zenon DEF HandlerReturn, CallTypes, HistoryTypes
    <2> QED  BY <2>3, <2>4, Zenon
  <1>4. CASE ProcessEnd(l)
    <2>1. PCTypes' /\ CoreTypes'
      BY <1>4, ClientsAssumption DEF ProcessEnd, CoreTypes, StarterPC, LoopPC, ActorState
    <2> QED  BY <1>4, <2>1, Zenon DEF ProcessEnd, CallTypes, HistoryTypes, callVars, history
  <1>5. CASE LoopCancelled(l) \/ DrainEnd(l) \/ LoopExit(l)
    <2>1. closed' \in BOOLEAN /\ crashed' \in BOOLEAN
      BY <1>5, Zenon DEF LoopCancelled, DrainEnd, LoopExit, CoreTypes
    <2>2. PCTypes' /\ CoreTypes'
      BY <1>5, <2>1, SMTT(30) DEF LoopCancelled, DrainEnd, LoopExit, CoreTypes, StarterPC, LoopPC
    <2> QED  BY <1>5, <2>2, Zenon DEF LoopCancelled, DrainEnd, LoopExit, CallTypes, HistoryTypes,
                               callVars, history
  <1>6. CASE DrainOne(l)
    <2>1. Head(mailbox) \in Clients /\ Tail(mailbox) \in Seq(Clients)
          /\ Len(Tail(mailbox)) <= MailboxSize
      BY <1>6, MailboxAssumption DEF DrainOne, CoreTypes
    <2>2. PCTypes'
      BY <1>6, Zenon DEF DrainOne, PCTypes
    <2>3. CoreTypes'
      BY <1>6, <2>1, Zenon DEF DrainOne, CoreTypes
    <2>4. "error" \in Responses
      BY Zenon DEF Responses
    <2>5. CallTypes' /\ HistoryTypes'
      BY <1>6, <2>1, <2>4, ResponseTypes DEF DrainOne, CallTypes, HistoryTypes
    <2> QED  BY <2>2, <2>3, <2>5, Zenon
  <1> QED  BY <1>1, <1>2, <1>3, <1>4, <1>5, <1>6, Zenon DEF LoopStep

\* The types hold initially, whether Start races or has returned, and every step
\* of every goroutine keeps them.
LEMMA TypeStep == TypeOK /\ [Next]_vars => TypeOK'
  <1> SUFFICES ASSUME TypeOK, [Next]_vars PROVE TypeOK'
    BY Zenon
  <1>1. CASE UNCHANGED vars
    BY <1>1, Zenon DEF vars, TypeOK, PCTypes, CoreTypes, CallTypes, HistoryTypes
  <1>2. CASE Next
    BY <1>2, StarterTypes, StopperTypes, ClientTypes, LoopTypes, Zenon DEF Next
  <1> QED  BY <1>1, <1>2, Zenon

\* TypeOK is an invariant of the actor whatever goroutines use it.
THEOREM TypeCorrect == Spec => []TypeOK
  <1>1. Init => TypeOK
    BY InitTypes, Zenon DEF Init
  <1> QED  BY <1>1, TypeStep, PTL DEF Spec

\* The same when Start has returned before anything else happens.
THEOREM StartedTypeCorrect == StartedSpec => []TypeOK
  <1>1. StartedInit => TypeOK
    BY InitTypes, Zenon DEF StartedInit
  <1> QED  BY <1>1, TypeStep, PTL DEF StartedSpec

----------------------------------------------------------------------------
(* Stop waits for the message loop                                         *)

\* Why NoWorkAfterStop holds when Start came first: no loop can appear any more,
\* the wait is passed only when none is alive, and Stopped is stored after it.
StopInv ==
  /\ \A s \in Starters : pc[s] \notin {"load", "spawn"}
  /\ (\E p \in Stoppers : pc[p] \in {"store", "stopped"}) => NoLoopRuns
  /\ state = "Stopped" => \E p \in Stoppers : pc[p] = "stopped"

\* A step of a goroutine that is not a starter leaves the loops where they are.
LEMMA StopInvStep ==
  ASSUME TypeOK, StopInv, [Next]_vars
  PROVE  StopInv' /\ (state = "Stopped" => state' = "Stopped")
  <1> USE DEF TypeOK, StopInv, NoLoopRuns
  <1>1. CASE UNCHANGED vars
    BY <1>1, Zenon DEF vars
  <1>2. ASSUME NEW s \in Starters, StarterStep(s)
        PROVE  FALSE
    BY <1>2, Zenon DEF StarterStep, StartLoad, StartSpawn
  <1>3. ASSUME NEW l \in Starters, LoopStep(l)
        PROVE  StopInv' /\ (state = "Stopped" => state' = "Stopped")
    <2>1. pc[l] \in LoopPC
      BY <1>3, Zenon DEF LoopStep, LoopReceive, ProcessBegin, HandlerReturn, ProcessEnd,
                  LoopCancelled, DrainOne, DrainEnd, LoopExit, LoopPC
    <2>2. state # "Stopped" /\ \A p \in Stoppers : pc[p] \notin {"store", "stopped"}
      BY <2>1, Zenon
    <2>3. state' # "Stopped"
      BY <1>3, <2>2, Zenon DEF LoopStep, LoopReceive, ProcessBegin, HandlerReturn, ProcessEnd,
                        LoopCancelled, DrainOne, DrainEnd, LoopExit
    <2>4. /\ pc'[l] \in LoopPC \cup {"exited"}
          /\ \A g \in Goroutines : g # l => pc'[g] = pc[g]
      BY <1>3, Zenon DEF LoopStep, LoopReceive, ProcessBegin, HandlerReturn, ProcessEnd,
                  LoopCancelled, DrainOne, DrainEnd, LoopExit, LoopPC, Goto, PCTypes, Goroutines
    <2> QED  BY <2>2, <2>3, <2>4, GoroutinesDisjoint, Zenon DEF LoopPC, Goroutines
  <1>4. ASSUME NEW c \in Clients, ClientStep(c) \/ CallTimeout(c)
        PROVE  StopInv' /\ (state = "Stopped" => state' = "Stopped")
    <2>1. state' = state /\ \A g \in Starters \cup Stoppers : pc'[g] = pc[g]
      BY <1>4, GoroutinesDisjoint, Zenon
         DEF ClientStep, CallBegin, SendCheck, SendEnqueue, SendOnClosed, SendRefused,
             CallReturn, CallTimeout, Return, Goto, PCTypes, Goroutines
    <2> QED  BY <2>1, Zenon
  <1>5. ASSUME NEW p \in Stoppers, StopperStep(p)
        PROVE  StopInv' /\ (state = "Stopped" => state' = "Stopped")
    <2>1. \A g \in Goroutines : g # p => pc'[g] = pc[g]
      BY <1>5, Zenon DEF StopperStep, StopFromIdle, StopFromRunning, StopCancel, StopWait, StopStore,
                  Goto, PCTypes, Goroutines
    <2>2. \A l \in Starters : pc'[l] = pc[l]
      BY <2>1, GoroutinesDisjoint, Zenon DEF Goroutines
    <2>3. pc[p] # "stopped"
      BY <1>5, Zenon DEF StopperStep, StopFromIdle, StopFromRunning, StopCancel, StopWait, StopStore
    <2>4. \A q \in Stoppers : pc[q] = "stopped" => pc'[q] = "stopped"
      BY <2>1, <2>3, Zenon DEF Goroutines
    <2>5. state = "Stopped" => state' = "Stopped"
      BY <1>5, Zenon DEF StopperStep, StopFromIdle, StopFromRunning, StopCancel, StopWait, StopStore
    <2>6. pc'[p] \in {"store", "stopped"} => NoLoopRuns
      BY <1>5, Zenon DEF StopperStep, StopFromIdle, StopFromRunning, StopCancel, StopWait, StopStore,
                  Goto, PCTypes, Goroutines
    <2>7. state' = "Stopped" => \E q \in Stoppers : pc'[q] = "stopped"
      BY <1>5, <2>4, Zenon DEF StopperStep, StopFromIdle, StopFromRunning, StopCancel, StopWait,
                        StopStore, Goto, PCTypes, Goroutines
    <2> QED  BY <2>1, <2>2, <2>5, <2>6, <2>7, Zenon DEF Goroutines
  <1> QED  BY <1>1, <1>2, <1>3, <1>4, <1>5, Zenon DEF Next

\* StopInv holds along every behaviour in which Start came first.
LEMMA StopInvariant == StartedSpec => [](TypeOK /\ StopInv)
  <1>1. StartedInit => StopInv
    BY GoroutinesDisjoint, Zenon DEF StartedInit, InitData, InitPC, StopInv, Goroutines
  <1>2. TypeOK /\ StopInv /\ [Next]_vars => StopInv'
    BY StopInvStep, Zenon
  <1> QED  BY <1>1, <1>2, StartedTypeCorrect, PTL DEF StartedSpec

\* When Start has returned before the other calls begin, a Stop that returned nil
\* waited for the loop: no handler runs after it.
THEOREM StopWaitsForLoop == StartedSpec => []NoWorkAfterStop
  <1>1. StopInv => NoWorkAfterStop
    BY Zenon DEF StopInv, NoWorkAfterStop
  <1> QED  BY <1>1, StopInvariant, PTL

\* Under the same condition no store of processMessage or of another Stop
\* overwrites Stopped.
THEOREM StoppedStays == StartedSpec => StoppedIsFinal
  <1>1. TypeOK /\ StopInv /\ [Next]_vars => [state = "Stopped" => state' = "Stopped"]_state
    BY StopInvStep, Zenon
  <1> QED  BY <1>1, StopInvariant, PTL DEF StartedSpec, StoppedIsFinal

----------------------------------------------------------------------------
(* Sequences                                                               *)

\* Moving the head of a queue behind what was taken before keeps the whole order.
LEMMA MoveHead ==
  ASSUME NEW S, NEW a \in Seq(S), NEW b \in Seq(S), b # << >>
  PROVE  Append(a, Head(b)) \o Tail(b) = a \o b
  OBVIOUS

\* What an appended sequence holds.
LEMMA AppendFacts ==
  \A q \in Seq(Clients), x \in Clients :
    /\ Len(q) \in Nat /\ Len(Append(q, x)) = Len(q) + 1
    /\ Append(q, x)[Len(q) + 1] = x
    /\ \A i \in 1 .. Len(q) : Append(q, x)[i] = q[i]
  OBVIOUS

\* Appending to the last of three queues appends to the whole order.
LEMMA AppendLast ==
  \A a, b, d \in Seq(Clients), x \in Clients :
    a \o b \o Append(d, x) = Append(a \o b \o d, x)
  OBVIOUS

\* Nothing stands between what was taken and what is queued when nothing is drained.
LEMMA NothingDrained ==
  ASSUME NEW S, NEW a \in Seq(S), NEW b \in Seq(S)
  PROVE  a \o << >> \o b = a \o b
  OBVIOUS

\* The same head move behind a fixed prefix.
LEMMA MoveHeadBehind ==
  \A a, b, d \in Seq(Clients) :
    d # << >> => a \o Append(b, Head(d)) \o Tail(d) = a \o b \o d
  <1> SUFFICES ASSUME NEW a \in Seq(Clients), NEW b \in Seq(Clients), NEW d \in Seq(Clients),
                      d # << >>
               PROVE  a \o Append(b, Head(d)) \o Tail(d) = a \o b \o d
    BY Zenon
  <1> DEFINE front == Append(b, Head(d))
             back  == Tail(d)
  <1>1. front \in Seq(Clients) /\ back \in Seq(Clients)
    OBVIOUS
  <1>2. front \o back = b \o d
    BY MoveHead, Zenon
  <1> HIDE DEF front, back
  <1>3. (a \o front) \o back = a \o (front \o back)
    BY <1>1
  <1>4. (a \o b) \o d = a \o (b \o d)
    OBVIOUS
  <1>5. (a \o front) \o back = (a \o b) \o d
    BY <1>2, <1>3, <1>4, Zenon
  <1> QED  BY <1>5, Zenon DEF front, back

----------------------------------------------------------------------------
(* Order of messages, when Start is called once                            *)

\* Why MessageOrder holds: once a message was drained, the only loop is draining
\* or gone, so nothing is taken behind what was drained.
OrderInv ==
  /\ MessageOrder
  /\ \A l \in Starters : pc[l] \notin {"drain", "close", "exited"} => drained = << >>

\* Steps that leave the mailbox and the histories alone keep MessageOrder.
LEMMA OrderStutter ==
  ASSUME MessageOrder, UNCHANGED <<mailbox, accepted, taken, drained>>
  PROVE  MessageOrder'
  BY Zenon DEF MessageOrder

\* OrderInv is kept by every step when there is a single starter.
LEMMA OrderInvStep ==
  ASSUME StartCalledOnce, TypeOK, OrderInv, [Next]_vars
  PROVE  OrderInv'
  <1> USE DEF TypeOK, OrderInv
  <1>1. CASE UNCHANGED vars
    BY <1>1, OrderStutter, Zenon DEF vars
  <1>2. ASSUME NEW s \in Starters, StarterStep(s)
        PROVE  OrderInv'
    <2>1. pc[s] \in {"load", "spawn"} /\ UNCHANGED <<mailbox, accepted, taken, drained>>
      BY <1>2, Zenon DEF StarterStep, StartLoad, StartSpawn, history
    <2> QED  BY <2>1, OrderStutter, Zenon DEF StartCalledOnce
  <1>3. ASSUME NEW p \in Stoppers, StopperStep(p)
        PROVE  OrderInv'
    <2>1. /\ UNCHANGED <<mailbox, accepted, taken, drained>>
          /\ \A l \in Starters : pc'[l] = pc[l]
      BY <1>3, GoroutinesDisjoint, Zenon
         DEF StopperStep, StopFromIdle, StopFromRunning, StopCancel, StopWait, StopStore,
             Goto, history, PCTypes, Goroutines
    <2> QED  BY <2>1, OrderStutter, Zenon
  <1>4. ASSUME NEW c \in Clients, ClientStep(c) \/ CallTimeout(c)
        PROVE  OrderInv'
    <2>1. UNCHANGED <<taken, drained>> /\ \A l \in Starters : pc'[l] = pc[l]
      BY <1>4, GoroutinesDisjoint, Zenon
         DEF ClientStep, CallBegin, SendCheck, SendEnqueue, SendOnClosed, SendRefused,
             CallReturn, CallTimeout, Return, Goto, history, PCTypes, Goroutines
    <2>2. CASE SendEnqueue(c)
      <3>1. mailbox' = Append(mailbox, c) /\ accepted' = Append(accepted, c)
        BY <2>2, Zenon DEF SendEnqueue
      <3>2. taken \o drained \o Append(mailbox, c) = Append(taken \o drained \o mailbox, c)
        <4>1. taken \in Seq(Clients) /\ drained \in Seq(Clients) /\ mailbox \in Seq(Clients)
          BY Zenon DEF CoreTypes, HistoryTypes
        <4> QED  BY <4>1, AppendLast, Zenon
      <3>3. MessageOrder'
        BY <2>1, <3>1, <3>2, Zenon DEF MessageOrder
      <3> QED  BY <2>1, <3>3, Zenon
    <2>3. CASE ~SendEnqueue(c)
      <3>1. UNCHANGED <<mailbox, accepted>>
        BY <1>4, <2>3, Zenon DEF ClientStep, CallBegin, SendCheck, SendOnClosed, SendRefused,
                          CallReturn, CallTimeout, history
      <3> QED  BY <2>1, <3>1, OrderStutter, Zenon
    <2> QED  BY <2>2, <2>3, Zenon
  <1>5. ASSUME NEW l \in Starters, LoopStep(l)
        PROVE  OrderInv'
    <2>0. pc' \in [Goroutines -> ClientPC \cup StarterPC \cup StopperPC] /\ l \in Goroutines
      BY <1>5, LoopTypes, Zenon DEF PCTypes, Goroutines
    <2>1. CASE LoopReceive(l)
      <3>1. drained = << >> /\ drained' = << >>
        BY <2>1, Zenon DEF LoopReceive
      <3>2. MessageOrder'
        BY <2>1, <3>1, MoveHead, NothingDrained, SMTT(30)
           DEF LoopReceive, MessageOrder, CoreTypes, HistoryTypes
      <3> QED  BY <3>1, <3>2, Zenon
    <2>2. CASE DrainOne(l)
      <3>1. MessageOrder'
        <4>1. /\ UNCHANGED <<accepted, taken>> /\ mailbox # << >>
              /\ mailbox' = Tail(mailbox) /\ drained' = Append(drained, Head(mailbox))
          BY <2>2, Zenon DEF DrainOne
        <4>2. taken \o Append(drained, Head(mailbox)) \o Tail(mailbox) = taken \o drained \o mailbox
          <5>1. taken \in Seq(Clients) /\ drained \in Seq(Clients) /\ mailbox \in Seq(Clients)
            BY Zenon DEF CoreTypes, HistoryTypes
          <5> QED  BY <4>1, <5>1, MoveHeadBehind, ZenonT(30)
        <4> QED  BY <4>1, <4>2, Zenon DEF MessageOrder
      <3> QED  BY <2>2, <3>1, Zenon DEF DrainOne, StartCalledOnce
    <2>3. CASE ~LoopReceive(l) /\ ~DrainOne(l)
      <3>1. UNCHANGED <<mailbox, accepted, taken, drained>>
        BY <1>5, <2>3, Zenon DEF LoopStep, ProcessBegin, HandlerReturn, ProcessEnd, LoopCancelled,
                          DrainEnd, LoopExit, history
      <3>2. pc'[l] \notin {"drain", "close", "exited"} => pc[l] \notin {"drain", "close", "exited"}
        BY <1>5, <2>0, <2>3, Zenon DEF LoopStep, ProcessBegin, HandlerReturn, ProcessEnd, LoopCancelled,
                          DrainEnd, LoopExit, Goto, PCTypes
      <3> QED  BY <3>1, <3>2, OrderStutter, Zenon DEF StartCalledOnce
    <2> QED  BY <2>1, <2>2, <2>3, Zenon
  <1> QED  BY <1>1, <1>2, <1>3, <1>4, <1>5, Zenon DEF Next

\* With one Start, whatever the interleaving of Send, Call, Stop and the loop,
\* messages leave the mailbox exactly once and in the order they entered it.
THEOREM InOrder == ASSUME StartCalledOnce PROVE Spec => []MessageOrder
  <1>1. Init => OrderInv
    BY DEF Init, InitData, OrderInv, MessageOrder
  <1>2. TypeOK /\ OrderInv /\ [Next]_vars => OrderInv'
    BY OrderInvStep, Zenon
  <1>3. OrderInv => MessageOrder
    BY Zenon DEF OrderInv
  <1> QED  BY <1>1, <1>2, <1>3, TypeCorrect, PTL DEF Spec

----------------------------------------------------------------------------
(* The actor implements SequentialServer                                   *)

\* Each client's message is accepted at most once, and the message a loop holds is
\* the last one it took.
DistinctInv ==
  /\ \A i, j \in 1 .. Len(accepted) : accepted[i] = accepted[j] => i = j
  /\ \A c \in Clients : pc[c] \in {"begin", "check", "send"} =>
       \A i \in 1 .. Len(accepted) : accepted[i] # c
  /\ \A l \in Starters : cur[l] # None => Len(taken) > 0 /\ cur[l] = taken[Len(taken)]

\* DistinctInv is kept by every step when there is a single starter.
LEMMA DistinctInvStep ==
  ASSUME StartCalledOnce, TypeOK, DistinctInv, [Next]_vars
  PROVE  DistinctInv'
  <1> USE DEF TypeOK, DistinctInv
  <1>1. CASE UNCHANGED vars
    BY <1>1, Zenon DEF vars
  <1>2. ASSUME NEW g \in Starters \cup Stoppers, UNCHANGED <<accepted, taken, cur>>,
               \A c \in Clients : pc'[c] = pc[c]
        PROVE  DistinctInv'
    BY <1>2, Zenon
  <1>3. ASSUME NEW s \in Starters, StarterStep(s)
        PROVE  DistinctInv'
    BY <1>2, <1>3, GoroutinesDisjoint, Zenon
       DEF StarterStep, StartLoad, StartSpawn, history, Goto, PCTypes, Goroutines
  <1>4. ASSUME NEW p \in Stoppers, StopperStep(p)
        PROVE  DistinctInv'
    BY <1>2, <1>4, GoroutinesDisjoint
       DEF StopperStep, StopFromIdle, StopFromRunning, StopCancel, StopWait, StopStore,
           history, Goto, PCTypes, Goroutines
  <1>5. ASSUME NEW c \in Clients, ClientStep(c) \/ CallTimeout(c)
        PROVE  DistinctInv'
    <2>1. UNCHANGED <<taken, cur>> /\ \A d \in Clients : d # c => pc'[d] = pc[d]
      BY <1>5, Zenon DEF ClientStep, CallBegin, SendCheck, SendEnqueue, SendOnClosed, SendRefused,
                  CallReturn, CallTimeout, Return, history, Goto, PCTypes, Goroutines
    <2>2. CASE SendEnqueue(c)
      <3>1. pc'[c] \in {"wait", "done"} /\ pc[c] = "send" /\ accepted' = Append(accepted, c)
        BY <2>2, Zenon DEF SendEnqueue, Return, Goto, PCTypes, Goroutines
      <3>2. /\ Len(accepted) \in Nat /\ Len(accepted') = Len(accepted) + 1
            /\ accepted'[Len(accepted) + 1] = c
            /\ \A i \in 1 .. Len(accepted) : accepted'[i] = accepted[i]
        <4>1. accepted \in Seq(Clients)
          BY Zenon DEF HistoryTypes
        <4> QED  BY <3>1, <4>1, AppendFacts, ZenonT(30)
      <3>3. \A i \in 1 .. Len(accepted') : i \in 1 .. Len(accepted) \/ i = Len(accepted) + 1
        BY <3>2
      <3>4. \A i, j \in 1 .. Len(accepted') : accepted'[i] = accepted'[j] => i = j
        BY <3>1, <3>2, <3>3
      <3>5. \A d \in Clients : pc'[d] \in {"begin", "check", "send"} =>
              \A i \in 1 .. Len(accepted') : accepted'[i] # d
        BY <2>1, <3>1, <3>2, <3>3
      <3> QED  BY <2>1, <3>4, <3>5, Zenon
    <2>3. CASE ~SendEnqueue(c)
      <3>1. accepted' = accepted /\
            (pc'[c] \in {"begin", "check", "send"} => pc[c] \in {"begin", "check", "send"})
        BY <1>5, <2>3, Zenon DEF ClientStep, CallBegin, SendCheck, SendOnClosed, SendRefused,
                  CallReturn, CallTimeout, Return, history, Goto, PCTypes, Goroutines
      <3> QED  BY <2>1, <3>1, Zenon
    <2> QED  BY <2>2, <2>3, Zenon
  <1>6. ASSUME NEW l \in Starters, LoopStep(l)
        PROVE  DistinctInv'
    <2>1. accepted' = accepted /\ \A c \in Clients : pc'[c] = pc[c]
      BY <1>6, GoroutinesDisjoint, Zenon
         DEF LoopStep, LoopReceive, ProcessBegin, HandlerReturn, ProcessEnd, LoopCancelled,
             DrainOne, DrainEnd, LoopExit, history, Goto, PCTypes, Goroutines
    <2>2. CASE LoopReceive(l)
      <3>1. taken' = Append(taken, Head(mailbox)) /\ cur'[l] = Head(mailbox)
        BY <2>2, Zenon DEF LoopReceive, CoreTypes
      <3>2. Len(taken') = Len(taken) + 1 /\ Len(taken) \in Nat /\ taken'[Len(taken) + 1] = cur'[l]
        <4>1. taken \in Seq(Clients) /\ Head(mailbox) \in Clients
          BY <2>2 DEF LoopReceive, CoreTypes, HistoryTypes
        <4> QED  BY <3>1, <4>1, AppendFacts, Zenon
      <3>3. \A k \in Starters : cur'[k] # None => Len(taken') > 0 /\ cur'[k] = taken'[Len(taken')]
        <4>1. Len(taken') > 0 /\ cur'[l] = taken'[Len(taken')]
          BY <3>2
        <4>2. \A k \in Starters : k = l
          BY Zenon DEF StartCalledOnce
        <4> QED  BY <4>1, <4>2, Zenon
      <3> QED  BY <2>1, <3>3
    <2>3. CASE ProcessEnd(l)
      <3>1. cur'[l] = None
        BY <2>3, Zenon DEF ProcessEnd, CoreTypes
      <3> QED  BY <2>1, <3>1, Zenon DEF StartCalledOnce
    <2>4. CASE ~LoopReceive(l) /\ ~ProcessEnd(l)
      BY <1>6, <2>1, <2>4, ZenonT(30)
         DEF LoopStep, ProcessBegin, HandlerReturn, LoopCancelled, DrainOne, DrainEnd, LoopExit,
             history
    <2> QED  BY <2>2, <2>3, <2>4, Zenon
  <1> QED  BY <1>1, <1>3, <1>4, <1>5, <1>6, Zenon DEF Next

\* With one starter, the message in service is the one its loop holds.
LEMMA ServingIsCurrent ==
  ASSUME StartCalledOnce, NEW l \in Starters
  PROVE  Serving = cur[l] /\ Serving' = cur'[l]
  BY Zenon DEF Serving, Busy, StartCalledOnce

\* The set of elements of a sequence.
Elements(q) == {q[i] : i \in DOMAIN q}

\* Appending an element adds it to the set of elements.
LEMMA AppendElements ==
  \A q \in Seq(Clients), x \in Clients :
    Elements(Append(q, x)) = Elements(q) \cup {x}
  <1> TAKE q \in Seq(Clients), x \in Clients
  <1> DEFINE r == Append(q, x)
  <1>1. /\ Len(q) \in Nat /\ DOMAIN q = 1 .. Len(q) /\ DOMAIN r = 1 .. Len(q) + 1
        /\ r[Len(q) + 1] = x /\ \A i \in 1 .. Len(q) : r[i] = q[i]
    OBVIOUS
  <1> HIDE DEF r
  <1>2. \A i \in DOMAIN r : i \in DOMAIN q \/ i = Len(q) + 1
    BY <1>1
  <1>3. Elements(r) = Elements(q) \cup {x}
    BY <1>1, <1>2 DEF Elements
  <1> QED  BY <1>3, Zenon DEF r

\* The two parts of a concatenation.
LEMMA ConcatParts ==
  \A a, b \in Seq(Clients) :
    /\ Len(a \o b) = Len(a) + Len(b)
    /\ \A i \in 1 .. Len(a) : (a \o b)[i] = a[i]
    /\ \A i \in 1 .. Len(b) : (a \o b)[Len(a) + i] = b[i]
  OBVIOUS

\* Where the parts of the order lie inside the accepted messages.
LEMMA WhereMessagesAre ==
  ASSUME TypeOK, MessageOrder
  PROVE  /\ Len(accepted) = Len(taken) + Len(drained) + Len(mailbox)
         /\ \A i \in 1 .. Len(taken) : taken[i] = accepted[i]
         /\ \A i \in 1 .. Len(drained) : drained[i] = accepted[Len(taken) + i]
         /\ \A i \in 1 .. Len(mailbox) : mailbox[i] = accepted[Len(taken) + Len(drained) + i]
         /\ Len(taken) \in Nat /\ Len(drained) \in Nat /\ Len(mailbox) \in Nat
         /\ DOMAIN taken = 1 .. Len(taken) /\ DOMAIN drained = 1 .. Len(drained)
         /\ DOMAIN mailbox = 1 .. Len(mailbox)
  <1>1. taken \in Seq(Clients) /\ drained \in Seq(Clients) /\ mailbox \in Seq(Clients)
    BY Zenon DEF TypeOK, CoreTypes, HistoryTypes
  <1> DEFINE front == taken \o drained
  <1>2. /\ front \in Seq(Clients) /\ Len(front) = Len(taken) + Len(drained)
        /\ \A i \in 1 .. Len(taken) : front[i] = taken[i]
        /\ \A i \in 1 .. Len(drained) : front[Len(taken) + i] = drained[i]
    BY <1>1
  <1> HIDE DEF front
  <1>3. /\ Len(front \o mailbox) = Len(front) + Len(mailbox)
        /\ \A i \in 1 .. Len(front) : (front \o mailbox)[i] = front[i]
        /\ \A i \in 1 .. Len(mailbox) : (front \o mailbox)[Len(front) + i] = mailbox[i]
    BY <1>1, <1>2, ConcatParts, Zenon
  <1>4. accepted = front \o mailbox
    BY Zenon DEF MessageOrder, front
  <1>5. Len(taken) \in Nat /\ Len(drained) \in Nat /\ Len(mailbox) \in Nat
    BY <1>1
  <1>6. Len(accepted) = Len(taken) + Len(drained) + Len(mailbox)
    BY <1>2, <1>3, <1>4, Zenon
  <1>7. \A i \in 1 .. Len(taken) : taken[i] = accepted[i]
    BY <1>2, <1>3, <1>4, <1>5
  <1>8. \A i \in 1 .. Len(drained) : drained[i] = accepted[Len(taken) + i]
    <2> TAKE i \in 1 .. Len(drained)
    <2>1. Len(taken) + i \in 1 .. Len(front)
      BY <1>2, <1>5
    <2> QED  BY <1>2, <1>3, <1>4, <2>1, Zenon
  <1>9. \A i \in 1 .. Len(mailbox) : mailbox[i] = accepted[Len(taken) + Len(drained) + i]
    BY <1>2, <1>3, <1>4, Zenon
  <1>10. /\ DOMAIN taken = 1 .. Len(taken) /\ DOMAIN drained = 1 .. Len(drained)
         /\ DOMAIN mailbox = 1 .. Len(mailbox)
    BY <1>1
  <1> QED  BY <1>5, <1>6, <1>7, <1>8, <1>9, <1>10, Zenon

\* One step of the actor is a step of the abstract server or leaves it unchanged.
LEMMA ServerStep ==
  ASSUME StartCalledOnce, TypeOK, TypeOK', OrderInv, DistinctInv, [Next]_vars
  PROVE  [Server!Next]_(Server!sv)
  <1> USE DEF Server!sv
  <1>0. MessageOrder
    BY Zenon DEF OrderInv
  <1>1. ASSUME UNCHANGED <<mailbox, cur, taken, drained>>
        PROVE  UNCHANGED Server!sv
    <2>1. Busy' = Busy
      BY <1>1, Zenon DEF Busy
    <2>2. Serving' = Serving
      BY <1>1, <2>1 DEF Serving
    <2> QED  BY <1>1, <2>2, Zenon
  <1>2. CASE UNCHANGED vars
    BY <1>1, <1>2, Zenon DEF vars
  <1>3. ASSUME NEW s \in Starters, StarterStep(s)
        PROVE  UNCHANGED Server!sv
    BY <1>1, <1>3, Zenon DEF StarterStep, StartLoad, StartSpawn, history
  <1>4. ASSUME NEW p \in Stoppers, StopperStep(p)
        PROVE  UNCHANGED Server!sv
    BY <1>1, <1>4, Zenon
       DEF StopperStep, StopFromIdle, StopFromRunning, StopCancel, StopWait, StopStore, history
  <1>5. ASSUME NEW c \in Clients, ClientStep(c) \/ CallTimeout(c), ~SendEnqueue(c)
        PROVE  UNCHANGED Server!sv
    BY <1>1, <1>5, Zenon
       DEF ClientStep, CallBegin, SendCheck, SendOnClosed, SendRefused, CallReturn, CallTimeout,
           history
  <1>6. ASSUME NEW c \in Clients, SendEnqueue(c)
        PROVE  Server!Accept(c)
    <2>1. /\ UNCHANGED <<cur, taken, drained>> /\ mailbox' = Append(mailbox, c)
          /\ pc[c] = "send"
      BY <1>6, Zenon DEF SendEnqueue
    <2>2. UNCHANGED Serving
      BY <2>1 DEF Serving, Busy
    <2>3. \A i \in 1 .. Len(accepted) : accepted[i] # c
      BY <2>1, Zenon DEF DistinctInv
    <2>4. c \notin {mailbox[i] : i \in DOMAIN mailbox} \cup {taken[i] : i \in DOMAIN taken}
                     \cup {drained[i] : i \in DOMAIN drained}
      <3>1. \A i \in DOMAIN mailbox : mailbox[i] # c
        BY <1>0, <2>3, WhereMessagesAre
      <3>2. \A i \in DOMAIN taken : taken[i] # c
        BY <1>0, <2>3, WhereMessagesAre
      <3>3. \A i \in DOMAIN drained : drained[i] # c
        BY <1>0, <2>3, WhereMessagesAre
      <3> QED  BY <3>1, <3>2, <3>3, Zenon
    <2>5. c # Serving
      <3>1. CASE Busy = {}
        BY <3>1, ClientsAssumption, Zenon DEF Serving
      <3>2. CASE Busy # {}
        <4>1. PICK l \in Starters : cur[l] # None /\ Serving = cur[l]
          BY <3>2, Zenon DEF Serving, Busy
        <4>2. Len(taken) \in DOMAIN taken /\ cur[l] = taken[Len(taken)]
          BY <4>1, <1>0, WhereMessagesAre DEF DistinctInv
        <4> QED  BY <2>4, <4>1, <4>2, Zenon
      <3> QED  BY <3>1, <3>2, Zenon
    <2> QED  BY <2>1, <2>2, <2>4, <2>5, Zenon DEF Server!Accept, Server!Waiting
  <1>7. ASSUME NEW l \in Starters, LoopReceive(l)
        PROVE  Server!Serve
    <2>1. /\ mailbox # << >> /\ mailbox' = Tail(mailbox) /\ drained' = drained
          /\ taken' = Append(taken, Head(mailbox))
          /\ cur'[l] = Head(mailbox) /\ pc[l] = "select"
      BY <1>7, Zenon DEF LoopReceive, TypeOK, CoreTypes
    <2>2. cur[l] = None /\ drained = << >>
      BY <2>1, Zenon DEF TypeOK, CoreTypes, OrderInv
    <2>3. Serving = None /\ Serving' = Head(mailbox)
      BY <2>1, <2>2, ServingIsCurrent, Zenon
    <2>4. Head(mailbox) = mailbox[1] /\ 1 \in 1 .. Len(mailbox)
      <3>1. mailbox \in Seq(Clients)
        BY Zenon DEF TypeOK, CoreTypes
      <3> QED  BY <2>1, <3>1
    <2>5. Head(mailbox) = accepted[Len(taken) + 1] /\ Len(taken) + 1 \in 1 .. Len(accepted)
      <3>1. Len(drained) = 0
        BY <2>2, Zenon
      <3> QED  BY <1>0, <2>4, <3>1, WhereMessagesAre
    <2>6. \A i \in 1 .. Len(taken) : taken[i] # Head(mailbox)
      BY <1>0, <2>5, WhereMessagesAre DEF DistinctInv
    <2>7. \A i \in DOMAIN taken : taken[i] # None /\ taken[i] # Head(mailbox)
      <3>1. DOMAIN taken = 1 .. Len(taken) /\ \A i \in DOMAIN taken : taken[i] \in Clients
        BY DEF TypeOK, HistoryTypes
      <3> QED  BY <2>6, <3>1, ClientsAssumption, Zenon
    <2>8. {taken'[i] : i \in DOMAIN taken'} =
            {taken[i] : i \in DOMAIN taken} \cup {Head(mailbox)}
      <3>1. Head(mailbox) \in Clients /\ taken \in Seq(Clients)
        BY <2>1 DEF TypeOK, CoreTypes, HistoryTypes
      <3>2. Elements(taken') = Elements(taken) \cup {Head(mailbox)}
        BY <2>1, <3>1, AppendElements, Zenon
      <3> QED  BY <3>2, Zenon DEF Elements
    <2>9. {taken'[i] : i \in DOMAIN taken'} \ {Serving'} =
            {taken[i] : i \in DOMAIN taken} \ {Serving}
      BY <2>3, <2>7, <2>8, Zenon
    <2>10. {drained[i] : i \in DOMAIN drained} = {}
      BY <2>2
    <2> QED  BY <2>1, <2>3, <2>9, <2>10, Zenon DEF Server!Serve
  <1>8. ASSUME NEW l \in Starters, ProcessEnd(l)
        PROVE  Server!Finish
    <2>1. UNCHANGED <<mailbox, taken, drained>> /\ cur'[l] = None /\ cur[l] \in Clients
      BY <1>8, Zenon DEF ProcessEnd, TypeOK, CoreTypes, history
    <2>2. Serving = cur[l] /\ Serving' = None /\ Serving # None
      BY <2>1, ServingIsCurrent, ClientsAssumption, Zenon
    <2>3. Len(taken) \in DOMAIN taken /\ cur[l] = taken[Len(taken)]
      <3>1. taken # << >> /\ cur[l] = taken[Len(taken)]
        BY <2>1, <2>2 DEF DistinctInv
      <3>2. taken \in Seq(Clients)
        BY Zenon DEF TypeOK, HistoryTypes
      <3> QED  BY <3>1, <3>2
    <2>4. \A i \in DOMAIN taken : taken[i] # None
      BY ClientsAssumption DEF TypeOK, HistoryTypes
    <2> QED  BY <2>1, <2>2, <2>3, <2>4, Zenon DEF Server!Finish
  <1>9. ASSUME NEW l \in Starters, DrainOne(l)
        PROVE  Server!Discard
    <2>1. /\ mailbox # << >> /\ mailbox' = Tail(mailbox) /\ UNCHANGED <<taken, cur>>
          /\ drained' = Append(drained, Head(mailbox)) /\ pc[l] = "drain"
      BY <1>9, Zenon DEF DrainOne
    <2>2. cur[l] = None
      BY <2>1, Zenon DEF TypeOK, CoreTypes
    <2>3. Serving = None /\ Serving' = None
      BY <2>1, <2>2, ServingIsCurrent, Zenon
    <2>4. {drained'[i] : i \in DOMAIN drained'} =
            {drained[i] : i \in DOMAIN drained} \cup {Head(mailbox)}
      <3>1. Head(mailbox) \in Clients /\ drained \in Seq(Clients)
        BY <2>1 DEF TypeOK, CoreTypes, HistoryTypes
      <3>2. Elements(drained') = Elements(drained) \cup {Head(mailbox)}
        BY <2>1, <3>1, AppendElements, Zenon
      <3> QED  BY <3>2, Zenon DEF Elements
    <2> QED  BY <2>1, <2>3, <2>4, Zenon DEF Server!Discard
  <1>10. ASSUME NEW l \in Starters, LoopStep(l), ~LoopReceive(l), ~ProcessEnd(l), ~DrainOne(l)
         PROVE  UNCHANGED Server!sv
    BY <1>1, <1>10, Zenon DEF LoopStep, ProcessBegin, HandlerReturn, LoopCancelled, DrainEnd, LoopExit,
                       history
  <1> QED  BY <1>2, <1>3, <1>4, <1>5, <1>6, <1>7, <1>8, <1>9, <1>10, Zenon DEF Next, Server!Next

\* With one Start, the actor implements the abstract sequential server: one message
\* in service at a time, in the order of acceptance, none after a discard.
THEOREM ImplementsServer == ASSUME StartCalledOnce PROVE Spec => ServesInOrder
  <1>1. Init => OrderInv /\ DistinctInv
    BY DEF Init, InitData, OrderInv, MessageOrder, DistinctInv
  <1>2. TypeOK /\ OrderInv /\ DistinctInv /\ [Next]_vars => OrderInv' /\ DistinctInv'
    BY OrderInvStep, DistinctInvStep, Zenon
  <1>3. Init => Server!Init
    BY DEF Init, InitData, Server!Init, Serving, Busy
  <1>4. TypeOK /\ TypeOK' /\ OrderInv /\ DistinctInv /\ [Next]_vars => [Server!Next]_(Server!sv)
    BY ServerStep, Zenon
  <1> QED  BY <1>1, <1>2, <1>3, <1>4, TypeCorrect, PTL DEF Spec, ServesInOrder, Server!Spec

----------------------------------------------------------------------------
(* A Call gets the answer to its own message                               *)

Begun == {c \in Callers : pc[c] # "begin"}

\* Session numbers of the calls made so far are distinct and not zero, because the
\* counter has not wrapped.
SessionInv ==
  /\ sessionCounter = Cardinality(Begun)
  /\ \A c \in Begun : session[c] \in 1 .. sessionCounter
  /\ \A c, d \in Begun : session[c] = session[d] => c = d
  /\ \A c \in Clients \ Begun : session[c] = 0
  /\ \A s \in Sessions : pendingCalls[s] # None =>
       pendingCalls[s] \in Begun /\ session[pendingCalls[s]] = s

\* A message has an outcome only after the handler returned for it, so the message
\* a loop is about to handle has none yet.
OutcomeInv ==
  /\ \A c \in Clients : outcome[c] # None => c \in Elements(taken)
  /\ \A l \in Starters : pc[l] \in {"process", "handling"} => outcome[cur[l]] = None

\* Responses on their way to a caller are those of its own message.
OwnResponse(c, r) ==
  /\ r = "ok" => outcome[c] = "ok"
  /\ r = "error" => outcome[c] = "error" \/ c \in Elements(drained)

AnswerInv == \A c \in Clients : OwnResponse(c, resp[c]) /\ (c \in Callers => OwnResponse(c, result[c]))

\* A step in which no Call begins and session numbers stay keeps the numbering.
LEMMA SessionStutter ==
  ASSUME TypeOK, SessionInv, Begun' = Begun, UNCHANGED <<sessionCounter, session>>,
         \A s \in Sessions : pendingCalls'[s] = pendingCalls[s] \/ pendingCalls'[s] = None
  PROVE  SessionInv'
  BY Zenon DEF SessionInv

\* Every step keeps the numbering while fewer calls than sessions are made.
LEMMA SessionInvStep ==
  ASSUME SessionsSuffice, TypeOK, TypeOK', SessionInv, [Next]_vars
  PROVE  SessionInv'
  <1> USE DEF TypeOK
  <1>1. CASE UNCHANGED vars
    BY <1>1, Zenon DEF vars, SessionInv, Begun
  <1>2. ASSUME NEW g \in Starters \cup Stoppers, \A c \in Clients : pc'[c] = pc[c],
               UNCHANGED <<sessionCounter, session, pendingCalls>>
        PROVE  SessionInv'
    <2>1. Begun' = Begun
      BY <1>2, ClientsAssumption, Zenon DEF Begun
    <2> QED  BY <1>2, <2>1, SessionStutter, Zenon
  <1>3. ASSUME NEW s \in Starters, StarterStep(s) \/ LoopStep(s)
        PROVE  SessionInv'
    BY <1>2, <1>3, GoroutinesDisjoint, Zenon
       DEF StarterStep, StartLoad, StartSpawn, LoopStep, LoopReceive, ProcessBegin,
           HandlerReturn, ProcessEnd, LoopCancelled, DrainOne, DrainEnd, LoopExit, callVars,
           Goto, PCTypes, Goroutines
  <1>4. ASSUME NEW p \in Stoppers, StopperStep(p)
        PROVE  SessionInv'
    BY <1>2, <1>4, GoroutinesDisjoint, Zenon
       DEF StopperStep, StopFromIdle, StopFromRunning, StopCancel, StopWait, StopStore,
           callVars, Goto, PCTypes, Goroutines
  <1>5. ASSUME NEW c \in Clients, CallBegin(c)
        PROVE  SessionInv'
    <2>1. c \in Callers /\ c \notin Begun /\ Begun' = Begun \cup {c}
      BY <1>5, ClientsAssumption, Zenon DEF CallBegin, Begun, Goto, PCTypes, Goroutines
    <2>2. /\ IsFiniteSet(Begun) /\ Cardinality(Begun) < Cardinality(Callers)
          /\ Cardinality(Begun) \in Nat
      <3>1. Begun \subseteq Callers /\ Begun # Callers
        BY <2>1, Zenon DEF Begun
      <3> QED  BY <3>1, FS_Subset, FS_CardinalityType DEF SessionsSuffice
    <2>3. Cardinality(Begun') = Cardinality(Begun) + 1
      BY <2>1, <2>2, FS_AddElement, Zenon
    <2>4. sessionCounter' = sessionCounter + 1
      <3>1. Cardinality(Callers) \in Nat
        BY FS_CardinalityType, Zenon DEF SessionsSuffice
      <3>2. sessionCounter + 1 < SessionSpace
        BY <2>2, <3>1, SessionAssumption DEF SessionInv, SessionsSuffice
      <3>3. sessionCounter' = (sessionCounter + 1) % SessionSpace
        BY <1>5, Zenon DEF CallBegin
      <3>4. sessionCounter + 1 \in Nat /\ SessionSpace \in Nat \ {0}
        BY <2>2, SessionAssumption DEF SessionInv
      <3>5. \A x \in Nat, m \in Nat \ {0} : x < m => x % m = x
        OBVIOUS
      <3> QED  BY <3>2, <3>3, <3>4, <3>5, Zenon
    <2>5. /\ session' = [session EXCEPT ![c] = sessionCounter']
          /\ pendingCalls' = [pendingCalls EXCEPT ![sessionCounter'] = c]
      BY <1>5, Zenon DEF CallBegin
    <2>6. sessionCounter' = Cardinality(Begun')
      BY <2>3, <2>4, Zenon DEF SessionInv
    <2>7. \A d \in Begun' : session'[d] = IF d = c THEN sessionCounter + 1 ELSE session[d]
      BY <2>1, <2>4, <2>5, ClientsAssumption DEF CallTypes, Begun
    <2>8. sessionCounter \in Nat
      BY <2>2, Zenon DEF SessionInv
    <2>9. /\ \A d \in Begun' : session'[d] \in 1 .. sessionCounter'
          /\ \A d, e \in Begun' : session'[d] = session'[e] => d = e
      <3>1. \A d \in Begun : session[d] \in 1 .. sessionCounter /\ session[d] # sessionCounter + 1
        BY <2>8 DEF SessionInv
      <3>2. \A d \in Begun' : d # c => d \in Begun /\ session'[d] = session[d]
        BY <2>1, <2>7, Zenon
      <3>3. c \in Begun' => session'[c] = sessionCounter + 1
        BY <2>7, Zenon
      <3>4. \A d \in Begun' : session'[d] \in 1 .. sessionCounter'
        BY <2>4, <2>8, <3>1, <3>2, <3>3
      <3>5. ASSUME NEW d \in Begun', NEW e \in Begun', session'[d] = session'[e]
            PROVE  d = e
        <4>1. CASE d = c \/ e = c
          BY <3>1, <3>2, <3>3, <3>5, <4>1, Zenon
        <4>2. CASE d # c /\ e # c
          BY <3>2, <3>5, <4>2, Zenon DEF SessionInv
        <4> QED  BY <4>1, <4>2, Zenon
      <3> QED  BY <3>4, <3>5, Zenon
    <2>10. \A d \in Clients \ Begun' : session'[d] = 0
      BY <2>1, <2>5, Zenon DEF SessionInv, CallTypes
    <2>11. \A s \in Sessions : pendingCalls'[s] # None =>
             pendingCalls'[s] \in Begun' /\ session'[pendingCalls'[s]] = s
      <3> TAKE s \in Sessions
      <3>1. CASE s = sessionCounter'
        BY <2>1, <2>4, <2>5, <2>7, <3>1, Zenon DEF CallTypes
      <3>2. CASE s # sessionCounter'
        <4>1. pendingCalls'[s] = pendingCalls[s]
          BY <2>5, <3>2, Zenon DEF CallTypes
        <4> QED  BY <2>1, <2>7, <4>1, Zenon DEF SessionInv
      <3> QED  BY <3>1, <3>2, Zenon
    <2> QED  BY <2>6, <2>9, <2>10, <2>11, Zenon DEF SessionInv
  <1>6. ASSUME NEW c \in Clients, ClientStep(c) \/ CallTimeout(c), ~CallBegin(c)
        PROVE  SessionInv'
    <2>1. UNCHANGED <<sessionCounter, session>> /\
          \A s \in Sessions : pendingCalls'[s] = pendingCalls[s] \/ pendingCalls'[s] = None
      BY <1>6, Zenon DEF ClientStep, SendCheck, SendEnqueue, SendOnClosed, SendRefused,
                  CallReturn, CallTimeout, Return, callVars, CallTypes
    <2>2. Begun' = Begun
      BY <1>6, ClientsAssumption, Zenon
         DEF ClientStep, SendCheck, SendEnqueue, SendOnClosed, SendRefused, CallReturn,
             CallTimeout, Return, Goto, PCTypes, Goroutines, Begun
    <2> QED  BY <2>1, <2>2, SessionStutter, Zenon
  <1> QED  BY <1>1, <1>3, <1>4, <1>5, <1>6, Zenon DEF Next

\* The head of the mailbox was never taken before.
LEMMA HeadIsFresh ==
  ASSUME TypeOK, MessageOrder, DistinctInv, mailbox # << >>
  PROVE  Head(mailbox) \in Clients /\ Head(mailbox) \notin Elements(taken)
  <1>1. /\ Head(mailbox) = mailbox[1] /\ 1 \in 1 .. Len(mailbox) /\ Head(mailbox) \in Clients
        /\ Len(mailbox) \in Nat
    BY DEF TypeOK, CoreTypes
  <1>2. Head(mailbox) = accepted[Len(taken) + Len(drained) + 1]
    BY <1>1, WhereMessagesAre, Zenon
  <1>3. \A i \in 1 .. Len(taken) : taken[i] # Head(mailbox)
    BY <1>1, <1>2, WhereMessagesAre, SMTT(30) DEF DistinctInv
  <1> QED  BY <1>1, <1>3, WhereMessagesAre DEF Elements

\* Every step keeps OutcomeInv when there is a single starter.
LEMMA OutcomeInvStep ==
  ASSUME StartCalledOnce, TypeOK, OrderInv, DistinctInv, OutcomeInv, [Next]_vars
  PROVE  OutcomeInv'
  <1> USE DEF TypeOK
  <1>1. ASSUME UNCHANGED <<outcome, taken, cur>>,
               \A l \in Starters : pc'[l] \in {"process", "handling"} =>
                                     pc[l] \in {"process", "handling"}
        PROVE  OutcomeInv'
    BY <1>1, Zenon DEF OutcomeInv
  <1>2. CASE UNCHANGED vars
    BY <1>1, <1>2, Zenon DEF vars
  <1>3. ASSUME NEW p \in Stoppers, StopperStep(p)
        PROVE  OutcomeInv'
    BY <1>1, <1>3, GoroutinesDisjoint, Zenon
       DEF StopperStep, StopFromIdle, StopFromRunning, StopCancel, StopWait, StopStore,
           history, Goto, PCTypes, Goroutines
  <1>4. ASSUME NEW c \in Clients, ClientStep(c) \/ CallTimeout(c)
        PROVE  OutcomeInv'
    BY <1>1, <1>4, GoroutinesDisjoint, Zenon
       DEF ClientStep, CallBegin, SendCheck, SendEnqueue, SendOnClosed, SendRefused,
           CallReturn, CallTimeout, Return, history, Goto, PCTypes, Goroutines
  <1>5. ASSUME NEW s \in Starters, StarterStep(s)
        PROVE  OutcomeInv'
    BY <1>1, <1>5, Zenon
       DEF StarterStep, StartLoad, StartSpawn, history, Goto, PCTypes, Goroutines
  <1>6. ASSUME NEW l \in Starters, LoopStep(l)
        PROVE  OutcomeInv'
    <2>1. CASE LoopReceive(l)
      <3>1. /\ taken' = Append(taken, Head(mailbox)) /\ cur'[l] = Head(mailbox)
            /\ outcome' = outcome /\ mailbox # << >>
        BY <2>1, Zenon DEF LoopReceive, CoreTypes
      <3>2. Head(mailbox) \in Clients /\ Head(mailbox) \notin Elements(taken)
        BY <3>1, HeadIsFresh, Zenon DEF OrderInv
      <3>3. Elements(taken') = Elements(taken) \cup {Head(mailbox)}
        <4>1. taken \in Seq(Clients)
          BY Zenon DEF HistoryTypes
        <4> QED  BY <3>1, <3>2, <4>1, AppendElements, Zenon
      <3>4. outcome[Head(mailbox)] = None
        BY <3>2, Zenon DEF OutcomeInv, HistoryTypes
      <3> QED  BY <3>1, <3>3, <3>4, Zenon DEF OutcomeInv, StartCalledOnce
    <2>2. CASE \E r \in Responses : HandlerReturn(l, r)
      <3>1. PICK r \in Responses : HandlerReturn(l, r)
        BY <2>2, Zenon
      <3>2. taken' = taken /\ cur' = cur /\ cur[l] \in Clients /\ pc'[l] = "finish"
        BY <3>1, Zenon DEF HandlerReturn, CoreTypes, Goto, PCTypes, Goroutines
      <3>3. cur[l] \in Elements(taken)
        BY <3>2, WhereMessagesAre, ClientsAssumption DEF OrderInv, DistinctInv, Elements
      <3>4. \A c \in Clients : c # cur[l] => outcome'[c] = outcome[c]
        BY <3>1, Zenon DEF HandlerReturn, HistoryTypes
      <3> QED  BY <3>2, <3>3, <3>4, Zenon DEF OutcomeInv, StartCalledOnce
    <2>3. CASE ~LoopReceive(l) /\ ~(\E r \in Responses : HandlerReturn(l, r))
      <3>1. pc'[l] \in {"process", "handling"} => pc[l] = "process" /\ cur' = cur
        BY <1>6, <2>3, Zenon
           DEF LoopStep, ProcessBegin, ProcessEnd, LoopCancelled, DrainOne, DrainEnd, LoopExit,
               Goto, PCTypes, Goroutines
      <3>2. UNCHANGED <<outcome, taken>>
        BY <1>6, <2>3, Zenon
           DEF LoopStep, ProcessBegin, ProcessEnd, LoopCancelled, DrainOne, DrainEnd, LoopExit,
               history
      <3> QED  BY <3>1, <3>2, Zenon DEF OutcomeInv, StartCalledOnce
    <2> QED  BY <2>1, <2>2, <2>3, Zenon
  <1> QED  BY <1>2, <1>3, <1>4, <1>5, <1>6, Zenon DEF Next

\* sendResponse reaches only the caller whose message it answers.
LEMMA ResponseToOwn ==
  ASSUME TypeOK, SessionInv, NEW m \in Clients, NEW r \in Responses, SendResponse(m, r)
  PROVE  resp' = resp \/ resp' = [resp EXCEPT ![m] = r]
  <1>1. CASE session[m] = 0 \/ pendingCalls[session[m]] = None
    BY <1>1, Zenon DEF SendResponse
  <1>2. CASE session[m] # 0 /\ pendingCalls[session[m]] # None
    <2>1. m \in Begun
      BY <1>2, Zenon DEF SessionInv
    <2>2. pendingCalls[session[m]] = m
      BY <1>2, <2>1, Zenon DEF SessionInv, TypeOK, CallTypes
    <2> QED  BY <2>2, Zenon DEF SendResponse
  <1> QED  BY <1>1, <1>2, Zenon

\* Every step keeps AnswerInv.
LEMMA AnswerInvStep ==
  ASSUME StartCalledOnce, TypeOK, OutcomeInv, SessionInv, AnswerInv, [Next]_vars
  PROVE  AnswerInv'
  <1> USE DEF TypeOK
  <1>1. ASSUME UNCHANGED <<outcome, drained, resp>>,
               \A c \in Callers : result'[c] \in {result[c], resp[c]} \cup (Results \ Responses)
        PROVE  AnswerInv'
    BY <1>1, Zenon DEF AnswerInv, OwnResponse, Responses
  <1>2. CASE UNCHANGED vars
    BY <1>1, <1>2, Zenon DEF vars
  <1>3. ASSUME NEW p \in Stoppers, StopperStep(p)
        PROVE  AnswerInv'
    BY <1>1, <1>3, Zenon
       DEF StopperStep, StopFromIdle, StopFromRunning, StopCancel, StopWait, StopStore,
           history, callVars
  <1>4. ASSUME NEW s \in Starters, StarterStep(s)
        PROVE  AnswerInv'
    BY <1>1, <1>4, Zenon DEF StarterStep, StartLoad, StartSpawn, history, callVars
  <1>5. ASSUME NEW c \in Clients, ClientStep(c) \/ CallTimeout(c)
        PROVE  AnswerInv'
    <2>1. UNCHANGED <<outcome, drained, resp>>
      BY <1>5, ZenonT(30) DEF ClientStep, CallBegin, SendCheck, SendEnqueue, SendOnClosed, SendRefused,
                  CallReturn, CallTimeout, history, callVars
    <2>2. \A d \in Callers : result'[d] \in {result[d], resp[d]} \cup (Results \ Responses)
      BY <1>5, ClientsAssumption
         DEF ClientStep, CallBegin, SendCheck, SendEnqueue, SendOnClosed, SendRefused,
             CallReturn, CallTimeout, Return, callVars, CallTypes, Results, Responses
    <2> QED  BY <1>1, <2>1, <2>2, Zenon
  <1>6. ASSUME NEW l \in Starters, LoopStep(l)
        PROVE  AnswerInv'
    <2>1. CASE \E r \in Responses : HandlerReturn(l, r)
      <3>1. PICK r \in Responses : HandlerReturn(l, r)
        BY <2>1, Zenon
      <3>2. /\ cur[l] \in Clients /\ outcome[cur[l]] = None /\ result' = result
            /\ drained' = drained /\ outcome' = [outcome EXCEPT ![cur[l]] = r]
        BY <3>1, Zenon DEF HandlerReturn, CoreTypes, OutcomeInv
      <3>3. resp' = resp \/ resp' = [resp EXCEPT ![cur[l]] = r]
        BY <3>1, <3>2, ResponseToOwn, Zenon DEF HandlerReturn
      <3>4. \A c \in Clients : resp'[c] = resp[c] \/ (c = cur[l] /\ resp'[c] = r)
        BY <3>3, Zenon DEF CallTypes
      <3>5. \A c \in Clients : outcome'[c] = IF c = cur[l] THEN r ELSE outcome[c]
        BY <3>2, Zenon DEF HistoryTypes
      <3>6. None # "ok" /\ None # "error"
        BY NoneAssumption, Zenon DEF Results, Responses
      <3> QED  BY <3>2, <3>4, <3>5, <3>6, Zenon DEF AnswerInv, OwnResponse
    <2>2. CASE DrainOne(l)
      <3>1. /\ Head(mailbox) \in Clients /\ "error" \in Responses
            /\ drained' = Append(drained, Head(mailbox)) /\ UNCHANGED <<outcome, result>>
        BY <2>2 DEF DrainOne, CoreTypes, Responses
      <3>2. Elements(drained') = Elements(drained) \cup {Head(mailbox)}
        <4>1. drained \in Seq(Clients)
          BY Zenon DEF HistoryTypes
        <4> QED  BY <3>1, <4>1, AppendElements, Zenon
      <3>3. resp' = resp \/ resp' = [resp EXCEPT ![Head(mailbox)] = "error"]
        BY <2>2, <3>1, ResponseToOwn, Zenon DEF DrainOne
      <3>4. \A c \in Clients : resp'[c] = resp[c] \/ (c = Head(mailbox) /\ resp'[c] = "error")
        BY <3>3, Zenon DEF CallTypes
      <3> QED  BY <3>1, <3>2, <3>4, ClientsAssumption, Zenon DEF AnswerInv, OwnResponse
    <2>3. CASE ~DrainOne(l) /\ ~(\E r \in Responses : HandlerReturn(l, r))
      BY <1>1, <1>6, <2>3, Zenon DEF LoopStep, LoopReceive, ProcessBegin, ProcessEnd, LoopCancelled,
                              DrainEnd, LoopExit, history, callVars
    <2> QED  BY <2>1, <2>2, <2>3, Zenon
  <1> QED  BY <1>2, <1>3, <1>4, <1>5, <1>6, Zenon DEF Next

\* With one Start and fewer calls than session numbers, no Call is ever given the
\* response to another message, whatever is interleaved, timed out or drained.
THEOREM CallGetsOwnAnswer ==
  ASSUME StartCalledOnce, SessionsSuffice PROVE Spec => []AnswerIsOwn
  <1>1. Init => OrderInv /\ DistinctInv /\ OutcomeInv /\ AnswerInv
    <2> SUFFICES ASSUME Init PROVE OrderInv /\ DistinctInv /\ OutcomeInv /\ AnswerInv
      BY Zenon
    <2>1. OrderInv /\ DistinctInv
      BY DEF Init, InitData, OrderInv, MessageOrder, DistinctInv
    <2>2. AnswerInv
      BY ClientsAssumption, Zenon DEF Init, InitData, AnswerInv, OwnResponse
    <2>3. \A l \in Starters : pc[l] = "load"
      BY GoroutinesDisjoint, Zenon DEF Init, InitPC, Goroutines
    <2>4. OutcomeInv
      BY <2>3, Zenon DEF Init, InitData, OutcomeInv
    <2> QED  BY <2>1, <2>2, <2>4, Zenon
  <1>2. Init => SessionInv
    <2> SUFFICES ASSUME Init PROVE SessionInv
      BY Zenon
    <2>1. Begun = {}
      BY ClientsAssumption, Zenon DEF Init, InitPC, Begun, Goroutines
    <2> QED  BY <2>1, FS_EmptySet, Zenon DEF Init, InitData, SessionInv
  <1>3. TypeOK /\ TypeOK' /\ OrderInv /\ DistinctInv /\ OutcomeInv /\ SessionInv /\ AnswerInv
        /\ [Next]_vars
          => OrderInv' /\ DistinctInv' /\ OutcomeInv' /\ SessionInv' /\ AnswerInv'
    BY OrderInvStep, DistinctInvStep, OutcomeInvStep, SessionInvStep, AnswerInvStep, Zenon
  <1>4. TypeOK /\ AnswerInv => AnswerIsOwn
    BY ClientsAssumption
       DEF AnswerInv, OwnResponse, AnswerIsOwn, Elements, TypeOK, HistoryTypes
  <1> QED  BY <1>1, <1>2, <1>3, <1>4, TypeCorrect, PTL DEF Spec

----------------------------------------------------------------------------
(* The message in progress is finished before the mailbox closes           *)

\* A message that was taken has an outcome or is in some loop's hands, and the
\* mailbox is closed only by a loop that has exited.
FinishInv ==
  /\ \A c \in Elements(taken) :
       outcome[c] # None \/ \E l \in Starters : cur[l] = c /\ pc[l] \in {"process", "handling"}
  /\ closed => \E l \in Starters : pc[l] = "exited"

\* Every step keeps FinishInv when there is a single starter.
LEMMA FinishInvStep ==
  ASSUME StartCalledOnce, TypeOK, FinishInv, [Next]_vars
  PROVE  FinishInv'
  <1> USE DEF TypeOK
  <1>1. ASSUME UNCHANGED <<outcome, taken, cur, closed>>,
               \A l \in Starters : pc[l] \in {"process", "handling"} =>
                                     pc'[l] \in {"process", "handling"},
               \A l \in Starters : pc[l] = "exited" => pc'[l] = "exited"
        PROVE  FinishInv'
    <2>1. Elements(taken)' = Elements(taken)
      BY <1>1, Zenon DEF Elements
    <2> QED  BY <1>1, <2>1, Zenon DEF FinishInv
  <1>2. CASE UNCHANGED vars
    BY <1>1, <1>2, Zenon DEF vars
  <1>3. ASSUME NEW p \in Stoppers, StopperStep(p)
        PROVE  FinishInv'
    BY <1>1, <1>3, GoroutinesDisjoint, Zenon
       DEF StopperStep, StopFromIdle, StopFromRunning, StopCancel, StopWait, StopStore,
           history, Goto, PCTypes, Goroutines
  <1>4. ASSUME NEW c \in Clients, ClientStep(c) \/ CallTimeout(c)
        PROVE  FinishInv'
    BY <1>1, <1>4, GoroutinesDisjoint, Zenon
       DEF ClientStep, CallBegin, SendCheck, SendEnqueue, SendOnClosed, SendRefused,
           CallReturn, CallTimeout, Return, history, Goto, PCTypes, Goroutines
  <1>5. ASSUME NEW s \in Starters, StarterStep(s)
        PROVE  FinishInv'
    BY <1>1, <1>5, Zenon
       DEF StarterStep, StartLoad, StartSpawn, history, Goto, PCTypes, Goroutines
  <1>6. ASSUME NEW l \in Starters, LoopStep(l)
        PROVE  FinishInv'
    <2>1. CASE LoopReceive(l)
      <3>1. /\ taken' = Append(taken, Head(mailbox)) /\ cur'[l] = Head(mailbox)
            /\ outcome' = outcome /\ mailbox # << >> /\ closed' = closed
            /\ pc[l] = "select" /\ pc'[l] = "process"
        BY <2>1, Zenon DEF LoopReceive, CoreTypes, Goto, PCTypes, Goroutines, history
      <3>2. Elements(taken') = Elements(taken) \cup {Head(mailbox)}
        <4>1. taken \in Seq(Clients) /\ Head(mailbox) \in Clients
          BY <3>1 DEF HistoryTypes, CoreTypes
        <4> QED  BY <3>1, <4>1, AppendElements, Zenon
      <3>3. \A k \in Starters : pc[k] = "select"
        BY <3>1, Zenon DEF StartCalledOnce
      <3>4. \A c \in Elements(taken) : outcome'[c] # None
        BY <3>1, <3>3, Zenon DEF FinishInv
      <3>5. ~closed
        BY <3>3, Zenon DEF FinishInv
      <3> QED  BY <3>1, <3>2, <3>4, <3>5, Zenon DEF FinishInv
    <2>2. CASE \E r \in Responses : HandlerReturn(l, r)
      <3>1. PICK r \in Responses : HandlerReturn(l, r)
        BY <2>2, Zenon
      <3>2. taken' = taken /\ cur' = cur /\ cur[l] \in Clients /\ closed' = closed
            /\ pc[l] = "handling"
        BY <3>1, Zenon DEF HandlerReturn, CoreTypes
      <3>3. r # None
        BY NoneAssumption, Zenon DEF Results
      <3>4. \A c \in Clients : outcome'[c] = IF c = cur[l] THEN r ELSE outcome[c]
        BY <3>1, <3>2, Zenon DEF HandlerReturn, HistoryTypes
      <3>5. Elements(taken)' = Elements(taken) /\ Elements(taken) \subseteq Clients
        <4>1. taken' = taken /\ taken \in Seq(Clients)
          BY <3>2, Zenon DEF HistoryTypes
        <4>2. \A i \in DOMAIN taken : taken[i] \in Clients
          BY <4>1
        <4> QED  BY <4>1, <4>2, Zenon DEF Elements
      <3>6. \A k \in Starters : k = l
        BY Zenon DEF StartCalledOnce
      <3>7. ~closed
        BY <3>2, <3>6, Zenon DEF FinishInv
      <3>8. \A c \in Elements(taken) : outcome[c] # None \/ c = cur[l]
        BY <3>6, Zenon DEF FinishInv
      <3>9. \A c \in Elements(taken) : outcome'[c] # None
        BY <3>3, <3>4, <3>5, <3>8, Zenon
      <3> QED  BY <3>2, <3>5, <3>7, <3>9, Zenon DEF FinishInv
    <2>3. CASE ProcessEnd(l)
      <3>1. UNCHANGED <<taken, outcome, closed>> /\ pc[l] = "finish"
        BY <2>3, Zenon DEF ProcessEnd, history
      <3>2. Elements(taken)' = Elements(taken)
        BY <3>1, Zenon DEF Elements
      <3> QED  BY <3>1, <3>2 DEF FinishInv, StartCalledOnce
    <2>4. CASE LoopExit(l)
      <3>1. UNCHANGED <<taken, outcome>> /\ pc[l] = "close" /\ pc'[l] = "exited"
        BY <2>4, Zenon DEF LoopExit, history, Goto, PCTypes, Goroutines
      <3>2. Elements(taken)' = Elements(taken)
        BY <3>1, Zenon DEF Elements
      <3> QED  BY <3>1, <3>2 DEF FinishInv, StartCalledOnce
    <2>5. CASE ProcessBegin(l) \/ LoopCancelled(l) \/ DrainOne(l) \/ DrainEnd(l)
      BY <1>1, <2>5, Zenon DEF ProcessBegin, LoopCancelled, DrainOne, DrainEnd, history, Goto,
                        PCTypes, Goroutines
    <2> QED  BY <1>6, <2>1, <2>2, <2>3, <2>4, <2>5, Zenon DEF LoopStep
  <1> QED  BY <1>2, <1>3, <1>4, <1>5, <1>6, Zenon DEF Next

\* With one Start, cancellation never abandons a message in the handler: when the
\* loop closes the mailbox, every message it took has its outcome.
THEOREM FinishesCurrent == ASSUME StartCalledOnce PROVE Spec => []CurrentMessageFinished
  <1>1. Init => FinishInv
    BY DEF Init, InitData, FinishInv, Elements
  <1>2. TypeOK /\ FinishInv /\ [Next]_vars => FinishInv'
    BY FinishInvStep, Zenon
  <1>3. TypeOK /\ FinishInv => CurrentMessageFinished
    <2> SUFFICES ASSUME TypeOK, FinishInv, closed,
                        NEW i \in 1 .. Len(taken)
                 PROVE  outcome[taken[i]] # None
      BY Zenon DEF CurrentMessageFinished
    <2>1. taken[i] \in Elements(taken)
      BY DEF Elements, TypeOK, HistoryTypes
    <2> QED  BY <2>1 DEF FinishInv, StartCalledOnce
  <1> QED  BY <1>1, <1>2, <1>3, TypeCorrect, PTL DEF Spec
=============================================================================
