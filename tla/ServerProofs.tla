---------------------------- MODULE ServerProofs ----------------------------
(***************************************************************************)
(* Proofs about the servers.  TcpServer, for any number of connections and *)
(* of starts and any bounds: it hands a connection out once, and leaves    *)
(* nothing open once stopped.  MsgServer and LoginServer, for any number   *)
(* of connections and users: fds, peers and sessions belong together, and  *)
(* a user has one session.                                                 *)
(***************************************************************************)
EXTENDS TcpServer, MsgServer, LoginServer, FiniteSetTheorems, TLAPS

----------------------------------------------------------------------------
(* TcpServer                                                                *)

\* Every connectionHandlerLoop there is or will be stands for a Start or for the one
\* SetConnectionHandler that has set the handler.
LoopsInv == setting + handlerLoops <= starts + (IF hasConnHandler THEN 1 ELSE 0)

\* Nobody has the connections that wait in the channel, the one being published and those
\* not accepted yet; the channel holds no connection twice.
HandingInv ==
  /\ \A i, j \in 1 .. Len(connectionChan) : connectionChan[i] = connectionChan[j] => i = j
  /\ \A i \in 1 .. Len(connectionChan) :
       /\ handed[connectionChan[i]] = "nobody" /\ connectionChan[i] \notin fresh
       /\ sock[connectionChan[i]] \in {"open", "closed"}
  /\ \A s \in fresh : handed[s] = "nobody" /\ sock[s] \in {"open", "closed"}
  /\ \A s \in Socks : sock[s] \in {"none", "backlog"} => handed[s] = "nobody"
  /\ twice = {}

\* The context stays done from the first Stop on, so that an accept loop started after it
\* ends at its first check; an open connection is in the map until its handler is done.
StopInv ==
  /\ owner # "idle" \/ chanClosed => cancelled
  /\ cancelled /\ owner = "idle" => chanClosed
  /\ running => owner = "idle"
  /\ ~running /\ owner = "idle" => acceptor = "none"
  /\ chanClosed => /\ acceptor \in {"none", "check"}
                   /\ \A s \in Socks : handler[s] \in {"none", "done"} /\ (sock[s] = "open" => handler[s] = "done")
  /\ \A s \in Socks : sock[s] = "open" => s \in active \/ handler[s] = "done"

\* The map of connections is finite and within the limit.
LimitInv == IsFiniteSet(active) /\ ConnectionLimit

ServerInv == ServerTypeOK /\ LoopsInv /\ HandingInv /\ StopInv /\ LimitInv

----------------------------------------------------------------------------

\* A new server has nothing.
LEMMA InitServer == NewTCPServer => ServerInv
  <1> SUFFICES ASSUME NewTCPServer PROVE ServerInv
    BY Zenon
  <1>1. connectionChan \in Seq(Socks) /\ Len(connectionChan) = 0
    BY DEF NewTCPServer
  <1>2. ServerTypeOK
    <2>1. /\ running \in BOOLEAN /\ cancelled \in BOOLEAN /\ listening \in BOOLEAN /\ chanClosed \in BOOLEAN
          /\ hasMsgHandler \in BOOLEAN /\ hasConnHandler \in BOOLEAN /\ srvCrashed \in BOOLEAN
      BY Zenon DEF NewTCPServer
    <2>2. starts \in 0 .. MaxStarts /\ setting \in 0 .. MaxStarts + 1 /\ handlerLoops \in 0 .. MaxStarts + 1
          /\ Len(connectionChan) <= ChanSize
      BY <1>1, ServerAssumption DEF NewTCPServer
    <2> QED  BY <1>1, <2>1, <2>2, Zenon DEF NewTCPServer, ServerTypeOK
  <1>3. LoopsInv /\ HandingInv /\ StopInv
    BY <1>1 DEF NewTCPServer, LoopsInv, HandingInv, StopInv
  <1>4. IsFiniteSet(active) /\ Cardinality(active) = 0
    BY FS_EmptySet, Zenon DEF NewTCPServer
  <1>5. LimitInv
    BY <1>4, ServerAssumption DEF LimitInv, ConnectionLimit
  <1> QED  BY <1>2, <1>3, <1>5, Zenon DEF ServerInv

\* Start, the first or one after Stop.
LEMMA ServerStartStep == ASSUME ServerInv, Start PROVE ServerInv'
  <1>1. ServerTypeOK /\ LoopsInv /\ HandingInv /\ StopInv /\ LimitInv
    BY Zenon DEF ServerInv
  <1>2. /\ owner = "idle" /\ ~running /\ starts < MaxStarts /\ starts' = starts + 1
        /\ UNCHANGED <<owner, cancelled, fresh, connectionChan, chanClosed, handed, twice,
                       hasMsgHandler, hasConnHandler, setting, active, sock, handler, srvCrashed>>
    BY Zenon DEF Start, handing
  <1>3. acceptor \in {"none", "check"}
    BY <1>1, <1>2, Zenon DEF StopInv, ServerTypeOK
  <1>4. /\ running' \in BOOLEAN /\ listening' \in BOOLEAN /\ acceptor' \in {acceptor, "check"}
        /\ handlerLoops' = handlerLoops \/ (hasConnHandler /\ handlerLoops' = handlerLoops + 1)
        /\ (~running' => acceptor' = acceptor)
    BY <1>1, Zenon DEF Start, ServerTypeOK
  <1>5. LoopsInv' /\ starts' \in 0 .. MaxStarts /\ handlerLoops' \in 0 .. MaxStarts + 1
    BY <1>1, <1>2, <1>4, ServerAssumption DEF LoopsInv, ServerTypeOK
  <1>6. fresh' = {} /\ acceptor' # "publish" /\ acceptor' \in {"none", "check", "accept", "publish"}
    BY <1>1, <1>2, <1>3, <1>4, Zenon DEF ServerTypeOK
  <1>7. ServerTypeOK'
    BY <1>1, <1>2, <1>4, <1>5, <1>6, Zenon DEF ServerTypeOK
  <1>8. HandingInv'
    BY <1>1, <1>2 DEF HandingInv
  <1>9. StopInv'
    BY <1>1, <1>2, <1>3, <1>4, Zenon DEF StopInv
  <1>10. LimitInv'
    BY <1>1, <1>2, Zenon DEF LimitInv, ConnectionLimit
  <1> QED  BY <1>5, <1>7, <1>8, <1>9, <1>10, Zenon DEF ServerInv

\* The steps of Stop.  Only the first one closes the channel, when every goroutine has
\* gone; what is then open and not closed by Stop has left the map.
LEMMA StopStep == ASSUME ServerInv, Stop \/ StopSteps PROVE ServerInv'
  <1>1. ServerTypeOK /\ LoopsInv /\ HandingInv /\ StopInv /\ LimitInv
    BY Zenon DEF ServerInv
  <1>2. UNCHANGED <<starts, acceptor, fresh, connectionChan, handed, twice, handlers, active, handler>>
    BY Zenon DEF Stop, StopSteps, CloseListener, StopRest, accepting, handing
  <1>3. LoopsInv' /\ LimitInv'
    BY <1>1, <1>2, Zenon DEF LoopsInv, LimitInv, ConnectionLimit, handlers
  <1>4. \A s \in Socks : \/ sock'[s] = sock[s]
                         \/ sock'[s] = "closed"
    BY <1>1, Zenon DEF Stop, StopSteps, CloseListener, StopRest, ServerTypeOK
  <1>5. sock' \in [Socks -> {"none", "backlog", "open", "closed"}]
    BY <1>1 DEF Stop, StopSteps, CloseListener, StopRest, ServerTypeOK
  <1>6. HandingInv'
    <2>1. /\ \A i \in 1 .. Len(connectionChan) : connectionChan[i] \in Socks
          /\ \A s \in fresh : s \in Socks
      BY <1>1 DEF ServerTypeOK
    <2> QED  BY <1>1, <1>2, <1>4, <2>1 DEF HandingInv
  <1>7. /\ owner' \in {"idle", "close", "wait"} /\ running' \in BOOLEAN /\ cancelled' \in BOOLEAN
        /\ listening' \in BOOLEAN /\ chanClosed' \in BOOLEAN /\ srvCrashed' \in BOOLEAN
    BY <1>1, Zenon DEF Stop, StopSteps, CloseListener, StopRest, ServerTypeOK, accepting, handing
  <1>8. ServerTypeOK'
    BY <1>1, <1>2, <1>5, <1>7, Zenon DEF ServerTypeOK, handlers
  <1>9. StopInv'
    <2>1. CASE Stop
      BY <1>1, <2>1, Zenon DEF Stop, StopInv, accepting, handing
    <2>2. CASE CloseListener
      BY <1>1, <1>2, <1>4, <2>2, Zenon DEF CloseListener, StopInv, handing
    <2>3. CASE StopRest /\ chanClosed
      BY <1>1, <2>3, Zenon DEF StopRest, StopInv, accepting
    <2>4. CASE StopRest /\ ~chanClosed
      <3>1. /\ owner = "wait" /\ owner' = "idle" /\ chanClosed' = TRUE /\ UNCHANGED <<running, cancelled>>
            /\ acceptor = "none" /\ \A s \in Socks : handler[s] \in {"none", "done"}
            /\ \A s \in Socks : sock'[s] = IF s \in active THEN "closed" ELSE sock[s]
        BY <2>4, Zenon DEF StopRest, AllDone
      <3> QED  BY <1>1, <1>2, <3>1, Zenon DEF StopInv
    <2> QED  BY <2>1, <2>2, <2>3, <2>4, Zenon DEF StopSteps
  <1> QED  BY <1>3, <1>6, <1>8, <1>9, Zenon DEF ServerInv

\* A peer connects.
LEMMA DialStep == ASSUME ServerInv, NEW s \in Socks, Dial(s) PROVE ServerInv'
  <1>1. ServerTypeOK /\ LoopsInv /\ HandingInv /\ StopInv /\ LimitInv
    BY Zenon DEF ServerInv
  <1>2. sock[s] = "none" /\ sock' = [sock EXCEPT ![s] = "backlog"]
        /\ UNCHANGED <<stopping, accepting, handing, handlers, active, handler, srvCrashed>>
    BY Zenon DEF Dial
  <1>3. ServerTypeOK'
    BY <1>1, <1>2 DEF ServerTypeOK, stopping, accepting, handing, handlers
  <1>4. LoopsInv' /\ LimitInv'
    BY <1>1, <1>2, Zenon DEF LoopsInv, LimitInv, ConnectionLimit, stopping, handlers
  <1>5. \A q \in Socks : q # s => sock'[q] = sock[q]
    BY <1>1, <1>2, Zenon DEF ServerTypeOK
  <1>6. sock'[s] = "backlog"
    BY <1>1, <1>2, Zenon DEF ServerTypeOK
  <1>7. HandingInv'
    <2>1. /\ \A i \in 1 .. Len(connectionChan) : connectionChan[i] \in Socks
          /\ \A q \in fresh : q \in Socks
      BY <1>1 DEF ServerTypeOK
    <2> QED  BY <1>1, <1>2, <1>5, <1>6, <2>1 DEF HandingInv, accepting, handing
  <1>8. StopInv'
    BY <1>1, <1>2, <1>5, <1>6, Zenon DEF StopInv, stopping, accepting, handing
  <1> QED  BY <1>3, <1>4, <1>7, <1>8, Zenon DEF ServerInv

\* The accept loop looks at the context: after Stop it goes no further.
LEMMA AcceptCheckStep == ASSUME ServerInv, AcceptCheck PROVE ServerInv'
  <1>1. ServerTypeOK /\ LoopsInv /\ HandingInv /\ StopInv /\ LimitInv
    BY Zenon DEF ServerInv
  <1>2. /\ acceptor \in {"check", "accept"} /\ acceptor' = IF cancelled THEN "none" ELSE "accept"
        /\ UNCHANGED <<stopping, listening, fresh, handing, handlers, active, sock, handler, srvCrashed>>
    BY Zenon DEF AcceptCheck
  <1>3. ServerTypeOK'
    BY <1>1, <1>2 DEF ServerTypeOK, stopping, handing, handlers
  <1>4. LoopsInv' /\ LimitInv' /\ HandingInv'
    BY <1>1, <1>2 DEF LoopsInv, LimitInv, ConnectionLimit, HandingInv, stopping, handing, handlers
  <1>5. StopInv'
    BY <1>1, <1>2, Zenon DEF StopInv, stopping, handing
  <1> QED  BY <1>3, <1>4, <1>5, Zenon DEF ServerInv

\* A connection is accepted, below the limit only.
LEMMA AcceptStep == ASSUME ServerInv, NEW s \in Socks, Accept(s) PROVE ServerInv'
  <1>1. ServerTypeOK /\ LoopsInv /\ HandingInv /\ StopInv /\ LimitInv
    BY Zenon DEF ServerInv
  <1>2. /\ acceptor = "accept" /\ sock[s] = "backlog" /\ fresh = {}
        /\ UNCHANGED <<stopping, listening, handing, handlers, srvCrashed>>
    BY <1>1, Zenon DEF Accept, ServerTypeOK
  <1>3. ~chanClosed /\ (running \/ cancelled)
    BY <1>1, <1>2, Zenon DEF StopInv
  <1>4. /\ \A i \in 1 .. Len(connectionChan) : connectionChan[i] \in Socks /\ connectionChan[i] # s
        /\ handed[s] = "nobody"
    BY <1>1, <1>2 DEF ServerTypeOK, HandingInv
  <1>5. CASE Full
    <2>1. sock' = [sock EXCEPT ![s] = "closed"] /\ acceptor' = "check" /\ UNCHANGED <<fresh, active, handler>>
      BY <1>5, Zenon DEF Accept
    <2>2. ServerTypeOK'
      BY <1>1, <1>2, <2>1 DEF ServerTypeOK, stopping, handing, handlers
    <2>3. sock'[s] = "closed" /\ \A q \in Socks \ {s} : sock'[q] = sock[q]
      BY <1>1, <2>1, Zenon DEF ServerTypeOK
    <2>4. HandingInv'
      BY <1>1, <1>2, <1>4, <2>1, <2>3 DEF HandingInv, handing
    <2>5. StopInv'
      BY <1>1, <1>2, <1>3, <2>1, <2>3, Zenon DEF StopInv, stopping, handing
    <2>6. LoopsInv' /\ LimitInv'
      BY <1>1, <1>2, <2>1, Zenon DEF LoopsInv, LimitInv, ConnectionLimit, stopping, handlers
    <2> QED  BY <2>2, <2>4, <2>5, <2>6, Zenon DEF ServerInv
  <1>6. CASE ~Full
    <2>1. /\ sock' = [sock EXCEPT ![s] = "open"] /\ active' = active \cup {s}
          /\ handler' = (IF hasMsgHandler THEN [handler EXCEPT ![s] = "check"] ELSE handler)
          /\ acceptor' = "publish" /\ fresh' = {s}
      BY <1>6, Zenon DEF Accept
    <2>2. ServerTypeOK'
      BY <1>1, <1>2, <2>1 DEF ServerTypeOK, stopping, handing, handlers
    <2>3. sock'[s] = "open" /\ \A q \in Socks \ {s} : sock'[q] = sock[q] /\ handler'[q] = handler[q]
      BY <1>1, <2>1, Zenon DEF ServerTypeOK
    <2>4. HandingInv'
      BY <1>1, <1>2, <1>4, <2>1, <2>3 DEF HandingInv, handing
    <2>5. StopInv'
      BY <1>1, <1>2, <1>3, <2>1, <2>3, Zenon DEF StopInv, stopping, handing
    <2>6. IsFiniteSet(active') /\ Cardinality(active) \in Nat
          /\ (Cardinality(active') = Cardinality(active) \/ Cardinality(active') = Cardinality(active) + 1)
      BY <1>1, <2>1, FS_AddElement, FS_CardinalityType, Zenon DEF LimitInv
    <2>7. LimitInv'
      BY <1>6, <1>1, <2>6, ServerAssumption DEF LimitInv, ConnectionLimit, Full
    <2>8. LoopsInv'
      BY <1>1, <1>2, Zenon DEF LoopsInv, stopping, handlers
    <2> QED  BY <2>2, <2>4, <2>5, <2>7, <2>8, Zenon DEF ServerInv
  <1> QED  BY <1>5, <1>6, Zenon

\* Handing out a connection that nobody has.
LEMMA HandedStep ==
  ASSUME ServerTypeOK, twice = {}, NEW s \in Socks, handed[s] = "nobody", NEW to \in {"handler", "caller"},
         Handed(s, to)
  PROVE  /\ handed' \in [Socks -> {"nobody", "handler", "caller"}] /\ twice' = {}
         /\ \A q \in Socks \ {s} : handed'[q] = handed[q]
  BY Zenon DEF ServerTypeOK, Handed

\* The accept loop puts its connection in the channel, hands it out itself, or closes it.
LEMMA PublishStep == ASSUME ServerInv, NEW s \in Socks, Publish(s) PROVE ServerInv'
  <1>1. ServerTypeOK /\ LoopsInv /\ HandingInv /\ StopInv /\ LimitInv
    BY Zenon DEF ServerInv
  <1>2. /\ acceptor = "publish" /\ fresh = {s} /\ fresh' = {}
        /\ UNCHANGED <<stopping, listening, chanClosed, handlers, active, handler, srvCrashed>>
    BY Zenon DEF Publish
  <1>3. ~chanClosed /\ (running \/ cancelled)
    BY <1>1, <1>2, Zenon DEF StopInv
  <1>4. /\ handed[s] = "nobody" /\ sock[s] \in {"open", "closed"} /\ twice = {}
        /\ \A i \in 1 .. Len(connectionChan) : connectionChan[i] \in Socks /\ connectionChan[i] # s
    BY <1>1, <1>2 DEF HandingInv, ServerTypeOK
  <1>5. LoopsInv' /\ LimitInv'
    BY <1>1, <1>2, Zenon DEF LoopsInv, LimitInv, ConnectionLimit, stopping, handlers
  <1>6. CASE cancelled
    <2>1. sock' = [sock EXCEPT ![s] = "closed"] /\ acceptor' = "none" /\ UNCHANGED <<connectionChan, handed, twice>>
      BY <1>6, Zenon DEF Publish
    <2>2. sock'[s] = "closed" /\ \A q \in Socks \ {s} : sock'[q] = sock[q]
      BY <1>1, <2>1, Zenon DEF ServerTypeOK
    <2>3. ServerTypeOK'
      BY <1>1, <1>2, <2>1 DEF ServerTypeOK, stopping, handlers
    <2>4. HandingInv'
      BY <1>1, <1>2, <1>4, <2>1, <2>2 DEF HandingInv
    <2>5. StopInv'
      BY <1>1, <1>2, <1>3, <1>6, <2>1, <2>2, Zenon DEF StopInv, stopping
    <2> QED  BY <1>5, <2>3, <2>4, <2>5, Zenon DEF ServerInv
  <1>7. CASE ~cancelled
    <2>1. acceptor' = "check" /\ UNCHANGED sock
      BY <1>7, Zenon DEF Publish
    <2>2. StopInv'
      BY <1>1, <1>2, <1>3, <1>7, <2>1, Zenon DEF StopInv, stopping
    <2>3. CASE Len(connectionChan) < ChanSize
      <3>1. connectionChan' = Append(connectionChan, s) /\ UNCHANGED <<handed, twice>>
        BY <1>7, <2>3, Zenon DEF Publish
      <3>2. /\ connectionChan' \in Seq(Socks) /\ Len(connectionChan') = Len(connectionChan) + 1
            /\ Len(connectionChan) \in Nat /\ connectionChan'[Len(connectionChan) + 1] = s
            /\ \A i \in 1 .. Len(connectionChan) : connectionChan'[i] = connectionChan[i]
        BY <1>1, <3>1 DEF ServerTypeOK
      <3>3. ServerTypeOK'
        BY <1>1, <1>2, <2>1, <2>3, <3>1, <3>2, ServerAssumption DEF ServerTypeOK, stopping, handlers
      <3>4. \A i \in 1 .. Len(connectionChan') : i \in 1 .. Len(connectionChan) \/ i = Len(connectionChan) + 1
        BY <3>2
      <3>5. \A i, j \in 1 .. Len(connectionChan') : connectionChan'[i] = connectionChan'[j] => i = j
        BY <1>1, <1>4, <3>2, <3>4 DEF HandingInv
      <3>6. \A i \in 1 .. Len(connectionChan') : /\ handed'[connectionChan'[i]] = "nobody"
                                                 /\ sock'[connectionChan'[i]] \in {"open", "closed"}
        BY <1>1, <1>4, <2>1, <3>1, <3>2, <3>4 DEF HandingInv
      <3>7. HandingInv'
        BY <1>1, <1>2, <2>1, <3>1, <3>5, <3>6, ZenonT(30) DEF HandingInv
      <3> QED  BY <1>5, <2>2, <3>3, <3>7, Zenon DEF ServerInv
    <2>4. CASE ~(Len(connectionChan) < ChanSize)
      <3>1. UNCHANGED connectionChan
        BY <1>7, <2>4, Zenon DEF Publish
      <3>2. /\ handed' \in [Socks -> {"nobody", "handler", "caller"}] /\ twice' = {}
            /\ \A q \in Socks \ {s} : handed'[q] = handed[q]
        <4>1. CASE hasConnHandler
          <5>1. Handed(s, "handler")
            BY <1>7, <2>4, <4>1, Zenon DEF Publish
          <5> QED  BY <1>1, <1>4, <5>1, HandedStep, Zenon
        <4>2. CASE ~hasConnHandler
          BY <1>1, <1>4, <1>7, <2>4, <4>2, Zenon DEF Publish, ServerTypeOK
        <4> QED  BY <4>1, <4>2, Zenon
      <3>3. ServerTypeOK'
        BY <1>1, <1>2, <2>1, <3>1, <3>2 DEF ServerTypeOK, stopping, handlers
      <3>4. HandingInv'
        BY <1>1, <1>2, <1>4, <2>1, <3>1, <3>2 DEF HandingInv
      <3> QED  BY <1>5, <2>2, <3>3, <3>4, Zenon DEF ServerInv
    <2> QED  BY <2>3, <2>4, Zenon
  <1> QED  BY <1>6, <1>7, Zenon

\* A connection that is taken from the channel is no longer in it.
LEMMA ReceiveStep ==
  ASSUME ServerInv, NEW to \in {"handler", "caller"}, Receive(to),
         UNCHANGED <<stopping, accepting, chanClosed, handlers, active, sock, handler, srvCrashed>>
  PROVE  ServerInv'
  <1>1. ServerTypeOK /\ LoopsInv /\ HandingInv /\ StopInv /\ LimitInv
    BY Zenon DEF ServerInv
  <1> DEFINE q == connectionChan
  <1>2. q \in Seq(Socks) /\ q # << >> /\ connectionChan' = Tail(q) /\ Handed(Head(q), to)
    BY <1>1, Zenon DEF Receive, ServerTypeOK
  <1>3. \A c \in Seq(Socks) : c # << >> =>
          /\ Len(c) \in Nat \ {0} /\ Head(c) = c[1] /\ Tail(c) \in Seq(Socks) /\ Len(Tail(c)) = Len(c) - 1
          /\ \A i \in 1 .. Len(Tail(c)) : Tail(c)[i] = c[i + 1] /\ i + 1 \in 1 .. Len(c)
          /\ 1 \in 1 .. Len(c) /\ \A i \in 1 .. Len(c) : c[i] \in Socks
    OBVIOUS
  <1>4. /\ Len(q) \in Nat \ {0} /\ Head(q) = q[1] /\ connectionChan' \in Seq(Socks)
        /\ Len(connectionChan') = Len(q) - 1 /\ 1 \in 1 .. Len(q)
        /\ \A i \in 1 .. Len(connectionChan') : connectionChan'[i] = q[i + 1] /\ i + 1 \in 1 .. Len(q)
        /\ \A i \in 1 .. Len(q) : q[i] \in Socks
    BY <1>2, <1>3, Zenon
  <1>5. handed[q[1]] = "nobody" /\ q[1] \in Socks /\ twice = {}
    BY <1>1, <1>4, Zenon DEF HandingInv
  <1>6. /\ handed' \in [Socks -> {"nobody", "handler", "caller"}] /\ twice' = {}
        /\ \A s \in Socks \ {q[1]} : handed'[s] = handed[s]
    BY <1>1, <1>2, <1>4, <1>5, HandedStep, Zenon
  <1>7. \A i \in 1 .. Len(connectionChan') : connectionChan'[i] # q[1]
    BY <1>1, <1>4 DEF HandingInv
  <1>8. ServerTypeOK'
    <2>1. Len(connectionChan') <= ChanSize
      BY <1>1, <1>4, ServerAssumption DEF ServerTypeOK
    <2> QED  BY <1>1, <1>4, <1>6, <2>1 DEF ServerTypeOK, stopping, accepting, handlers
  <1>9. HandingInv'
    <2>1. \A i, j \in 1 .. Len(connectionChan') : connectionChan'[i] = connectionChan'[j] => i = j
      <3>1. ASSUME NEW i \in 1 .. Len(connectionChan'), NEW j \in 1 .. Len(connectionChan'),
                   connectionChan'[i] = connectionChan'[j]
            PROVE  i = j
        <4>1. q[i + 1] = q[j + 1] /\ i + 1 \in 1 .. Len(q) /\ j + 1 \in 1 .. Len(q)
          BY <1>4, <3>1, Zenon
        <4>2. i + 1 = j + 1
          BY <1>1, <4>1, Zenon DEF HandingInv
        <4> QED  BY <4>2
      <3> QED  BY <3>1, Zenon
    <2>2. \A i \in 1 .. Len(connectionChan') :
            /\ handed'[connectionChan'[i]] = "nobody" /\ connectionChan'[i] \notin fresh
            /\ sock[connectionChan'[i]] \in {"open", "closed"}
      <3> SUFFICES ASSUME NEW i \in 1 .. Len(connectionChan')
                   PROVE  /\ handed'[connectionChan'[i]] = "nobody" /\ connectionChan'[i] \notin fresh
                          /\ sock[connectionChan'[i]] \in {"open", "closed"}
        BY Zenon
      <3>1. connectionChan'[i] = q[i + 1] /\ i + 1 \in 1 .. Len(q) /\ connectionChan'[i] # q[1]
        BY <1>4, <1>7, Zenon
      <3>2. /\ q[i + 1] \in Socks \ {q[1]} /\ handed[q[i + 1]] = "nobody" /\ q[i + 1] \notin fresh
            /\ sock[q[i + 1]] \in {"open", "closed"}
        BY <1>1, <1>4, <3>1, Zenon DEF HandingInv
      <3> QED  BY <1>6, <3>1, <3>2, Zenon
    <2>3. q[1] \notin fresh /\ sock[q[1]] \in {"open", "closed"}
      BY <1>1, <1>4, Zenon DEF HandingInv
    <2>4. \A s \in fresh : handed'[s] = "nobody"
      BY <1>1, <1>6, <2>3 DEF HandingInv, ServerTypeOK
    <2>5. \A s \in Socks : sock[s] \in {"none", "backlog"} => handed'[s] = "nobody"
      BY <1>1, <1>6, <2>3, Zenon DEF HandingInv
    <2> QED  BY <1>1, <1>6, <2>1, <2>2, <2>4, <2>5, Zenon DEF HandingInv, accepting
  <1>10. StopInv' /\ LoopsInv' /\ LimitInv'
    BY <1>1, Zenon DEF StopInv, LoopsInv, LimitInv, ConnectionLimit, stopping, accepting, handlers
  <1> QED  BY <1>8, <1>9, <1>10, Zenon DEF ServerInv

\* The handlers are set and the loops of SetConnectionHandler come and go.
LEMMA HandlersStep ==
  ASSUME ServerInv, UNCHANGED <<stopping, accepting, handing, active, sock, handler, srvCrashed>>,
         \/ SetConnectionHandler \/ SetStartsLoop \/ SetMessageHandler
         \/ UNCHANGED <<setting, hasMsgHandler, hasConnHandler>> /\ handlerLoops > 0 /\ handlerLoops' = handlerLoops - 1
  PROVE  ServerInv'
  <1>1. ServerTypeOK /\ LoopsInv /\ HandingInv /\ StopInv /\ LimitInv
    BY Zenon DEF ServerInv
  <1>2. hasMsgHandler' \in BOOLEAN /\ hasConnHandler' \in BOOLEAN
    BY <1>1, Zenon DEF SetConnectionHandler, SetStartsLoop, SetMessageHandler, ServerTypeOK
  <1>3. /\ setting' \in Nat /\ handlerLoops' \in Nat
        /\ setting' + handlerLoops' <= starts + (IF hasConnHandler' THEN 1 ELSE 0)
    BY <1>1, ServerAssumption, SMTT(30) DEF SetConnectionHandler, SetStartsLoop, SetMessageHandler, ServerTypeOK, LoopsInv
  <1>4. LoopsInv' /\ setting' \in 0 .. MaxStarts + 1 /\ handlerLoops' \in 0 .. MaxStarts + 1
    <2>1. starts' = starts /\ starts \in 0 .. MaxStarts
      BY <1>1, Zenon DEF ServerTypeOK, stopping
    <2>2. LoopsInv'
      BY <1>3, <2>1, Zenon DEF LoopsInv
    <2>3. \A m, n, k, max \in Nat : m + n <= k + (IF hasConnHandler' THEN 1 ELSE 0) /\ k <= max
                                      => m \in 0 .. max + 1 /\ n \in 0 .. max + 1
      OBVIOUS
    <2>4. starts \in Nat /\ starts <= MaxStarts /\ MaxStarts \in Nat
      BY <2>1, ServerAssumption
    <2> QED  BY <1>3, <2>2, <2>3, <2>4, Zenon
  <1>5. ServerTypeOK'
    BY <1>1, <1>2, <1>4 DEF ServerTypeOK, stopping, accepting, handing
  <1>6. HandingInv' /\ StopInv' /\ LimitInv'
    BY <1>1 DEF HandingInv, StopInv, LimitInv, ConnectionLimit, stopping, accepting, handing
  <1> QED  BY <1>4, <1>5, <1>6, Zenon DEF ServerInv

\* A connection's handler runs; at its end it takes its connection off the map.
LEMMA HandleConnectionStep == ASSUME ServerInv, NEW s \in Socks, HandleConnection(s) PROVE ServerInv'
  <1>1. ServerTypeOK /\ LoopsInv /\ HandingInv /\ StopInv /\ LimitInv
    BY Zenon DEF ServerInv
  <1>2. /\ handler[s] \in {"check", "read", "ending"}
        /\ UNCHANGED <<stopping, accepting, handing, handlers, sock, srvCrashed>>
    BY Zenon DEF HandleConnection, Check, Read, End
  <1>3. /\ handler' \in [Socks -> {"none", "check", "read", "ending", "done"}]
        /\ \A q \in Socks \ {s} : handler'[q] = handler[q]
        /\ active' = active \/ (active' = active \ {s} /\ handler'[s] = "done")
    BY <1>1, Zenon DEF HandleConnection, Check, Read, End, HandlerAt, ServerTypeOK
  <1>4. ~chanClosed
    BY <1>1, <1>2, Zenon DEF StopInv
  <1>5. ServerTypeOK'
    BY <1>1, <1>2, <1>3, SMTT(30) DEF ServerTypeOK, stopping, accepting, handing, handlers
  <1>6. LoopsInv' /\ HandingInv'
    BY <1>1, <1>2 DEF LoopsInv, HandingInv, stopping, accepting, handing, handlers
  <1>7. StopInv'
    BY <1>1, <1>2, <1>3, <1>4, Zenon DEF StopInv, stopping, accepting, handing
  <1>8. LimitInv'
    <2>1. IsFiniteSet(active) /\ Cardinality(active) \in Nat
      BY <1>1, FS_CardinalityType, Zenon DEF LimitInv
    <2>2. IsFiniteSet(active') /\ (Cardinality(active') = Cardinality(active) \/ Cardinality(active') = Cardinality(active) - 1)
      BY <1>3, <2>1, FS_RemoveElement
    <2> QED  BY <1>1, <2>1, <2>2, ServerAssumption DEF LimitInv, ConnectionLimit
  <1> QED  BY <1>5, <1>6, <1>7, <1>8, Zenon DEF ServerInv

\* Every step of a server keeps its invariant.
LEMMA ServerKeeps == ServerInv /\ [ServerNext]_srvVars => ServerInv'
  <1> SUFFICES ASSUME ServerInv, [ServerNext]_srvVars PROVE ServerInv'
    BY Zenon
  <1>1. CASE Start
    BY <1>1, ServerStartStep, Zenon
  <1>2. CASE Stop \/ StopSteps
    BY <1>2, StopStep, Zenon
  <1>3. CASE AcceptLoop
    BY <1>3, AcceptCheckStep, AcceptStep, PublishStep, Zenon DEF AcceptLoop
  <1>4. CASE SetConnectionHandler \/ SetStartsLoop \/ SetMessageHandler
    <2>1. UNCHANGED <<stopping, accepting, handing, active, sock, handler, srvCrashed>>
      BY <1>4, Zenon DEF SetConnectionHandler, SetStartsLoop, SetMessageHandler
    <2> QED  BY <1>4, <2>1, HandlersStep, Zenon
  <1>5. CASE HandlerLoop
    <2>1. UNCHANGED <<stopping, accepting, chanClosed, hasMsgHandler, hasConnHandler, setting, active, sock, handler, srvCrashed>>
          /\ handlerLoops > 0
      BY <1>5, Zenon DEF HandlerLoop
    <2>2. CASE Receive("handler") /\ UNCHANGED handlerLoops
      BY <2>1, <2>2, ReceiveStep, Zenon DEF handlers
    <2>3. CASE handlerLoops' = handlerLoops - 1 /\ UNCHANGED <<connectionChan, handed, twice>>
      BY <2>1, <2>3, HandlersStep, Zenon DEF handing
    <2> QED  BY <1>5, <2>2, <2>3, Zenon DEF HandlerLoop
  <1>6. CASE AcceptConnection
    BY <1>6, ReceiveStep, Zenon DEF AcceptConnection
  <1>7. ASSUME NEW s \in Socks, Dial(s) \/ HandleConnection(s) PROVE ServerInv'
    BY <1>7, DialStep, HandleConnectionStep, Zenon
  <1>8. CASE UNCHANGED srvVars
    <2> USE <1>8 DEF srvVars, stopping, accepting, handing, handlers
    <2>1. ServerTypeOK'
      BY DEF ServerInv, ServerTypeOK
    <2>2. LoopsInv'
      BY Zenon DEF ServerInv, LoopsInv
    <2>3. HandingInv'
      BY DEF ServerInv, HandingInv
    <2>4. StopInv'
      BY Zenon DEF ServerInv, StopInv
    <2>5. LimitInv'
      BY Zenon DEF ServerInv, LimitInv, ConnectionLimit
    <2> QED  BY <2>1, <2>2, <2>3, <2>4, <2>5, ZenonT(30) DEF ServerInv
  <1> QED  BY <1>1, <1>2, <1>3, <1>4, <1>5, <1>6, <1>7, <1>8, Zenon DEF ServerNext

\* A server keeps its invariant.
LEMMA ServerSafe == ServerSpec => []ServerInv
  BY InitServer, ServerKeeps, PTL DEF ServerSpec

\* However OnConnect loops, AcceptConnection callers and the accept loop interleave, no
\* connection is handed out twice.
THEOREM HandsOutOnce == ServerSpec => []HandedOnce
  <1>1. ServerInv => HandedOnce
    BY Zenon DEF ServerInv, HandingInv, HandedOnce
  <1> QED  BY <1>1, ServerSafe, PTL

\* Once Stop has returned no accept loop and no handler works, and every accepted
\* connection is closed but those whose message handler had ended before.
THEOREM StopLeavesNoHandler == ServerSpec => []StopLeavesNothing
  <1>1. ServerInv => StopLeavesNothing
    BY Zenon DEF ServerInv, StopInv, StopLeavesNothing
  <1> QED  BY <1>1, ServerSafe, PTL

\* The map of connections never grows past the configured limit.
THEOREM LimitHolds == ServerSpec => []ConnectionLimit
  <1>1. ServerInv => ConnectionLimit
    BY Zenon DEF ServerInv, LimitInv
  <1> QED  BY <1>1, ServerSafe, PTL

\* The server's state keeps its types; its channel stays within its capacity.
THEOREM ServerTypeCorrect == ServerSpec => []ServerTypeOK
  <1>1. ServerInv => ServerTypeOK
    BY Zenon DEF ServerInv
  <1> QED  BY <1>1, ServerSafe, PTL

----------------------------------------------------------------------------
(* MsgServer                                                                *)

\* Peers whose handler has incremented the counter.
Numbered == {p \in Peers : ~At(p, {"none", "load", "store"})}

Serving(p) == At(p, {"handshake", "loop", "end"})
Alive(p) == ~At(p, {"none", "gone"})
Young(p) == At(p, {"none", "load", "store", "add", "handshake"})

\* The counter, and what was loaded of it, stay within the number of connections, and an
\* fd that two connections have is known to be shared.
FdInv ==
  /\ nextFD <= 1 + Cardinality(Numbered)
  /\ \A p \in Peers : loadedFD[p] <= 1 + Cardinality(Numbered)
  /\ \A p \in Peers : Alive(p) => peer[p].fd >= 1
  /\ \A p, q \in Peers : p # q /\ Alive(p) /\ Alive(q) /\ peer[p].fd = peer[q].fd => peer[p].fd \in sharedFds

Joined(p) == peer[p].session # Nobody /\ peer[p].session # p

\* A connection opens or joins one session, once; a session has one user name.
SessionInv ==
  /\ \A p \in Peers : Young(p) => peer[p].session = Nobody
  /\ \A p \in Peers : peer[p].session # Nobody => ~Young(peer[p].session)
  /\ \A u \in Usernames : IF sessions[u].opener = Nobody THEN sessions[u] = NoSession
                          ELSE ~Young(sessions[u].opener)
  /\ \A u, v \in Usernames : sessions[u].opener # Nobody /\ sessions[u].opener = sessions[v].opener => u = v

\* The numbers with which connections joined a session.
SeqInv ==
  \A p \in Peers : Joined(p) =>
    /\ \A q \in Peers : q # p /\ Joined(q) /\ peer[q].session = peer[p].session => peer[q].seq # peer[p].seq
    /\ \A u \in Usernames : sessions[u].opener = peer[p].session => peer[p].seq <= sessions[u].seq

MsgInv == MsgTypeOK /\ FdInv /\ FdsOwned /\ SessionInv /\ SeqInv

----------------------------------------------------------------------------

\* At most MaxPeers handlers increment the counter.
LEMMA NumberedBound ==
  /\ IsFiniteSet(Numbered) /\ Cardinality(Numbered) \in Nat /\ Cardinality(Numbered) <= MaxPeers
  <1>1. IsFiniteSet(Peers) /\ Cardinality(Peers) = MaxPeers
    BY FS_Interval, MsgAssumption DEF Peers
  <1>2. Numbered \subseteq Peers
    BY Zenon DEF Numbered
  <1> QED  BY <1>1, <1>2, FS_Subset, FS_CardinalityType, Zenon

\* A new server has no connection and no session.
LEMMA InitMsg == NewMsgServer => MsgInv
  <1> SUFFICES ASSUME NewMsgServer PROVE MsgInv
    BY Zenon
  <1> USE MsgAssumption
  <1>1. /\ nextFD = 1 /\ sharedFds = {} /\ \A p \in Peers : loadedFD[p] = 0
        /\ \A p \in Peers : peer[p] = [pc |-> "none", fd |-> 0, session |-> Nobody, seq |-> 0]
        /\ \A f \in 1 .. MaxFD : byFd[f] = Nobody
        /\ \A u \in Usernames : sessions[u] = NoSession
        /\ DOMAIN byFd = 1 .. MaxFD
    BY Zenon DEF NewMsgServer
  <1>2. MsgTypeOK
    BY DEF NewMsgServer, MsgTypeOK, PeerRecords, NoSession, Nobody, MaxFD
  <1>3. FdInv /\ FdsOwned
    BY <1>1, NumberedBound DEF FdInv, FdsOwned, Alive, At
  <1>4. SessionInv /\ SeqInv
    BY <1>1 DEF SessionInv, SeqInv, Joined, NoSession, Nobody
  <1> QED  BY <1>2, <1>3, <1>4, Zenon DEF MsgInv

\* What a step of connection p that sets its record to r does to the peers.
LEMMA PeerChange ==
  ASSUME MsgTypeOK, NEW p \in Peers, NEW r \in PeerRecords, peer'[p] = r,
         peer' = [q \in Peers |-> peer'[q]], \A q \in Peers \ {p} : peer'[q] = peer[q]
  PROVE  peer' \in [Peers -> PeerRecords]
  BY Zenon DEF MsgTypeOK

\* Steps after the handshake's: sessions and fds are left as they are.
LEMMA SessionsKept ==
  ASSUME MsgTypeOK, SessionInv, SeqInv, UNCHANGED sessions, NEW p \in Peers,
         \A q \in Peers \ {p} : peer'[q] = peer[q],
         peer'[p].session = peer[p].session, peer'[p].seq = peer[p].seq,
         Young(p)' => Young(p)
  PROVE  SessionInv' /\ SeqInv'
  <1>1. \A q \in Peers : /\ peer'[q].session = peer[q].session /\ peer'[q].seq = peer[q].seq
                         /\ Young(q)' => Young(q) /\ Joined(q)' = Joined(q)
    BY Zenon DEF Young, At, Joined
  <1>2. \A q \in Peers : peer[q].session \in Peers \cup {Nobody}
    BY Zenon DEF MsgTypeOK, PeerRecords
  <1>3. \A u \in Usernames : sessions[u].opener \in Peers \cup {Nobody}
    BY Zenon DEF MsgTypeOK
  <1>4. SessionInv'
    BY <1>1, <1>2, <1>3, SMTT(30) DEF SessionInv
  <1>5. SeqInv'
    BY <1>1 DEF SeqInv, Joined
  <1> QED  BY <1>4, <1>5, Zenon

\* The handler reads an fd; if another has it, it is shared.
LEMMA TakeStep == ASSUME MsgInv, NEW p \in Peers, TakeFD(p) PROVE MsgInv'
  <1> USE MsgAssumption
  <1> DEFINE r == [pc |-> "load", fd |-> nextFD, session |-> peer[p].session, seq |-> peer[p].seq]
  <1>1. MsgTypeOK /\ FdInv /\ FdsOwned /\ SessionInv /\ SeqInv /\ UNCHANGED <<nextFD, loadedFD, byFd, sessions>>
    BY Zenon DEF MsgInv, TakeFD
  <1>2. /\ r \in PeerRecords /\ peer[p].pc = "none" /\ peer'[p] = r /\ peer' = [q \in Peers |-> peer'[q]]
        /\ \A q \in Peers \ {p} : peer'[q] = peer[q]
    <2>1. nextFD \in 0 .. MaxFD
      BY <1>1 DEF MsgTypeOK, MaxFD
    <2>2. r \in PeerRecords
      BY <1>1, <2>1, Zenon DEF MsgTypeOK, PeerRecords
    <2>3. peer[p].pc = "none" /\ peer' = [peer EXCEPT ![p].pc = "load", ![p].fd = nextFD]
      BY Zenon DEF TakeFD, At
    <2> QED  BY <1>1, <2>2, <2>3, Zenon DEF MsgTypeOK, PeerRecords
  <1>3. /\ peer' \in [Peers -> PeerRecords] /\ peer'[p] = r
        /\ \A q \in Peers \ {p} : peer'[q] = peer[q]
    BY <1>1, <1>2, PeerChange, Zenon
  <1>4. /\ r.pc = "load" /\ r.fd = nextFD /\ r.session = peer[p].session /\ r.seq = peer[p].seq
        /\ nextFD \in 1 .. MaxFD
    BY <1>1, Zenon DEF MsgTypeOK, PeerRecords
  <1> HIDE DEF r
  <1>5. /\ sharedFds \subseteq sharedFds' /\ sharedFds' \subseteq 1 .. MaxFD
        /\ \A q \in Peers : Alive(q) /\ peer[q].fd = nextFD => nextFD \in sharedFds'
    BY <1>1, <1>4, Zenon DEF TakeFD, MsgTypeOK, Alive
  <1>6. MsgTypeOK'
    BY <1>1, <1>3, <1>5, Zenon DEF MsgTypeOK
  <1>7. Numbered' = Numbered
    BY <1>2, <1>3, <1>4, Zenon DEF Numbered, At
  <1>8. FdInv'
    <2>1. \A q \in Peers \ {p} : Alive(q)' = Alive(q) /\ peer'[q].fd = peer[q].fd
      BY <1>3, Zenon DEF Alive, At
    <2>2. peer'[p].fd = nextFD /\ nextFD >= 1
      BY <1>3, <1>4 DEF MaxFD
    <2> QED  BY <1>1, <1>5, <1>7, <2>1, <2>2, Zenon DEF FdInv
  <1>9. FdsOwned'
    <2>1. \A f \in DOMAIN byFd : byFd[f] # Nobody => byFd[f] \in Peers \ {p}
      BY <1>1, <1>2 DEF FdsOwned, At, MsgTypeOK
    <2>2. \A f \in DOMAIN byFd : byFd[f] # Nobody =>
            peer'[byFd[f]].fd = f /\ peer'[byFd[f]].pc \in {"handshake", "loop", "end"}
      BY <1>1, <1>3, <2>1, Zenon DEF FdsOwned, At
    <2>3. \A q \in Peers : peer'[q].pc \in {"handshake", "loop", "end"} /\ peer'[q].fd \notin sharedFds' =>
            byFd[peer'[q].fd] = q
      BY <1>1, <1>3, <1>4, <1>5, ZenonT(30) DEF FdsOwned, At
    <2> QED  BY <1>1, <2>2, <2>3, ZenonT(30) DEF FdsOwned, At
  <1>10. SessionInv' /\ SeqInv'
    BY <1>1, <1>2, <1>3, <1>4, SessionsKept, Zenon DEF Young, At
  <1> QED  BY <1>6, <1>8, <1>9, <1>10, Zenon DEF MsgInv

\* A step of a handler between its fd and the map, which keeps its fd.
LEMMA CountStep ==
  ASSUME MsgInv, NEW p \in Peers, NEW pc \in {"store", "add"},
         peer[p].pc \in {"load", "store"}, peer' = [peer EXCEPT ![p].pc = pc],
         nextFD' \in 1 .. MaxFD, loadedFD' \in [Peers -> 0 .. MaxFD], nextFD' <= 1 + Cardinality(Numbered'),
         \A q \in Peers : loadedFD'[q] <= 1 + Cardinality(Numbered'), UNCHANGED <<byFd, sessions, sharedFds>>
  PROVE  MsgInv'
  <1> DEFINE r == [pc |-> pc, fd |-> peer[p].fd, session |-> peer[p].session, seq |-> peer[p].seq]
  <1>1. MsgTypeOK /\ FdInv /\ FdsOwned /\ SessionInv /\ SeqInv
    BY Zenon DEF MsgInv
  <1>2. /\ r \in PeerRecords /\ peer'[p] = r /\ peer' = [q \in Peers |-> peer'[q]]
        /\ \A q \in Peers \ {p} : peer'[q] = peer[q]
    BY <1>1, ZenonT(30) DEF MsgTypeOK, PeerRecords
  <1>3. /\ peer' \in [Peers -> PeerRecords] /\ peer'[p] = r
        /\ \A q \in Peers \ {p} : peer'[q] = peer[q]
    BY <1>1, <1>2, PeerChange, Zenon
  <1>4. r.pc = pc /\ r.fd = peer[p].fd /\ r.session = peer[p].session /\ r.seq = peer[p].seq
    BY Zenon
  <1> HIDE DEF r
  <1>5. MsgTypeOK'
    BY <1>1, <1>3, Zenon DEF MsgTypeOK
  <1>6. \A q \in Peers : Alive(q)' = Alive(q) /\ peer'[q].fd = peer[q].fd
    BY <1>3, <1>4, Zenon DEF Alive, At
  <1>7. FdInv'
    <2>1. \A q, o \in Peers : q # o /\ Alive(q)' /\ Alive(o)' /\ peer'[q].fd = peer'[o].fd => peer'[q].fd \in sharedFds'
      <3>1. sharedFds' = sharedFds
        BY Zenon
      <3> QED  BY <1>1, <1>6, <3>1, SMTT(30) DEF FdInv
    <2>2. \A q \in Peers : Alive(q)' => peer'[q].fd >= 1
      BY <1>1, <1>6, Zenon DEF FdInv
    <2> QED  BY <2>1, <2>2 DEF FdInv
  <1>8. FdsOwned'
    BY <1>1, <1>3, <1>4 DEF FdsOwned, At, MsgTypeOK
  <1>9. SessionInv' /\ SeqInv'
    BY <1>1, <1>3, <1>4, SessionsKept, Zenon DEF Young, At
  <1> QED  BY <1>5, <1>7, <1>8, <1>9, Zenon DEF MsgInv

\* The handler loads the counter.
LEMMA LoadStep == ASSUME MsgInv, NEW p \in Peers, LoadFD(p) PROVE MsgInv'
  <1>1. MsgTypeOK /\ FdInv /\ peer[p].pc = "load" /\ peer' = [peer EXCEPT ![p].pc = "store"]
    BY Zenon DEF MsgInv, LoadFD, At
  <1>2. UNCHANGED <<nextFD, byFd, sessions, sharedFds>> /\ loadedFD' = [loadedFD EXCEPT ![p] = nextFD]
    BY Zenon DEF LoadFD
  <1>3. nextFD' \in 1 .. MaxFD /\ nextFD \in 0 .. MaxFD /\ loadedFD \in [Peers -> 0 .. MaxFD]
    BY <1>1, <1>2, MsgAssumption DEF MsgTypeOK, MaxFD
  <1>4. loadedFD' \in [Peers -> 0 .. MaxFD] /\ \A q \in Peers : loadedFD'[q] \in {nextFD, loadedFD[q]}
    BY <1>2, <1>3, Zenon
  <1>5. Numbered' = Numbered
    <2>1. \A q \in Peers \ {p} : At(q, {"none", "load", "store"})' = At(q, {"none", "load", "store"})
      BY <1>1, Zenon DEF At, MsgTypeOK
    <2>2. At(p, {"none", "load", "store"}) /\ At(p, {"none", "load", "store"})'
      BY <1>1, Zenon DEF At, MsgTypeOK, PeerRecords
    <2> QED  BY <2>1, <2>2, Zenon DEF Numbered
  <1>6. nextFD' <= 1 + Cardinality(Numbered') /\ \A q \in Peers : loadedFD'[q] <= 1 + Cardinality(Numbered')
    BY <1>1, <1>2, <1>4, <1>5, Zenon DEF FdInv
  <1> QED  BY <1>1, <1>2, <1>3, <1>4, <1>6, CountStep, Zenon

\* The counter becomes at most one more than it ever was, once for every connection.
LEMMA StoreStep == ASSUME MsgInv, NEW p \in Peers, StoreFD(p) PROVE MsgInv'
  <1> USE MsgAssumption
  <1>1. MsgTypeOK /\ FdInv /\ peer[p].pc = "store" /\ peer' = [peer EXCEPT ![p].pc = "add"]
    BY Zenon DEF MsgInv, StoreFD, At
  <1>2. UNCHANGED <<byFd, sessions, sharedFds>> /\ nextFD' = loadedFD[p] + 1 /\ loadedFD' = [loadedFD EXCEPT ![p] = 0]
    BY Zenon DEF StoreFD
  <1>3. Numbered' = Numbered \cup {p} /\ p \notin Numbered
    <2>1. \A q \in Peers \ {p} : At(q, {"none", "load", "store"})' = At(q, {"none", "load", "store"})
      BY <1>1, Zenon DEF At, MsgTypeOK
    <2>2. At(p, {"none", "load", "store"}) /\ ~At(p, {"none", "load", "store"})'
      BY <1>1, Zenon DEF At, MsgTypeOK, PeerRecords
    <2> QED  BY <2>1, <2>2, Zenon DEF Numbered
  <1>4. Cardinality(Numbered') = Cardinality(Numbered) + 1
    BY <1>3, NumberedBound, FS_AddElement, Zenon
  <1>5. Cardinality(Numbered') <= MaxPeers
    <2>1. IsFiniteSet(Peers) /\ Cardinality(Peers) = MaxPeers
      BY FS_Interval DEF Peers
    <2> QED  BY <1>3, <2>1, FS_Subset, Zenon DEF Numbered
  <1>6. loadedFD \in [Peers -> 0 .. MaxFD] /\ 0 \in 0 .. MaxFD
    BY <1>1 DEF MsgTypeOK, MaxFD
  <1>7. loadedFD' \in [Peers -> 0 .. MaxFD] /\ \A q \in Peers : loadedFD'[q] \in {0, loadedFD[q]}
    BY <1>2, <1>6, Zenon
  <1>8. nextFD' <= 1 + Cardinality(Numbered') /\ nextFD' \in 1 .. MaxFD
    BY <1>1, <1>2, <1>4, <1>5, <1>6, NumberedBound DEF FdInv, MaxFD
  <1>9. \A q \in Peers : loadedFD'[q] <= 1 + Cardinality(Numbered')
    BY <1>1, <1>4, <1>6, <1>7, NumberedBound DEF FdInv
  <1> QED  BY <1>1, <1>2, <1>7, <1>8, <1>9, CountStep, ZenonT(30)

\* Steps of a connection in the map that leave it there.
LEMMA FdsKept ==
  ASSUME MsgTypeOK, FdInv, FdsOwned, NEW p \in Peers, UNCHANGED <<nextFD, loadedFD, byFd, sharedFds>>,
         \A q \in Peers \ {p} : peer'[q] = peer[q], peer'[p].fd = peer[p].fd,
         {peer[p].pc, peer'[p].pc} \subseteq {"handshake", "loop", "end"}
  PROVE  FdInv' /\ FdsOwned'
  <1>1. Numbered' = Numbered
    BY Zenon DEF Numbered, At
  <1>2. \A q \in Peers : Alive(q)' = Alive(q) /\ peer'[q].fd = peer[q].fd
    BY Zenon DEF Alive, At
  <1>3. FdInv'
    BY <1>1, <1>2, Zenon DEF FdInv
  <1>4. \A q \in Peers : At(q, {"handshake", "loop", "end"})' = At(q, {"handshake", "loop", "end"})
    BY DEF At
  <1>5. \A f \in DOMAIN byFd : byFd[f] # Nobody => byFd[f] \in Peers
    BY Zenon DEF MsgTypeOK
  <1>6. FdsOwned'
    <2>1. \A f \in DOMAIN byFd : byFd[f] # Nobody =>
            peer'[byFd[f]].fd = f /\ At(byFd[f], {"handshake", "loop", "end"})'
      BY <1>2, <1>4, <1>5, Zenon DEF FdsOwned
    <2>2. \A q \in Peers : At(q, {"handshake", "loop", "end"})' /\ peer'[q].fd \notin sharedFds =>
            byFd[peer'[q].fd] = q
      BY <1>2, <1>4, ZenonT(30) DEF FdsOwned
    <2> QED  BY <2>1, <2>2, Zenon DEF FdsOwned, At
  <1> QED  BY <1>3, <1>6, Zenon

\* The connection is entered under its fd, and displaces only one that shares it.
LEMMA AddStep == ASSUME MsgInv, NEW p \in Peers, AddPeer(p) PROVE MsgInv'
  <1> USE MsgAssumption
  <1> DEFINE r == [pc |-> "handshake", fd |-> peer[p].fd, session |-> peer[p].session, seq |-> peer[p].seq]
  <1>1. MsgTypeOK /\ FdInv /\ FdsOwned /\ SessionInv /\ SeqInv /\ UNCHANGED <<nextFD, loadedFD, sessions, sharedFds>>
    BY Zenon DEF MsgInv, AddPeer
  <1>2. /\ r \in PeerRecords /\ peer[p].pc = "add" /\ peer'[p] = r /\ peer' = [q \in Peers |-> peer'[q]]
        /\ \A q \in Peers \ {p} : peer'[q] = peer[q]
    BY <1>1, ZenonT(30) DEF AddPeer, MsgTypeOK, PeerRecords, At
  <1>3. peer' \in [Peers -> PeerRecords]
    BY <1>1, <1>2, PeerChange, Zenon
  <1>4. /\ r.pc = "handshake" /\ r.fd = peer[p].fd /\ r.session = peer[p].session /\ r.seq = peer[p].seq
        /\ peer[p].fd \in 1 .. MaxFD /\ p # Nobody
    <2>1. peer[p].fd \in 0 .. MaxFD
      BY <1>1, Zenon DEF MsgTypeOK, PeerRecords
    <2>2. peer[p].fd \in 1 .. MaxFD /\ p # Nobody
      BY <1>1, <1>2, <2>1 DEF FdInv, Alive, At, MaxFD, Peers, Nobody
    <2> QED  BY <2>2, Zenon
  <1> HIDE DEF r
  <1>5. /\ byFd' \in [1 .. MaxFD -> Peers \cup {Nobody}] /\ byFd'[peer[p].fd] = p
        /\ \A f \in 1 .. MaxFD \ {peer[p].fd} : byFd'[f] = byFd[f]
    BY <1>1, <1>4, Zenon DEF AddPeer, MsgTypeOK
  <1>6. MsgTypeOK'
    BY <1>1, <1>3, <1>5, Zenon DEF MsgTypeOK
  <1>7. Numbered' = Numbered
    BY <1>2, <1>4, Zenon DEF Numbered, At
  <1>8. \A q \in Peers : Alive(q)' = Alive(q) /\ peer'[q].fd = peer[q].fd
    BY <1>2, <1>4, Zenon DEF Alive, At
  <1>9. FdInv'
    BY <1>1, <1>7, <1>8, ZenonT(30) DEF FdInv
  <1>10. FdsOwned'
    <2>1. \A f \in 1 .. MaxFD : byFd'[f] # Nobody =>
            peer'[byFd'[f]].fd = f /\ peer'[byFd'[f]].pc \in {"handshake", "loop", "end"}
      <3> SUFFICES ASSUME NEW f \in 1 .. MaxFD, byFd'[f] # Nobody
                   PROVE  peer'[byFd'[f]].fd = f /\ peer'[byFd'[f]].pc \in {"handshake", "loop", "end"}
        BY Zenon
      <3>1. CASE f = peer[p].fd
        BY <1>2, <1>4, <1>5, <3>1, Zenon
      <3>2. CASE f # peer[p].fd
        <4>1. byFd'[f] = byFd[f] /\ byFd[f] \in Peers /\ peer[byFd[f]].fd = f /\ byFd[f] # p
              /\ peer[byFd[f]].pc \in {"handshake", "loop", "end"}
          BY <1>1, <1>2, <1>5, <3>2 DEF FdsOwned, At, MsgTypeOK
        <4> QED  BY <1>2, <4>1, Zenon
      <3> QED  BY <3>1, <3>2, Zenon
    <2>2. \A q \in Peers : peer'[q].pc \in {"handshake", "loop", "end"} /\ peer'[q].fd \notin sharedFds =>
            byFd'[peer'[q].fd] = q
      <3> SUFFICES ASSUME NEW q \in Peers, peer'[q].pc \in {"handshake", "loop", "end"}, peer'[q].fd \notin sharedFds
                   PROVE  byFd'[peer'[q].fd] = q
        BY Zenon
      <3>1. CASE q = p
        BY <1>2, <1>4, <1>5, <3>1, Zenon
      <3>2. CASE q # p
        <4>1. peer'[q] = peer[q] /\ byFd[peer[q].fd] = q /\ Alive(q) /\ Alive(p)
          BY <1>1, <1>2, <3>2, Zenon DEF FdsOwned, At, Alive
        <4>2. peer[q].fd # peer[p].fd /\ peer[q].fd \in 1 .. MaxFD
          BY <1>1, <3>2, <4>1 DEF FdInv, MsgTypeOK, PeerRecords, MaxFD
        <4> QED  BY <1>5, <4>1, <4>2, Zenon
      <3> QED  BY <3>1, <3>2, Zenon
    <2> QED  BY <1>1, <1>5, <2>1, <2>2 DEF FdsOwned, At
  <1>11. SessionInv' /\ SeqInv'
    BY <1>1, <1>2, <1>4, SessionsKept, Zenon DEF Young, At
  <1> QED  BY <1>6, <1>9, <1>10, <1>11, Zenon DEF MsgInv

\* The connection leaves, and takes with it at most the entry of one that shares its fd.
LEMMA RemoveStep == ASSUME MsgInv, NEW p \in Peers, RemovePeer(p) PROVE MsgInv'
  <1> USE MsgAssumption
  <1> DEFINE r == [pc |-> "gone", fd |-> 0, session |-> peer[p].session, seq |-> peer[p].seq]
  <1>1. MsgTypeOK /\ FdInv /\ FdsOwned /\ SessionInv /\ SeqInv /\ UNCHANGED <<nextFD, loadedFD, sessions>>
    BY Zenon DEF MsgInv, RemovePeer
  <1>2. /\ r \in PeerRecords /\ peer[p].pc = "end" /\ peer'[p] = r /\ peer' = [q \in Peers |-> peer'[q]]
        /\ \A q \in Peers \ {p} : peer'[q] = peer[q]
    <2>1. r \in PeerRecords
      BY <1>1 DEF MsgTypeOK, PeerRecords, MaxFD
    <2>2. peer[p].pc = "end" /\ peer' = [peer EXCEPT ![p].pc = "gone", ![p].fd = 0]
      BY Zenon DEF RemovePeer, At
    <2> QED  BY <1>1, <2>1, <2>2, Zenon DEF MsgTypeOK, PeerRecords
  <1>3. peer' \in [Peers -> PeerRecords]
    BY <1>1, <1>2, PeerChange, ZenonT(30)
  <1>4. /\ r.pc = "gone" /\ r.session = peer[p].session /\ r.seq = peer[p].seq
        /\ peer[p].fd \in 1 .. MaxFD /\ Alive(p)
    BY <1>1, <1>2 DEF MsgTypeOK, PeerRecords, FdInv, Alive, At, MaxFD
  <1> HIDE DEF r
  <1>5. /\ byFd' \in [1 .. MaxFD -> Peers \cup {Nobody}] /\ byFd'[peer[p].fd] = Nobody
        /\ \A f \in 1 .. MaxFD \ {peer[p].fd} : byFd'[f] = byFd[f]
    BY <1>1, <1>4, Zenon DEF RemovePeer, Deleted, MsgTypeOK
  <1>6. /\ sharedFds' \subseteq sharedFds
        /\ \A q \in Peers \ {p} : Alive(q) /\ peer[q].fd \in sharedFds => peer[q].fd \in sharedFds'
    BY Zenon DEF RemovePeer, Alive
  <1>7. MsgTypeOK'
    BY <1>1, <1>3, <1>5, <1>6, Zenon DEF MsgTypeOK
  <1>8. Numbered' = Numbered
    BY <1>2, <1>4, Zenon DEF Numbered, At
  <1>9. ~Alive(p)' /\ \A q \in Peers \ {p} : Alive(q)' = Alive(q) /\ peer'[q].fd = peer[q].fd
    BY <1>2, <1>4, Zenon DEF Alive, At
  <1>10. FdInv'
    BY <1>1, <1>6, <1>8, <1>9, Zenon DEF FdInv
  <1>11. FdsOwned'
    <2>1. \A f \in 1 .. MaxFD : byFd'[f] # Nobody =>
            peer'[byFd'[f]].fd = f /\ peer'[byFd'[f]].pc \in {"handshake", "loop", "end"}
      <3> SUFFICES ASSUME NEW f \in 1 .. MaxFD, byFd'[f] # Nobody
                   PROVE  peer'[byFd'[f]].fd = f /\ peer'[byFd'[f]].pc \in {"handshake", "loop", "end"}
        BY Zenon
      <3>1. f # peer[p].fd /\ byFd'[f] = byFd[f]
        BY <1>5, Zenon
      <3>2. byFd[f] \in Peers /\ peer[byFd[f]].fd = f /\ peer[byFd[f]].pc \in {"handshake", "loop", "end"}
        BY <1>1, <3>1 DEF FdsOwned, At, MsgTypeOK
      <3> QED  BY <1>2, <3>1, <3>2, Zenon
    <2>2. \A q \in Peers : peer'[q].pc \in {"handshake", "loop", "end"} /\ peer'[q].fd \notin sharedFds' =>
            byFd'[peer'[q].fd] = q
      <3> SUFFICES ASSUME NEW q \in Peers, peer'[q].pc \in {"handshake", "loop", "end"}, peer'[q].fd \notin sharedFds'
                   PROVE  byFd'[peer'[q].fd] = q
        BY Zenon
      <3>1. q # p /\ peer'[q] = peer[q]
        BY <1>2, <1>4, Zenon
      <3>2. Alive(q)
        BY <3>1, Zenon DEF Alive, At
      <3>3. peer[q].fd \notin sharedFds
        BY <1>6, <3>1, <3>2, Zenon
      <3>4. byFd[peer[q].fd] = q
        BY <1>1, <3>1, <3>3, ZenonT(30) DEF FdsOwned, At
      <3>5. peer[q].fd # peer[p].fd /\ peer[q].fd \in 1 .. MaxFD
        BY <1>1, <1>4, <3>1, <3>2, <3>3 DEF FdInv, MsgTypeOK, PeerRecords, MaxFD
      <3> QED  BY <1>5, <3>1, <3>4, <3>5, Zenon
    <2> QED  BY <1>1, <1>5, <2>1, <2>2, ZenonT(30) DEF FdsOwned, At
  <1>12. SessionInv' /\ SeqInv'
    BY <1>1, <1>2, <1>4, SessionsKept, Zenon DEF Young, At
  <1> QED  BY <1>7, <1>10, <1>11, <1>12, Zenon DEF MsgInv

\* The loop ends, by itself or because the connection was kicked.
LEMMA EndStep ==
  ASSUME MsgInv, NEW p \in Peers, peer[p].pc \in {"handshake", "loop", "end"},
         peer' = [peer EXCEPT ![p].pc = "end"], UNCHANGED <<nextFD, loadedFD, byFd, sessions, sharedFds>>
  PROVE  MsgInv'
  <1> DEFINE r == [pc |-> "end", fd |-> peer[p].fd, session |-> peer[p].session, seq |-> peer[p].seq]
  <1>1. MsgTypeOK /\ FdInv /\ FdsOwned /\ SessionInv /\ SeqInv
    BY Zenon DEF MsgInv
  <1>2. /\ r \in PeerRecords /\ peer'[p] = r /\ peer' = [q \in Peers |-> peer'[q]]
        /\ \A q \in Peers \ {p} : peer'[q] = peer[q]
    BY <1>1, Zenon DEF MsgTypeOK, PeerRecords
  <1>3. MsgTypeOK'
    BY <1>1, <1>2, PeerChange, Zenon DEF MsgTypeOK
  <1>4. FdInv' /\ FdsOwned'
    BY <1>1, <1>2, FdsKept
  <1>5. SessionInv' /\ SeqInv'
    BY <1>1, <1>2, SessionsKept DEF Young, At
  <1> QED  BY <1>3, <1>4, <1>5, Zenon DEF MsgInv

\* A handshake opens a session nobody has joined, or joins one with a number above all
\* those of the connections that joined before.
LEMMA HandshakeStep ==
  ASSUME MsgInv, NEW p \in Peers, NEW u \in Usernames, NEW seq \in 0 .. MaxSeq, handleHandshake(p, u, seq)
  PROVE  MsgInv'
  <1> USE MsgAssumption
  <1>1. MsgTypeOK /\ FdInv /\ FdsOwned /\ SessionInv /\ SeqInv /\ UNCHANGED <<nextFD, loadedFD, byFd, sharedFds>>
    BY Zenon DEF MsgInv, handleHandshake
  <1>2. peer[p].pc = "handshake" /\ Young(p) /\ p # Nobody
    BY DEF handleHandshake, At, Young, Peers, Nobody
  <1>3. /\ \A q \in Peers : peer[q].session \in Peers \cup {Nobody} /\ peer[q].seq \in 0 .. MaxSeq
        /\ \A v \in Usernames : sessions[v].opener \in Peers \cup {Nobody} /\ sessions[v].seq \in 0 .. MaxSeq
    BY <1>1, Zenon DEF MsgTypeOK, PeerRecords
  <1>4. /\ peer[p].session = Nobody /\ ~Joined(p) /\ \A q \in Peers : peer[q].session # p
        /\ \A v \in Usernames : sessions[v].opener # p
    BY <1>1, <1>2, <1>3, Zenon DEF SessionInv, Joined
  <1>5. CASE sessions[u] = NoSession /\ sessions' = [sessions EXCEPT ![u] = [opener |-> p, seq |-> 0]]
             /\ peer' = [peer EXCEPT ![p].pc = "loop", ![p].session = p]
    <2> DEFINE r == [pc |-> "loop", fd |-> peer[p].fd, session |-> p, seq |-> peer[p].seq]
    <2>1. /\ r \in PeerRecords /\ peer'[p] = r /\ peer' = [q \in Peers |-> peer'[q]]
          /\ \A q \in Peers \ {p} : peer'[q] = peer[q]
      BY <1>1, <1>5, ZenonT(30) DEF MsgTypeOK, PeerRecords
    <2>2. /\ r.pc = "loop" /\ r.fd = peer[p].fd /\ r.session = p
      BY Zenon
    <2> HIDE DEF r
    <2>3. /\ sessions' \in [Usernames -> [opener : Peers \cup {Nobody}, seq : 0 .. MaxSeq]]
          /\ sessions'[u].opener = p /\ \A v \in Usernames \ {u} : sessions'[v] = sessions[v]
      BY <1>1, <1>5 DEF MsgTypeOK
    <2>4. MsgTypeOK'
      BY <1>1, <2>1, <2>3, PeerChange, Zenon DEF MsgTypeOK
    <2>5. FdInv' /\ FdsOwned'
      BY <1>1, <1>2, <2>1, <2>2, FdsKept, Zenon
    <2>6. ~Young(p)' /\ \A q \in Peers \ {p} : Young(q)' = Young(q)
      BY <2>1, <2>2, ZenonT(30) DEF Young, At
    <2>7. SessionInv'
      BY <1>1, <1>2, <1>3, <1>4, <2>1, <2>2, <2>3, <2>6, SMTT(30) DEF SessionInv
    <2>8. ~Joined(p)' /\ \A q \in Peers \ {p} : Joined(q)' = Joined(q)
      BY <2>1, <2>2, Zenon DEF Joined
    <2>9. SeqInv'
      BY <1>1, <1>4, <2>1, <2>3, <2>8, SMTT(30) DEF SeqInv
    <2> QED  BY <2>4, <2>5, <2>7, <2>9, Zenon DEF MsgInv
  <1>6. CASE sessions[u] # NoSession /\ ~Stale(u, seq) /\ sessions' = [sessions EXCEPT ![u].seq = seq]
             /\ peer' = [peer EXCEPT ![p].pc = "loop", ![p].session = sessions[u].opener, ![p].seq = seq]
    <2> DEFINE s == sessions[u].opener
               r == [pc |-> "loop", fd |-> peer[p].fd, session |-> s, seq |-> seq]
    <2>1. s \in Peers /\ s # p /\ s # Nobody /\ ~Young(s)
      BY <1>1, <1>3, <1>4, <1>6, Zenon DEF SessionInv
    <2>2. /\ r \in PeerRecords /\ peer'[p] = r /\ peer' = [q \in Peers |-> peer'[q]]
          /\ \A q \in Peers \ {p} : peer'[q] = peer[q]
      <3>1. r \in PeerRecords
        BY <1>1, <2>1, Zenon DEF MsgTypeOK, PeerRecords
      <3>2. peer'[p] = r
        BY <1>1, <1>6, ZenonT(90) DEF MsgTypeOK, PeerRecords
      <3>3. peer' = [q \in Peers |-> peer'[q]] /\ \A q \in Peers \ {p} : peer'[q] = peer[q]
        BY <1>1, <1>6, Zenon DEF MsgTypeOK
      <3> QED  BY <3>1, <3>2, <3>3, Zenon
    <2>3. /\ r.pc = "loop" /\ r.fd = peer[p].fd /\ r.session = s /\ r.seq = seq
      BY Zenon
    <2>4. /\ sessions' \in [Usernames -> [opener : Peers \cup {Nobody}, seq : 0 .. MaxSeq]]
          /\ sessions'[u].opener = s /\ sessions'[u].seq = seq
          /\ \A v \in Usernames \ {u} : sessions'[v] = sessions[v]
      BY <1>1, <1>6, Zenon DEF MsgTypeOK
    <2>5. seq > sessions[u].seq
      BY <1>3, <1>6 DEF Stale
    <2> HIDE DEF r, s
    <2>6. MsgTypeOK'
      BY <1>1, <2>2, <2>4, PeerChange, Zenon DEF MsgTypeOK
    <2>7. FdInv' /\ FdsOwned'
      BY <1>1, <1>2, <2>2, <2>3, FdsKept, Zenon
    <2>8. ~Young(p)' /\ \A q \in Peers \ {p} : Young(q)' = Young(q)
      BY <2>2, <2>3, Zenon DEF Young, At
    <2>9. s = sessions[u].opener
      BY Zenon DEF s
    <2>10. SessionInv'
      BY <1>1, <1>3, <1>4, <2>1, <2>2, <2>3, <2>4, <2>8, <2>9 DEF SessionInv
    <2>11. Joined(p)' /\ \A q \in Peers \ {p} : Joined(q)' = Joined(q)
      BY <2>1, <2>2, <2>3, ZenonT(30) DEF Joined
    <2>12. \A q \in Peers \ {p} : Joined(q) /\ peer[q].session = s => peer[q].seq < seq
      BY <1>1, <1>3, <2>5, <2>9 DEF SeqInv
    <2>13. \A v \in Usernames \ {u} : sessions[v].opener # s
      BY <1>1, <2>1, <2>9, Zenon DEF SessionInv
    <2>14. SeqInv'
      <3> SUFFICES ASSUME NEW q \in Peers, Joined(q)'
                   PROVE  /\ \A o \in Peers : o # q /\ Joined(o)' /\ peer'[o].session = peer'[q].session =>
                                peer'[o].seq # peer'[q].seq
                          /\ \A v \in Usernames : sessions'[v].opener = peer'[q].session =>
                                peer'[q].seq <= sessions'[v].seq
        BY Zenon DEF SeqInv
      <3>1. CASE q = p
        BY <1>3, <2>2, <2>3, <2>4, <2>11, <2>12, <2>13, <3>1
      <3>2. CASE q # p
        <4>1. Joined(q) /\ peer'[q] = peer[q] /\ peer[q].seq \in Nat
          BY <1>1, <2>2, <2>11, <3>2, SMTT(30) DEF MsgTypeOK, PeerRecords
        <4>2. \A o \in Peers : o # q /\ Joined(o)' /\ peer'[o].session = peer'[q].session =>
                peer'[o].seq # peer'[q].seq
          BY <1>1, <1>3, <2>2, <2>3, <2>9, <2>11, <2>12, <3>2, <4>1, SMTT(30) DEF SeqInv
        <4>3. \A v \in Usernames : sessions'[v].opener = peer'[q].session =>
                peer'[q].seq <= sessions'[v].seq
          BY <1>1, <1>3, <2>4, <2>9, <2>12, <3>2, <4>1 DEF SeqInv
        <4> QED  BY <4>2, <4>3, Zenon
      <3> QED  BY <3>1, <3>2, Zenon
    <2> QED  BY <2>6, <2>7, <2>10, <2>14, Zenon DEF MsgInv
  <1>7. CASE peer' = [peer EXCEPT ![p].pc = "end"] /\ UNCHANGED sessions
    BY <1>1, <1>2, <1>7, EndStep, Zenon
  <1> QED  BY <1>5, <1>6, <1>7, Zenon DEF handleHandshake

\* Cleaning up takes a session out of the table and leaves its connections alone.
LEMMA CleanupStep == ASSUME MsgInv, NEW u \in Usernames, CleanupSessions(u) PROVE MsgInv'
  <1> USE MsgAssumption
  <1>1. MsgTypeOK /\ FdInv /\ FdsOwned /\ SessionInv /\ SeqInv /\ UNCHANGED <<nextFD, loadedFD, peer, byFd, sharedFds>>
    BY Zenon DEF MsgInv, CleanupSessions
  <1>2. /\ sessions' \in [Usernames -> [opener : Peers \cup {Nobody}, seq : 0 .. MaxSeq]]
        /\ sessions'[u] = NoSession /\ NoSession.opener = Nobody
        /\ \A v \in Usernames \ {u} : sessions'[v] = sessions[v]
    BY <1>1 DEF CleanupSessions, MsgTypeOK, NoSession
  <1>3. MsgTypeOK' /\ FdInv' /\ FdsOwned'
    BY <1>1, <1>2, ZenonT(30) DEF MsgTypeOK, FdInv, FdsOwned, Alive, At, Numbered
  <1>4. SessionInv'
    BY <1>1, <1>2, ZenonT(30) DEF SessionInv, Young, At
  <1>5. SeqInv'
    BY <1>1, <1>2, Zenon DEF SeqInv, Joined
  <1> QED  BY <1>3, <1>4, <1>5, Zenon DEF MsgInv

\* Every step keeps the invariant.
LEMMA MsgStep == ASSUME MsgInv, [MsgNext]_msgVars PROVE MsgInv'
  <1>1. CASE UNCHANGED msgVars
    BY <1>1, ZenonT(30) DEF msgVars, MsgInv, MsgTypeOK, FdInv, FdsOwned, SessionInv, SeqInv, Alive, At, Numbered, Young, Joined
  <1>2. ASSUME NEW p \in Peers, PeerEnds(p)
        PROVE  MsgInv'
    BY <1>2, EndStep, Zenon DEF PeerEnds, At
  <1>3. ASSUME NEW f \in DOMAIN byFd, KickFd(f)
        PROVE  MsgInv'
    <2>1. byFd[f] \in Peers /\ peer[byFd[f]].pc \in {"handshake", "loop", "end"}
      BY <1>3, Zenon DEF KickFd, MsgInv, MsgTypeOK, FdsOwned, At
    <2> QED  BY <1>3, <2>1, EndStep, Zenon DEF KickFd
  <1> QED
    BY <1>1, <1>2, <1>3, TakeStep, LoadStep, StoreStep, AddStep, RemoveStep, HandshakeStep, CleanupStep, Zenon DEF MsgNext

----------------------------------------------------------------------------

\* So it holds throughout.
LEMMA MsgSafe == MsgSpec => []MsgInv
  BY InitMsg, MsgStep, PTL DEF MsgSpec

\* However the unsynchronised reads, loads and stores of nextFD interleave, the map holds the
\* served connections under their fds, but for those that share one.
THEOREM MapHoldsServed == MsgSpec => []FdsOwned
  <1>1. MsgInv => FdsOwned
    BY Zenon DEF MsgInv
  <1> QED  BY MsgSafe, <1>1, PTL

\* The variables keep their types; the counter of fds stays within the connections made.
THEOREM MsgTypeCorrect == MsgSpec => []MsgTypeOK
  <1>1. MsgInv => MsgTypeOK
    BY Zenon DEF MsgInv
  <1> QED  BY MsgSafe, <1>1, PTL

\* No sequence number is accepted twice in a session, for any numbers and users.
THEOREM NumbersUsedOnce == MsgSpec => []SeqUsedOnce
  <1>1. MsgInv => SeqUsedOnce
    <2> SUFFICES ASSUME MsgInv, NEW p \in Peers, NEW q \in Peers,
                        peer[p].session # Nobody, peer[q].session = peer[p].session,
                        {p, q} \cap {peer[p].session} = {}
                 PROVE  /\ p # q => peer[p].seq # peer[q].seq
                        /\ \A u \in Usernames : sessions[u].opener = peer[p].session => peer[p].seq <= sessions[u].seq
      BY Zenon DEF SeqUsedOnce
    <2>1. Joined(p) /\ Joined(q)
      BY Zenon DEF Joined
    <2> QED  BY <2>1, Zenon DEF MsgInv, SeqInv
  <1> QED  BY MsgSafe, <1>1, PTL

----------------------------------------------------------------------------
(* LoginServer                                                              *)

\* A goroutine that is past the authentication has a user and a registered game server,
\* and every recorded login, also the one a goroutine has found, names a registered one.
ServersKnown ==
  /\ \A l \in Clients : client[l].pc \in {"check", "kick", "login", "record"}
                          => client[l].uid \in Uids /\ client[l].server \in actors
  /\ \A l \in Clients : client[l].pc = "kick" => client[l].found.server \in actors
  /\ \A u \in Uids : users[u] # NoUser => users[u].server \in actors

\* A session has the user and the subid of the goroutine that opened it, which is past
\* the login handler.
SessionsOwned ==
  \A s \in playing \cup kicked :
    /\ client[s.by].uid = s.uid /\ client[s.by].subid = s.subid
    /\ client[s.by].pc \in {"record", "closed"}

Busy(l, u) == client[l].uid = u /\ client[l].pc \in {"kick", "login", "record"}

\* Of a user that never had two logins at a time, nor a subid twice, at most one goroutine
\* is between check and record; its sessions, kicked or not, have different subids; those
\* that are not kicked are on record, or found by the goroutine that is about to kick them,
\* or opened by the one that is about to record them.
UserKept(u) ==
  /\ \A l, m \in Clients : Busy(l, u) /\ Busy(m, u) => l = m
  /\ \A s, t \in playing \cup kicked : s.uid = u /\ t.uid = u /\ s.subid = t.subid => s = t
  /\ \A s \in playing : s.uid = u =>
       /\ \A l \in Clients : Busy(l, u) =>
            \/ client[l].pc = "kick" /\ client[l].found.subid = s.subid /\ users[u].subid = s.subid
            \/ client[l].pc = "record" /\ s.by = l
       /\ (\A l \in Clients : ~Busy(l, u)) => users[u] # NoUser /\ users[u].subid = s.subid

LoginInv ==
  /\ LoginTypeOK /\ ServersKnown /\ SessionsOwned /\ playing \cap kicked = {}
  /\ \A u \in Uids \ mixed : UserKept(u)

----------------------------------------------------------------------------

ClientPcs == {"none", "exchange", "check", "kick", "login", "record", "closed"}
ClientRecords == [pc : ClientPcs, uid : Uids \cup {"none"}, server : GameServers \cup {"none"},
                  subid : Subids \cup {0}, found : UserRecords]

\* No client is accepted yet and nobody plays.
LEMMA InitLogin == NewLoginServer => LoginInv
  <1> SUFFICES ASSUME NewLoginServer PROVE LoginInv
    BY Zenon
  <1>1. NoUser \in UserRecords
    BY Zenon DEF NoUser, UserRecords
  <1>2. [pc |-> "none", uid |-> "none", server |-> "none", subid |-> 0, found |-> NoUser] \in ClientRecords
    BY <1>1, Zenon DEF ClientRecords, ClientPcs
  <1>3. client \in [Clients -> ClientRecords]
    BY <1>2, Zenon DEF NewLoginServer
  <1>4. LoginTypeOK
    BY <1>1, <1>3, Zenon DEF NewLoginServer, LoginTypeOK, ClientRecords, ClientPcs
  <1>5. ServersKnown /\ SessionsOwned
    BY Zenon DEF NewLoginServer, ServersKnown, SessionsOwned
  <1>6. \A u \in Uids : UserKept(u)
    BY Zenon DEF NewLoginServer, UserKept, Busy
  <1>7. playing \cap kicked = {}
    BY Zenon DEF NewLoginServer
  <1> QED  BY <1>4, <1>5, <1>6, <1>7, Zenon DEF LoginInv

\* The type of the clients, by fields.
LEMMA ClientFields ==
  ASSUME LoginTypeOK, NEW l \in Clients
  PROVE  /\ client \in [Clients -> ClientRecords] /\ client[l] \in ClientRecords
         /\ client[l].pc \in ClientPcs /\ client[l].uid \in Uids \cup {"none"}
         /\ client[l].server \in GameServers \cup {"none"} /\ client[l].subid \in Subids \cup {0}
         /\ client[l].found \in UserRecords
  <1>1. client \in [Clients -> ClientRecords]
    BY Zenon DEF LoginTypeOK, ClientRecords, ClientPcs
  <1>2. client[l] \in ClientRecords
    BY <1>1, Zenon
  <1> QED  BY <1>1, <1>2, Zenon DEF ClientRecords

\* What Close leaves of a client.
LEMMA CloseClient ==
  ASSUME LoginTypeOK, NEW l \in Clients, Close(l)
  PROVE  /\ client' \in [Clients -> ClientRecords]
         /\ client'[l].pc = "closed" /\ client'[l].uid = client[l].uid /\ client'[l].subid = client[l].subid
         /\ \A m \in Clients \ {l} : client'[m] = client[m]
  <1> DEFINE r == [client[l] EXCEPT !.pc = "closed", !.server = "none", !.found = NoUser]
  <1>1. client \in [Clients -> ClientRecords] /\ client[l] \in ClientRecords
    BY ClientFields, Zenon
  <1>2. NoUser \in UserRecords
    BY Zenon DEF NoUser, UserRecords
  <1>3. r \in ClientRecords /\ r.pc = "closed" /\ r.uid = client[l].uid /\ r.subid = client[l].subid
    BY <1>1, <1>2, Zenon DEF ClientRecords, ClientPcs
  <1>4. client' = [client EXCEPT ![l] = r]
    BY <1>1, Zenon DEF Close, ClientRecords
  <1> HIDE DEF r
  <1> QED  BY <1>1, <1>3, <1>4, Zenon

\* A step of a goroutine before it has checked, or after it has gone, that opens no
\* session and touches no record leaves every user's sessions in order.
LEMMA OutsideStep ==
  ASSUME LoginInv, NEW l \in Clients, client' \in [Clients -> ClientRecords],
         \A m \in Clients \ {l} : client'[m] = client[m],
         client[l].pc \in {"none", "exchange"}, client'[l].pc \in {"exchange", "check", "closed"},
         client'[l].pc = "check" => client'[l].uid \in Uids /\ client'[l].server \in actors,
         UNCHANGED <<listener, actors, users, playing, kicked, mixed, raced>>
  PROVE  LoginInv'
  <1>1. LoginTypeOK /\ ServersKnown /\ SessionsOwned
    BY Zenon DEF LoginInv
  <1>2. LoginTypeOK'
    BY <1>1, Zenon DEF LoginTypeOK, ClientRecords, ClientPcs
  <1>3. ServersKnown'
    BY <1>1, Zenon DEF ServersKnown, NoUser
  <1>4. \A s \in playing \cup kicked : s.by \in Clients /\ s.by # l /\ client'[s.by] = client[s.by]
    BY <1>1, Zenon DEF LoginTypeOK, SessionsOwned
  <1>5. SessionsOwned'
    BY <1>1, <1>4, Zenon DEF SessionsOwned
  <1>6. \A m \in Clients, u \in Uids : (Busy(m, u)' <=> Busy(m, u)) /\ (Busy(m, u) => m # l)
    BY ZenonT(30) DEF Busy
  <1>7. ASSUME NEW u \in Uids \ mixed' PROVE UserKept(u)'
    <2>1. UserKept(u)
      BY Zenon DEF LoginInv
    <2>2. \A m \in Clients : (Busy(m, u)' <=> Busy(m, u)) /\ (Busy(m, u) => client'[m] = client[m])
      BY <1>6, Zenon
    <2>3. \A m, n \in Clients : Busy(m, u)' /\ Busy(n, u)' => m = n
      BY <2>1, <2>2, Zenon DEF UserKept
    <2>4. \A s, t \in playing' \cup kicked' : s.uid = u /\ t.uid = u /\ s.subid = t.subid => s = t
      BY <2>1, ZenonT(30) DEF UserKept
    <2>5. ASSUME NEW s \in playing', s.uid = u
          PROVE  /\ \A m \in Clients : Busy(m, u)' =>
                      \/ client'[m].pc = "kick" /\ client'[m].found.subid = s.subid /\ users'[u].subid = s.subid
                      \/ client'[m].pc = "record" /\ s.by = m
                 /\ (\A m \in Clients : ~Busy(m, u)') => users'[u] # NoUser /\ users'[u].subid = s.subid
      <3>1. s \in playing /\ users'[u] = users[u]
        BY <2>5, Zenon
      <3>2. /\ \A m \in Clients : Busy(m, u) =>
                 \/ client[m].pc = "kick" /\ client[m].found.subid = s.subid /\ users[u].subid = s.subid
                 \/ client[m].pc = "record" /\ s.by = m
            /\ (\A m \in Clients : ~Busy(m, u)) => users[u] # NoUser /\ users[u].subid = s.subid
        BY <2>1, <2>5, <3>1, ZenonT(30) DEF UserKept
      <3>3. ASSUME NEW m \in Clients, Busy(m, u)'
            PROVE  \/ client'[m].pc = "kick" /\ client'[m].found.subid = s.subid /\ users'[u].subid = s.subid
                   \/ client'[m].pc = "record" /\ s.by = m
        <4>1. Busy(m, u) /\ client'[m] = client[m]
          BY <2>2, <3>3, Zenon
        <4> QED  BY <3>1, <3>2, <4>1, ZenonT(30)
      <3>4. ASSUME \A m \in Clients : ~Busy(m, u)'
            PROVE  users'[u] # NoUser /\ users'[u].subid = s.subid
        <4>1. \A m \in Clients : ~Busy(m, u)
          BY <2>2, <3>4, Zenon
        <4> QED  BY <3>1, <3>2, <4>1, Zenon
      <3> QED  BY <3>3, <3>4, Zenon
    <2>6. NoUser' = NoUser
      BY Zenon DEF NoUser
    <2> QED  BY <2>3, <2>4, <2>5, <2>6, Zenon DEF UserKept
  <1> QED  BY <1>2, <1>3, <1>5, <1>7, Zenon DEF LoginInv

\* A goroutine's step on its own user leaves the other users alone.
LEMMA OtherUsers ==
  ASSUME LoginInv, NEW l \in Clients, NEW u \in Uids \ mixed, u # client[l].uid,
         \A m \in Clients \ {l} : client'[m] = client[m], client'[l].uid = client[l].uid,
         users'[u] = users[u],
         \A s \in playing' : s.uid = u => s \in playing,
         \A s \in playing' \cup kicked' : s.uid = u => s \in playing \cup kicked
  PROVE  UserKept(u)'
  <1>1. UserKept(u)
    BY Zenon DEF LoginInv
  <1>2. \A m \in Clients : (Busy(m, u)' <=> Busy(m, u)) /\ (Busy(m, u) => client'[m] = client[m])
    BY Zenon DEF Busy
  <1>4. \A m, n \in Clients : Busy(m, u)' /\ Busy(n, u)' => m = n
    BY <1>1, <1>2, Zenon DEF UserKept
  <1>5. \A s, t \in playing' \cup kicked' : s.uid = u /\ t.uid = u /\ s.subid = t.subid => s = t
    BY <1>1, ZenonT(30) DEF UserKept
  <1>6. ASSUME NEW s \in playing', s.uid = u
        PROVE  /\ \A m \in Clients : Busy(m, u)' =>
                    \/ client'[m].pc = "kick" /\ client'[m].found.subid = s.subid /\ users'[u].subid = s.subid
                    \/ client'[m].pc = "record" /\ s.by = m
               /\ (\A m \in Clients : ~Busy(m, u)') => users'[u] # NoUser /\ users'[u].subid = s.subid
    <2>1. s \in playing /\ users'[u] = users[u]
      BY <1>6, Zenon
    <2>2. /\ \A m \in Clients : Busy(m, u) =>
               \/ client[m].pc = "kick" /\ client[m].found.subid = s.subid /\ users[u].subid = s.subid
               \/ client[m].pc = "record" /\ s.by = m
          /\ (\A m \in Clients : ~Busy(m, u)) => users[u] # NoUser /\ users[u].subid = s.subid
      BY <1>1, <1>6, <2>1, ZenonT(30) DEF UserKept
    <2>3. ASSUME NEW m \in Clients, Busy(m, u)'
          PROVE  \/ client'[m].pc = "kick" /\ client'[m].found.subid = s.subid /\ users'[u].subid = s.subid
                 \/ client'[m].pc = "record" /\ s.by = m
      <3>1. Busy(m, u) /\ client'[m] = client[m]
        BY <1>2, <2>3, Zenon
      <3> QED  BY <2>1, <2>2, <3>1, Zenon
    <2>4. ASSUME \A m \in Clients : ~Busy(m, u)'
          PROVE  users'[u] # NoUser /\ users'[u].subid = s.subid
      <3>1. \A m \in Clients : ~Busy(m, u)
        BY <1>2, <2>4, Zenon
      <3> QED  BY <2>1, <2>2, <3>1, Zenon
    <2> QED  BY <2>3, <2>4, Zenon
  <1>7. NoUser' = NoUser
    BY Zenon DEF NoUser
  <1> QED  BY <1>4, <1>5, <1>6, <1>7, Zenon DEF UserKept

\* The check: whoever finds no other goroutine of the user past it, finds the session that
\* the user has.
LEMMA CheckUserStep == ASSUME LoginInv, NEW l \in Clients, CheckUser(l) PROVE LoginInv'
  <1>1. LoginTypeOK /\ ServersKnown /\ SessionsOwned
    BY Zenon DEF LoginInv
  <1>2. client \in [Clients -> ClientRecords] /\ client[l] \in ClientRecords /\ client[l].pc = "check"
    BY <1>1, ClientFields, Zenon DEF CheckUser
  <1>3. PICK u0 \in Uids : u0 = client[l].uid
    BY <1>1, <1>2, Zenon DEF ServersKnown
  <1> DEFINE r == [client[l] EXCEPT !.pc = IF users[u0] # NoUser THEN "kick" ELSE "login", !.found = users[u0]]
  <1>30. client[l].server \in actors /\ users[u0] \in UserRecords /\ (users[u0] # NoUser => users[u0].server \in actors)
    BY <1>1, <1>2, <1>3, ZenonT(30) DEF ServersKnown, LoginTypeOK
  <1>4. client' = [client EXCEPT ![l] = r]
    BY <1>2, <1>3, Zenon DEF CheckUser, ClientRecords
  <1>5. /\ r \in ClientRecords /\ r.uid = u0 /\ r.server = client[l].server /\ r.subid = client[l].subid
        /\ r.found = users[u0] /\ r.pc = IF users[u0] # NoUser THEN "kick" ELSE "login"
    BY <1>2, <1>3, <1>30, Zenon DEF ClientRecords, ClientPcs
  <1>6. /\ mixed' = IF LoggingIn(u0) # {} THEN mixed \cup {u0} ELSE mixed
        /\ UNCHANGED <<listener, actors, users, playing, kicked, raced>>
    BY <1>3, Zenon DEF CheckUser
  <1> HIDE DEF r
  <1>7. /\ client' \in [Clients -> ClientRecords] /\ client'[l] = r
        /\ \A m \in Clients \ {l} : client'[m] = client[m]
    BY <1>2, <1>4, <1>5, Zenon
  <1>8. LoginTypeOK'
    BY <1>1, <1>3, <1>6, <1>7, Zenon DEF LoginTypeOK, ClientRecords, ClientPcs
  <1>9. ServersKnown'
    BY <1>1, <1>3, <1>30, <1>5, <1>6, <1>7, ZenonT(30) DEF ServersKnown, NoUser
  <1>10. SessionsOwned'
    BY <1>1, <1>2, <1>6, <1>7, ZenonT(30) DEF LoginTypeOK, SessionsOwned
  <1>11. ASSUME NEW u \in Uids \ mixed', u # u0 PROVE UserKept(u)'
    <2>1. u \in Uids \ mixed
      BY <1>6, <1>11, Zenon
    <2> QED  BY <1>3, <1>5, <1>6, <1>7, <1>11, <2>1, OtherUsers, ZenonT(30)
  <1>12. ASSUME u0 \notin mixed' PROVE UserKept(u0)'
    <2>1. LoggingIn(u0) = {} /\ u0 \notin mixed
      BY <1>6, <1>12, Zenon
    <2>2. \A m \in Clients : ~Busy(m, u0)
      BY <2>1, Zenon DEF LoggingIn, Busy
    <2>3. \A m \in Clients : Busy(m, u0)' => m = l
      BY <1>7, <2>2, Zenon DEF Busy
    <2>4. UserKept(u0)
      BY <1>3, <2>1, Zenon DEF LoginInv
    <2>5. \A s \in playing : s.uid = u0 => users[u0] # NoUser /\ users[u0].subid = s.subid
      BY <2>2, <2>4, Zenon DEF UserKept
    <2>6. Busy(l, u0)'
      BY <1>5, <1>7, Zenon DEF Busy
    <2>7. ASSUME NEW s \in playing', s.uid = u0
          PROVE client'[l].pc = "kick" /\ client'[l].found.subid = s.subid /\ users'[u0].subid = s.subid
      BY <1>5, <1>6, <1>7, <2>5, <2>7, Zenon
    <2>8. \A s, t \in playing' \cup kicked' : s.uid = u0 /\ t.uid = u0 /\ s.subid = t.subid => s = t
      BY <1>6, <2>4, Zenon DEF UserKept
    <2>9. \A m, n \in Clients : Busy(m, u0)' /\ Busy(n, u0)' => m = n
      BY <2>3, Zenon
    <2> QED  BY <2>3, <2>6, <2>7, <2>8, <2>9, ZenonT(30) DEF UserKept
  <1>20. playing' \cap kicked' = {}
    BY <1>6, Zenon DEF LoginInv
  <1> QED  BY <1>20, <1>8, <1>9, <1>10, <1>11, <1>12, Zenon DEF LoginInv

\* A goroutine that is about to kick, log in or record has a user, and, if nothing mixed
\* that user's logins up, is the only one.
LEMMA BusyUser ==
  ASSUME LoginInv, NEW l \in Clients, client[l].pc \in {"kick", "login", "record"}
  PROVE  \E u \in Uids : /\ u = client[l].uid /\ Busy(l, u)
                         /\ u \notin mixed => \A m \in Clients : Busy(m, u) => m = l
  <1>1. client[l].uid \in Uids /\ Busy(l, client[l].uid)
    BY Zenon DEF LoginInv, ServersKnown, Busy
  <1>2. client[l].uid \notin mixed => UserKept(client[l].uid)
    BY <1>1, Zenon DEF LoginInv
  <1> QED  BY <1>1, <1>2, Zenon DEF UserKept

\* A kick is sent for whatever the user played: all of it had the subid that was found.
LEMMA kickUserStep == ASSUME LoginInv, NEW l \in Clients, kickUser(l) PROVE LoginInv'
  <1>1. LoginTypeOK /\ ServersKnown /\ SessionsOwned
    BY Zenon DEF LoginInv
  <1>2. client \in [Clients -> ClientRecords] /\ client[l] \in ClientRecords /\ client[l].pc = "kick"
    BY <1>1, ClientFields, Zenon DEF kickUser
  <1>3. PICK u0 \in Uids : /\ u0 = client[l].uid /\ Busy(l, u0)
                           /\ u0 \notin mixed => \A m \in Clients : Busy(m, u0) => m = l
    BY <1>2, BusyUser, Zenon
  <1> DEFINE r == [client[l] EXCEPT !.pc = "login"]
  <1>4. client' = [client EXCEPT ![l] = r]
    BY <1>2, Zenon DEF kickUser, ClientRecords
  <1>5. r \in ClientRecords /\ r.uid = u0 /\ r.server = client[l].server /\ r.subid = client[l].subid /\ r.pc = "login"
    BY <1>2, <1>3, Zenon DEF ClientRecords, ClientPcs
  <1> HIDE DEF r
  <1>6. /\ client' \in [Clients -> ClientRecords] /\ client'[l] = r
        /\ \A m \in Clients \ {l} : client'[m] = client[m]
    BY <1>2, <1>4, <1>5, Zenon
  <1>7. client[l].found.server \in actors /\ client[l].server \in actors
    BY <1>1, <1>2, Zenon DEF ServersKnown
  <1>8. /\ playing' = playing \ {s \in playing : s.uid = u0 /\ s.subid = client[l].found.subid}
        /\ kicked' = kicked \cup {s \in playing : s.uid = u0 /\ s.subid = client[l].found.subid}
        /\ users' = [users EXCEPT ![u0] = NoUser] /\ UNCHANGED <<listener, actors, mixed, raced>>
    BY <1>3, <1>7, Zenon DEF kickUser
  <1>81. playing' \subseteq playing /\ playing' \cup kicked' = playing \cup kicked /\ (playing \cap kicked = {} => playing' \cap kicked' = {})
    BY <1>8, Zenon
  <1>9. users' \in [Uids -> UserRecords] /\ users'[u0] = NoUser /\ \A u \in Uids \ {u0} : users'[u] = users[u]
    BY <1>1, <1>8, Zenon DEF LoginTypeOK, UserRecords, NoUser
  <1>10. LoginTypeOK'
    BY <1>1, <1>6, <1>8, <1>81, <1>9, ZenonT(30) DEF LoginTypeOK, ClientRecords, ClientPcs
  <1>11. ServersKnown'
    <2>1. actors' = actors /\ r.uid \in Uids /\ r.server \in actors /\ r.pc # "kick"
      BY <1>3, <1>5, <1>7, <1>8, Zenon
    <2>2. ASSUME NEW m \in Clients
          PROVE  /\ client'[m].pc \in {"check", "kick", "login", "record"}
                      => client'[m].uid \in Uids /\ client'[m].server \in actors
                 /\ client'[m].pc = "kick" => client'[m].found.server \in actors
      <3>1. CASE m = l
        BY <1>6, <2>1, <3>1, Zenon
      <3>2. CASE m # l
        BY <1>1, <1>6, <3>2, Zenon DEF ServersKnown
      <3> QED  BY <3>1, <3>2, Zenon
    <2>3. ASSUME NEW u \in Uids, users'[u] # NoUser
          PROVE  users'[u].server \in actors
      <3>1. u # u0
        BY <1>9, <2>3, Zenon
      <3> QED  BY <1>1, <1>9, <2>3, <3>1, Zenon DEF ServersKnown
    <2> QED  BY <2>1, <2>2, <2>3, Zenon DEF ServersKnown, NoUser
  <1>12. SessionsOwned'
    BY <1>1, <1>2, <1>6, <1>81, ZenonT(30) DEF LoginTypeOK, SessionsOwned
  <1>13. ASSUME NEW u \in Uids \ mixed', u # u0 PROVE UserKept(u)'
    BY <1>3, <1>5, <1>6, <1>8, <1>81, <1>9, <1>13, OtherUsers, ZenonT(30)
  <1>14. ASSUME u0 \notin mixed' PROVE UserKept(u0)'
    <2>1. UserKept(u0)
      BY <1>8, <1>14, Zenon DEF LoginInv
    <2>2. \A s \in playing' : s.uid # u0
      BY <1>2, <1>3, <1>8, <2>1, Zenon DEF UserKept
    <2>3. \A m \in Clients : Busy(m, u0)' => m = l
      BY <1>3, <1>6, <1>8, <1>14, Zenon DEF Busy
    <2>4. \A s, t \in playing' \cup kicked' : s.uid = u0 /\ t.uid = u0 /\ s.subid = t.subid => s = t
      BY <1>81, <2>1, ZenonT(30) DEF UserKept
    <2> QED  BY <2>2, <2>3, <2>4, Zenon DEF UserKept
  <1> QED  BY <1>81, <1>10, <1>11, <1>12, <1>13, <1>14, ZenonT(30) DEF LoginInv

\* A login that fails leaves its user without a session, as the kick has.
LEMMA LoginFailsStep == ASSUME LoginInv, NEW l \in Clients, LoginFails(l) PROVE LoginInv'
  <1>1. LoginTypeOK /\ ServersKnown /\ SessionsOwned
    BY Zenon DEF LoginInv
  <1>2. /\ client[l].pc = "login" /\ Close(l) /\ UNCHANGED <<listener, actors, users, playing, kicked, mixed, raced>>
    BY Zenon DEF LoginFails
  <1>3. PICK u0 \in Uids : /\ u0 = client[l].uid /\ Busy(l, u0)
                           /\ u0 \notin mixed => \A m \in Clients : Busy(m, u0) => m = l
    BY <1>2, BusyUser, Zenon
  <1>4. /\ client' \in [Clients -> ClientRecords]
        /\ client'[l].pc = "closed" /\ client'[l].uid = client[l].uid /\ client'[l].subid = client[l].subid
        /\ \A m \in Clients \ {l} : client'[m] = client[m]
    BY <1>1, <1>2, CloseClient, Zenon
  <1>5. LoginTypeOK'
    BY <1>1, <1>2, <1>4, Zenon DEF LoginTypeOK, ClientRecords, ClientPcs
  <1>6. ServersKnown'
    BY <1>1, <1>2, <1>4, ZenonT(30) DEF ServersKnown, NoUser
  <1>7. SessionsOwned'
    BY <1>1, <1>2, <1>4 DEF LoginTypeOK, SessionsOwned
  <1>8. ASSUME NEW u \in Uids \ mixed', u # u0 PROVE UserKept(u)'
    BY <1>2, <1>3, <1>4, <1>8, OtherUsers, ZenonT(30)
  <1>9. ASSUME u0 \notin mixed' PROVE UserKept(u0)'
    <2>1. UserKept(u0)
      BY <1>2, <1>9, Zenon DEF LoginInv
    <2>2. \A s \in playing' : s.uid # u0
      BY <1>2, <1>3, <2>1, Zenon DEF UserKept
    <2>3. \A m \in Clients : Busy(m, u0)' => m = l
      BY <1>2, <1>3, <1>4, <1>9, Zenon DEF Busy
    <2>4. \A s, t \in playing' \cup kicked' : s.uid = u0 /\ t.uid = u0 /\ s.subid = t.subid => s = t
      BY <1>2, <2>1, Zenon DEF UserKept
    <2> QED  BY <2>2, <2>3, <2>4, Zenon DEF UserKept
  <1>20. playing' \cap kicked' = {}
    BY <1>2, Zenon DEF LoginInv
  <1> QED  BY <1>20, <1>5, <1>6, <1>7, <1>8, <1>9, Zenon DEF LoginInv

\* The login handler opens the only session of its user, or one whose subid is in use.
LEMMA LoginHandlerStep ==
  ASSUME LoginInv, NEW l \in Clients, NEW subid \in Subids, LoginHandler(l, subid) PROVE LoginInv'
  <1>1. LoginTypeOK /\ ServersKnown /\ SessionsOwned
    BY Zenon DEF LoginInv
  <1>2. client \in [Clients -> ClientRecords] /\ client[l] \in ClientRecords /\ client[l].pc = "login"
    BY <1>1, ClientFields, Zenon DEF LoginHandler
  <1>3. PICK u0 \in Uids : /\ u0 = client[l].uid /\ Busy(l, u0)
                           /\ u0 \notin mixed => \A m \in Clients : Busy(m, u0) => m = l
    BY <1>2, BusyUser, Zenon
  <1> DEFINE r == [client[l] EXCEPT !.pc = "record", !.subid = subid]
             new == [uid |-> u0, subid |-> subid, by |-> l]
  <1>4. client' = [client EXCEPT ![l] = r]
    BY <1>2, Zenon DEF LoginHandler, ClientRecords
  <1>5. r \in ClientRecords /\ r.uid = u0 /\ r.server = client[l].server /\ r.subid = subid /\ r.pc = "record"
    BY <1>2, <1>3, Zenon DEF ClientRecords, ClientPcs
  <1>6. new \in [uid : Uids, subid : Subids, by : Clients] /\ new.uid = u0 /\ new.subid = subid /\ new.by = l
    BY Zenon
  <1>7. /\ playing' = playing \cup {new} /\ mixed \subseteq mixed' /\ mixed' \subseteq mixed \cup {u0}
        /\ u0 \notin mixed' => \A m \in Clients \ {l} : client[m].uid # u0 \/ client[m].subid # subid
        /\ UNCHANGED <<listener, actors, users, kicked, raced>>
    BY <1>3, Zenon DEF LoginHandler
  <1> HIDE DEF r, new
  <1>8. /\ client' \in [Clients -> ClientRecords] /\ client'[l] = r
        /\ \A m \in Clients \ {l} : client'[m] = client[m]
    BY <1>2, <1>4, <1>5, Zenon
  <1>9. LoginTypeOK'
    BY <1>1, <1>6, <1>7, <1>8, Zenon DEF LoginTypeOK, ClientRecords, ClientPcs
  <1>10. ServersKnown'
    BY <1>1, <1>2, <1>3, <1>5, <1>7, <1>8, Zenon DEF ServersKnown, NoUser
  <1>11. \A s \in playing \cup kicked : s.by \in Clients /\ s.by # l
    BY <1>1, <1>2, ZenonT(30) DEF LoginTypeOK, SessionsOwned
  <1>12. SessionsOwned'
    BY <1>1, <1>5, <1>6, <1>7, <1>8, <1>11 DEF SessionsOwned
  <1>13. ASSUME NEW u \in Uids \ mixed', u # u0 PROVE UserKept(u)'
    BY <1>3, <1>5, <1>6, <1>7, <1>8, <1>13, OtherUsers, ZenonT(30)
  <1>14. ASSUME u0 \notin mixed' PROVE UserKept(u0)'
    <2>1. UserKept(u0) /\ u0 \notin mixed
      BY <1>7, <1>14, Zenon DEF LoginInv
    <2>2. \A s \in playing : s.uid # u0
      BY <1>2, <1>3, <2>1, Zenon DEF UserKept
    <2>3. \A s \in playing' : s.uid = u0 => s = new
      BY <1>7, <2>2, Zenon
    <2>4. \A m \in Clients : Busy(m, u0)' => m = l
      BY <1>3, <1>8, <2>1, Zenon DEF Busy
    <2>5. Busy(l, u0)' /\ client'[l].pc = "record"
      BY <1>5, <1>8, ZenonT(30) DEF Busy
    <2>6. ASSUME NEW s \in playing \cup kicked, s.uid = u0 PROVE s.subid # subid
      BY <1>1, <1>7, <1>11, <1>14, <2>6, ZenonT(30) DEF SessionsOwned
    <2>7. \A s, t \in playing' \cup kicked' : s.uid = u0 /\ t.uid = u0 /\ s.subid = t.subid => s = t
      <3>1. \A s \in playing' \cup kicked' : s = new \/ s \in playing \cup kicked
        BY <1>7, Zenon
      <3> QED  BY <1>6, <2>1, <2>6, <3>1, ZenonT(30) DEF UserKept
    <2> QED  BY <1>6, <2>3, <2>4, <2>5, <2>7, Zenon DEF UserKept
  <1>15. playing' \cap kicked' = {}
    BY <1>6, <1>7, <1>11, ZenonT(30) DEF LoginInv
  <1> QED  BY <1>9, <1>10, <1>12, <1>13, <1>14, <1>15, ZenonT(30) DEF LoginInv

\* The record names the session that the goroutine has opened.
LEMMA RecordUserStep == ASSUME LoginInv, NEW l \in Clients, RecordUser(l) PROVE LoginInv'
  <1>1. LoginTypeOK /\ ServersKnown /\ SessionsOwned
    BY Zenon DEF LoginInv
  <1>2. client[l].pc = "record" /\ Close(l) /\ UNCHANGED <<listener, actors, playing, kicked, mixed, raced>>
    BY Zenon DEF RecordUser
  <1>3. PICK u0 \in Uids : /\ u0 = client[l].uid /\ Busy(l, u0)
                           /\ u0 \notin mixed => \A m \in Clients : Busy(m, u0) => m = l
    BY <1>2, BusyUser, Zenon
  <1> DEFINE new == [subid |-> client[l].subid, server |-> client[l].server]
  <1>4. client[l].subid \in Subids \cup {0} /\ client[l].server \in actors /\ actors \subseteq GameServers
    BY <1>1, <1>2, ClientFields, Zenon DEF ServersKnown, LoginTypeOK
  <1>5. new \in UserRecords /\ new # NoUser /\ new.subid = client[l].subid /\ new.server \in actors
    <2>1. NoUser.server = "none" /\ new.server # "none"
      BY <1>4, LoginAssumption, Zenon DEF NoUser
    <2> QED  BY <1>4, <2>1, Zenon DEF UserRecords
  <1>6. users' = [users EXCEPT ![u0] = new]
    BY <1>3, Zenon DEF RecordUser
  <1> HIDE DEF new
  <1>7. users' \in [Uids -> UserRecords] /\ users'[u0] = new /\ \A u \in Uids \ {u0} : users'[u] = users[u]
    BY <1>1, <1>5, <1>6, Zenon DEF LoginTypeOK
  <1>8. /\ client' \in [Clients -> ClientRecords]
        /\ client'[l].pc = "closed" /\ client'[l].uid = client[l].uid /\ client'[l].subid = client[l].subid
        /\ \A m \in Clients \ {l} : client'[m] = client[m]
    BY <1>1, <1>2, CloseClient, Zenon
  <1>9. LoginTypeOK'
    BY <1>1, <1>2, <1>7, <1>8, Zenon DEF LoginTypeOK, ClientRecords, ClientPcs
  <1>10. ServersKnown'
    BY <1>1, <1>2, <1>5, <1>7, <1>8, ZenonT(30) DEF ServersKnown, NoUser
  <1>11. SessionsOwned'
    BY <1>1, <1>2, <1>8 DEF LoginTypeOK, SessionsOwned
  <1>12. ASSUME NEW u \in Uids \ mixed', u # u0 PROVE UserKept(u)'
    BY <1>2, <1>3, <1>7, <1>8, <1>12, OtherUsers, ZenonT(30)
  <1>13. ASSUME u0 \notin mixed' PROVE UserKept(u0)'
    <2>1. UserKept(u0) /\ u0 \notin mixed
      BY <1>2, <1>13, Zenon DEF LoginInv
    <2>2. \A s \in playing : s.uid = u0 => s.by = l
      BY <1>2, <1>3, <2>1, Zenon DEF UserKept
    <2>3. \A s \in playing : s.uid = u0 => s.subid = client[l].subid
      BY <1>1, <2>2, Zenon DEF SessionsOwned
    <2>4. \A s, t \in playing' \cup kicked' : s.uid = u0 /\ t.uid = u0 /\ s.subid = t.subid => s = t
      BY <1>2, <2>1, Zenon DEF UserKept
    <2>5. \A m \in Clients : ~Busy(m, u0)'
      BY <1>3, <1>8, <2>1, Zenon DEF Busy
    <2>6. \A s \in playing' : s.uid = u0 => users'[u0] # NoUser /\ users'[u0].subid = s.subid
      BY <1>2, <1>5, <1>7, <2>3, Zenon
    <2>7. NoUser' = NoUser
      BY Zenon DEF NoUser
    <2> QED  BY <2>4, <2>5, <2>6, <2>7, Zenon DEF UserKept
  <1>20. playing' \cap kicked' = {}
    BY <1>2, Zenon DEF LoginInv
  <1> QED  BY <1>20, <1>9, <1>10, <1>11, <1>12, <1>13, Zenon DEF LoginInv

\* A player leaves: its record goes only if no other session of the user is on record.
LEMMA LogoutStep == ASSUME LoginInv, NEW s \in playing \cup kicked, Logout(s) PROVE LoginInv'
  <1>1. LoginTypeOK /\ ServersKnown /\ SessionsOwned /\ playing \cap kicked = {}
    BY Zenon DEF LoginInv
  <1>2. s.uid \in Uids /\ users \in [Uids -> UserRecords] /\ NoUser \in UserRecords
    BY <1>1, Zenon DEF LoginTypeOK, NoUser, UserRecords
  <1>3. playing' = playing \ {s} /\ kicked' = kicked \ {s} /\ UNCHANGED <<listener, actors, client, mixed, raced>>
    BY Zenon DEF Logout
  <1>4. /\ users' \in [Uids -> UserRecords]
        /\ \A u \in Uids : users'[u] = users[u] \/ (u = s.uid /\ users[u].subid = s.subid /\ users'[u] = NoUser)
    BY <1>2, Zenon DEF Logout
  <1>5. LoginTypeOK'
    BY <1>1, <1>3, <1>4, Zenon DEF LoginTypeOK
  <1>6. ServersKnown' /\ SessionsOwned' /\ playing' \cap kicked' = {}
    BY <1>1, <1>3, <1>4, ZenonT(30) DEF ServersKnown, SessionsOwned, NoUser
  <1>7. ASSUME NEW u \in Uids \ mixed' PROVE UserKept(u)'
    <2>1. UserKept(u)
      BY <1>3, Zenon DEF LoginInv
    <2>2. \A m \in Clients : Busy(m, u)' <=> Busy(m, u)
      BY <1>3, Zenon DEF Busy
    <2>3. ASSUME NEW t \in playing', t.uid = u
          PROVE  /\ \A m \in Clients : Busy(m, u) =>
                      \/ client[m].pc = "kick" /\ client[m].found.subid = t.subid /\ users'[u].subid = t.subid
                      \/ client[m].pc = "record" /\ t.by = m
                 /\ (\A m \in Clients : ~Busy(m, u)) => users'[u] # NoUser /\ users'[u].subid = t.subid
      <3>1. t \in playing /\ t # s
        BY <1>3, Zenon
      <3>2. CASE users'[u] = users[u]
        BY <2>1, <2>3, <3>1, <3>2, ZenonT(30) DEF UserKept
      <3>3. CASE users'[u] # users[u]
        <4>1. u = s.uid /\ users[u].subid = s.subid
          BY <1>4, <3>3, ZenonT(30)
        <4>2. s.subid # t.subid
          BY <2>1, <2>3, <3>1, <4>1, SMTT(30) DEF UserKept
        <4> QED  BY <2>1, <2>3, <3>1, <4>1, <4>2 DEF UserKept
      <3> QED  BY <3>2, <3>3, Zenon
    <2>4. \A t, q \in playing' \cup kicked' : t.uid = u /\ q.uid = u /\ t.subid = q.subid => t = q
      BY <1>3, <2>1 DEF UserKept
    <2>5. \A m, n \in Clients : Busy(m, u)' /\ Busy(n, u)' => m = n
      BY <2>1, <2>2, Zenon DEF UserKept
    <2>6. NoUser' = NoUser
      BY Zenon DEF NoUser
    <2> QED  BY <1>3, <2>2, <2>3, <2>4, <2>5, <2>6, ZenonT(30) DEF UserKept
  <1> QED  BY <1>5, <1>6, <1>7, Zenon DEF LoginInv

\* A kick that arrives ends sessions and touches nothing else.
LEMMA KickArrivesStep == ASSUME LoginInv, NEW s \in kicked, KickArrives(s) PROVE LoginInv'
  <1>1. LoginTypeOK /\ ServersKnown /\ SessionsOwned /\ playing \cap kicked = {}
    BY Zenon DEF LoginInv
  <1>2. playing' \subseteq playing /\ kicked' \subseteq kicked /\ UNCHANGED <<listener, actors, users, client, mixed, raced>>
    BY Zenon DEF KickArrives
  <1>3. LoginTypeOK' /\ ServersKnown' /\ SessionsOwned' /\ playing' \cap kicked' = {}
    <2>1. LoginTypeOK'
      BY <1>1, <1>2, Zenon DEF LoginTypeOK
    <2>2. ServersKnown'
      BY <1>1, <1>2, Zenon DEF ServersKnown, NoUser
    <2>3. SessionsOwned' /\ playing' \cap kicked' = {}
      BY <1>1, <1>2, ZenonT(30) DEF SessionsOwned
    <2> QED  BY <2>1, <2>2, <2>3, Zenon
  <1>4. ASSUME NEW u \in Uids \ mixed' PROVE UserKept(u)'
    <2>1. UserKept(u)
      BY <1>2, Zenon DEF LoginInv
    <2>2. \A m \in Clients : Busy(m, u)' <=> Busy(m, u)
      BY <1>2, Zenon DEF Busy
    <2>3. \A t, q \in playing' \cup kicked' : t.uid = u /\ q.uid = u /\ t.subid = q.subid => t = q
      BY <1>2, <2>1, ZenonT(30) DEF UserKept
    <2> QED  BY <1>2, <2>1, <2>2, <2>3, SMTT(30) DEF UserKept, NoUser
  <1> QED  BY <1>3, <1>4, Zenon DEF LoginInv

\* What the listener, the registration of game servers and the runtime do.
LEMMA ServerStep ==
  ASSUME LoginInv, UNCHANGED <<users, client, playing, kicked, mixed>>,
         listener' \in BOOLEAN, raced' \in BOOLEAN, actors \subseteq actors', actors' \subseteq GameServers
  PROVE  LoginInv'
  <1>1. LoginTypeOK' /\ SessionsOwned'
    <2>1. LoginTypeOK'
      BY Zenon DEF LoginInv, LoginTypeOK
    <2>2. SessionsOwned'
      BY Zenon DEF LoginInv, SessionsOwned
    <2> QED  BY <2>1, <2>2, Zenon
  <1>2. ServersKnown'
    BY ZenonT(30) DEF LoginInv, ServersKnown, NoUser
  <1>3. ASSUME NEW u \in Uids \ mixed' PROVE UserKept(u)'
    <2>1. UserKept(u)
      BY Zenon DEF LoginInv
    <2>2. \A l \in Clients : Busy(l, u)' <=> Busy(l, u)
      BY Zenon DEF Busy
    <2> QED  BY <2>1, <2>2, SMTT(30) DEF UserKept, NoUser
  <1> QED  BY <1>1, <1>2, <1>3, Zenon DEF LoginInv

\* A goroutine is accepted, fails to authenticate, or succeeds.
LEMMA EarlyStep ==
  ASSUME LoginInv, NEW l \in Clients,
         \/ AcceptClient(l) \/ ExchangeFails(l) \/ AuthFails(l)
         \/ \E uid \in Uids, g \in GameServers : AuthHandler(l, uid, g)
  PROVE  LoginInv'
  <1>1. LoginTypeOK
    BY Zenon DEF LoginInv
  <1>2. client \in [Clients -> ClientRecords] /\ client[l] \in ClientRecords
    BY <1>1, ClientFields, Zenon
  <1>3. CASE AcceptClient(l)
    <2> DEFINE r == [client[l] EXCEPT !.pc = "exchange"]
    <2>1. client' = [client EXCEPT ![l] = r]
      BY <1>2, <1>3, Zenon DEF AcceptClient, ClientRecords
    <2>2. r \in ClientRecords /\ r.pc = "exchange"
      BY <1>2, Zenon DEF ClientRecords, ClientPcs
    <2> HIDE DEF r
    <2>3. client' \in [Clients -> ClientRecords] /\ client'[l].pc = "exchange" /\ \A m \in Clients \ {l} : client'[m] = client[m]
      BY <1>2, <2>1, <2>2, Zenon
    <2>4. client[l].pc = "none" /\ UNCHANGED <<listener, actors, users, playing, kicked, mixed, raced>>
      BY <1>3, Zenon DEF AcceptClient
    <2> QED  BY <2>3, <2>4, OutsideStep, Zenon
  <1>4. ASSUME client[l].pc = "exchange", Close(l), UNCHANGED <<listener, actors, users, playing, kicked, mixed, raced>>
        PROVE LoginInv'
    <2>1. client' \in [Clients -> ClientRecords] /\ client'[l].pc = "closed" /\ \A m \in Clients \ {l} : client'[m] = client[m]
      BY <1>1, <1>4, CloseClient, Zenon
    <2> QED  BY <1>4, <2>1, OutsideStep, Zenon
  <1>5. CASE ExchangeFails(l) \/ AuthFails(l)
    BY <1>4, <1>5, Zenon DEF ExchangeFails, AuthFails
  <1>6. ASSUME NEW uid \in Uids, NEW g \in GameServers, AuthHandler(l, uid, g) PROVE LoginInv'
    <2>1. client[l].pc = "exchange" /\ UNCHANGED <<listener, actors, users, playing, kicked, mixed, raced>>
      BY <1>6, Zenon DEF AuthHandler
    <2>2. CASE g \notin actors
      BY <1>4, <1>6, <2>1, <2>2, Zenon DEF AuthHandler
    <2>3. CASE g \in actors
      <3> DEFINE r == [client[l] EXCEPT !.pc = "check", !.uid = uid, !.server = g]
      <3>1. client' = [client EXCEPT ![l] = r]
        BY <1>2, <1>6, <2>3, Zenon DEF AuthHandler, ClientRecords
      <3>2. r \in ClientRecords /\ r.pc = "check" /\ r.uid = uid /\ r.server = g
        BY <1>2, Zenon DEF ClientRecords, ClientPcs
      <3> HIDE DEF r
      <3>3. /\ client' \in [Clients -> ClientRecords] /\ client'[l] = r
            /\ \A m \in Clients \ {l} : client'[m] = client[m]
        BY <1>2, <3>1, <3>2, Zenon
      <3> QED  BY <2>1, <2>3, <3>2, <3>3, OutsideStep, ZenonT(30)
    <2> QED  BY <2>2, <2>3, Zenon
  <1> QED  BY <1>3, <1>5, <1>6, Zenon

\* Every step of a login server keeps its invariant.
LEMMA LoginKeeps == LoginInv /\ [LoginNext]_loginVars => LoginInv'
  <1> SUFFICES ASSUME LoginInv, [LoginNext]_loginVars PROVE LoginInv'
    BY Zenon
  <1>1. LoginTypeOK
    BY Zenon DEF LoginInv
  <1>2. CASE StartLogin \/ StopLogin \/ MapRace
    <2>1. /\ UNCHANGED <<users, client, playing, kicked, mixed>> /\ actors \subseteq actors' /\ actors' \subseteq GameServers
          /\ listener' \in BOOLEAN /\ raced' \in BOOLEAN
      BY <1>1, <1>2, Zenon DEF StartLogin, StopLogin, MapRace, LoginTypeOK
    <2> QED  BY <2>1, ServerStep, Zenon
  <1>3. ASSUME NEW g \in GameServers, RegisterGameServer(g) PROVE LoginInv'
    <2>1. /\ UNCHANGED <<users, client, playing, kicked, mixed>> /\ actors \subseteq actors' /\ actors' \subseteq GameServers
          /\ listener' \in BOOLEAN /\ raced' \in BOOLEAN
      BY <1>1, <1>3, Zenon DEF RegisterGameServer, LoginTypeOK
    <2> QED  BY <2>1, ServerStep, Zenon
  <1>4. ASSUME NEW l \in Clients, LoginStep(l) PROVE LoginInv'
    BY <1>4, EarlyStep, CheckUserStep, kickUserStep, LoginFailsStep, RecordUserStep, LoginHandlerStep, ZenonT(30) DEF LoginStep
  <1>5. ASSUME NEW s \in playing \cup kicked, Logout(s) PROVE LoginInv'
    BY <1>5, LogoutStep, Zenon
  <1>7. ASSUME NEW s \in kicked, KickArrives(s) PROVE LoginInv'
    BY <1>7, KickArrivesStep, Zenon
  <1>6. CASE UNCHANGED loginVars
    <2>1. /\ UNCHANGED <<users, client, playing, kicked, mixed>> /\ actors \subseteq actors' /\ actors' \subseteq GameServers
          /\ listener' \in BOOLEAN /\ raced' \in BOOLEAN
      BY <1>1, <1>6, ZenonT(30) DEF loginVars, LoginTypeOK
    <2> QED  BY <2>1, ServerStep, Zenon
  <1> QED  BY <1>2, <1>3, <1>4, <1>5, <1>6, <1>7, Zenon DEF LoginNext

\* A login server keeps its invariant.
LEMMA LoginSafe == LoginSpec => []LoginInv
  BY InitLogin, LoginKeeps, PTL DEF LoginSpec

\* However the goroutines of the clients interleave and whichever kicks arrive, of the
\* sessions of a user whose logins never overlapped and never repeated a subid all but
\* the one on record were sent a kick.
THEOREM OneSession == LoginSpec => []OneSessionPerUser
  <1>1. LoginInv => OneSessionPerUser
    <2> SUFFICES ASSUME LoginInv, NEW s \in playing, s.uid \notin mixed, client[s.by].pc # "record"
                 PROVE  users[s.uid].subid = s.subid /\ \A t \in playing : t.uid = s.uid => t = s
      BY Zenon DEF OneSessionPerUser
    <2>1. s.uid \in Uids /\ UserKept(s.uid)
      BY ZenonT(30) DEF LoginInv, LoginTypeOK
    <2>2. CASE \A l \in Clients : ~Busy(l, s.uid)
      BY <2>1, <2>2, SMTT(30) DEF UserKept
    <2>3. ASSUME NEW l \in Clients, Busy(l, s.uid)
          PROVE  users[s.uid].subid = s.subid /\ \A t \in playing : t.uid = s.uid => t = s
      <3>1. client[l].pc = "kick"
        BY <2>1, <2>3 DEF UserKept
      <3> QED  BY <2>1, <2>3, <3>1, SMTT(30) DEF UserKept
    <2> QED  BY <2>2, <2>3, Zenon
  <1> QED  BY <1>1, LoginSafe, PTL

\* The records of logins, the clients' goroutines and the sessions keep their types.
THEOREM LoginTypeCorrect == LoginSpec => []LoginTypeOK
  <1>1. LoginInv => LoginTypeOK
    BY Zenon DEF LoginInv
  <1> QED  BY <1>1, LoginSafe, PTL

=============================================================================
