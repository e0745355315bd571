----------------------------- MODULE TcpServer -----------------------------
(***************************************************************************)
(* tcpServer of network/tcp_server.go: the accept loop, one handler        *)
(* goroutine per connection, the loops that hand connections to OnConnect, *)
(* and Stop, which waits for all of them.  Start and Stop are called by    *)
(* one goroutine, the owner; everything else runs beside it.  The peers    *)
(* are outside: a read may at any time bring a message or fail (the peer   *)
(* closes, the read times out), and callbacks return.  A connection whose  *)
(* ReadTimeout is 0 has no deadline, and its read may also last for ever.  *)
(***************************************************************************)
EXTENDS Integers, Sequences, FiniteSets

CONSTANTS
  Socks,          \* connections peers may make
  Timed,          \* the ones with config.ReadTimeout > 0
  MaxConnections, \* config.MaxConnections, 0 for no limit
  ChanSize,       \* capacity of connectionChan (100 in the code)
  MaxStarts       \* bound: calls of Start that get past the running flag

ASSUME ServerAssumption ==
  MaxConnections \in Nat /\ ChanSize \in Nat /\ MaxStarts \in Nat /\ Timed \subseteq Socks

VARIABLES
  owner,          \* the Start/Stop caller: "idle" or the step Stop has come to
  running, starts,
  cancelled,      \* ts.ctx is done
  listening,      \* the listener is open
  acceptor,       \* acceptLoop: "none", "check", "accept", "publish"
  fresh,          \* the connection it is publishing
  connectionChan, chanClosed,
  active,         \* ts.connections, whose size is currentConnections
  sock,           \* per connection: "none", "backlog", "open", "closed"
  handler,        \* handleConnection: "none", "check", "read", "ending", "done"
  hasMsgHandler, hasConnHandler,
  setting,        \* SetConnectionHandler calls that saw the server running
  handlerLoops,   \* connectionHandlerLoop goroutines
  handed,         \* who got the connection: "nobody", "handler", "caller"
  twice,          \* connections handed out twice
  srvCrashed

stopping  == <<owner, running, starts, cancelled>>
accepting == <<listening, acceptor, fresh>>
handing   == <<connectionChan, chanClosed, handed, twice>>
handlers  == <<hasMsgHandler, hasConnHandler, setting, handlerLoops>>
srvVars   == <<stopping, accepting, handing, handlers, active, sock, handler, srvCrashed>>

NewTCPServer ==
  /\ owner = "idle" /\ running = FALSE /\ starts = 0 /\ cancelled = FALSE
  /\ listening = FALSE /\ acceptor = "none" /\ fresh = {}
  /\ connectionChan = << >> /\ chanClosed = FALSE
  /\ active = {}
  /\ sock = [s \in Socks |-> "none"]
  /\ handler = [s \in Socks |-> "none"]
  /\ hasMsgHandler = FALSE /\ hasConnHandler = FALSE /\ setting = 0 /\ handlerLoops = 0
  /\ handed = [s \in Socks |-> "nobody"] /\ twice = {}
  /\ srvCrashed = FALSE

Handed(s, to) ==
  /\ handed' = [handed EXCEPT ![s] = to]
  /\ twice' = IF handed[s] = "nobody" THEN twice ELSE twice \cup {s}

----------------------------------------------------------------------------
(* The owner                                                               *)

\* Start; a listener left open by a Start after Stop keeps the port, and Listen fails.
Start ==
  /\ owner = "idle" /\ ~running /\ starts < MaxStarts
  /\ \/ /\ ~listening
        /\ running' = TRUE /\ listening' = TRUE /\ acceptor' = "check"
        /\ handlerLoops' = IF hasConnHandler THEN handlerLoops + 1 ELSE handlerLoops
     \/ UNCHANGED <<running, listening, acceptor, handlerLoops>>
  /\ starts' = starts + 1
  /\ UNCHANGED <<owner, cancelled, fresh, handing, hasMsgHandler, hasConnHandler, setting, active,
                 sock, handler, srvCrashed>>

\* Stop clears the flag and cancels the context ...
Stop ==
  /\ owner = "idle" /\ running
  /\ running' = FALSE /\ cancelled' = TRUE
  /\ owner' = "close"
  /\ UNCHANGED <<starts, accepting, handing, handlers, active, sock, handler, srvCrashed>>

\* Mutant of CloseListener: the listener is left open.
CloseListenerNot ==
  /\ owner = "close"
  /\ owner' = "wait"
  /\ UNCHANGED <<running, starts, cancelled, accepting, handing, handlers, active, sock, handler, srvCrashed>>

\* ... closes the listener, which resets what is in its backlog ...
CloseListener ==
  /\ owner = "close"
  /\ owner' = "wait"
  /\ listening' = FALSE
  /\ sock' = [s \in Socks |-> IF sock[s] = "backlog" THEN "closed" ELSE sock[s]]
  /\ UNCHANGED <<running, starts, cancelled, acceptor, fresh, handing, handlers, active, handler, srvCrashed>>

AllDone ==
  /\ acceptor = "none" /\ handlerLoops = 0
  /\ \A s \in Socks : handler[s] \in {"none", "done"}

\* Mutant of StopRest: it does not wait.
StopRestAtOnce ==
  /\ owner = "wait"
  /\ owner' = "idle" /\ chanClosed' = TRUE
  /\ sock' = [s \in Socks |-> IF s \in active THEN "closed" ELSE sock[s]]
  /\ UNCHANGED <<running, starts, cancelled, accepting, connectionChan, handed, twice, handlers, active, handler, srvCrashed>>

\* ... waits for every goroutine, closes the channel, which panics the second time, and
\* closes the connections that are still in the map.
StopRest ==
  /\ owner = "wait" /\ AllDone
  /\ IF chanClosed
     THEN srvCrashed' = TRUE /\ UNCHANGED <<owner, chanClosed, sock>>
     ELSE /\ owner' = "idle" /\ chanClosed' = TRUE
          /\ sock' = [s \in Socks |-> IF s \in active THEN "closed" ELSE sock[s]]
          /\ UNCHANGED srvCrashed
  /\ UNCHANGED <<running, starts, cancelled, accepting, connectionChan, handed, twice, handlers, active, handler>>

----------------------------------------------------------------------------
(* The accept loop                                                         *)

\* A peer connects.
Dial(s) ==
  /\ listening /\ sock[s] = "none"
  /\ sock' = [sock EXCEPT ![s] = "backlog"]
  /\ UNCHANGED <<stopping, accepting, handing, handlers, active, handler, srvCrashed>>

Full == MaxConnections > 0 /\ Cardinality(active) >= MaxConnections

\* The top of the loop, and the failed Accept after the listener is closed: the loop ends
\* once the context is done.
AcceptCheck ==
  /\ acceptor = "check" \/ (acceptor = "accept" /\ ~listening)
  /\ acceptor' = IF cancelled THEN "none" ELSE "accept"
  /\ UNCHANGED <<stopping, listening, fresh, handing, handlers, active, sock, handler, srvCrashed>>

\* A connection is accepted: refused at the limit, otherwise entered in the map and given
\* its handler goroutine.  A connection may also come in while Stop is at work.
Accept(s) ==
  /\ acceptor = "accept" /\ listening /\ sock[s] = "backlog"
  /\ IF Full
     THEN /\ sock' = [sock EXCEPT ![s] = "closed"] /\ acceptor' = "check"
          /\ UNCHANGED <<fresh, active, handler>>
     ELSE /\ sock' = [sock EXCEPT ![s] = "open"]
          /\ active' = active \cup {s}
          /\ handler' = IF hasMsgHandler THEN [handler EXCEPT ![s] = "check"] ELSE handler
          /\ acceptor' = "publish" /\ fresh' = {s}
  /\ UNCHANGED <<stopping, listening, handing, handlers, srvCrashed>>

\* The new connection goes to the channel, or, when that is full, straight to OnConnect;
\* once the context is done it is closed and the loop ends.
Publish(s) ==
  /\ acceptor = "publish" /\ fresh = {s}
  /\ fresh' = {}
  /\ \/ /\ cancelled
        /\ sock' = [sock EXCEPT ![s] = "closed"] /\ acceptor' = "none"
        /\ UNCHANGED <<connectionChan, handed, twice>>
     \/ /\ ~cancelled /\ acceptor' = "check"
        /\ IF Len(connectionChan) < ChanSize
           THEN connectionChan' = Append(connectionChan, s) /\ UNCHANGED <<handed, twice>>
           ELSE /\ IF hasConnHandler THEN Handed(s, "handler") ELSE UNCHANGED <<handed, twice>>
                /\ UNCHANGED connectionChan
        /\ UNCHANGED sock
  /\ UNCHANGED <<stopping, listening, chanClosed, handlers, active, handler, srvCrashed>>

----------------------------------------------------------------------------
(* Handing connections out                                                 *)

\* SetConnectionHandler stores the handler and looks at the running flag ...
SetConnectionHandler ==
  /\ ~hasConnHandler
  /\ hasConnHandler' = TRUE
  /\ setting' = IF running THEN setting + 1 ELSE setting
  /\ UNCHANGED <<stopping, accepting, handing, hasMsgHandler, handlerLoops, active, sock, handler, srvCrashed>>

\* ... and then starts a loop, whatever Stop has done in between.
SetStartsLoop ==
  /\ setting > 0
  /\ setting' = setting - 1 /\ handlerLoops' = handlerLoops + 1
  /\ UNCHANGED <<stopping, accepting, handing, hasMsgHandler, hasConnHandler, active, sock, handler, srvCrashed>>

SetMessageHandler ==
  /\ ~hasMsgHandler
  /\ hasMsgHandler' = TRUE
  /\ UNCHANGED <<stopping, accepting, handing, hasConnHandler, setting, handlerLoops, active, sock, handler, srvCrashed>>

\* Mutant of Receive: the connection stays in the channel.
ReceiveLeave(to) ==
  /\ connectionChan # << >>
  /\ Handed(Head(connectionChan), to)
  /\ UNCHANGED connectionChan

Receive(to) ==
  /\ connectionChan # << >>
  /\ Handed(Head(connectionChan), to)
  /\ connectionChan' = Tail(connectionChan)

\* connectionHandlerLoop takes a connection or, when the context is done, ends.
HandlerLoop ==
  /\ handlerLoops > 0
  /\ \/ Receive("handler") /\ UNCHANGED handlerLoops
     \/ /\ cancelled \/ (chanClosed /\ connectionChan = << >>)
        /\ handlerLoops' = handlerLoops - 1
        /\ UNCHANGED <<connectionChan, handed, twice>>
  /\ UNCHANGED <<stopping, accepting, chanClosed, hasMsgHandler, hasConnHandler, setting, active, sock, handler, srvCrashed>>

\* A user's AcceptConnection call returns a connection.
AcceptConnection ==
  /\ Receive("caller")
  /\ UNCHANGED <<stopping, accepting, chanClosed, handlers, active, sock, handler, srvCrashed>>

----------------------------------------------------------------------------
(* handleConnection                                                        *)

HandlerAt(s, at) == handler' = [handler EXCEPT ![s] = at]

Check(s) ==
  /\ handler[s] = "check"
  /\ HandlerAt(s, IF cancelled THEN "ending" ELSE "read")
  /\ UNCHANGED <<stopping, accepting, handing, handlers, active, sock, srvCrashed>>

\* ReadMessage brings a message, which OnMessage gets, or fails.
Read(s) ==
  /\ handler[s] = "read"
  /\ \/ sock[s] = "open" /\ HandlerAt(s, "check")
     \/ HandlerAt(s, "ending")
  /\ UNCHANGED <<stopping, accepting, handing, handlers, active, sock, srvCrashed>>

\* The deferred calls: OnDisconnect, then removeConnection.  The socket is not closed.
End(s) ==
  /\ handler[s] = "ending"
  /\ HandlerAt(s, "done")
  /\ active' = active \ {s}
  /\ UNCHANGED <<stopping, accepting, handing, handlers, sock, srvCrashed>>

HandleConnection(s) == Check(s) \/ Read(s) \/ End(s)
StopSteps  == CloseListener \/ StopRest
AcceptLoop == AcceptCheck \/ \E s \in Socks : Accept(s) \/ Publish(s)

ServerNext ==
  /\ ~srvCrashed
  /\ \/ Start \/ Stop \/ StopSteps \/ AcceptLoop
     \/ SetConnectionHandler \/ SetStartsLoop \/ SetMessageHandler
     \/ HandlerLoop \/ AcceptConnection
     \/ \E s \in Socks : Dial(s) \/ HandleConnection(s)

\* Every goroutine runs.  A read ends by its timeout where there is one, or else only when
\* its socket is closed.
ServerFairness ==
  /\ WF_srvVars(~srvCrashed /\ StopSteps)
  /\ WF_srvVars(~srvCrashed /\ AcceptLoop)
  /\ WF_srvVars(~srvCrashed /\ SetStartsLoop)
  /\ WF_srvVars(~srvCrashed /\ HandlerLoop)
  /\ \A s \in Timed : WF_srvVars(~srvCrashed /\ HandleConnection(s))
  /\ \A s \in Socks \ Timed :
       WF_srvVars(~srvCrashed /\ (Check(s) \/ End(s) \/ (sock[s] # "open" /\ Read(s))))

ServerSpec == NewTCPServer /\ [][ServerNext]_srvVars /\ ServerFairness

----------------------------------------------------------------------------

ServerTypeOK ==
  /\ owner \in {"idle", "close", "wait"} /\ starts \in 0 .. MaxStarts
  /\ running \in BOOLEAN /\ cancelled \in BOOLEAN /\ listening \in BOOLEAN /\ chanClosed \in BOOLEAN
  /\ acceptor \in {"none", "check", "accept", "publish"}
  /\ IF acceptor = "publish" THEN \E s \in Socks : fresh = {s} ELSE fresh = {}
  /\ connectionChan \in Seq(Socks) /\ Len(connectionChan) <= ChanSize
  /\ active \subseteq Socks /\ twice \subseteq Socks
  /\ sock \in [Socks -> {"none", "backlog", "open", "closed"}]
  /\ handler \in [Socks -> {"none", "check", "read", "ending", "done"}]
  /\ handed \in [Socks -> {"nobody", "handler", "caller"}]
  /\ hasMsgHandler \in BOOLEAN /\ hasConnHandler \in BOOLEAN /\ srvCrashed \in BOOLEAN
  /\ setting \in 0 .. MaxStarts + 1 /\ handlerLoops \in 0 .. MaxStarts + 1

\* The configured limit holds at all times, with handlers leaving while others come in.
ConnectionLimit == MaxConnections > 0 => Cardinality(active) <= MaxConnections

\* A connection is handed out once, although OnConnect loops, AcceptConnection callers
\* and, at a full channel, the accept loop itself all hand connections out.
HandedOnce == twice = {}

\* When Stop has returned and the server was not started again, no accept loop and no
\* connection handler is left, and the connections the server had accepted are closed.
\* The exception is every connection that had a message handler: Stop waits for the
\* handlers first, and a handler takes its connection off the map without closing it, so
\* that Stop does not find it any more.
StopLeavesNothing ==
  chanClosed /\ owner = "idle" =>
    /\ running \/ acceptor = "none"
    /\ \A s \in Socks : handler[s] \in {"none", "done"}
    /\ \A s \in Socks : sock[s] = "open" => handler[s] = "done"

\* Stop returns, because every goroutine it waits for comes to see the cancelled context;
\* except while a handler is in a read that never ends, for lack of a read timeout and of
\* anything from its peer: Stop closes the connections only afterwards.  A Stop after a
\* second Start panics instead.
StopReturns ==
  owner # "idle" ~>
    \/ owner = "idle" \/ (srvCrashed /\ starts > 1)
    \/ \E s \in Socks \ Timed : [](handler[s] = "read" /\ sock[s] = "open")

=============================================================================
