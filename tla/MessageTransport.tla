-------------------------- MODULE MessageTransport --------------------------
(***************************************************************************)
(* messageTransport of cluster/transport.go: the map from node to          *)
(* connection and the goroutines of every connection, a reader             *)
(* (handleConnection) and a sender (sendLoop), and for an incoming one the *)
(* goroutine that made the handshake and waits for the two.  What is done  *)
(* under connMu is one step.  A peer may do anything: connect, name any    *)
(* node in its handshake, send, fall silent, go away.  What a sendChan     *)
(* holds is left out: a running sender may write or fail at any time.      *)
(* Connections are numbered in the order they are made; 0 means none.      *)
(***************************************************************************)
EXTENDS Integers

CONSTANTS
  Nodes,     \* node ids
  Self,      \* config.NodeID
  MaxConns   \* bound: connections made

ASSUME TransportAssumption ==
  Self \in Nodes /\ MaxConns \in Nat \ {0}

Ids == 1 .. MaxConns

VARIABLES
  up,          \* "no"; "yes": the listener is open; "closing": the accept loop has yet to end
  tctx,        \* mt.ctx: "none", "live", "done"
  connections, \* node -> connection
  active,      \* nodes whose connection in the map carried a message in the last minute
  c,           \* the connections
  count,       \* how many there are
  crash        \* the panic that ended the program, or "no"

transportVars == <<up, tctx, connections, active, c, count, crash>>

Fresh == [node |-> Self, dir |-> "none", sock |-> FALSE, closed |-> FALSE, done |-> FALSE,
          reader |-> "none", sender |-> FALSE, told |-> TRUE]

NewMessageTransport ==
  /\ up = "no" /\ tctx = "none"
  /\ connections = [n \in Nodes |-> 0]
  /\ active = {}
  /\ c = [i \in Ids |-> Fresh]
  /\ count = 0
  /\ crash = "no"

InMap == {connections[n] : n \in Nodes} \ {0}

\* conn.close() of a connection: context, socket, channel; closing a channel again panics.
close(conn) == [conn EXCEPT !.closed = TRUE, !.done = TRUE, !.sock = FALSE]
ClosePanics(is) == crash' = IF \E i \in is : c[i].closed THEN "closedTwice" ELSE crash

----------------------------------------------------------------------------
(* Start and Stop, called by the cluster manager                           *)

\* Start: the context is there even when listening fails.
StartTransport(ok) ==
  /\ up' = IF ok THEN "yes" ELSE up
  /\ tctx' = "live"
  /\ UNCHANGED <<connections, active, c, count, crash>>

\* The context is cancelled, and those of the connections with it.
CancelTransport ==
  /\ tctx' = "done"
  /\ c' = [i \in Ids |-> [c[i] EXCEPT !.done = @ \/ c[i].reader \notin {"none", "handshake"}]]
  /\ UNCHANGED <<up, connections, active, count, crash>>

\* Stop closes the listener and every connection of the map.
StopTransport ==
  /\ up' = "closing"
  /\ c' = [i \in Ids |-> IF i \in InMap THEN close(c[i]) ELSE c[i]]
  /\ ClosePanics(InMap)
  /\ connections' = [n \in Nodes |-> 0] /\ active' = {}
  /\ UNCHANGED <<tctx, count>>

\* The accept loop ends once its listener is closed and the context is done.
acceptLoopEnds ==
  /\ up = "closing" /\ tctx = "done"
  /\ up' = "no"
  /\ UNCHANGED <<tctx, connections, active, c, count, crash>>

----------------------------------------------------------------------------
(* Making connections                                                      *)

\* createConnection, under connMu: dial, start both goroutines, replace what the map had.
createConnection(n) ==
  /\ count < MaxConns /\ tctx # "none"
  /\ count' = count + 1
  /\ c' = [c EXCEPT ![count + 1] = [Fresh EXCEPT !.node = n, !.dir = "out", !.sock = TRUE,
                        !.done = (tctx = "done"), !.reader = "run", !.sender = TRUE]]
  /\ connections' = [connections EXCEPT ![n] = count + 1] /\ active' = active \ {n}

\* handleIncomingConnection: a peer is accepted, and has to send a handshake ...
Accept ==
  /\ up = "yes" /\ count < MaxConns
  /\ count' = count + 1
  /\ c' = [c EXCEPT ![count + 1] = [Fresh EXCEPT !.dir = "in", !.sock = TRUE, !.reader = "handshake"]]
  /\ UNCHANGED <<up, tctx, connections, active, crash>>

\* ... which does not come or is not a Join ...
HandshakeFails(i) ==
  /\ c[i].reader = "handshake"
  /\ c' = [c EXCEPT ![i].reader = "done", ![i].sock = FALSE]
  /\ UNCHANGED <<up, tctx, connections, active, count, crash>>

\* Mutant of Handshake: the connection's context is not derived from the transport's.
HandshakeBackground(i, n) ==
  /\ c[i].reader = "handshake"
  /\ c' = [c EXCEPT ![i] = [c[i] EXCEPT !.node = n, !.reader = "run", !.sender = TRUE, !.told = (n # Self)]]
  /\ connections' = [connections EXCEPT ![n] = i] /\ active' = active \ {n}
  /\ UNCHANGED <<up, tctx, count, crash>>

\* ... or names node n, whose connection, if there is one, is replaced.
Handshake(i, n) ==
  /\ c[i].reader = "handshake"
  /\ c' = [c EXCEPT ![i] = [c[i] EXCEPT !.node = n, !.reader = "run", !.sender = TRUE,
                                        !.done = (tctx = "done"), !.told = (n # Self)]]
  /\ connections' = [connections EXCEPT ![n] = i] /\ active' = active \ {n}
  /\ UNCHANGED <<up, tctx, count, crash>>

----------------------------------------------------------------------------
(* Send and Broadcast                                                      *)

\* getConnection: without an active connection Send makes one; otherwise, like Broadcast, it
\* takes the one of the map, and nothing changes until the message is in the channel.
Send(n) ==
  /\ n \notin active
  /\ createConnection(n)
  /\ UNCHANGED <<up, tctx>>

\* Every connection was in the map, so a Send or Broadcast may have taken it before it was
\* closed, and puts its message in the closed channel.
SendOnClosed(i) ==
  /\ c[i].closed
  /\ crash' = "sendChan"
  /\ UNCHANGED <<up, tctx, connections, active, c, count>>

----------------------------------------------------------------------------
(* The goroutines of a connection                                          *)

\* lastActivity is set; it matters for the connection the map has.
Lives(i) == active' = IF connections[c[i].node] = i THEN active \cup {c[i].node} ELSE active

\* sendLoop writes a message ...
SendLoopWrites(i) ==
  /\ c[i].sender /\ c[i].sock
  /\ Lives(i)
  /\ UNCHANGED <<up, tctx, connections, c, count, crash>>

\* ... or ends: the context is done, the channel closed, or the write fails.
SendLoopEnds(i) ==
  /\ c[i].sender
  /\ c' = [c EXCEPT ![i].sender = FALSE]
  /\ UNCHANGED <<up, tctx, connections, active, count, crash>>

\* handleConnection reads a message ...
Reads(i) ==
  /\ c[i].reader = "run" /\ c[i].sock
  /\ Lives(i)
  /\ UNCHANGED <<up, tctx, connections, c, count, crash>>

\* ... or ends: its context is done, the read fails, or 30 seconds pass.
ReadEnds(i) ==
  /\ c[i].reader = "run"
  /\ c' = [c EXCEPT ![i].reader = "remove"]
  /\ UNCHANGED <<up, tctx, connections, active, count, crash>>

\* After removeConnection only a connection under the local node's id has news for the manager.
Removed(i) == [c EXCEPT ![i].reader = IF c[i].node = Self THEN "lost" ELSE "done"]

\* Mutant of removeConnection: the entry is not deleted.
removeConnectionKeep(i) ==
  LET gone == {connections[c[i].node]} \ {0}
  IN  /\ c[i].reader = "remove"
      /\ c' = [j \in Ids |-> IF j \in gone THEN close(Removed(i)[j]) ELSE Removed(i)[j]]
      /\ ClosePanics(gone)
      /\ UNCHANGED <<up, tctx, connections, active, count>>

\* The deferred removeConnection closes whatever connection its node has by now.
removeConnection(i) ==
  LET gone == {connections[c[i].node]} \ {0}
  IN  /\ c[i].reader = "remove"
      /\ c' = [j \in Ids |-> IF j \in gone THEN close(Removed(i)[j]) ELSE Removed(i)[j]]
      /\ ClosePanics(gone)
      /\ connections' = [connections EXCEPT ![c[i].node] = 0] /\ active' = active \ {c[i].node}
      /\ UNCHANGED <<up, tctx, count>>

\* The goroutine of the handshake closes the socket when both loops have ended.
IncomingEnds(i) ==
  /\ c[i].dir = "in" /\ c[i].sock /\ c[i].reader = "done" /\ ~c[i].sender /\ c[i].told
  /\ c' = [c EXCEPT ![i].sock = FALSE]
  /\ UNCHANGED <<up, tctx, connections, active, count, crash>>

\* A minute passes without a message.
Idle(n) ==
  /\ n \in active
  /\ active' = active \ {n}
  /\ UNCHANGED <<up, tctx, connections, c, count, crash>>

TransportStep ==
  \/ acceptLoopEnds \/ Accept
  \/ \E i \in Ids : \/ HandshakeFails(i) \/ \E n \in Nodes : Handshake(i, n)
                    \/ SendLoopWrites(i) \/ SendLoopEnds(i)
                    \/ Reads(i) \/ ReadEnds(i) \/ removeConnection(i)
                    \/ IncomingEnds(i) \/ SendOnClosed(i)
  \/ \E n \in Nodes : Idle(n)

----------------------------------------------------------------------------

ConnRecords ==
  [node : Nodes, dir : {"none", "in", "out"}, sock : BOOLEAN, closed : BOOLEAN, done : BOOLEAN,
   reader : {"none", "handshake", "run", "remove", "lost", "done"}, sender : BOOLEAN, told : BOOLEAN]

TransportTypeOK ==
  /\ up \in {"no", "yes", "closing"} /\ tctx \in {"none", "live", "done"}
  /\ connections \in [Nodes -> 0 .. MaxConns]
  /\ active \subseteq {n \in Nodes : connections[n] # 0}
  /\ c \in [Ids -> ConnRecords]
  /\ count \in 0 .. MaxConns
  /\ crash \in {"no", "closedTwice", "sendChan", "events", "join"}

\* No connection is closed twice, which would panic on its channel: an entry of the map is
\* the right to close, and whatever Stop, dying readers and replacing handshakes do in
\* between, the connections in the map are open and stand under their own node's id.
ClosedAtMostOnce ==
  /\ crash # "closedTwice"
  /\ \A n \in Nodes : connections[n] # 0 =>
       ~c[connections[n]].closed /\ c[connections[n]].node = n
=============================================================================
