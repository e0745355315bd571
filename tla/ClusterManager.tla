--------------------------- MODULE ClusterManager ---------------------------
(***************************************************************************)
(* clusterManager of cluster/node.go over its transport, and the           *)
(* ClusterService of cluster/integration.go that starts and stops it.  The *)
(* node table only ever holds the local node, since joining through a seed *)
(* is not implemented; so a connection matters to the manager only when it *)
(* carries the local node's id.  One goroutine calls Start and Stop, any   *)
(* may call Join; the context given to Start may end at any time, as the   *)
(* lifecycle manager's does once Start has returned.                       *)
(* Publishing to a full events channel drops the event, to a closed one it *)
(* panics; Stop closes the channel for good.                               *)
(***************************************************************************)
EXTENDS MessageTransport

CONSTANT MaxStarts  \* bound: calls of Start

ASSUME ManagerAssumption == MaxStarts \in Nat

VARIABLES
  seeds,        \* whether config.SeedNodes is non-empty
  boss,         \* the caller's step: "idle", "starting", "cancel", "wait", "transport"
  started, starts,
  state,        \* of the local node
  known,        \* the local node is in the table and has its manager
  leader,       \* the local node is the leader; nobody else ever is
  loops,        \* the last of the three background loops has not ended
  eventsClosed,
  service       \* cs.started: "no", "yes", and "stopping" during ClusterService.Stop

managerVars == <<seeds, boss, started, starts, state, known, leader, loops, eventsClosed, service>>
clusterVars == <<transportVars, managerVars>>

NewClusterManager ==
  /\ NewMessageTransport
  /\ seeds \in BOOLEAN
  /\ boss = "idle" /\ started = FALSE /\ starts = 0
  /\ state = "joining" /\ known = FALSE /\ leader = FALSE
  /\ loops = FALSE /\ eventsClosed = FALSE /\ service = "no"

\* publishEvent
Publish(when) == crash' = IF when /\ eventsClosed THEN "events" ELSE crash

\* UpdateState of the local node.
UpdateState(new) == state' = new /\ Publish(known)

----------------------------------------------------------------------------
(* Start                                                                   *)

\* Start begins: when the transport cannot listen it is over, and the manager stays
\* marked as started.
Start ==
  /\ boss = "idle" /\ ~started /\ starts < MaxStarts
  /\ started' = TRUE /\ starts' = starts + 1
  /\ \E ok \in BOOLEAN : /\ StartTransport(ok)
                         /\ boss' = IF ok THEN "starting" ELSE "idle"
  /\ UNCHANGED <<seeds, state, known, leader, loops, eventsClosed, service>>

addNode == known' = TRUE     \* of the local node
electSelf == leader' = TRUE

\* Join called without seeds, in whatever state the manager is: the local node is elected,
\* which is an event, so that on the closed channel this call panics.
Join ==
  /\ electSelf
  /\ crash' = IF eventsClosed THEN "join" ELSE crash
  /\ UNCHANGED <<seeds, boss, started, starts, state, known, loops, eventsClosed, service,
                 up, tctx, connections, active, c, count>>

\* With seeds Join fails, since joinViaSeed does; then ClusterService.Start fails too, and
\* does not count as started.
JoinFails == seeds
ServiceStarts == service' = IF starts = 1 /\ ~JoinFails THEN "yes" ELSE service

\* The rest of Start: the node table, the loops, the state, the leader of a single node.
StartNode ==
  /\ boss = "starting"
  /\ boss' = "idle"
  /\ addNode
  /\ loops' = TRUE
  /\ state' = "active" /\ Publish(TRUE)
  /\ IF seeds THEN UNCHANGED leader ELSE electSelf
  /\ ServiceStarts
  /\ UNCHANGED <<seeds, started, starts, eventsClosed, up, tctx, connections, active, c, count>>

\* The context given to Start, from which the manager's and the transport's are derived,
\* is cancelled or times out.  The listener stays open: the accept loop looks at the
\* context only when an Accept fails.
ContextEnds ==
  /\ tctx = "live"
  /\ CancelTransport
  /\ UNCHANGED managerVars

----------------------------------------------------------------------------
(* Stop, step by step                                                      *)

\* ClusterService.Stop does nothing unless the service is started, and ends with the manager.
ServiceStop == service' = IF service = "yes" THEN "stopping" ELSE service
ServiceStopped == service' = IF service = "stopping" THEN "no" ELSE service

\* Stop, Leave or, when the service is started, ClusterService.Stop.
Stop ==
  /\ boss = "idle" /\ started
  /\ started' = FALSE /\ boss' = "cancel"
  /\ UpdateState("leaving")
  /\ ServiceStop
  /\ UNCHANGED <<seeds, starts, known, leader, loops, eventsClosed,
                 up, tctx, connections, active, c, count>>

StopCancel ==
  /\ boss = "cancel"
  /\ boss' = "wait"
  /\ CancelTransport
  /\ UNCHANGED <<seeds, started, starts, state, known, leader, loops, eventsClosed, service>>

\* heartbeatLoop, failureDetectionLoop and eventProcessingLoop end with the context.
LoopsEnd ==
  /\ loops /\ tctx = "done"
  /\ loops' = FALSE
  /\ UNCHANGED <<seeds, boss, started, starts, state, known, leader, eventsClosed, service, transportVars>>

\* wg.Wait, then the transport is stopped, if it ever listened.
StopWaited ==
  /\ boss = "wait" /\ ~loops
  /\ boss' = "transport"
  /\ IF up = "yes" THEN StopTransport ELSE UNCHANGED transportVars
  /\ UNCHANGED <<seeds, started, starts, state, known, leader, loops, eventsClosed, service>>

\* Mutant of StopEnds: the events channel is closed before the last event.
StopEndsClosed ==
  /\ boss = "transport" /\ up = "no"
  /\ boss' = "idle" /\ eventsClosed' = TRUE /\ state' = "left"
  /\ crash' = IF known THEN "events" ELSE crash
  /\ ServiceStopped
  /\ UNCHANGED <<seeds, started, starts, known, leader, loops, up, tctx, connections, active, c, count>>

\* When its accept loop has ended the node has left, and the channel is closed.
StopEnds ==
  /\ boss = "transport" /\ up = "no"
  /\ boss' = "idle" /\ eventsClosed' = TRUE
  /\ state' = "left" /\ Publish(TRUE)    \* a second close panics like an event would
  /\ ServiceStopped
  /\ UNCHANGED <<seeds, started, starts, known, leader, loops, up, tctx, connections, active, c, count>>

----------------------------------------------------------------------------
(* What the transport tells its handler                                    *)

\* The node a connection stands for is in the table.
GetNode(n) == n = Self /\ known

Tell(n, new) == IF GetNode(n) THEN UpdateState(new) ELSE UNCHANGED <<state, crash>>

\* createConnection tells under connMu ...
SendTold(n) ==
  /\ Send(n)
  /\ Tell(n, "active")
  /\ UNCHANGED <<seeds, boss, started, starts, known, leader, loops, eventsClosed, service>>

\* ... an incoming connection after it is in the map, its goroutines running ...
HandleConnectionEstablished(i) ==
  /\ ~c[i].told
  /\ Tell(c[i].node, "active")
  /\ c' = [c EXCEPT ![i].told = TRUE]
  /\ UNCHANGED <<seeds, boss, started, starts, known, leader, loops, eventsClosed, service,
                 up, tctx, connections, active, count>>

\* ... and every reader when it has removed its node's connection.
HandleConnectionLost(i) ==
  /\ c[i].reader = "lost"
  /\ Tell(c[i].node, "suspected")
  /\ c' = [c EXCEPT ![i].reader = "done"]
  /\ UNCHANGED <<seeds, boss, started, starts, known, leader, loops, eventsClosed, service,
                 up, tctx, connections, active, count>>

----------------------------------------------------------------------------

ManagerStep ==
  \/ Start \/ StartNode \/ Join \/ ContextEnds \/ Stop \/ StopCancel \/ LoopsEnd
  \/ StopWaited \/ StopEnds
  \/ \E n \in Nodes : SendTold(n)
  \/ \E i \in Ids : HandleConnectionEstablished(i) \/ HandleConnectionLost(i)

ClusterNext ==
  /\ crash = "no"
  /\ ManagerStep \/ (TransportStep /\ UNCHANGED managerVars)

\* Goroutines that can move do.  A reader whose context is done notices it, at the latest
\* when its read deadline passes; a handshake has a deadline too; a write ends because the
\* peer reads or its end of the connection is gone.
ClusterFairness ==
  /\ WF_clusterVars(crash = "no" /\ (StartNode \/ StopCancel \/ StopWaited \/ StopEnds))
  /\ WF_clusterVars(crash = "no" /\ LoopsEnd)
  /\ WF_clusterVars(crash = "no" /\ acceptLoopEnds /\ UNCHANGED managerVars)
  /\ \A i \in Ids :
       /\ WF_clusterVars(crash = "no" /\ (HandshakeFails(i) \/ \E n \in Nodes : Handshake(i, n))
                         /\ UNCHANGED managerVars)
       /\ WF_clusterVars(crash = "no" /\ c[i].done /\ (ReadEnds(i) \/ SendLoopEnds(i))
                         /\ UNCHANGED managerVars)
       /\ WF_clusterVars(crash = "no" /\ (removeConnection(i) \/ IncomingEnds(i)) /\ UNCHANGED managerVars)
       /\ WF_clusterVars(crash = "no" /\ (HandleConnectionEstablished(i) \/ HandleConnectionLost(i)))

ClusterSpec == NewClusterManager /\ [][ClusterNext]_clusterVars /\ ClusterFairness

----------------------------------------------------------------------------
(* What the manager and the service report                                 *)

GetAllNodes == IF known THEN {Self} ELSE {}
GetActiveNodes == {n \in GetAllNodes : state = "active"}
GetLeader == IF leader THEN GetAllNodes ELSE {}
GetClusterHealth == GetLeader # {} /\ GetActiveNodes # {}

\* Health of ClusterService; it is called by other goroutines.
Health == IF service = "no" THEN "stopped"
          ELSE IF GetLeader = {} THEN "critical"
          ELSE IF GetClusterHealth THEN "healthy" ELSE "unhealthy"

ManagerTypeOK ==
  /\ TransportTypeOK
  /\ seeds \in BOOLEAN /\ started \in BOOLEAN /\ known \in BOOLEAN /\ leader \in BOOLEAN
  /\ eventsClosed \in BOOLEAN /\ service \in {"no", "yes", "stopping"}
  /\ boss \in {"idle", "starting", "cancel", "wait", "transport"}
  /\ starts \in 0 .. MaxStarts /\ loops \in BOOLEAN
  /\ state \in {"joining", "active", "suspected", "leaving", "left"}

\* A connection under the local node's own id was made, by a peer's handshake or by a Send.
SelfConnected == \E i \in Ids : c[i].node = Self /\ c[i].reader \notin {"none", "handshake"}

\* Stop itself never publishes on the events channel it closes, and none of the manager's
\* own goroutines does afterwards, as long as the manager is started once and no connection
\* carries the local node's own id: each of the two makes publishEvent panic on the closed
\* channel.  The only other way to the panic is a caller's Join without seeds after Stop,
\* in that call (crash = "join").
EventsPanicExplained == crash = "events" => starts > 1 \/ SelfConnected

\* The service reports healthy only while its node's listener is open; only a connection
\* under the node's own id, which sets the state back to active during Stop, can make
\* Health say otherwise.  Health does not look at the context: it stays healthy when the
\* context given to Start has ended, and with it heartbeats and failure detection.
HealthyMeansListening == Health = "healthy" /\ ~SelfConnected => up = "yes"

\* After Stop the goroutines of every connection end and the sockets of the accepted ones
\* are closed, also of those that a later connection of the same node pushed out of the
\* map so that Stop never saw them.
StopEndsConnections ==
  eventsClosed ~> \/ crash # "no" \/ started
                  \/ \A i \in Ids : /\ c[i].reader \in {"none", "done"} /\ ~c[i].sender
                                    /\ c[i].dir = "in" => ~c[i].sock
=============================================================================
