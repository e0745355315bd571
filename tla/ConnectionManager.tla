------------------------- MODULE ConnectionManager -------------------------
(***************************************************************************)
(* connectionManager of network/connection_manager.go over its             *)
(* connections.  cm.mu is held across several steps by RemoveConnection,   *)
(* Cleanup, CloseAllConnections (while connections close) and              *)
(* StopHeartbeat (while it waits for the loop); the other operations are   *)
(* one step taken while nobody holds it.  heartbeatLoop reads the ticker   *)
(* and the stop channel from the manager's fields, without the lock, each  *)
(* time it enters its select.  Counters and statistics are left out.       *)
(***************************************************************************)
EXTENDS TcpConnection, FiniteSets

CONSTANTS
  MaxHeartbeats,  \* bound: StartHeartbeat calls that start a loop
  Beats       \* the Frames that are heartbeats; bound: one tick each

ASSUME StartsAssumption == MaxHeartbeats \in Nat /\ Beats \subseteq Frames

Gens == 1 .. MaxHeartbeats   \* a heartbeat: its ticker, stop channel and loop

VARIABLES
  connections, \* the map
  holder,      \* who holds cm.mu: the operation, connections to visit, the one it closes
  hbOn,        \* heartbeatEnabled
  started,     \* heartbeats started so far
  ticker,      \* heartbeatTicker: a generation, 0 when nil
  stopChan,    \* heartbeatStopChan: a generation, 0 when nil
  ended,       \* generations whose stop channel is closed; their ticker is stopped
  ticks,       \* generations with a tick in the ticker's channel
  fired,       \* ticks so far
  beats,       \* heartbeat messages sent so far
  loops        \* heartbeatLoop goroutines: where, and the channels of their select

hbVars  == <<hbOn, started, ticker, stopChan, ended, ticks, fired, beats, loops>>
vars    == <<connVars, connections, holder, hbVars>>

Free  == [op |-> "none", todo |-> {}, won |-> {}]
Alive == {g \in Gens : loops[g].at \notin {"none", "done"}}

Init ==
  /\ NewTCPConnection
  /\ connections = {}
  /\ holder = Free
  /\ hbOn = FALSE /\ started = 0 /\ ticker = 0 /\ stopChan = 0
  /\ ended = {} /\ ticks = {} /\ fired = 0 /\ beats = {}
  /\ loops = [g \in Gens |-> [at |-> "none", tick |-> 0, stop |-> 0]]

----------------------------------------------------------------------------
(* The map                                                                 *)

GetConnection(c)      == holder = Free /\ c \in connections
GetAllConnections     == connections
GetConnectionsByState == {c \in connections : Connected(c)}   \* ConnectionStateConnected

AddConnection(c) ==
  /\ holder = Free /\ c \notin connections
  /\ connections' = connections \cup {c}
  /\ UNCHANGED <<connVars, holder, hbVars>>

Lock(op, todo) ==
  /\ holder = Free
  /\ holder' = [op |-> op, todo |-> todo, won |-> {}]
  /\ UNCHANGED <<connVars, connections, hbVars>>

RemoveConnection(c) == c \in connections /\ Lock("remove", {c})
Cleanup             == connections # {} /\ Lock("cleanup", connections)
CloseAllConnections == Lock("closeAll", connections)

\* The operation is done with connection c, and unlocks after the last one;
\* CloseAllConnections has more to do then.
Done(c) ==
  holder' = IF holder.todo = {c} /\ holder.op # "closeAll" THEN Free
            ELSE [holder EXCEPT !.todo = @ \ {c}, !.won = {}]

Visited(c) ==
  /\ Done(c)
  /\ connections' = IF holder.op = "closeAll" THEN connections ELSE connections \ {c}

\* Next connection: Cleanup keeps one that is in use and not closed; otherwise Close is
\* called, which returns at once when another goroutine has won it.
Visit(c) ==
  /\ holder.won = {} /\ c \in holder.todo
  /\ \/ /\ holder.op = "cleanup" /\ Connected(c)
        /\ Done(c)
        /\ UNCHANGED <<phase, connections>>
     \/ /\ isClosed(c) /\ Visited(c)
        /\ UNCHANGED phase
     \/ /\ ~isClosed(c)
        /\ phase' = Set(phase, c, "flagged")
        /\ holder' = [holder EXCEPT !.won = {c}]
        /\ UNCHANGED connections
  /\ UNCHANGED <<sendChan, loop, sends, wire, accepted, crashed, hbVars>>

\* Its own Close has finished.
CloseReturned(c) ==
  /\ holder.won = {c} /\ phase[c] = "closed"
  /\ Visited(c)
  /\ UNCHANGED <<connVars, hbVars>>

\* The end of CloseAllConnections: it tells the heartbeat to stop and does not wait.
ClearConnections ==
  /\ holder.op = "closeAll" /\ holder.todo = {}
  /\ holder' = Free
  /\ connections' = {}
  /\ hbOn' = FALSE
  /\ ended' = IF hbOn THEN ended \cup {stopChan} ELSE ended
  /\ UNCHANGED <<connVars, started, ticker, stopChan, ticks, fired, beats, loops>>

\* One goroutine for every connection of a snapshot; the caller waits for them all.
Broadcast(m) ==
  /\ holder = Free
  /\ \A c \in Conns : sends[c][m] = "idle"
  /\ GetAllConnections # {} /\ Spawn(GetAllConnections, m)
  /\ UNCHANGED <<phase, sendChan, loop, wire, accepted, crashed, connections, holder, hbVars>>

BroadcastMessage(m) == Broadcast(m)
BroadcastData(m)    == Broadcast(m)

SendMessageToConnection(c, m) ==
  /\ GetConnection(c)
  /\ SendMessage(c, m)
  /\ UNCHANGED <<connections, holder, hbVars>>

----------------------------------------------------------------------------
(* The heartbeat                                                           *)

StartHeartbeat ==
  /\ holder = Free /\ ~hbOn /\ started < MaxHeartbeats
  /\ hbOn' = TRUE
  /\ started' = started + 1 /\ ticker' = started' /\ stopChan' = started'
  /\ loops' = [loops EXCEPT ![started'].at = "select"]
  /\ UNCHANGED <<connVars, connections, holder, ended, ticks, fired, beats>>

\* StopHeartbeat takes the lock and drops the ticker ...
StopHeartbeat ==
  /\ holder = Free /\ hbOn
  /\ holder' = [Free EXCEPT !.op = "stop"]
  /\ hbOn' = FALSE
  /\ ticker' = 0
  /\ UNCHANGED <<connVars, connections, started, stopChan, ended, ticks, fired, beats, loops>>

\* Mutant of StopClose: the stop channel is dropped without being closed.
StopForgetChan ==
  /\ holder.op = "stop" /\ stopChan # 0
  /\ stopChan' = 0
  /\ UNCHANGED <<connVars, connections, holder, hbOn, started, ticker, ended, ticks, fired, beats, loops>>

\* ... closes and drops the stop channel ...
StopClose ==
  /\ holder.op = "stop" /\ stopChan # 0
  /\ ended' = ended \cup {stopChan} /\ stopChan' = 0
  /\ UNCHANGED <<connVars, connections, holder, hbOn, started, ticker, ticks, fired, beats, loops>>

\* Mutant of StopWait: it does not wait.
StopNoWait ==
  /\ holder.op = "stop" /\ stopChan = 0
  /\ holder' = Free
  /\ UNCHANGED <<connVars, connections, hbVars>>

\* ... and waits, with the lock, until every loop has ended.
StopWait ==
  /\ holder.op = "stop" /\ stopChan = 0 /\ Alive = {}
  /\ holder' = Free
  /\ UNCHANGED <<connVars, connections, hbVars>>

\* The ticker of a heartbeat fires; its channel holds one tick.
Fire(g) ==
  /\ g = ticker /\ g \notin ended \cup ticks /\ fired < Cardinality(Beats)
  /\ ticks' = ticks \cup {g} /\ fired' = fired + 1
  /\ UNCHANGED <<connVars, connections, holder, hbOn, started, ticker, stopChan, ended, beats, loops>>

LoopAt(g, at) == loops' = [loops EXCEPT ![g] = [at |-> at, tick |-> 0, stop |-> 0]]
LoopFrame == <<connections, holder, hbOn, started, ticker, stopChan, ended, fired>>

\* Entering the select reads cm.heartbeatTicker.C ...
ReadTicker(g) ==
  /\ loops[g].at = "select"
  /\ IF ticker = 0
     THEN crashed' = TRUE /\ UNCHANGED loops
     ELSE /\ loops' = [loops EXCEPT ![g] = [@ EXCEPT !.at = "readStop", !.tick = ticker]]
          /\ UNCHANGED crashed
  /\ UNCHANGED <<phase, sendChan, loop, sends, wire, accepted, ticks, beats, LoopFrame>>

\* ... and then cm.heartbeatStopChan; a nil channel is never ready.
ReadStopChan(g) ==
  /\ loops[g].at = "readStop"
  /\ loops' = [loops EXCEPT ![g] = [@ EXCEPT !.at = "wait", !.stop = stopChan]]
  /\ UNCHANGED <<connVars, ticks, beats, LoopFrame>>

\* The select: a tick, or the stop channel.
TakeTick(g) ==
  /\ loops[g].at = "wait" /\ loops[g].tick \in ticks
  /\ ticks' = ticks \ {loops[g].tick}
  /\ LoopAt(g, "beat")
  /\ UNCHANGED <<connVars, beats, LoopFrame>>

LoopReturn(g) ==
  /\ loops[g].at = "wait" /\ loops[g].stop \in ended
  /\ LoopAt(g, "done")
  /\ UNCHANGED <<connVars, ticks, beats, LoopFrame>>

\* sendHeartbeatToAll: the read lock, then a goroutine for each connected connection.
sendHeartbeatToAll(g) ==
  /\ loops[g].at = "beat" /\ holder = Free
  /\ \E m \in Beats \ beats :
       /\ beats' = beats \cup {m}
       /\ Spawn(GetConnectionsByState, m)
  /\ LoopAt(g, "select")
  /\ UNCHANGED <<phase, sendChan, loop, wire, accepted, crashed, ticks, LoopFrame>>

HeartbeatLoop(g) ==
  ReadTicker(g) \/ ReadStopChan(g) \/ TakeTick(g) \/ LoopReturn(g) \/ sendHeartbeatToAll(g)

HolderSteps ==
  ClearConnections \/ StopClose \/ StopWait \/ \E c \in Conns : Visit(c) \/ CloseReturned(c)

Users == Frames \ Beats

Next ==
  /\ ~crashed
  /\ \/ ConnNext /\ UNCHANGED <<connections, holder, hbVars>>
     \/ \E c \in Conns :
          \/ AddConnection(c) \/ RemoveConnection(c)
          \/ \E m \in Users :
               \/ SendMessageToConnection(c, m)
               \/ SendMessage(c, m) /\ UNCHANGED <<connections, holder, hbVars>>
     \/ Cleanup \/ CloseAllConnections \/ HolderSteps
     \/ \E m \in Users : BroadcastMessage(m) \/ BroadcastData(m)
     \/ StartHeartbeat \/ StopHeartbeat
     \/ \E g \in Gens : Fire(g) \/ HeartbeatLoop(g)

\* Goroutines that can run are run, and locks are handed over.  Nothing obliges a user to
\* call, nor a write to end: it has a deadline only if WriteTimeout is not 0.
Fairness ==
  /\ \A c \in Conns :
       /\ WF_vars(~crashed /\ Take(c) /\ UNCHANGED <<connections, holder, hbVars>>)
       /\ WF_vars(~crashed /\ CloseStep(c) /\ UNCHANGED <<connections, holder, hbVars>>)
  /\ WF_vars(~crashed /\ HolderSteps)
  /\ \A g \in Gens : WF_vars(~crashed /\ HeartbeatLoop(g))

Spec == Init /\ [][Next]_vars /\ Fairness

----------------------------------------------------------------------------

TypeOK ==
  /\ ConnTypeOK
  /\ connections \subseteq Conns
  /\ holder \in [op : {"none", "remove", "cleanup", "closeAll", "stop"}, todo : SUBSET Conns, won : SUBSET Conns]
  /\ hbOn \in BOOLEAN /\ started \in 0 .. MaxHeartbeats
  /\ ticker \in 0 .. started /\ stopChan \in 0 .. started
  /\ ended \subseteq 0 .. MaxHeartbeats /\ ticks \subseteq Gens /\ beats \subseteq Beats
  /\ loops \in [Gens -> [at : {"none", "select", "readStop", "wait", "beat", "done"},
                         tick : 0 .. MaxHeartbeats, stop : 0 .. MaxHeartbeats]]

\* A connection that is managed no more was closed: whatever takes it off the map
\* (RemoveConnection, Cleanup, CloseAllConnections) has closed it or found it being closed.
\* An action property: the map is only ever left by a connection whose closed flag is set.
NoOrphans == [][\A c \in connections \ connections' : isClosed(c)]_vars

\* While the heartbeat is off, and so also when StopHeartbeat has returned, no heartbeat
\* loop is left; unless it was CloseAllConnections that turned it off, which does not wait,
\* and after which StopHeartbeat returns at once.  A loop left in that way has been told to
\* stop: whichever stop channel its select has, or will read, is closed.
OffMeansJoinedOrTold ==
  ~hbOn /\ holder.op # "stop" =>
    \/ Alive = {}
    \/ /\ stopChan \in ended \ {0}
       /\ \A g \in Alive : loops[g].at = "wait" => loops[g].stop \in ended \ {0}

\* StopHeartbeat returns, except where it blocks for good: a loop that has taken a tick
\* needs the read lock StopHeartbeat holds, or a loop has read the ticker before and the
\* stop channel after they were dropped.  (A loop that reads the dropped ticker panics.)
StopHeartbeatReturns ==
  holder.op = "stop" ~>
    \/ holder.op # "stop" \/ crashed
    \/ \E g \in Gens : loops[g].at = "beat" \/ (loops[g].at = "wait" /\ loops[g].stop = 0)
=============================================================================
