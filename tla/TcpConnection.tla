--------------------------- MODULE TcpConnection ---------------------------
(***************************************************************************)
(* tcpConnection of network/tcp_connection.go: the sending half of a       *)
(* connection.  A Send tests the closed flag, tries the buffered channel   *)
(* and, when that is full, writes to the socket itself; sendLoop empties   *)
(* the channel; Close, by whoever wins its compare-and-swap, takes four    *)
(* steps.  A frame is the name of the Send call that made it, and each     *)
(* name is used once per connection.                                       *)
(***************************************************************************)
EXTENDS Integers, Sequences

CONSTANTS
  Conns,     \* connections
  Frames,    \* Send calls
  SendQueue  \* capacity of sendChan (256 in the code)

ASSUME QueueAssumption ==
  /\ SendQueue \in Nat
  /\ Frames \cap {"range", "closing", "done"} = {}

Phases == <<"open", "flagged", "stated", "chanClosed", "closed">>

VARIABLES
  phase,    \* how far Close has come, per connection
  sendChan, \* frames waiting for sendLoop
  loop,     \* sendLoop: "range", "closing", "done", or the frame it writes
  sends,    \* where each Send call stands
  wire,     \* what reached the socket: who wrote it, and whether all of it
  accepted, \* history: frames in the order the channel took them
  crashed   \* a panic nobody recovers ended the program

connVars == <<phase, sendChan, loop, sends, wire, accepted, crashed>>

isClosed(c)   == phase[c] # "open"
Connected(c)  == phase[c] \in {"open", "flagged"}      \* State()
ChanClosed(c) == phase[c] \in {"chanClosed", "closed"}
Set(f, c, x)  == [f EXCEPT ![c] = x]

NewTCPConnection ==
  /\ phase = [c \in Conns |-> "open"]
  /\ sendChan = [c \in Conns |-> << >>]
  /\ loop = [c \in Conns |-> "range"]
  /\ sends = [c \in Conns |-> [m \in Frames |-> "idle"]]
  /\ wire = [c \in Conns |-> << >>]
  /\ accepted = [c \in Conns |-> << >>]
  /\ crashed = FALSE

SendAt(c, m, at) == sends' = [sends EXCEPT ![c][m] = at]

\* A goroutine that will call Send is made for every connection of cs.
Spawn(cs, m) ==
  sends' = [c \in Conns |-> IF c \in cs THEN [sends[c] EXCEPT ![m] = "spawned"] ELSE sends[c]]

\* SendMessage and Send up to the closed test: the second of the two tests decides.
CheckClosed(c, m) ==
  /\ SendAt(c, m, IF isClosed(c) THEN "error" ELSE "put")
  /\ UNCHANGED <<phase, sendChan, loop, wire, accepted, crashed>>

\* The holder of a connection calls SendMessage.
SendMessage(c, m) == sends[c][m] = "idle" /\ CheckClosed(c, m)

\* A spawned goroutine gets to its call.
SpawnedSend(c, m) == sends[c][m] = "spawned" /\ CheckClosed(c, m)

\* The select of Send: a closed channel panics, a full one is bypassed.
Put(c, m) ==
  /\ sends[c][m] = "put"
  /\ \/ /\ ChanClosed(c)
        /\ crashed' = TRUE
        /\ UNCHANGED <<sendChan, sends, accepted>>
     \/ /\ ~ChanClosed(c) /\ Len(sendChan[c]) < SendQueue
        /\ sendChan' = Set(sendChan, c, Append(sendChan[c], m))
        /\ accepted' = Set(accepted, c, Append(accepted[c], m))
        /\ SendAt(c, m, "ok")
        /\ UNCHANGED crashed
     \/ /\ ~ChanClosed(c) /\ Len(sendChan[c]) >= SendQueue
        /\ SendAt(c, m, "direct")
        /\ UNCHANGED <<sendChan, accepted, crashed>>
  /\ UNCHANGED <<phase, loop, wire>>

\* sendDirect: all of the frame is written, or the write fails after a part of it, which
\* may be empty.  A closed socket takes nothing.
sendDirect(c, m, by, ok) ==
  \/ /\ phase[c] # "closed"
     /\ wire' = Set(wire, c, Append(wire[c], [frame |-> m, by |-> by, whole |-> ok]))
  \/ ~ok /\ phase[c] = "closed" /\ UNCHANGED wire

\* A Send that found the channel full writes by itself; an error is only returned.
Direct(c, m) ==
  /\ sends[c][m] = "direct"
  /\ \E ok \in BOOLEAN : sendDirect(c, m, "caller", ok) /\ SendAt(c, m, IF ok THEN "ok" ELSE "error")
  /\ UNCHANGED <<phase, sendChan, loop, accepted, crashed>>

\* sendLoop takes the next frame: a closed connection drops it and all that follow.
Take(c) ==
  /\ loop[c] = "range"
  /\ \/ /\ sendChan[c] # << >>
        /\ sendChan' = Set(sendChan, c, Tail(sendChan[c]))
        /\ loop' = Set(loop, c, IF isClosed(c) THEN "done" ELSE Head(sendChan[c]))
     \/ /\ sendChan[c] = << >> /\ ChanClosed(c)
        /\ loop' = Set(loop, c, "done")
        /\ UNCHANGED sendChan
  /\ UNCHANGED <<phase, sends, wire, accepted, crashed>>

\* Mutant of Write: a write that fails is tried again.
WriteRetries(c) ==
  /\ loop[c] \in Frames
  /\ \E ok \in BOOLEAN :
       /\ sendDirect(c, loop[c], "loop", ok)
       /\ loop' = Set(loop, c, IF ok THEN "range" ELSE loop[c])
  /\ UNCHANGED <<phase, sendChan, sends, accepted, crashed>>

\* Mutant of Write: after an error the loop ends, and the connection stays open.
WriteQuits(c) ==
  /\ loop[c] \in Frames
  /\ \E ok \in BOOLEAN :
       /\ sendDirect(c, loop[c], "loop", ok)
       /\ loop' = Set(loop, c, IF ok THEN "range" ELSE "done")
  /\ UNCHANGED <<phase, sendChan, sends, accepted, crashed>>

\* sendLoop writes its frame; after an error it closes the connection and ends.
Write(c) ==
  /\ loop[c] \in Frames
  /\ \E ok \in BOOLEAN :
       /\ sendDirect(c, loop[c], "loop", ok)
       /\ loop' = Set(loop, c, IF ok THEN "range" ELSE IF isClosed(c) THEN "done" ELSE "closing")
       /\ phase' = IF ok \/ isClosed(c) THEN phase ELSE Set(phase, c, "flagged")
  /\ UNCHANGED <<sendChan, sends, accepted, crashed>>

\* The winner of Close's compare-and-swap goes on: state, channel, socket.
CloseStep(c) ==
  /\ isClosed(c) /\ phase[c] # "closed"
  /\ \E i \in 2 .. 4 : phase[c] = Phases[i] /\ phase' = Set(phase, c, Phases[i + 1])
  /\ loop' = IF phase'[c] = "closed" /\ loop[c] = "closing" THEN Set(loop, c, "done") ELSE loop
  /\ UNCHANGED <<sendChan, sends, wire, accepted, crashed>>

SendLoop(c) == Take(c) \/ Write(c)

ConnNext ==
  \E c \in Conns :
    \/ SendLoop(c) \/ CloseStep(c)
    \/ \E m \in Frames : SpawnedSend(c, m) \/ Put(c, m) \/ Direct(c, m)

----------------------------------------------------------------------------

ConnTypeOK ==
  /\ phase \in [Conns -> {"open", "flagged", "stated", "chanClosed", "closed"}]
  /\ sendChan \in [Conns -> Seq(Frames)] /\ accepted \in [Conns -> Seq(Frames)]
  /\ \A c \in Conns : Len(sendChan[c]) <= SendQueue
  /\ loop \in [Conns -> Frames \cup {"range", "closing", "done"}]
  /\ sends \in [Conns -> [Frames -> {"idle", "spawned", "put", "direct", "ok", "error"}]]
  /\ wire \in [Conns -> Seq([frame : Frames, by : {"loop", "caller"}, whole : BOOLEAN])]
  /\ crashed \in BOOLEAN

Whole(m) == [frame |-> m, by |-> "loop", whole |-> TRUE]

\* When sendLoop writes a frame, it has written every frame that the channel took before,
\* completely, and not this one: a receiver never sees a frame of the queue out of order,
\* twice, after a gap, or behind a torn one of the queue.  (Frames written by callers that
\* found the channel full may stand anywhere between.)
QueuedInOrder ==
  \A c \in Conns : \A j \in 1 .. Len(wire[c]) :
    wire[c][j].by = "loop" =>
      /\ \E q \in 1 .. Len(accepted[c]) :
           /\ accepted[c][q] = wire[c][j].frame
           /\ \A p \in 1 .. q - 1 : \E i \in 1 .. j - 1 : wire[c][i] = Whole(accepted[c][p])
      /\ \A i \in 1 .. j - 1 : wire[c][i].by = "loop" => wire[c][i].frame # wire[c][j].frame

\* A frame for which Send has reported success because the channel took it is written, all
\* of it, or the connection gets closed: sendLoop never leaves an open connection behind
\* with frames that nobody will write.  Provided that no write blocks for good, as one can
\* on a peer that does not read when WriteTimeout is 0.
AcceptedIsWritten ==
  \A c \in Conns : []<>(loop[c] \notin Frames) =>
    \A m \in Frames :
      (\E q \in DOMAIN accepted[c] : accepted[c][q] = m)
        ~> (isClosed(c) \/ crashed \/ \E i \in DOMAIN wire[c] : wire[c][i] = Whole(m))
=============================================================================
