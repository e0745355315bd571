----------------------------- MODULE TcpClient -----------------------------
(***************************************************************************)
(* tcpClient of network/tcp_client.go: Connect, the message loop that      *)
(* notices a lost connection, the loops that reconnect, and Disconnect.    *)
(* Every successful connect starts one more loop of each kind.  A dial     *)
(* succeeds or fails, and a read may at any time bring a message or fail.  *)
(* Connections are numbered in the order they are made; 0 stands for nil.  *)
(***************************************************************************)
EXTENDS Integers, FiniteSets

CONSTANTS
  MaxConns,             \* bound: successful dials
  MaxReconnectAttempts  \* config.MaxReconnectAttempts, 0 for no limit

ASSUME ClientAssumption == MaxConns \in Nat /\ MaxReconnectAttempts \in Nat

Made == 1 .. MaxConns

VARIABLES
  conn, connected,
  made,        \* connections made so far
  shut,        \* connections closed by the client
  dial,        \* the holder of the connecting flag: who, and how far
  currentAttempt,
  autoReconnect, hasHandler,
  quit,        \* tc.ctx is done
  reader,      \* messageLoop goroutines: where, and the connection they read
  adding,      \* SetMessageHandler calls that saw the client connected
  again,       \* reconnectLoop goroutines: "none", "wait", "want", "dialing", "done"
  leaver,      \* the Disconnect call: "none", "close", "clear", "drop", "join", "back"
  undisturbed  \* history: no connect was under way since Disconnect began

Readers == 0 .. MaxConns    \* reader 0 is started by SetMessageHandler
NoDial  == [who |-> -1, at |-> "none"]

link    == <<conn, connected, made, shut>>
options == <<autoReconnect, hasHandler, adding>>
leaving == <<quit, leaver, undisturbed>>
cliVars == <<link, dial, currentAttempt, options, reader, again, leaving>>

NewTCPClient ==
  /\ conn = 0 /\ connected = FALSE /\ made = 0 /\ shut = {}
  /\ dial = NoDial /\ currentAttempt = 0
  /\ autoReconnect = FALSE /\ hasHandler = FALSE /\ adding = FALSE
  /\ quit = FALSE /\ leaver = "none" /\ undisturbed = TRUE
  /\ reader = [r \in Readers |-> [at |-> "none", on |-> 0]]
  /\ again = [r \in Made |-> "none"]

SetAutoReconnect ==
  /\ autoReconnect' \in BOOLEAN
  /\ UNCHANGED <<link, dial, currentAttempt, hasHandler, adding, reader, again, leaving>>

\* SetMessageHandler looks at the connected flag ...
ClientSetMessageHandler ==
  /\ ~hasHandler
  /\ hasHandler' = TRUE /\ adding' = connected
  /\ UNCHANGED <<link, dial, currentAttempt, autoReconnect, reader, again, leaving>>

\* ... and then starts a message loop.
SetStartsReader ==
  /\ adding
  /\ adding' = FALSE
  /\ reader' = [reader EXCEPT ![0].at = "start"]
  /\ UNCHANGED <<link, dial, currentAttempt, autoReconnect, hasHandler, again, leaving>>

----------------------------------------------------------------------------
(* ConnectWithTimeout, called by a user (who = 0) or by reconnect loop who *)

BeginConnect(who) ==
  /\ dial' = [who |-> who, at |-> "dial"]
  /\ undisturbed' = FALSE

\* A user's Connect or ConnectAsync, while no other connect is in progress.
Connect ==
  /\ dial = NoDial /\ made < MaxConns
  /\ BeginConnect(0)
  /\ UNCHANGED <<link, currentAttempt, options, reader, again, quit, leaver>>

\* The caller of a connect that is over goes on; attemptReconnect resets its count after a
\* success.
Return(ok) ==
  /\ dial' = NoDial
  /\ currentAttempt' = IF dial.who > 0 /\ ok THEN 0 ELSE currentAttempt

Idle(loops) == IF dial.who > 0 THEN [loops EXCEPT ![dial.who] = "wait"] ELSE loops

DialFails ==
  /\ dial.at = "dial"
  /\ Return(FALSE)
  /\ again' = Idle(again)
  /\ UNCHANGED <<link, options, reader, leaving>>

\* The dial succeeds and the new connection replaces the one before, which nobody closes.
DialSucceeds ==
  /\ dial.at = "dial" /\ made < MaxConns
  /\ made' = made + 1 /\ conn' = made'
  /\ dial' = [dial EXCEPT !.at = "mark"]
  /\ UNCHANGED <<connected, shut, currentAttempt, options, reader, again, leaving>>

\* The connected flag is set and the loops are started.
ConnectDone ==
  /\ dial.at = "mark"
  /\ connected' = TRUE
  /\ reader' = IF hasHandler THEN [reader EXCEPT ![made].at = "start"] ELSE reader
  /\ again' = LET loops == Idle(again) IN
              IF autoReconnect THEN [loops EXCEPT ![made] = "wait"] ELSE loops
  /\ Return(TRUE)
  /\ UNCHANGED <<conn, made, shut, options, leaving>>

----------------------------------------------------------------------------
(* messageLoop and reconnectLoop                                           *)

ReaderAt(r, at, on) == reader' = [reader EXCEPT ![r] = [at |-> at, on |-> on]]

\* The loop reads the connection that is current by then.
ReaderStarts(r) ==
  /\ reader[r].at = "start"
  /\ ReaderAt(r, IF conn = 0 THEN "done" ELSE "check", conn)
  /\ UNCHANGED <<link, dial, currentAttempt, options, again, leaving>>

ReaderChecks(r) ==
  /\ reader[r].at = "check"
  /\ IF quit \/ ~connected THEN ReaderAt(r, "done", 0) ELSE ReaderAt(r, "read", reader[r].on)
  /\ UNCHANGED <<link, dial, currentAttempt, options, again, leaving>>

\* A message goes to the handler; an error clears the connected flag, whichever connection
\* is current.
ReaderReads(r) ==
  /\ reader[r].at = "read"
  /\ \/ /\ reader[r].on \notin shut
        /\ ReaderAt(r, "check", reader[r].on)
        /\ UNCHANGED connected
     \/ connected' = FALSE /\ ReaderAt(r, "done", 0)
  /\ UNCHANGED <<conn, made, shut, dial, currentAttempt, options, again, leaving>>

\* Mutant of Tick: the test of the flag is the wrong way round.
TickConnected(r) ==
  /\ again[r] = "wait" /\ connected /\ \A q \in Made : again[q] # "dialing"
  /\ again' = [again EXCEPT ![r] = "want"]
  /\ UNCHANGED <<link, dial, currentAttempt, options, reader, leaving>>

\* A tick: the loop looks whether it has to reconnect.
Tick(r) ==
  /\ again[r] = "wait" /\ ~connected /\ \A q \in Made : again[q] # "dialing"
  /\ again' = [again EXCEPT ![r] = "want"]
  /\ UNCHANGED <<link, dial, currentAttempt, options, reader, leaving>>

Exhausted == MaxReconnectAttempts > 0 /\ currentAttempt >= MaxReconnectAttempts

\* attemptReconnect: another loop may be at it (then the loop is "dialing", which is the
\* reconnecting flag), the attempts may be used up, or a user's connect may be in progress.
AttemptReconnect(r) ==
  /\ again[r] = "want"
  /\ IF Exhausted \/ \E q \in Made : again[q] = "dialing"
     THEN /\ again' = [again EXCEPT ![r] = "wait"]
          /\ UNCHANGED <<dial, undisturbed, currentAttempt>>
     ELSE /\ currentAttempt' = currentAttempt + 1
          /\ IF dial = NoDial
             THEN BeginConnect(r) /\ again' = [again EXCEPT ![r] = "dialing"]
             ELSE again' = [again EXCEPT ![r] = "wait"] /\ UNCHANGED <<dial, undisturbed>>
  /\ UNCHANGED <<link, options, reader, quit, leaver>>

ReconnectLoopEnds(r) ==
  /\ again[r] = "wait" /\ quit
  /\ again' = [again EXCEPT ![r] = "done"]
  /\ UNCHANGED <<link, dial, currentAttempt, options, reader, leaving>>

----------------------------------------------------------------------------
(* Disconnect                                                              *)

\* The context is cancelled, for good.
Disconnect ==
  /\ leaver = "none"
  /\ quit' = TRUE /\ leaver' = "close"
  /\ undisturbed' = (dial = NoDial)
  /\ UNCHANGED <<link, dial, currentAttempt, options, reader, again>>

Leave(at) == leaver' = at /\ UNCHANGED <<quit, undisturbed, dial, currentAttempt, options, reader, again, made>>

\* The current connection is closed, if there is one.
LeaveClose ==
  /\ leaver = "close"
  /\ shut' = shut \cup ({conn} \ {0})
  /\ Leave(IF conn = 0 THEN "back" ELSE "clear")
  /\ UNCHANGED <<conn, connected>>

\* Mutant of LeaveClear: the flag is left as it is.
LeaveClearNot == leaver = "clear" /\ Leave("drop") /\ UNCHANGED <<conn, connected, shut>>

LeaveClear == leaver = "clear" /\ connected' = FALSE /\ Leave("drop") /\ UNCHANGED <<conn, shut>>

LeaveDrop  == leaver = "drop" /\ conn' = 0 /\ Leave("join") /\ UNCHANGED <<connected, shut>>

LoopsDone ==
  /\ \A r \in Readers : reader[r].at \in {"none", "done"}
  /\ \A r \in Made : again[r] \in {"none", "done"}

LeaveJoin == leaver = "join" /\ LoopsDone /\ Leave("back") /\ UNCHANGED <<conn, connected, shut>>

DialSteps == DialFails \/ DialSucceeds \/ ConnectDone
ReconnectLoop(r) == Tick(r) \/ AttemptReconnect(r) \/ ReconnectLoopEnds(r)
MessageLoop(r) == ReaderStarts(r) \/ ReaderChecks(r) \/ ReaderReads(r)
LeaveSteps == LeaveClose \/ LeaveClear \/ LeaveDrop \/ LeaveJoin

ClientNext ==
  \/ SetAutoReconnect \/ ClientSetMessageHandler \/ SetStartsReader
  \/ Connect \/ DialSteps \/ Disconnect \/ LeaveSteps
  \/ \E r \in Readers : MessageLoop(r)
  \/ \E r \in Made : ReconnectLoop(r)

\* Every goroutine runs, dials and reads end by their timeouts, and the tickers tick.  A
\* select whose two cases are ready picks at random, so a cancelled reconnect loop does not
\* take the tick for ever.
ClientFairness ==
  /\ WF_cliVars(DialSteps) /\ WF_cliVars(LeaveSteps)
  /\ \A r \in Readers : WF_cliVars(MessageLoop(r))
  /\ \A r \in Made : WF_cliVars(ReconnectLoop(r)) /\ SF_cliVars(ReconnectLoopEnds(r))

ClientSpec == NewTCPClient /\ [][ClientNext]_cliVars /\ ClientFairness

----------------------------------------------------------------------------

ClientTypeOK ==
  /\ made \in 0 .. MaxConns /\ conn \in 0 .. made /\ shut \subseteq Made /\ connected \in BOOLEAN
  /\ dial \in [who : -1 .. MaxConns, at : {"none", "dial", "mark"}] /\ currentAttempt \in Nat
  /\ autoReconnect \in BOOLEAN /\ hasHandler \in BOOLEAN /\ adding \in BOOLEAN
  /\ quit \in BOOLEAN /\ undisturbed \in BOOLEAN
  /\ leaver \in {"none", "close", "clear", "drop", "join", "back"}
  /\ reader \in [Readers -> [at : {"none", "start", "check", "read", "done"}, on : 0 .. MaxConns]]
  /\ again \in [Made -> {"none", "wait", "want", "dialing", "done"}]

\* The attempts made without a success between them never exceed the configured maximum,
\* although every connection adds another loop that may reconnect.
AttemptsBounded == MaxReconnectAttempts > 0 => currentAttempt <= MaxReconnectAttempts

\* A lost connection is made again by some reconnect loop, or the attempts are used up, or
\* the client was disconnected (or the bound on connections is reached).
Reconnects ==
  ~connected /\ (\E r \in Made : again[r] = "wait") ~>
    connected \/ Exhausted \/ quit \/ made = MaxConns

\* After Disconnect, if no connect was under way when it began and none has begun since,
\* the client has no connection, is not connected, no loop works any more, and the
\* connection it had is closed.  (A reconnect under way survives Disconnect.)
DisconnectIsFinal ==
  leaver = "back" /\ undisturbed =>
    /\ conn = 0 /\ ~connected
    /\ \A r \in Readers : reader[r].at \in {"none", "start", "done"}
    /\ \A r \in Made : again[r] \in {"none", "done"}
    /\ made > 0 => made \in shut
=============================================================================
