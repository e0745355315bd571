------------------------------- MODULE Actor -------------------------------
(***************************************************************************)
(* One actor of core/actor.go: its lifecycle word, its mailbox channel and *)
(* its message loop, together with the goroutines that call Start, Stop,   *)
(* Send and Call on it.  Every atomic operation of the Go code on shared   *)
(* state (an atomic load, store or compare-and-swap, a channel operation,  *)
(* a sync.Map access, a WaitGroup wait) is one step here, so the windows   *)
(* between them are explored.                                              *)
(*                                                                         *)
(* A goroutine of Starters is the caller of Start and then the message     *)
(* loop it spawns.  A goroutine of Clients owns one message, named after   *)
(* itself, and delivers it with Send, or with Call when it is in Callers.  *)
(***************************************************************************)
EXTENDS Integers, Sequences, FiniteSets

CONSTANTS
  Clients,       \* goroutines that send one message each
  Callers,       \* those that use Call and wait for the response
  Starters,      \* goroutines that call Start
  Stoppers,      \* goroutines that call Stop
  InHandler,     \* stoppers that run inside the actor's own handler
  MailboxSize,   \* opts.MailboxSize
  SessionSpace,  \* number of values of the session counter (2^32 in the code)
  None           \* nil

ASSUME ClientsAssumption == Callers \subseteq Clients /\ None \notin Clients
ASSUME StoppersAssumption == InHandler \subseteq Stoppers
ASSUME GoroutinesDisjoint ==
  /\ Clients \cap Starters = {}
  /\ Clients \cap Stoppers = {}
  /\ Starters \cap Stoppers = {}
ASSUME MailboxAssumption == MailboxSize \in Nat \ {0}
ASSUME SessionAssumption == SessionSpace \in Nat \ {0}

VARIABLES
  state,           \* the atomic int32 holding an ActorState
  mailbox,         \* buffered channel of messages
  closed,          \* close(a.mailbox) has happened
  cancelled,       \* a.ctx is done
  pc,              \* where each goroutine stands
  cur,             \* the message each message loop is processing
  sessionCounter,  \* last session number handed out
  session,         \* msg.Session of each message, 0 when it is not a call
  pendingCalls,    \* the sync.Map from session to response channel
  resp,            \* content of each caller's response channel
  result,          \* what Send or Call returned
  crashed,         \* a goroutine panicked, which ends the process
  accepted,        \* history: messages put in the mailbox, in order
  taken,           \* history: messages handed to processMessage, in order
  drained,         \* history: messages removed by drainMailbox, in order
  outcome          \* history: what the handler returned for each message

vars == <<state, mailbox, closed, cancelled, pc, cur, sessionCounter, session,
          pendingCalls, resp, result, crashed, accepted, taken, drained, outcome>>

callVars == <<sessionCounter, session, pendingCalls, resp, result>>
history  == <<accepted, taken, drained, outcome>>

Goroutines == Clients \cup Starters \cup Stoppers
Sessions   == 0 .. SessionSpace - 1
ActorState == {"Idle", "Running", "Stopping", "Stopped"}
Responses  == {"ok", "error"}
Results    == Responses \cup {"sent", "notRunning", "shuttingDown", "full", "timeout"}

ASSUME NoneAssumption == None \notin Results

\* Stages of a spawned message loop, between wg.Add(1) and wg.Done().
LoopPC    == {"select", "process", "handling", "finish", "drain", "close"}
StarterPC == LoopPC \cup {"load", "spawn", "refused", "exited"}
ClientPC  == {"begin", "check", "send", "wait", "done"}
StopperPC == {"cas1", "cas2", "cancel", "wait", "store", "failed", "stopped"}

Goto(g, label) == pc' = [pc EXCEPT ![g] = label]

\* a.wg.Wait() returns exactly when this holds.
NoLoopRuns == \A l \in Starters : pc[l] \notin LoopPC

\* Stages of a Stop that has won its compare-and-swap.
StopAdmitted(p) == pc[p] \in {"cancel", "wait", "store", "stopped"}

----------------------------------------------------------------------------
(* NewActor: everything is empty and the state is Idle.                    *)
InitData ==
  /\ state = "Idle"
  /\ mailbox = << >>
  /\ closed = FALSE
  /\ cancelled = FALSE
  /\ cur = [l \in Starters |-> None]
  /\ sessionCounter = 0
  /\ session = [c \in Clients |-> 0]
  /\ pendingCalls = [s \in Sessions |-> None]
  /\ resp = [c \in Clients |-> None]
  /\ result = [c \in Clients |-> None]
  /\ crashed = FALSE
  /\ accepted = << >>
  /\ taken = << >>
  /\ drained = << >>
  /\ outcome = [c \in Clients |-> None]

InitPC(starterLabel) ==
  pc = [g \in Goroutines |->
          IF g \in Clients THEN "begin"
          ELSE IF g \in Starters THEN starterLabel ELSE "cas1"]

\* The actor is created and Start races everything else, as in system.NewActor.
Init == InitData /\ InitPC("load")

\* Start has already returned when the other goroutines begin.
StartedInit == InitData /\ InitPC("select")

----------------------------------------------------------------------------
(* Start                                                                   *)

StartLoad(s) ==
  /\ pc[s] = "load"
  /\ Goto(s, IF state = "Idle" THEN "spawn" ELSE "refused")
  /\ UNCHANGED <<state, mailbox, closed, cancelled, cur, crashed, callVars, history>>

\* a.wg.Add(1); go a.messageLoop()
StartSpawn(s) ==
  /\ pc[s] = "spawn"
  /\ Goto(s, "select")
  /\ UNCHANGED <<state, mailbox, closed, cancelled, cur, crashed, callVars, history>>

----------------------------------------------------------------------------
(* Stop: two compare-and-swaps, cancel, wait, final store                  *)

\* A stopper in InHandler is called by the handler of a message in progress.
MayCall(p) == p \in InHandler => \E l \in Starters : pc[l] = "handling"

StopFromIdle(p) ==
  /\ pc[p] = "cas1"
  /\ MayCall(p)
  /\ IF state = "Idle"
     THEN state' = "Stopping" /\ Goto(p, "cancel")
     ELSE Goto(p, "cas2") /\ UNCHANGED state
  /\ UNCHANGED <<mailbox, closed, cancelled, cur, crashed, callVars, history>>

StopFromRunning(p) ==
  /\ pc[p] = "cas2"
  /\ IF state = "Running"
     THEN state' = "Stopping" /\ Goto(p, "cancel")
     ELSE Goto(p, "failed") /\ UNCHANGED state
  /\ UNCHANGED <<mailbox, closed, cancelled, cur, crashed, callVars, history>>

\* Mutant of StopCancel: a.cancel() is forgotten.
StopCancelForgotten(p) ==
  /\ pc[p] = "cancel"
  /\ Goto(p, "wait")
  /\ UNCHANGED <<state, mailbox, closed, cancelled, cur, crashed, callVars, history>>

StopCancel(p) ==
  /\ pc[p] = "cancel"
  /\ cancelled' = TRUE
  /\ Goto(p, "wait")
  /\ UNCHANGED <<state, mailbox, closed, cur, crashed, callVars, history>>

\* Mutant of StopWait: the final store does not wait for the message loop.
StopWithoutWait(p) ==
  /\ pc[p] = "wait"
  /\ Goto(p, "store")
  /\ UNCHANGED <<state, mailbox, closed, cancelled, cur, crashed, callVars, history>>

StopWait(p) ==
  /\ pc[p] = "wait"
  /\ NoLoopRuns
  /\ Goto(p, "store")
  /\ UNCHANGED <<state, mailbox, closed, cancelled, cur, crashed, callVars, history>>

StopStore(p) ==
  /\ pc[p] = "store"
  /\ state' = "Stopped"
  /\ Goto(p, "stopped")
  /\ UNCHANGED <<mailbox, closed, cancelled, cur, crashed, callVars, history>>

----------------------------------------------------------------------------
(* Send and Call                                                           *)

\* The result of Send or Call; Call's deferred Delete runs with it.
Return(c, r) ==
  /\ result' = [result EXCEPT ![c] = r]
  /\ pendingCalls' = IF c \in Callers THEN [pendingCalls EXCEPT ![session[c]] = None]
                                      ELSE pendingCalls
  /\ Goto(c, "done")

\* Mutant of CallBegin: the session counter is read and never advanced.
CallBeginSameSession(c) ==
  /\ pc[c] = "begin"
  /\ c \in Callers
  /\ session' = [session EXCEPT ![c] = 1]
  /\ pendingCalls' = [pendingCalls EXCEPT ![1] = c]
  /\ Goto(c, "check")
  /\ UNCHANGED <<state, mailbox, closed, cancelled, cur, crashed, sessionCounter, resp,
                 result, history>>

\* A Call takes a session number and registers its response channel first.
CallBegin(c) ==
  /\ pc[c] = "begin"
  /\ c \in Callers
  /\ sessionCounter' = (sessionCounter + 1) % SessionSpace
  /\ session' = [session EXCEPT ![c] = sessionCounter']
  /\ pendingCalls' = [pendingCalls EXCEPT ![sessionCounter'] = c]
  /\ Goto(c, "check")
  /\ UNCHANGED <<state, mailbox, closed, cancelled, cur, crashed, resp, result, history>>

SendCheck(c) ==
  /\ pc[c] = IF c \in Callers THEN "check" ELSE "begin"
  /\ IF state \in {"Stopped", "Stopping"}
     THEN Return(c, "notRunning")
     ELSE Goto(c, "send") /\ UNCHANGED <<result, pendingCalls>>
  /\ UNCHANGED <<state, mailbox, closed, cancelled, cur, crashed, sessionCounter,
                 session, resp, history>>

\* The select of Send: case a.mailbox <- msg.
SendEnqueue(c) ==
  /\ pc[c] = "send"
  /\ ~closed
  /\ Len(mailbox) < MailboxSize
  /\ mailbox' = Append(mailbox, c)
  /\ accepted' = Append(accepted, c)
  /\ IF c \in Callers
     THEN Goto(c, "wait") /\ UNCHANGED <<result, pendingCalls>>
     ELSE Return(c, "sent")
  /\ UNCHANGED <<state, closed, cancelled, cur, crashed, sessionCounter, session,
                 resp, taken, drained, outcome>>

\* The same case when the channel is closed: the send panics.
SendOnClosed(c) ==
  /\ pc[c] = "send"
  /\ closed
  /\ crashed' = TRUE
  /\ UNCHANGED <<state, mailbox, closed, cancelled, pc, cur, callVars, history>>

\* case <-a.ctx.Done(), and default when the mailbox is full.
SendRefused(c) ==
  /\ pc[c] = "send"
  /\ \/ cancelled /\ Return(c, "shuttingDown")
     \/ ~closed /\ ~cancelled /\ Len(mailbox) = MailboxSize /\ Return(c, "full")
  /\ UNCHANGED <<state, mailbox, closed, cancelled, cur, crashed, sessionCounter,
                 session, resp, history>>

\* Mutant of CallReturn: Call does not watch the actor's own context.
CallReturnOnResponse(c) ==
  /\ pc[c] = "wait"
  /\ resp[c] # None
  /\ Return(c, resp[c])
  /\ UNCHANGED <<state, mailbox, closed, cancelled, cur, crashed, sessionCounter,
                 session, resp, history>>

\* The three cases of Call's select: response, caller's context, actor's context.
CallReturn(c) ==
  /\ pc[c] = "wait"
  /\ \/ resp[c] # None /\ Return(c, resp[c])
     \/ cancelled /\ Return(c, "shuttingDown")
  /\ UNCHANGED <<state, mailbox, closed, cancelled, cur, crashed, sessionCounter,
                 session, resp, history>>

CallTimeout(c) ==
  /\ pc[c] = "wait"
  /\ Return(c, "timeout")
  /\ UNCHANGED <<state, mailbox, closed, cancelled, cur, crashed, sessionCounter,
                 session, resp, history>>

----------------------------------------------------------------------------
(* messageLoop, processMessage, sendResponse, drainMailbox                 *)

\* sendResponse: non-blocking send on the channel registered for the session.
SendResponse(m, r) ==
  LET caller == pendingCalls[session[m]]
  IN  resp' = IF session[m] # 0 /\ caller # None /\ resp[caller] = None
              THEN [resp EXCEPT ![caller] = r] ELSE resp

\* Mutant of LoopReceive: the next message is taken before the last one is processed.
LoopReceiveEager(l) ==
  /\ pc[l] \in {"select", "process"}
  /\ mailbox # << >>
  /\ cur' = [cur EXCEPT ![l] = Head(mailbox)]
  /\ mailbox' = Tail(mailbox)
  /\ taken' = Append(taken, Head(mailbox))
  /\ Goto(l, "process")
  /\ UNCHANGED <<state, closed, cancelled, crashed, callVars, accepted, drained, outcome>>

LoopReceive(l) ==
  /\ pc[l] = "select"
  /\ mailbox # << >>
  /\ cur' = [cur EXCEPT ![l] = Head(mailbox)]
  /\ mailbox' = Tail(mailbox)
  /\ taken' = Append(taken, Head(mailbox))
  /\ Goto(l, "process")
  /\ UNCHANGED <<state, closed, cancelled, crashed, callVars, accepted, drained, outcome>>

\* processMessage stores Running and enters the handler.
ProcessBegin(l) ==
  /\ pc[l] = "process"
  /\ state' = "Running"
  /\ Goto(l, "handling")
  /\ UNCHANGED <<mailbox, closed, cancelled, cur, crashed, callVars, history>>

\* The handler returns r (it must first get back from a Stop it called) and a
\* call is answered.
HandlerReturn(l, r) ==
  /\ pc[l] = "handling"
  /\ \A p \in InHandler : pc[p] \in {"cas1", "failed", "stopped"}
  /\ outcome' = [outcome EXCEPT ![cur[l]] = r]
  /\ SendResponse(cur[l], r)
  /\ Goto(l, "finish")
  /\ UNCHANGED <<state, mailbox, closed, cancelled, cur, crashed, sessionCounter,
                 session, pendingCalls, result, accepted, taken, drained>>

\* The deferred store of Idle.
ProcessEnd(l) ==
  /\ pc[l] = "finish"
  /\ state' = "Idle"
  /\ cur' = [cur EXCEPT ![l] = None]
  /\ Goto(l, "select")
  /\ UNCHANGED <<mailbox, closed, cancelled, crashed, callVars, history>>

LoopCancelled(l) ==
  /\ pc[l] = "select"
  /\ cancelled
  /\ Goto(l, "drain")
  /\ UNCHANGED <<state, mailbox, closed, cancelled, cur, crashed, callVars, history>>

\* drainMailbox: one message leaves without reaching the handler.
DrainOne(l) ==
  /\ pc[l] = "drain"
  /\ mailbox # << >>
  /\ mailbox' = Tail(mailbox)
  /\ drained' = Append(drained, Head(mailbox))
  /\ SendResponse(Head(mailbox), "error")
  /\ UNCHANGED <<state, closed, cancelled, pc, cur, crashed, sessionCounter, session,
                 pendingCalls, result, accepted, taken, outcome>>

DrainEnd(l) ==
  /\ pc[l] = "drain"
  /\ mailbox = << >>
  /\ Goto(l, "close")
  /\ UNCHANGED <<state, mailbox, closed, cancelled, cur, crashed, callVars, history>>

\* The deferred close(a.mailbox), which panics the second time, and wg.Done().
LoopExit(l) ==
  /\ pc[l] = "close"
  /\ closed' = TRUE
  /\ crashed' = closed
  /\ Goto(l, "exited")
  /\ UNCHANGED <<state, mailbox, cancelled, cur, callVars, history>>

----------------------------------------------------------------------------
StarterStep(s) == StartLoad(s) \/ StartSpawn(s)

StopperStep(p) ==
  StopFromIdle(p) \/ StopFromRunning(p) \/ StopCancel(p) \/ StopWait(p) \/ StopStore(p)

ClientStep(c) ==
  \/ CallBegin(c) \/ SendCheck(c) \/ SendEnqueue(c) \/ SendOnClosed(c)
  \/ SendRefused(c) \/ CallReturn(c)

LoopStep(l) ==
  \/ LoopReceive(l) \/ ProcessBegin(l) \/ (\E r \in Responses : HandlerReturn(l, r))
  \/ ProcessEnd(l) \/ LoopCancelled(l) \/ DrainOne(l) \/ DrainEnd(l) \/ LoopExit(l)

\* A panic ends the process: no goroutine moves after it.
Next ==
  /\ ~crashed
  /\ \/ \E s \in Starters : StarterStep(s) \/ LoopStep(s)
     \/ \E p \in Stoppers : StopperStep(p)
     \/ \E c \in Clients : ClientStep(c) \/ CallTimeout(c)

Spec == Init /\ [][Next]_vars
StartedSpec == StartedInit /\ [][Next]_vars

\* The Go scheduler runs every runnable goroutine; handlers are taken to return.
\* Nothing obliges a caller of Stop, Send or Call to begin, nor a timeout to fire.
Fairness ==
  /\ \A s \in Starters : WF_vars(~crashed /\ (StarterStep(s) \/ LoopStep(s)))
  /\ \A p \in Stoppers : WF_vars(~crashed /\ pc[p] # "cas1" /\ StopperStep(p))
  /\ \A c \in Clients  : WF_vars(~crashed /\ pc[c] # "begin" /\ ClientStep(c))

FairStartedSpec == StartedSpec /\ Fairness

----------------------------------------------------------------------------
(* Properties                                                              *)

\* The callers' side of two documented or numeric preconditions.
StartCalledOnce == \A s, t \in Starters : s = t
SessionsSuffice == IsFiniteSet(Callers) /\ Cardinality(Callers) < SessionSpace

PCTypes ==
  /\ pc \in [Goroutines -> ClientPC \cup StarterPC \cup StopperPC]
  /\ \A c \in Clients : pc[c] \in ClientPC
  /\ \A s \in Starters : pc[s] \in StarterPC
  /\ \A p \in Stoppers : pc[p] \in StopperPC

CoreTypes ==
  /\ state \in ActorState
  /\ mailbox \in Seq(Clients)
  /\ Len(mailbox) <= MailboxSize
  /\ closed \in BOOLEAN /\ cancelled \in BOOLEAN /\ crashed \in BOOLEAN
  /\ cur \in [Starters -> Clients \cup {None}]
  /\ \A l \in Starters : cur[l] \in Clients <=> pc[l] \in {"process", "handling", "finish"}

CallTypes ==
  /\ sessionCounter \in Sessions
  /\ session \in [Clients -> Sessions]
  /\ pendingCalls \in [Sessions -> Clients \cup {None}]
  /\ resp \in [Clients -> Responses \cup {None}]
  /\ result \in [Clients -> Results \cup {None}]

HistoryTypes ==
  /\ accepted \in Seq(Clients) /\ taken \in Seq(Clients) /\ drained \in Seq(Clients)
  /\ outcome \in [Clients -> Responses \cup {None}]

\* Every variable of the actor (struct actor, the mailbox channel, pendingCalls)
\* keeps its type, the mailbox never holds more than opts.MailboxSize messages, and
\* a loop holds a message exactly while processMessage runs.
TypeOK == PCTypes /\ CoreTypes /\ CallTypes /\ HistoryTypes

\* Nothing accepted is lost, duplicated or reordered between Send's enqueue, the
\* loop's receive and the drain: what the loop took, then what the drain removed,
\* then what is still queued, is what was accepted, in the order it was accepted.
MessageOrder == accepted = taken \o drained \o mailbox

\* A Call that returns a response returns the one to its own message: "ok" only if
\* the handler returned nil for it, "error" only if it failed or was drained.
AnswerIsOwn ==
  \A c \in Callers :
    /\ result[c] = "ok" => outcome[c] = "ok"
    /\ result[c] = "error" =>
         outcome[c] = "error" \/ \E i \in 1 .. Len(drained) : drained[i] = c

\* Once some Stop has returned nil, no message loop is alive: the wait on the
\* WaitGroup covered the loop, so no handler runs after Stop.
NoWorkAfterStop == (\E p \in Stoppers : pc[p] = "stopped") => NoLoopRuns

\* Stopped is final: no later store of Idle, Running or Stopping overwrites it.
StoppedIsFinal == [][state = "Stopped" => state' = "Stopped"]_state

\* Stop does not interrupt the handler: a message whose handler was entered is
\* finished before any loop closes the mailbox.
CurrentMessageFinished ==
  closed => \A c \in Clients :
              (\E i \in 1 .. Len(taken) : taken[i] = c) => outcome[c] # None

\* The actor implements SequentialServer (one message in service at a time, in
\* order of acceptance, none after discarding began): serving is the message the
\* loop holds, served is what it took before, discarded is what drainMailbox
\* removed.
Busy == {l \in Starters : cur[l] # None}
Serving == IF Busy = {} THEN None ELSE cur[CHOOSE l \in Busy : TRUE]
Server == INSTANCE SequentialServer WITH
            Messages  <- Clients,
            Nobody    <- None,
            queue     <- mailbox,
            serving   <- Serving,
            served    <- {taken[i] : i \in DOMAIN taken} \ {Serving},
            discarded <- {drained[i] : i \in DOMAIN drained}
ServesInOrder == Server!Spec

\* Every Call that has been sent returns (response, timeout or shutdown), unless
\* the process panicked.
CallReturns == \A c \in Callers : pc[c] \in {"check", "send", "wait"} ~> (pc[c] = "done" \/ crashed)

\* Every Stop that won its compare-and-swap returns, unless the process panicked or
\* the handler stopped its own actor: wg.Wait() then waits for the loop it runs in.
StoppedByHandler == \E p \in InHandler : pc[p] = "wait"
StopReturns ==
  \A p \in Stoppers : StopAdmitted(p) ~> (pc[p] = "stopped" \/ crashed \/ StoppedByHandler)

\* core/interface.go:29: Send "returns an error if the Actor is stopped or mailbox
\* is full".  It never panics.
SendNeverPanics == ~crashed
=============================================================================
