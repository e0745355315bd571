---------------------------- MODULE RemoteService ---------------------------
(***************************************************************************)
(* remoteService of cluster/service.go: goroutines of one node call a      *)
(* service of another through a transport that may lose, repeat and        *)
(* reorder messages: net holds all that was ever sent, and any of it may   *)
(* be delivered at any time, again or never.                               *)
(* The transport is a parameter of the component (NewRemoteService leaves  *)
(* it unset): Send of a transport either fails, or the message is under    *)
(* way.  Every call has an argument of its own, which its handler answers. *)
(***************************************************************************)
EXTENDS Integers

CONSTANTS
  RemoteCallers, \* goroutines that call
  MaxCalls       \* bound: calls made

ASSUME RemoteAssumption == MaxCalls \in Nat

CallIds == 1 .. MaxCalls

VARIABLES
  callCounter,
  begun,        \* calls begun; the argument of the next is begun + 1
  caller,       \* what each caller does and has got
  pendingCalls, \* call id -> its result and error channel, of capacity 1
  net,          \* messages sent
  handlers,     \* whether the serving node has a handler for the service
  serving,      \* requests a handler of the serving node works on
  served,       \* arguments a handler has answered without the text of an error
  restarted     \* the calling node was restarted

remoteVars == <<callCounter, begun, caller, pendingCalls, net, handlers, serving, served, restarted>>

NoCalls == [u \in RemoteCallers |-> [pc |-> "idle", id |-> 0, arg |-> 0, out |-> "none", from |-> 0]]
NonePending == [i \in {} |-> [result |-> 0, error |-> 0]]

NewRemoteService ==
  /\ callCounter = 0 /\ begun = 0 /\ caller = NoCalls /\ pendingCalls = NonePending
  /\ net = {} /\ handlers = FALSE /\ serving = {} /\ served = {} /\ restarted = FALSE

DropCall(f, i) == [j \in DOMAIN f \ {i} |-> f[j]]

----------------------------------------------------------------------------
(* The calling node                                                        *)

generateCallID == callCounter + 1

\* Call: the pending call is registered ...
Call(u) ==
  /\ caller[u].pc = "idle" /\ begun < MaxCalls
  /\ begun' = begun + 1
  /\ callCounter' = generateCallID
  /\ caller' = [caller EXCEPT ![u] = [pc |-> "send", id |-> generateCallID, arg |-> begun + 1,
                                      out |-> "none", from |-> 0]]
  /\ pendingCalls' = [i \in DOMAIN pendingCalls \cup {generateCallID} |->
                        IF i = generateCallID THEN [result |-> 0, error |-> 0] ELSE pendingCalls[i]]
  /\ UNCHANGED <<net, handlers, serving, served, restarted>>

\* ... its request sent ...
CallSend(u) ==
  /\ caller[u].pc = "send"
  /\ net' = net \cup {[type |-> "call", id |-> caller[u].id, arg |-> caller[u].arg]}
  /\ caller' = [caller EXCEPT ![u].pc = "wait"]
  /\ UNCHANGED <<callCounter, begun, pendingCalls, handlers, serving, served, restarted>>

\* Every return of Call runs the deferred cleanup.
CallEnds(u, out, from) ==
  /\ caller' = [caller EXCEPT ![u].pc = "idle", ![u].out = out, ![u].from = from]
  /\ pendingCalls' = DropCall(pendingCalls, caller[u].id)
  /\ UNCHANGED <<callCounter, begun, net, handlers, serving, served, restarted>>

\* ... or not, which is an error at once ...
CallFails(u) ==
  /\ caller[u].pc = "send"
  /\ CallEnds(u, "send", 0)

\* ... and its answer awaited: a result, an error of the other node ...
CallAnswered(u) ==
  LET p == pendingCalls[caller[u].id]
  IN  /\ caller[u].pc = "wait"
      /\ \/ p.result # 0 /\ CallEnds(u, "result", p.result)
         \/ p.error # 0 /\ CallEnds(u, "error", p.error)

\* Mutant of CallTimesOut: the timeout covers only the sending.
CallTimesOutSending(u) ==
  /\ caller[u].pc = "send"
  /\ CallEnds(u, "timeout", 0)

\* ... or the end of the caller's context or of the 30 seconds.
CallTimesOut(u) ==
  /\ caller[u].pc = "wait"
  /\ CallEnds(u, "timeout", 0)

\* Mutant of Awaits: any call that waits will do.
AwaitsAny(m) == DOMAIN pendingCalls

\* The pending call an answer is for; there may be none any more.
Awaits(m) == {m.id} \cap DOMAIN pendingCalls

\* handleRemoteReply: an answer nobody waits for, or whose channel is full, is dropped.
handleRemoteReply(m) ==
  /\ m.type \in {"result", "error"}
  /\ pendingCalls' = [i \in DOMAIN pendingCalls |->
       IF i \notin Awaits(m) THEN pendingCalls[i]
       ELSE IF m.type = "result"
       THEN [pendingCalls[i] EXCEPT !.result = IF @ = 0 THEN m.arg ELSE @]
       ELSE [pendingCalls[i] EXCEPT !.error = IF @ = 0 THEN m.arg ELSE @]]
  /\ UNCHANGED <<callCounter, begun, caller, handlers, serving, served, restarted>>

\* The calling node crashes and starts again under its name: the calls are gone, and the
\* counter that call ids are made of begins anew.
Restart ==
  /\ restarted' = TRUE
  /\ callCounter' = 0 /\ caller' = NoCalls /\ pendingCalls' = NonePending
  /\ UNCHANGED <<begun, net, handlers, serving, served>>

\* Send, fire and forget.
SendRemote ==
  /\ begun < MaxCalls
  /\ begun' = begun + 1
  /\ net' = net \cup {[type |-> "forget", id |-> 0, arg |-> begun + 1]}
  /\ UNCHANGED <<callCounter, caller, pendingCalls, handlers, serving, served, restarted>>

----------------------------------------------------------------------------
(* The serving node                                                        *)

RegisterHandler ==
  /\ ~handlers /\ handlers' = TRUE
  /\ UNCHANGED <<callCounter, begun, caller, pendingCalls, net, serving, served, restarted>>

UnregisterHandler ==
  /\ handlers /\ handlers' = FALSE
  /\ UNCHANGED <<callCounter, begun, caller, pendingCalls, net, serving, served, restarted>>

\* handleRemoteCall: with a handler, it starts to work ...
handleRemoteCall(m) ==
  /\ m.type = "call" /\ handlers
  /\ serving' = serving \cup {m}
  /\ UNCHANGED <<callCounter, begun, caller, pendingCalls, handlers, served, restarted>>

\* ... and answers; without one the answer is an error.
Respond(m, type) == net' = net \cup {[type |-> type, id |-> m.id, arg |-> m.arg]}

\* A result, or an error whose text is empty: the reply carries the error as its text, and
\* handleRemoteReply takes one without text for a result.
sendSuccessResponse(m) ==
  /\ m \in serving
  /\ serving' = serving \ {m}
  /\ served' = served \cup {m.arg}
  /\ Respond(m, "result")
  /\ UNCHANGED <<callCounter, begun, caller, pendingCalls, handlers, restarted>>

sendErrorResponse(m) == Respond(m, "error")

HandlerFails(m) ==
  /\ m \in serving
  /\ serving' = serving \ {m}
  /\ sendErrorResponse(m)
  /\ UNCHANGED <<callCounter, begun, caller, pendingCalls, handlers, served, restarted>>

ServiceNotFound(m) ==
  /\ m.type = "call" /\ ~handlers
  /\ sendErrorResponse(m)
  /\ UNCHANGED <<callCounter, begun, caller, pendingCalls, handlers, serving, served, restarted>>

\* handleFireAndForget: the handler works on its own, and nobody hears of it.
handleFireAndForget(m) ==
  /\ m.type = "forget"
  /\ served' = IF handlers THEN served \cup {m.arg} ELSE served
  /\ UNCHANGED <<callCounter, begun, caller, pendingCalls, handlers, serving, restarted>>

HandleMessage(m) ==
  \/ ServiceNotFound(m)
  \/ /\ handleRemoteCall(m) \/ handleRemoteReply(m) \/ handleFireAndForget(m)
     /\ UNCHANGED net

----------------------------------------------------------------------------

RemoteNext ==
  \/ \E u \in RemoteCallers : Call(u) \/ CallSend(u) \/ CallFails(u) \/ CallAnswered(u) \/ CallTimesOut(u)
  \/ Restart \/ SendRemote \/ RegisterHandler \/ UnregisterHandler
  \/ \E m \in net : HandleMessage(m)
  \/ \E m \in serving : sendSuccessResponse(m) \/ HandlerFails(m)

\* A caller moves when it can; nothing is promised of the network or of the other node.
RemoteFairness ==
  \A u \in RemoteCallers :
    WF_remoteVars(CallSend(u) \/ CallFails(u) \/ CallAnswered(u) \/ CallTimesOut(u))

RemoteSpec == NewRemoteService /\ [][RemoteNext]_remoteVars /\ RemoteFairness

CallRecords ==
  [pc : {"idle", "send", "wait"}, id : 0 .. MaxCalls, arg : 0 .. MaxCalls,
   out : {"none", "result", "error", "send", "timeout"}, from : 0 .. MaxCalls]

RemoteTypeOK ==
  /\ callCounter \in 0 .. MaxCalls /\ begun \in 0 .. MaxCalls
  /\ caller \in [RemoteCallers -> CallRecords]
  /\ DOMAIN pendingCalls \subseteq CallIds
  /\ \A i \in DOMAIN pendingCalls : pendingCalls[i] \in [result : 0 .. MaxCalls, error : 0 .. MaxCalls]
  /\ \A m \in net \cup serving : m.arg \in 1 .. begun
  /\ handlers \in BOOLEAN /\ restarted \in BOOLEAN /\ served \subseteq 1 .. MaxCalls

\* Whatever the network loses, repeats or delays, the answer a call returns is the answer
\* to that call and to no other, and a result it returns is what a handler answered; until the
\* node is restarted, when answers to calls from before may be taken for answers to new
\* ones, whose ids are the same.
OwnAnswer ==
  restarted \/
  \A u \in RemoteCallers :
    /\ caller[u].out \in {"result", "error"} => caller[u].from = caller[u].arg
    /\ caller[u].out = "result" => caller[u].arg \in served

\* The table of pending calls holds the calls under way and nothing else: no return of
\* Call, early or late, and no late answer leaves an entry behind.
PendingAreCalling ==
  DOMAIN pendingCalls = {caller[u].id : u \in {v \in RemoteCallers : caller[v].pc # "idle"}}

\* Every call returns, also when the request, the answer or the other node is lost: of the
\* MaxCalls calls none is under way in the end.
RemoteCallReturns == <>[](\A u \in RemoteCallers : caller[u].pc = "idle")
=============================================================================
