-------------------------- MODULE SequentialServer --------------------------
(***************************************************************************)
(* What an actor promises to those who send it messages, without mailbox   *)
(* channels, goroutines or lifecycle words: a message is accepted at most  *)
(* once, accepted messages are served one at a time in the order of their  *)
(* acceptance, and from the moment the server starts to discard what is    *)
(* left it serves nothing any more.                                        *)
(***************************************************************************)
EXTENDS Sequences

CONSTANTS
  Messages,  \* everything that may ever be sent
  Nobody     \* serving no message

VARIABLES
  queue,      \* accepted and not yet served or discarded
  serving,    \* the message in service
  served,     \* messages whose service ended
  discarded   \* messages dropped unserved

sv == <<queue, serving, served, discarded>>

Waiting == {queue[i] : i \in DOMAIN queue}

Init ==
  /\ queue = << >>
  /\ serving = Nobody
  /\ served = {}
  /\ discarded = {}

Accept(m) ==
  /\ m \notin Waiting \cup served \cup discarded \cup {serving}
  /\ queue' = Append(queue, m)
  /\ UNCHANGED <<serving, served, discarded>>

Serve ==
  /\ serving = Nobody
  /\ queue # << >>
  /\ discarded = {}
  /\ serving' = Head(queue)
  /\ queue' = Tail(queue)
  /\ UNCHANGED <<served, discarded>>

Finish ==
  /\ serving # Nobody
  /\ served' = served \cup {serving}
  /\ serving' = Nobody
  /\ UNCHANGED <<queue, discarded>>

Discard ==
  /\ serving = Nobody
  /\ queue # << >>
  /\ discarded' = discarded \cup {Head(queue)}
  /\ queue' = Tail(queue)
  /\ UNCHANGED <<serving, served>>

Next == (\E m \in Messages : Accept(m)) \/ Serve \/ Finish \/ Discard

Spec == Init /\ [][Next]_sv
=============================================================================
