-------------------------- MODULE ClusterRegistry ---------------------------
(***************************************************************************)
(* serviceRegistry of cluster/service.go, for one service: the local       *)
(* instance, the watchers and their channels.  RegisterService tells the   *)
(* watchers after it has unlocked the table, UnregisterService before; so  *)
(* an instance can be removed, and its removal told, before its            *)
(* registration is.                                                        *)
(***************************************************************************)
EXTENDS Integers, Sequences

CONSTANTS
  Registrars, \* goroutines that register or unregister
  Watchers,   \* channels Watch may hand out
  WatchSize   \* capacity of a watcher's channel (100 in the code)

ASSUME RegistryAssumption == WatchSize \in Nat

VARIABLES
  services,   \* whether the local node's instance is in the table
  telling,    \* goroutines of RegisterService that have yet to notify
  overtaken,  \* of these, the ones whose instance has been removed since
  watchers,   \* the channels in the table of watchers
  watch,      \* channel -> "new", "open", "done" (context), "removed", "closed"
  chan,       \* channel -> the events in it
  told,       \* channel -> the event it was last offered
  confused,   \* channels that missed an event, or got one out of order, last
  panicked    \* an event was sent on a closed channel

registryVars == <<services, telling, overtaken, watchers, watch, chan, told, confused, panicked>>

NewServiceRegistry ==
  /\ services = FALSE /\ telling = {} /\ overtaken = {}
  /\ watchers = {} /\ watch = [w \in Watchers |-> "new"]
  /\ chan = [w \in Watchers |-> <<>>] /\ told = [w \in Watchers |-> "nothing"]
  /\ confused = {} /\ panicked = FALSE

\* notifyWatchers: a full channel is skipped.  late: the event is no longer true.
notifyWatchers(event, late) ==
  LET room == {w \in watchers : Len(chan[w]) < WatchSize}
  IN  /\ chan' = [w \in Watchers |-> IF w \in room THEN Append(chan[w], event) ELSE chan[w]]
      /\ told' = [w \in Watchers |-> IF w \in room THEN event ELSE told[w]]
      /\ confused' = IF late THEN confused \cup watchers ELSE (confused \ room) \cup (watchers \ room)
      /\ panicked' = (panicked \/ \E w \in watchers : watch[w] = "closed")

----------------------------------------------------------------------------

\* RegisterService: the table, whether or not it had the instance ...
RegisterService(r) ==
  /\ r \notin telling
  /\ services' = TRUE
  /\ telling' = telling \cup {r}
  /\ UNCHANGED <<overtaken, watchers, watch, chan, told, confused, panicked>>

\* ... and, unlocked, the watchers.
RegisterTells(r) ==
  /\ r \in telling
  /\ telling' = telling \ {r} /\ overtaken' = overtaken \ {r}
  /\ notifyWatchers("registered", r \in overtaken /\ ~services)
  /\ UNCHANGED <<services, watchers, watch>>

\* Mutant of UnregisterService: the watchers are not told.
UnregisterServiceSilently ==
  /\ services' = FALSE
  /\ overtaken' = telling
  /\ UNCHANGED <<telling, watchers, watch, chan, told, confused, panicked>>

\* UnregisterService, under the lock; it tells only when there was an instance.
UnregisterService ==
  /\ services' = FALSE
  /\ overtaken' = telling
  /\ IF services THEN notifyWatchers("unregistered", FALSE) ELSE UNCHANGED <<chan, told, confused, panicked>>
  /\ UNCHANGED <<telling, watchers, watch>>

Watch(w) ==
  /\ watch[w] = "new"
  /\ watch' = [watch EXCEPT ![w] = "open"]
  /\ watchers' = watchers \cup {w}
  /\ UNCHANGED <<services, telling, overtaken, chan, told, confused, panicked>>

ReceiveEvent(w) ==
  /\ chan[w] # <<>>
  /\ chan' = [chan EXCEPT ![w] = Tail(@)]
  /\ UNCHANGED <<services, telling, overtaken, watchers, watch, told, confused, panicked>>

\* The watcher's context ends ...
CancelWatch(w) ==
  /\ watch[w] = "open"
  /\ watch' = [watch EXCEPT ![w] = "done"]
  /\ UNCHANGED <<services, telling, overtaken, watchers, chan, told, confused, panicked>>

\* ... and its goroutine takes it out of the table ...
removeWatcher(w) ==
  /\ watch[w] = "done"
  /\ watch' = [watch EXCEPT ![w] = "removed"]
  /\ watchers' = watchers \ {w}
  /\ UNCHANGED <<services, telling, overtaken, chan, told, confused, panicked>>

\* ... and closes the channel.
CloseWatch(w) ==
  /\ watch[w] = "removed"
  /\ watch' = [watch EXCEPT ![w] = "closed"]
  /\ UNCHANGED <<services, telling, overtaken, watchers, chan, told, confused, panicked>>

RegistryNext ==
  \/ \E r \in Registrars : RegisterService(r) \/ RegisterTells(r)
  \/ UnregisterService
  \/ \E w \in Watchers : Watch(w) \/ ReceiveEvent(w) \/ CancelWatch(w) \/ removeWatcher(w) \/ CloseWatch(w)

\* The goroutine that Watch starts runs; nobody has to receive.
RegistryFairness == \A w \in Watchers : WF_registryVars(removeWatcher(w) \/ CloseWatch(w))

RegistrySpec == NewServiceRegistry /\ [][RegistryNext]_registryVars /\ RegistryFairness

RegistryTypeOK ==
  /\ services \in BOOLEAN /\ overtaken \subseteq telling /\ telling \subseteq Registrars
  /\ watchers \subseteq Watchers /\ confused \subseteq Watchers
  /\ watch \in [Watchers -> {"new", "open", "done", "removed", "closed"}]
  /\ chan \in [Watchers -> Seq({"registered", "unregistered"})]
  /\ \A w \in Watchers : Len(chan[w]) <= WatchSize
  /\ told \in [Watchers -> {"nothing", "registered", "unregistered"}]
  /\ panicked \in BOOLEAN

\* No event is sent on a channel that is closed, however cancelling a watch, registering
\* and unregistering interleave.
NoEventAfterClose == ~panicked

\* The last event a watcher was offered says what the table says, once every registration
\* under way has told; the exceptions are a watcher whose channel was full and one that
\* heard of a registration after the removal of the same instance.
LastEventTrue ==
  telling = {} =>
    \A w \in watchers \ confused : told[w] # "nothing" => (told[w] = "registered") = services

=============================================================================
