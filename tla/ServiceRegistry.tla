-------------------------- MODULE ServiceRegistry --------------------------
(***************************************************************************)
(* localServiceRegistry of core/service_registry.go.  The table holds      *)
(* pointers: readers, events and the health check keep the ServiceInfo     *)
(* they were given and read its Status later, without the lock.            *)
(*                                                                         *)
(* An operation that changes the table stores its change and then sends an *)
(* event to the watchers, with r.mu held over both; `event` holds the      *)
(* event in between, so r.mu is free exactly when event = None.  Watch and *)
(* the end of a watch take only watcherMutex and may come in between.      *)
(* Of a ServiceInfo the name and the Status are kept, and of an event      *)
(* whether the service is gone or registered (register, status_change and  *)
(* metadata_change, which a watcher takes alike).                          *)
(***************************************************************************)
EXTENDS Integers, Sequences

CONSTANTS
  Names,     \* names of services
  Infos,     \* ServiceInfo objects; bound: as many registrations
  Statuses,  \* values of ServiceStatus
  Healthy,   \* ServiceStatusHealthy
  Watchers,  \* callers of Watch
  ChanCap,   \* capacity of a watcher's channel
  None

Events == [type : {"registered", "gone"}, info : Infos]

ASSUME RegistryAssumption ==
  /\ Healthy \in Statuses
  /\ None \notin Infos \cup Names \cup Statuses /\ None \notin Events
  /\ ChanCap \in Nat \ {0}

VARIABLES
  services,  \* r.services
  nameOf,    \* info.Handle.Name, None before the object exists
  status,    \* info.Status
  event,     \* event about to be sent under r.mu
  watch,     \* what each watcher is doing
  chan,      \* its channel
  lost,      \* history: an event was dropped because the channel was full
  view,      \* what the watcher has made of the listing and the events it received
  todo,      \* performHealthChecks: snapshot of the services still to be checked
  checked,   \* performHealthChecks: service whose status has been read
  readStatus \* performHealthChecks: the status that was read

table       == <<services, nameOf, status>>
watching    == <<watch, chan, lost, view>>
checking    == <<todo, checked, readStatus>>
registryVars == <<table, event, watching, checking>>

NewServiceRegistry ==
  /\ services = [n \in Names |-> None]
  /\ nameOf = [i \in Infos |-> None]
  /\ status = [i \in Infos |-> Healthy]
  /\ event = None
  /\ watch = [w \in Watchers |-> "new"]
  /\ chan = [w \in Watchers |-> << >>]
  /\ lost = [w \in Watchers |-> FALSE]
  /\ view = [w \in Watchers |-> [n \in Names |-> None]]
  /\ todo = {}
  /\ checked = None
  /\ readStatus = Healthy

Registered == {services[n] : n \in Names} \ {None}

----------------------------------------------------------------------------
(* Operations on the table                                                 *)

\* RegisterService makes a new ServiceInfo, healthy, and Register refuses a name twice.
Register(n, i) ==
  /\ event = None
  /\ services[n] = None
  /\ nameOf[i] = None
  /\ services' = [services EXCEPT ![n] = i]
  /\ nameOf' = [nameOf EXCEPT ![i] = n]
  /\ event' = [type |-> "registered", info |-> i]
  /\ UNCHANGED <<status, watching, checking>>

Unregister(n) ==
  /\ event = None
  /\ services[n] # None
  /\ services' = [services EXCEPT ![n] = None]
  /\ event' = [type |-> "gone", info |-> services[n]]
  /\ UNCHANGED <<nameOf, status, watching, checking>>

\* Mutant of SetStatus: the old status is read after the new one is stored.
SetStatusQuiet(n, s) ==
  /\ status' = [status EXCEPT ![services[n]] = s]
  /\ event' = None

\* Body of UpdateStatus: watchers hear of it if the status changed.
SetStatus(n, s) ==
  /\ status' = [status EXCEPT ![services[n]] = s]
  /\ event' = IF s = status[services[n]] THEN None
              ELSE [type |-> "registered", info |-> services[n]]

UpdateStatus(n, s) ==
  /\ event = None
  /\ services[n] # None
  /\ SetStatus(n, s)
  /\ UNCHANGED <<services, nameOf, watching, checking>>

\* The metadata itself is not kept.
UpdateMetadata(n) ==
  /\ event = None
  /\ services[n] # None
  /\ event' = [type |-> "registered", info |-> services[n]]
  /\ UNCHANGED <<table, watching, checking>>

----------------------------------------------------------------------------
(* Watchers                                                                *)

Open == {w \in Watchers : watch[w] \in {"watching", "listed"}}

\* The event goes to every open channel that has room, and r.mu is released.
notifyWatchers ==
  /\ event # None
  /\ chan' = [w \in Watchers |-> IF w \in Open /\ Len(chan[w]) < ChanCap
                                 THEN Append(chan[w], event) ELSE chan[w]]
  /\ lost' = [w \in Watchers |-> lost[w] \/ (w \in Open /\ Len(chan[w]) >= ChanCap)]
  /\ event' = None
  /\ UNCHANGED <<table, watch, view, checking>>

Watch(w) ==
  /\ watch[w] = "new"
  /\ watch' = [watch EXCEPT ![w] = "watching"]
  /\ UNCHANGED <<table, event, chan, lost, view, checking>>

\* Name to status, as the table has it now.
Listing == [n \in Names |-> IF services[n] = None THEN None ELSE status[services[n]]]

\* A watcher lists the services once, after Watch has returned.
List(w) ==
  /\ watch[w] = "watching"
  /\ event = None
  /\ watch' = [watch EXCEPT ![w] = "listed"]
  /\ view' = [view EXCEPT ![w] = Listing]
  /\ UNCHANGED <<table, event, chan, lost, checking>>

\* What an event tells of its service; the status is read through the event's pointer.
Told(e) == IF e.type = "gone" THEN None ELSE status[e.info]

Receive(w) ==
  /\ watch[w] = "listed"
  /\ chan[w] # << >>
  /\ view' = [view EXCEPT ![w][nameOf[Head(chan[w]).info]] = Told(Head(chan[w]))]
  /\ chan' = [chan EXCEPT ![w] = Tail(chan[w])]
  /\ UNCHANGED <<table, event, watch, lost, checking>>

\* The context of the watch is done: the channel leaves the map and is closed, and the
\* watcher's picture is not followed any further.
EndWatch(w) ==
  /\ w \in Open
  /\ watch' = [watch EXCEPT ![w] = "closed"]
  /\ chan' = [chan EXCEPT ![w] = << >>]
  /\ lost' = [lost EXCEPT ![w] = FALSE]
  /\ view' = [view EXCEPT ![w] = [n \in Names |-> None]]
  /\ UNCHANGED <<table, event, checking>>

----------------------------------------------------------------------------
(* Health check                                                            *)

performHealthChecks ==
  /\ event = None
  /\ todo = {} /\ checked = None
  /\ todo' = Registered
  /\ UNCHANGED <<table, event, watching, checked, readStatus>>

\* The next service of the snapshot; its status is read without the lock.
CheckRead(i) ==
  /\ checked = None
  /\ i \in todo
  /\ todo' = todo \ {i}
  /\ checked' = i
  /\ readStatus' = status[i]
  /\ UNCHANGED <<table, event, watching>>

\* The next service is not due yet.
CheckSkip(i) ==
  /\ checked = None
  /\ i \in todo
  /\ todo' = todo \ {i}
  /\ UNCHANGED <<table, event, watching, checked, readStatus>>

\* UpdateStatus, by name, with the status that was read.
CheckWrite ==
  /\ checked # None
  /\ event = None
  /\ IF services[nameOf[checked]] # None
     THEN SetStatus(nameOf[checked], readStatus)
     ELSE UNCHANGED <<status, event>>
  /\ checked' = None
  /\ readStatus' = Healthy
  /\ UNCHANGED <<services, nameOf, watching, todo>>

RegistryStep ==
  \/ \E n \in Names, i \in Infos : Register(n, i)
  \/ \E n \in Names : Unregister(n) \/ UpdateMetadata(n)
  \/ \E n \in Names, s \in Statuses : UpdateStatus(n, s)
  \/ notifyWatchers
  \/ \E w \in Watchers : Watch(w) \/ List(w) \/ Receive(w) \/ EndWatch(w)
  \/ performHealthChecks
  \/ \E i \in Infos : CheckRead(i) \/ CheckSkip(i)
  \/ CheckWrite
=============================================================================
