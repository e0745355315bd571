---------------------------- MODULE SystemProofs ----------------------------
(***************************************************************************)
(* Proofs about ActorSystem, for any creators and names and any bound on   *)
(* the messages: its registries agree whenever s.mu is free, Shutdown      *)
(* misses no actor, and what it leaves running is known.  And about the    *)
(* configuration of a program, for any files, variables and number of      *)
(* reloads: it is valid, the right setting wins, and a callback gets the   *)
(* configuration that was replaced unless reloads overlap.                 *)
(***************************************************************************)
EXTENDS ActorSystem, ConfigWatcher, TLAPS

----------------------------------------------------------------------------
(* ActorSystem                                                              *)

Stops == {"cas1", "cas2", "cancel", "wait"}
UnderLock == {"list", "next"} \cup Stops

\* s.mu has one holder: a creation past its check, or Shutdown; once Shutdown has the
\* lock the context is done and no creation gets past the check again.
LockInv ==
  /\ \A c \in Creators : Locked(c) <=> mu = c
  /\ sd \in UnderLock <=> mu = "shutdown"
  /\ sd # "new" => sysDone
  /\ sysDone => \A c \in Creators : ~Locked(c)

\* What a creation has done so far.  An actor is routed from its registration on and has
\* at most one handle; no two handles share a name; the registry has the names of the
\* handles, but for the one that a creation is about to register there.
CreationInv ==
  /\ \A c \in Creators : pc[c] \in {"discover", "rollback"} => want[c] \in Names \cup {NoName}
  /\ \A c \in Creators : pc[c] = "rollback" => want[c] = NoName
  /\ \A c \in Creators : pc[c] \notin {"new"} => want[c] \in Requests
  /\ \A c \in Creators : pc[c] \in {"handle", "discover", "rollback", "spawn", "created"} => c \in actors
  /\ \A c \in Creators : pc[c] \in {"new", "lock", "register", "handle"} => \A h \in handles : h.actor # c
  /\ \A c \in Creators : pc[c] = "discover" => [actor |-> c, name |-> want[c]] \in handles
  /\ \A h \in handles : h.actor \in actors
  /\ \A g, h \in handles : g.actor = h.actor => g = h
  /\ \A g, h \in handles : g.name = h.name /\ g.name # NoName => g = h
  /\ \A n \in Names : n \in services <=> /\ \E h \in handles : h.name = n
                                         /\ \A c \in Creators : pc[c] = "discover" => want[c] # n

\* An actor runs only after its creation, and a loop only after its Start.
StartInv ==
  /\ \A a \in Creators : start[a] # "none" => pc[a] = "created"
  /\ \A a \in Creators : loop[a] # "none" => start[a] = "done"

\* The actor is stopped for good: it has no loop, and its Start will not make one.
Settled(a) == state[a] = "Stopped" /\ loop[a] \in {"none", "exited"} /\ start[a] # "spawn"

\* Every actor in the table is stopped or on the list from the listing on; the ones
\* stopped are settled, unless they were spared.
StoppingInv ==
  /\ sd \in {"next"} \cup Stops => actors \subseteq attempted \cup todo
  /\ Ended => actors \subseteq attempted
  /\ sd \in Stops => victim \in Creators
  /\ \A a \in attempted \ spared : Settled(a) \/ (a = victim /\ sd \in Stops)

SystemInv == TypeOK /\ LockInv /\ CreationInv /\ StartInv /\ StoppingInv

----------------------------------------------------------------------------

\* Nobody has called anything yet.
LEMMA InitSystem == Init => SystemInv
  <1> SUFFICES ASSUME Init PROVE SystemInv
    BY Zenon
  <1>1. sysDone \in BOOLEAN /\ cancelled \in [Creators -> BOOLEAN] /\ inbox \in [Creators -> Seq(Creators)]
        /\ sends \in 0 .. MaxSends
    <2>1. sysDone \in BOOLEAN /\ cancelled \in [Creators -> BOOLEAN]
      BY Zenon DEF Init
    <2>2. << >> \in Seq(Creators)
      OBVIOUS
    <2>3. inbox \in [Creators -> Seq(Creators)]
      BY <2>2, Zenon DEF Init
    <2>4. sends \in 0 .. MaxSends
      BY CreatorsAssumption DEF Init
    <2> QED  BY <2>1, <2>3, <2>4, Zenon
  <1>2. TypeOK
    BY <1>1, Zenon DEF Init, TypeOK, CreatorPC
  <1>3. LockInv
    BY CreatorsAssumption, Zenon DEF Init, LockInv, Locked, UnderLock, Stops
  <1>4. CreationInv
    BY Zenon DEF Init, CreationInv
  <1>5. StartInv /\ StoppingInv
    BY Zenon DEF Init, StartInv, StoppingInv, Ended, Stops
  <1> QED  BY <1>2, <1>3, <1>4, <1>5, Zenon DEF SystemInv

\* The step of a creation moves its creator, and no other.
LEMMA Moved ==
  ASSUME TypeOK, NEW c \in Creators, NEW label \in CreatorPC, At(c, label)
  PROVE  /\ pc' \in [Creators -> CreatorPC] /\ pc'[c] = label
         /\ \A d \in Creators \ {c} : pc'[d] = pc[d]
  BY Zenon DEF TypeOK, At

\* A call of NewActor or NewService.
LEMMA CalledStep ==
  ASSUME SystemInv, NEW c \in Creators, NEW n \in Requests, NEW h \in Creators \cup {None}, Called(c, n, h)
  PROVE  SystemInv'
  <1>1. TypeOK /\ LockInv /\ CreationInv /\ StartInv /\ StoppingInv
    BY Zenon DEF SystemInv
  <1>2. /\ pc[c] = "new" /\ want' = [want EXCEPT ![c] = n] /\ host' = [host EXCEPT ![c] = h] /\ At(c, "lock")
        /\ UNCHANGED <<mu, sysDone, actors, handles, services, running, shutting>> /\ "lock" \in CreatorPC
    BY Zenon DEF Called, CreatorPC
  <1>3. /\ pc' \in [Creators -> CreatorPC] /\ pc'[c] = "lock" /\ \A d \in Creators \ {c} : pc'[d] = pc[d]
    BY <1>1, <1>2, Moved, Zenon
  <1>4. /\ want' \in [Creators -> Requests \cup {None}] /\ want'[c] = n /\ \A d \in Creators \ {c} : want'[d] = want[d]
        /\ host' \in [Creators -> Creators \cup {None}]
    BY <1>1, <1>2, Zenon DEF TypeOK
  <1>5. TypeOK'
    BY <1>1, <1>2, <1>3, <1>4, Zenon DEF TypeOK, running, shutting
  <1>6. LockInv'
    BY <1>1, <1>2, <1>3, Zenon DEF LockInv, Locked, shutting
  <1>7. CreationInv'
    BY <1>1, <1>2, <1>3, <1>4 DEF CreationInv
  <1>8. StartInv' /\ StoppingInv'
    BY <1>1, <1>2, <1>3, Zenon DEF StartInv, StoppingInv, Settled, Ended, running, shutting
  <1> QED  BY <1>5, <1>6, <1>7, <1>8, Zenon DEF SystemInv

\* The lock and the check: after Shutdown has begun the creation fails.
LEMMA CreateLockStep == ASSUME SystemInv, NEW c \in Creators, CreateLock(c) PROVE SystemInv'
  <1>1. TypeOK /\ LockInv /\ CreationInv /\ StartInv /\ StoppingInv
    BY Zenon DEF SystemInv
  <1>2. pc[c] = "lock" /\ mu = None /\ UNCHANGED <<sysDone, actors, handles, services, want, host, running, shutting>>
    BY Zenon DEF CreateLock
  <1>3. PICK to \in {"failed", "register"} : At(c, to) /\ mu' = (IF to = "failed" THEN None ELSE c) /\ (to = "register" => ~sysDone)
    BY <1>2, Zenon DEF CreateLock
  <1>4. /\ pc' \in [Creators -> CreatorPC] /\ pc'[c] = to /\ \A d \in Creators \ {c} : pc'[d] = pc[d]
    BY <1>1, <1>3, Moved, Zenon DEF CreatorPC
  <1>5. TypeOK'
    BY <1>1, <1>2, <1>3, <1>4, Zenon DEF TypeOK, running, shutting
  <1>6. \A d \in Creators : ~Locked(d)
    BY <1>1, <1>2, CreatorsAssumption, Zenon DEF LockInv
  <1>7. LockInv'
    BY <1>1, <1>2, <1>3, <1>4, <1>6, CreatorsAssumption, Zenon DEF LockInv, Locked, shutting
  <1>8. CreationInv'
    BY <1>1, <1>2, <1>4 DEF CreationInv
  <1>9. StartInv' /\ StoppingInv'
    BY <1>1, <1>2, <1>4, Zenon DEF StartInv, StoppingInv, Settled, Ended, running, shutting
  <1> QED  BY <1>5, <1>7, <1>8, <1>9, Zenon DEF SystemInv

\* A creation that holds the lock: Shutdown has not begun, and nobody else holds it.
LEMMA Alone ==
  ASSUME SystemInv, NEW c \in Creators, Locked(c)
  PROVE  /\ mu = c /\ ~sysDone /\ sd = "new" /\ c # None /\ c # "shutdown"
         /\ \A d \in Creators \ {c} : ~Locked(d)
  BY CreatorsAssumption, Zenon DEF SystemInv, LockInv

\* What a step of a creation that holds the lock leaves to be shown.
LEMMA LockedStep ==
  ASSUME SystemInv, NEW c \in Creators, Locked(c), NEW to \in CreatorPC \ {"new", "lock"}, At(c, to),
         mu' = (IF to \in {"created", "failed"} THEN None ELSE c),
         UNCHANGED <<sysDone, want, host, loop, state, cancelled, inbox, sends, shutting>>,
         start' = (IF to = "created" THEN [start EXCEPT ![c] = "load"] ELSE start)
  PROVE  /\ pc' \in [Creators -> CreatorPC] /\ pc'[c] = to /\ \A d \in Creators \ {c} : pc'[d] = pc[d]
         /\ \A d \in Creators \ {c} : pc[d] \notin {"register", "handle", "discover", "rollback", "spawn"}
         /\ LockInv' /\ StartInv' /\ StoppingInv'
         /\ start' \in [Creators -> {"none", "load", "spawn", "done"}] /\ mu' \in Creators \cup {None}
  <1>1. TypeOK /\ LockInv /\ CreationInv /\ StartInv /\ StoppingInv
    BY Zenon DEF SystemInv
  <1>2. /\ mu = c /\ ~sysDone /\ sd = "new" /\ c # None /\ c # "shutdown" /\ \A d \in Creators \ {c} : ~Locked(d)
    BY Alone, Zenon
  <1>3. /\ pc' \in [Creators -> CreatorPC] /\ pc'[c] = to /\ \A d \in Creators \ {c} : pc'[d] = pc[d]
    BY <1>1, Moved, Zenon
  <1>4. LockInv'
    <2>1. Locked(c)' <=> to \notin {"created", "failed"}
      BY <1>3, Zenon DEF Locked, CreatorPC
    <2>2. \A d \in Creators \ {c} : ~Locked(d)'
      BY <1>2, <1>3, Zenon DEF Locked
    <2> QED  BY <1>2, <2>1, <2>2, CreatorsAssumption, Zenon DEF LockInv, UnderLock, Stops, shutting
  <1>5. /\ start' \in [Creators -> {"none", "load", "spawn", "done"}]
        /\ \A d \in Creators \ {c} : start'[d] = start[d]
        /\ start'[c] = IF to = "created" THEN "load" ELSE start[c]
    BY <1>1, Zenon DEF TypeOK
  <1>6. start[c] = "none" /\ loop[c] = "none"
    BY <1>1, Zenon DEF StartInv, Locked
  <1>7. StartInv'
    BY <1>1, <1>3, <1>5, <1>6, Zenon DEF StartInv
  <1>8. StoppingInv'
    BY <1>1, <1>2, <1>5 DEF StoppingInv, Settled, Ended, Stops, shutting
  <1>9. \A d \in Creators \ {c} : pc[d] \notin {"register", "handle", "discover", "rollback", "spawn"}
    BY <1>2, Zenon DEF Locked
  <1> QED  BY <1>3, <1>4, <1>5, <1>7, <1>8, <1>9, Zenon

\* router.Register.
LEMMA CreateRegisterStep == ASSUME SystemInv, NEW c \in Creators, CreateRegister(c) PROVE SystemInv'
  <1>1. TypeOK /\ LockInv /\ CreationInv /\ StartInv /\ StoppingInv
    BY Zenon DEF SystemInv
  <1>2. /\ pc[c] = "register" /\ actors' = actors \cup {c} /\ At(c, "handle")
        /\ UNCHANGED <<mu, sysDone, handles, services, want, host, running, shutting>>
    BY Zenon DEF CreateRegister
  <1>3. Locked(c) /\ "handle" \in CreatorPC \ {"new", "lock"}
    BY <1>2, Zenon DEF Locked, CreatorPC
  <1>4. mu = c
    BY <1>3, Alone, Zenon
  <1>5. /\ pc' \in [Creators -> CreatorPC] /\ pc'[c] = "handle" /\ \A d \in Creators \ {c} : pc'[d] = pc[d]
        /\ LockInv' /\ StartInv' /\ StoppingInv'
    BY <1>2, <1>3, <1>4, LockedStep, Zenon DEF running
  <1>6. TypeOK'
    BY <1>1, <1>2, <1>5, Zenon DEF TypeOK, running, shutting
  <1>7. CreationInv'
    BY <1>1, <1>2, <1>5 DEF CreationInv
  <1> QED  BY <1>5, <1>6, <1>7, Zenon DEF SystemInv

\* AllocateHandle: the name is free, or there is none, or the creation fails.
LEMMA CreateHandleStep == ASSUME SystemInv, NEW c \in Creators, CreateHandle(c) PROVE SystemInv'
  <1>1. TypeOK /\ LockInv /\ CreationInv /\ StartInv /\ StoppingInv
    BY Zenon DEF SystemInv
  <1>2. pc[c] = "handle" /\ UNCHANGED <<sysDone, actors, services, want, host, running, shutting>>
    BY Zenon DEF CreateHandle
  <1>3. Locked(c) /\ {"failed", "spawn", "discover"} \subseteq CreatorPC \ {"new", "lock"}
    BY <1>2, Zenon DEF Locked, CreatorPC
  <1>4. mu = c /\ want[c] \in Requests
    BY <1>1, <1>2, <1>3, Alone, Zenon DEF CreationInv
  <1>5. CASE want[c] \in Names /\ Named(want[c]) # {}
    <2>1. mu' = None /\ At(c, "failed") /\ UNCHANGED handles
      BY <1>5, Zenon DEF CreateHandle
    <2>2. /\ pc' \in [Creators -> CreatorPC] /\ pc'[c] = "failed" /\ \A d \in Creators \ {c} : pc'[d] = pc[d]
          /\ LockInv' /\ StartInv' /\ StoppingInv' /\ mu' \in Creators \cup {None}
      BY <1>2, <1>3, <2>1, LockedStep, Zenon DEF running
    <2>3. TypeOK'
      BY <1>1, <1>2, <2>1, <2>2, Zenon DEF TypeOK, running, shutting
    <2>4. CreationInv'
      BY <1>1, <1>2, <2>1, <2>2 DEF CreationInv
    <2> QED  BY <2>2, <2>3, <2>4, Zenon DEF SystemInv
  <1>6. CASE ~(want[c] \in Names /\ Named(want[c]) # {})
    <2> DEFINE name == IF want[c] = Unnamed THEN NoName ELSE want[c]
               new == [actor |-> c, name |-> name]
               to == IF want[c] = Unnamed THEN "spawn" ELSE "discover"
    <2>1. mu' = mu /\ At(c, to) /\ handles' = handles \cup {new}
      BY <1>6, Zenon DEF CreateHandle
    <2>2. to \in CreatorPC \ {"new", "lock"} /\ to \notin {"created", "failed"} /\ (to = "discover" <=> want[c] # Unnamed)
          /\ to \in {"spawn", "discover"}
      BY <1>3, Zenon
    <2>3. /\ new.actor = c /\ new.name = name /\ name \in Names \cup {NoName}
          /\ new \in [actor : Creators, name : Names \cup {NoName}] /\ (name \in Names => want[c] = name)
          /\ (want[c] # Unnamed => new = [actor |-> c, name |-> want[c]] /\ want[c] \in Names \cup {NoName})
      BY <1>4, CreatorsAssumption, Zenon DEF Requests
    <2>4. name # NoName => \A h \in handles : h.name # name
      BY <1>6, <2>3, Zenon DEF Named
    <2>5. \A h \in handles : h.actor # c
      BY <1>1, <1>2, Zenon DEF CreationInv
    <2> HIDE DEF to, new, name
    <2>6. /\ pc' \in [Creators -> CreatorPC] /\ pc'[c] = to /\ \A d \in Creators \ {c} : pc'[d] = pc[d]
          /\ \A d \in Creators \ {c} : pc[d] \notin {"register", "handle", "discover", "rollback", "spawn"}
          /\ LockInv' /\ StartInv' /\ StoppingInv'
      BY <1>2, <1>3, <1>4, <2>1, <2>2, LockedStep, Zenon DEF running
    <2>7. TypeOK'
      BY <1>1, <1>2, <2>1, <2>3, <2>6, Zenon DEF TypeOK, running, shutting
    <2>8. /\ \A h \in handles' : h.actor \in actors'
          /\ \A g, h \in handles' : g.actor = h.actor => g = h
          /\ \A g, h \in handles' : g.name = h.name /\ g.name # NoName => g = h
      BY <1>1, <1>2, <2>1, <2>3, <2>4, <2>5 DEF CreationInv
    <2>9. \A n \in Names : n \in services <=> /\ \E h \in handles' : h.name = n
                                              /\ \A d \in Creators : pc'[d] = "discover" => want[d] # n
      <3> SUFFICES ASSUME NEW n \in Names
                   PROVE n \in services <=> /\ \E h \in handles' : h.name = n
                                            /\ \A d \in Creators : pc'[d] = "discover" => want[d] # n
        BY Zenon
      <3>1. n \in services <=> \E h \in handles : h.name = n
        BY <1>1, <1>2, <2>6, Zenon DEF CreationInv
      <3>2. \A d \in Creators : pc'[d] = "discover" => d = c
        BY <2>6, Zenon
      <3>3. CASE n = name
        <4>1. want[c] = n /\ pc'[c] = "discover"
          BY <2>2, <2>3, <2>6, <3>3, CreatorsAssumption, Zenon
        <4>2. ~ \E h \in handles : h.name = n
          BY <2>4, <3>3, CreatorsAssumption, Zenon
        <4> QED  BY <3>1, <4>1, <4>2, Zenon
      <3>4. CASE n # name
        <4>1. (\E h \in handles' : h.name = n) <=> (\E h \in handles : h.name = n)
          BY <2>1, <2>3, <3>4, Zenon
        <4>2. pc'[c] = "discover" => want[c] # n
          BY <2>2, <2>3, <2>6, <3>4, CreatorsAssumption, Zenon DEF name
        <4> QED  BY <3>1, <3>2, <4>1, <4>2, Zenon
      <3> QED  BY <3>3, <3>4, Zenon
    <2>10. CreationInv'
      BY <1>1, <1>2, <2>1, <2>2, <2>3, <2>6, <2>8, <2>9 DEF CreationInv
    <2> QED  BY <2>6, <2>7, <2>10, Zenon DEF SystemInv
  <1> QED  BY <1>5, <1>6, Zenon

\* RegisterService of the registry: only the empty name can be refused, since a name that
\* has just got a handle is not registered.
LEMMA CreateDiscoverStep == ASSUME SystemInv, NEW c \in Creators, CreateDiscover(c) PROVE SystemInv'
  <1>1. TypeOK /\ LockInv /\ CreationInv /\ StartInv /\ StoppingInv
    BY Zenon DEF SystemInv
  <1>2. pc[c] = "discover" /\ UNCHANGED <<mu, sysDone, actors, handles, want, host, running, shutting>>
    BY Zenon DEF CreateDiscover
  <1>3. Locked(c) /\ {"rollback", "spawn"} \subseteq CreatorPC \ {"new", "lock"}
    BY <1>2, Zenon DEF Locked, CreatorPC
  <1>4. mu = c /\ want[c] \in Names \cup {NoName} /\ [actor |-> c, name |-> want[c]] \in handles
    BY <1>1, <1>2, <1>3, Alone, Zenon DEF CreationInv
  <1>5. want[c] \notin services
    BY <1>1, <1>2, <1>4, CreatorsAssumption, Zenon DEF CreationInv, TypeOK
  <1>6. \A h \in handles : h.actor = c => h.name = want[c]
    BY <1>1, <1>4 DEF CreationInv
  <1>7. CASE want[c] = NoName
    <2>1. At(c, "rollback") /\ UNCHANGED services
      BY <1>7, Zenon DEF CreateDiscover
    <2>2. /\ pc' \in [Creators -> CreatorPC] /\ pc'[c] = "rollback" /\ \A d \in Creators \ {c} : pc'[d] = pc[d]
          /\ LockInv' /\ StartInv' /\ StoppingInv'
      BY <1>2, <1>3, <1>4, <2>1, LockedStep, Zenon DEF running
    <2>3. TypeOK'
      BY <1>1, <1>2, <2>1, <2>2, Zenon DEF TypeOK, running, shutting
    <2>4. CreationInv'
      BY <1>1, <1>2, <1>7, <2>1, <2>2, CreatorsAssumption DEF CreationInv
    <2> QED  BY <2>2, <2>3, <2>4, Zenon DEF SystemInv
  <1>8. CASE want[c] # NoName
    <2>1. At(c, "spawn") /\ services' = services \cup {want[c]} /\ want[c] \in Names
      BY <1>4, <1>5, <1>8, Zenon DEF CreateDiscover
    <2>2. /\ pc' \in [Creators -> CreatorPC] /\ pc'[c] = "spawn" /\ \A d \in Creators \ {c} : pc'[d] = pc[d]
          /\ \A d \in Creators \ {c} : pc[d] \notin {"register", "handle", "discover", "rollback", "spawn"}
          /\ LockInv' /\ StartInv' /\ StoppingInv'
      BY <1>2, <1>3, <1>4, <2>1, LockedStep, Zenon DEF running
    <2>3. TypeOK'
      BY <1>1, <1>2, <2>1, <2>2 DEF TypeOK, running, shutting
    <2>4. \E h \in handles : h.name = want[c]
      BY <1>4, Zenon
    <2>5. \A n \in Names : n \in services' <=> /\ \E h \in handles : h.name = n
                                               /\ \A d \in Creators : pc'[d] = "discover" => want[d] # n
      BY <1>1, <1>2, <2>1, <2>2, <2>4 DEF CreationInv
    <2>6. CreationInv'
      BY <1>1, <1>2, <2>2, <2>5, ZenonT(30) DEF CreationInv
    <2> QED  BY <2>2, <2>3, <2>6, Zenon DEF SystemInv
  <1> QED  BY <1>7, <1>8, Zenon

\* The roll-back, which is for the empty name and so finds nothing; and the spawn.
LEMMA CreateEndsStep ==
  ASSUME SystemInv, NEW c \in Creators, CreateRollback(c) \/ CreateSpawn(c) PROVE SystemInv'
  <1>1. TypeOK /\ LockInv /\ CreationInv /\ StartInv /\ StoppingInv
    BY Zenon DEF SystemInv
  <1>2. Locked(c) /\ {"failed", "created"} \subseteq CreatorPC \ {"new", "lock"}
    BY Zenon DEF CreateRollback, CreateSpawn, Locked, CreatorPC
  <1>3. PICK to \in {"failed", "created"} :
          /\ At(c, to) /\ mu' = None /\ pc[c] = (IF to = "failed" THEN "rollback" ELSE "spawn")
          /\ start' = (IF to = "created" THEN [start EXCEPT ![c] = "load"] ELSE start)
          /\ UNCHANGED <<actors, handles, services, sysDone, want, host, loop, state, cancelled, inbox, sends, shutting>>
    <2>1. CASE CreateRollback(c)
      <3>1. want[c] = NoName
        BY <1>1, <2>1, Zenon DEF CreateRollback, CreationInv
      <3>2. actors' = actors /\ handles' = handles
        BY <2>1, <3>1, Zenon DEF CreateRollback
      <3> QED  BY <2>1, <3>2, Zenon DEF CreateRollback, running
    <2>2. CASE CreateSpawn(c)
      BY <2>2, Zenon DEF CreateSpawn
    <2> QED  BY <2>1, <2>2, Zenon
  <1>4. to \in CreatorPC \ {"new", "lock"} /\ to \in {"created", "failed"}
    BY <1>2, Zenon
  <1>5. /\ pc' \in [Creators -> CreatorPC] /\ pc'[c] = to /\ \A d \in Creators \ {c} : pc'[d] = pc[d]
        /\ LockInv' /\ StartInv' /\ StoppingInv'
        /\ start' \in [Creators -> {"none", "load", "spawn", "done"}] /\ mu' \in Creators \cup {None}
    BY <1>2, <1>3, <1>4, LockedStep, Zenon
  <1>6. TypeOK'
    BY <1>1, <1>3, <1>5, Zenon DEF TypeOK, shutting
  <1>7. CreationInv'
    <2>1. /\ UNCHANGED <<actors, handles, services, want>>
          /\ \A d \in Creators : pc'[d] # pc[d] => pc[d] \in {"rollback", "spawn"} /\ pc'[d] \in {"failed", "created"}
      BY <1>3, <1>4, <1>5, Zenon
    <2>2. \A d \in Creators : /\ pc'[d] = "discover" <=> pc[d] = "discover"
                              /\ pc'[d] \in {"new", "lock", "register", "handle", "discover", "rollback"} => pc'[d] = pc[d]
                              /\ pc'[d] \in {"spawn", "created"} => pc[d] \in {"spawn", "created"} \/ d = c
      BY <1>5, <2>1, Zenon
    <2>3. c \in actors
      BY <1>1, <1>3, Zenon DEF CreationInv
    <2> QED  BY <1>1, <2>1, <2>2, <2>3 DEF CreationInv
  <1> QED  BY <1>5, <1>6, <1>7, Zenon DEF SystemInv

\* What the actors do leaves the lock, the creations and Shutdown alone.
LEMMA RunningFrame ==
  ASSUME SystemInv, UNCHANGED <<mu, sysDone, creation, shutting>>, TypeOK', StartInv',
         \A a \in Creators : Settled(a) => Settled(a)'
  PROVE  SystemInv'
  <1>1. LockInv' /\ CreationInv'
    BY Zenon DEF SystemInv, LockInv, Locked, CreationInv, creation, shutting
  <1>2. StoppingInv'
    BY Zenon DEF SystemInv, TypeOK, StoppingInv, Ended, creation, shutting
  <1> QED  BY <1>1, <1>2, Zenon DEF SystemInv

\* An actor's Start and message loop: one that is settled does nothing any more.
LEMMA ActorStepStep == ASSUME SystemInv, NEW a \in Creators, ActorStep(a) PROVE SystemInv'
  <1>1. TypeOK /\ StartInv
    BY Zenon DEF SystemInv
  <1>2. UNCHANGED <<mu, sysDone, creation, shutting>>
    BY Zenon DEF ActorStep, StartLoad, StartSpawn, Receive, HandleBegin, HandleEnd, LoopExit
  <1>3. /\ start' \in [Creators -> {"none", "load", "spawn", "done"}]
        /\ loop' \in [Creators -> {"none", "select", "received", "handling", "exited"}]
        /\ state' \in [Creators -> {"Idle", "Running", "Stopping", "Stopped"}]
        /\ cancelled' = cancelled /\ sends' = sends
        /\ \A b \in Creators \ {a} : start'[b] = start[b] /\ loop'[b] = loop[b] /\ state'[b] = state[b]
    BY <1>1, ZenonT(30) DEF ActorStep, StartLoad, StartSpawn, Receive, HandleBegin, HandleEnd, LoopExit, TypeOK
  <1>4. inbox' \in [Creators -> Seq(Creators)]
    <2>1. \A q \in Seq(Creators) : q # << >> => Tail(q) \in Seq(Creators)
      OBVIOUS
    <2>2. << >> \in Seq(Creators)
      OBVIOUS
    <2>3. CASE Receive(a)
      BY <1>1, <2>1, <2>3, Zenon DEF Receive, TypeOK
    <2>4. CASE LoopExit(a)
      BY <1>1, <2>2, <2>4, Zenon DEF LoopExit, TypeOK
    <2>5. CASE StartLoad(a) \/ StartSpawn(a) \/ HandleBegin(a) \/ HandleEnd(a)
      BY <1>1, <2>5, Zenon DEF StartLoad, StartSpawn, HandleBegin, HandleEnd, TypeOK
    <2> QED  BY <2>3, <2>4, <2>5, Zenon DEF ActorStep
  <1>5. TypeOK'
    BY <1>1, <1>2, <1>3, <1>4, Zenon DEF TypeOK, creation, shutting
  <1>6. StartInv'
    <2>1. start'[a] # "none" => start[a] # "none"
      BY <1>1, Zenon DEF ActorStep, StartLoad, StartSpawn, Receive, HandleBegin, HandleEnd, LoopExit, TypeOK
    <2>2. loop'[a] # "none" => start'[a] = "done"
      BY <1>1, Zenon DEF ActorStep, StartLoad, StartSpawn, Receive, HandleBegin, HandleEnd, LoopExit, InHandlerOf, TypeOK, StartInv
    <2> QED  BY <1>1, <1>2, <1>3, <2>1, <2>2, Zenon DEF StartInv, creation
  <1>7. Settled(a) => Settled(a)'
    BY <1>1, Zenon DEF ActorStep, StartLoad, StartSpawn, Receive, HandleBegin, HandleEnd, LoopExit, InHandlerOf, Settled, TypeOK
  <1>8. \A b \in Creators : Settled(b) => Settled(b)'
    BY <1>3, <1>7, Zenon DEF Settled
  <1> QED  BY <1>2, <1>5, <1>6, <1>8, RunningFrame, Zenon

\* A message is put in a mailbox.
LEMMA DeliverStep ==
  ASSUME SystemInv, NEW a \in Creators, NEW target \in Creators, Deliver(a, target) PROVE SystemInv'
  <1>1. TypeOK /\ StartInv
    BY Zenon DEF SystemInv
  <1>2. /\ sends < MaxSends /\ inbox' = [inbox EXCEPT ![a] = Append(inbox[a], target)] /\ sends' = sends + 1
        /\ UNCHANGED <<mu, sysDone, creation, start, loop, state, cancelled, shutting>>
    BY Zenon DEF Deliver
  <1>3. \A q \in Seq(Creators) : Append(q, target) \in Seq(Creators)
    OBVIOUS
  <1>4. inbox' \in [Creators -> Seq(Creators)] /\ sends' \in 0 .. MaxSends
    BY <1>1, <1>2, <1>3, CreatorsAssumption DEF TypeOK
  <1>5. TypeOK'
    BY <1>1, <1>2, <1>4, Zenon DEF TypeOK, creation, shutting
  <1>6. StartInv' /\ \A b \in Creators : Settled(b) => Settled(b)'
    BY <1>1, <1>2, Zenon DEF StartInv, Settled, creation
  <1> QED  BY <1>2, <1>5, <1>6, RunningFrame, Zenon

\* Shutdown takes the lock, which ends every later creation.
LEMMA ShutdownLockStep == ASSUME SystemInv, ShutdownLock PROVE SystemInv'
  <1>1. TypeOK /\ LockInv /\ CreationInv /\ StartInv /\ StoppingInv
    BY Zenon DEF SystemInv
  <1>2. /\ sd = "new" /\ mu = None /\ mu' = "shutdown" /\ sysDone' = TRUE /\ sd' = "list"
        /\ UNCHANGED <<creation, running, todo, victim, attempted, spared>>
    BY Zenon DEF ShutdownLock
  <1>3. \A c \in Creators : ~Locked(c)
    BY <1>1, <1>2, CreatorsAssumption, Zenon DEF LockInv
  <1>4. TypeOK'
    BY <1>1, <1>2, Zenon DEF TypeOK, creation, running
  <1>5. LockInv'
    BY <1>2, <1>3, CreatorsAssumption, Zenon DEF LockInv, Locked, UnderLock, creation
  <1>6. CreationInv' /\ StartInv'
    BY <1>1, <1>2, Zenon DEF CreationInv, StartInv, creation, running
  <1>7. StoppingInv'
    BY <1>1, <1>2, Zenon DEF StoppingInv, Settled, Ended, Stops, creation, running
  <1> QED  BY <1>4, <1>5, <1>6, <1>7, Zenon DEF SystemInv

\* What a step of Shutdown that keeps the lock, or gives it up at the end, leaves to show.
LEMMA ShutdownFrame ==
  ASSUME SystemInv, sd \in UnderLock, UNCHANGED <<sysDone, creation, start, loop, inbox, sends>>,
         \/ sd' \in UnderLock /\ mu' = mu
         \/ sd' \in {"returned", "timedOut"} /\ mu' = None,
         state' \in [Creators -> {"Idle", "Running", "Stopping", "Stopped"}], cancelled' \in [Creators -> BOOLEAN],
         todo' \subseteq Creators, victim' \in Creators \cup {None}, attempted' \subseteq Creators, spared' \subseteq Creators,
         StoppingInv'
  PROVE  SystemInv'
  <1>1. TypeOK /\ LockInv /\ CreationInv /\ StartInv
    BY Zenon DEF SystemInv
  <1>2. sysDone /\ mu = "shutdown" /\ (\A c \in Creators : ~Locked(c)) /\ mu' \in {"shutdown", None}
    BY <1>1, Zenon DEF LockInv, UnderLock, Stops
  <1>3. TypeOK'
    BY <1>1, <1>2, Zenon DEF TypeOK, UnderLock, Stops, creation
  <1>4. LockInv'
    BY <1>2, CreatorsAssumption, Zenon DEF LockInv, Locked, UnderLock, Stops, creation
  <1>5. CreationInv' /\ StartInv'
    BY <1>1 DEF CreationInv, StartInv, creation
  <1> QED  BY <1>3, <1>4, <1>5, Zenon DEF SystemInv

\* Shutdown lists the actors, takes the next one, and ends.
LEMMA ShutdownWalks ==
  ASSUME SystemInv,
         ShutdownList \/ (\E a \in Creators : ShutdownNext(a)) \/ ShutdownReturn \/ ShutdownTimeout
  PROVE  SystemInv'
  <1>1. TypeOK /\ StoppingInv
    BY Zenon DEF SystemInv
  <1>2. UNCHANGED <<sysDone, creation, running>>
    BY Zenon DEF ShutdownList, ShutdownNext, ShutdownReturn, ShutdownTimeout
  <1>3. /\ state' \in [Creators -> {"Idle", "Running", "Stopping", "Stopped"}] /\ cancelled' \in [Creators -> BOOLEAN]
    BY <1>1, <1>2, Zenon DEF TypeOK, running
  <1>4. CASE ShutdownList
    <2>1. sd = "list" /\ todo' = actors /\ sd' = "next" /\ UNCHANGED <<mu, victim, attempted, spared>>
      BY <1>4, Zenon DEF ShutdownList
    <2>2. StoppingInv'
      BY <1>1, <1>2, <2>1, Zenon DEF StoppingInv, Settled, Ended, Stops, creation, running
    <2>3. todo' \subseteq Creators /\ victim' \in Creators \cup {None} /\ attempted' \subseteq Creators /\ spared' \subseteq Creators
      BY <1>1, <2>1, Zenon DEF TypeOK
    <2>4. sd \in UnderLock /\ sd' \in UnderLock
      BY <2>1, Zenon DEF UnderLock
    <2> QED  BY <1>2, <1>3, <2>1, <2>2, <2>3, <2>4, ShutdownFrame, Zenon DEF running
  <1>5. ASSUME NEW a \in Creators, ShutdownNext(a) PROVE SystemInv'
    <2>1. /\ sd = "next" /\ a \in todo /\ todo' = todo \ {a} /\ victim' = a /\ attempted' = attempted \cup {a} /\ sd' = "cas1"
          /\ UNCHANGED <<mu, spared>>
      BY <1>5, Zenon DEF ShutdownNext
    <2>2. StoppingInv'
      BY <1>1, <1>2, <2>1, Zenon DEF StoppingInv, Settled, Ended, Stops, creation, running
    <2>3. todo' \subseteq Creators /\ victim' \in Creators \cup {None} /\ attempted' \subseteq Creators /\ spared' \subseteq Creators
      BY <1>1, <2>1, Zenon DEF TypeOK
    <2>4. sd \in UnderLock /\ sd' \in UnderLock
      BY <2>1, Zenon DEF UnderLock, Stops
    <2> QED  BY <1>2, <1>3, <2>1, <2>2, <2>3, <2>4, ShutdownFrame, Zenon DEF running
  <1>6. CASE ShutdownReturn \/ ShutdownTimeout
    <2>1. sd = "next" /\ todo = {} /\ sd' \in {"returned", "timedOut"} /\ mu' = None /\ UNCHANGED <<todo, victim, attempted, spared>>
      BY <1>6, Zenon DEF ShutdownReturn, ShutdownTimeout
    <2>2. StoppingInv'
      BY <1>1, <1>2, <2>1, Zenon DEF StoppingInv, Settled, Ended, Stops, creation, running
    <2>3. todo' \subseteq Creators /\ victim' \in Creators \cup {None} /\ attempted' \subseteq Creators /\ spared' \subseteq Creators
      BY <1>1, <2>1, Zenon DEF TypeOK
    <2>4. sd \in UnderLock
      BY <2>1, Zenon DEF UnderLock
    <2> QED  BY <1>2, <1>3, <2>1, <2>2, <2>3, <2>4, ShutdownFrame, Zenon DEF running
  <1> QED  BY <1>4, <1>5, <1>6, Zenon

\* Shutdown executes the Stop of one actor; when it goes on, the actor is settled, or the
\* Stop was refused, or the actor's Start was in flight.
LEMMA ShutdownStops ==
  ASSUME SystemInv, StopFromIdle \/ StopFromRunning \/ StopCancel \/ StopWait PROVE SystemInv'
  <1>1. TypeOK /\ StoppingInv
    BY Zenon DEF SystemInv
  <1>2. /\ sd \in Stops /\ sd \in UnderLock /\ sd' \in UnderLock
        /\ UNCHANGED <<mu, sysDone, creation, start, loop, inbox, sends, todo, victim, attempted>>
    BY Zenon DEF StopFromIdle, StopFromRunning, StopCancel, StopWait, StopAdmitted, Stops, UnderLock
  <1>3. victim \in Creators
    BY <1>1, <1>2, Zenon DEF StoppingInv
  <1>4. /\ state' \in [Creators -> {"Idle", "Running", "Stopping", "Stopped"}] /\ cancelled' \in [Creators -> BOOLEAN]
        /\ \A a \in Creators \ {victim} : state'[a] = state[a]
    <2>1. /\ state' \in [Creators -> {"Idle", "Running", "Stopping", "Stopped"}]
          /\ \A a \in Creators \ {victim} : state'[a] = state[a]
      BY <1>1, <1>3, Zenon DEF StopFromIdle, StopFromRunning, StopCancel, StopWait, StopAdmitted, TypeOK
    <2>2. cancelled' = cancelled \/ cancelled' = [cancelled EXCEPT ![victim] = TRUE]
      BY Zenon DEF StopFromIdle, StopFromRunning, StopCancel, StopWait
    <2>3. cancelled' \in [Creators -> BOOLEAN]
      BY <1>1, <1>3, <2>2, Zenon DEF TypeOK
    <2> QED  BY <2>1, <2>3, Zenon
  <1>5. spared' \subseteq Creators /\ spared \subseteq spared'
    BY <1>1, <1>3, Zenon DEF StopFromIdle, StopFromRunning, StopCancel, StopWait, StopAdmitted, TypeOK
  <1>6. sd' \in Stops \/ (sd' = "next" /\ (victim \in spared' \/ Settled(victim)'))
    <2>1. CASE StopFromIdle \/ StopFromRunning \/ StopCancel
      BY <1>3, <2>1, Zenon DEF StopFromIdle, StopFromRunning, StopCancel, StopAdmitted, Stops
    <2>2. CASE StopWait
      BY <1>1, <1>2, <1>3, <2>2, Zenon DEF StopWait, Settled, TypeOK
    <2> QED  BY <2>1, <2>2, Zenon
  <1>7. StoppingInv'
    BY <1>1, <1>2, <1>3, <1>4, <1>5, <1>6 DEF StoppingInv, Settled, Ended, Stops, TypeOK, creation
  <1>8. todo' \subseteq Creators /\ victim' \in Creators \cup {None} /\ attempted' \subseteq Creators
    BY <1>1, <1>2, Zenon DEF TypeOK
  <1> QED  BY <1>2, <1>4, <1>5, <1>7, <1>8, ShutdownFrame, Zenon

\* Every step of the system keeps its invariant.
LEMMA SystemKeeps == SystemInv /\ [Next]_vars => SystemInv'
  <1> SUFFICES ASSUME SystemInv, [Next]_vars PROVE SystemInv'
    BY Zenon
  <1>1. ASSUME NEW c \in Creators, NEW n \in Requests, Create(c, n) PROVE SystemInv'
    BY <1>1, CalledStep, Zenon DEF Create
  <1>2. ASSUME NEW c \in Creators, CreatorStep(c) PROVE SystemInv'
    BY <1>2, CreateLockStep, CreateRegisterStep, CreateHandleStep, CreateDiscoverStep, CreateEndsStep, Zenon DEF CreatorStep
  <1>3. ASSUME NEW a \in Creators, ActorStep(a) PROVE SystemInv'
    BY <1>3, ActorStepStep, Zenon
  <1>4. ASSUME NEW a \in Creators, NEW b \in Creators, Send(a) \/ Call(a, b) PROVE SystemInv'
    BY <1>4, DeliverStep, Zenon DEF Send, Call
  <1>5. CASE ShutdownLock
    BY <1>5, ShutdownLockStep, Zenon
  <1>6. CASE ShutdownStep \/ ShutdownTimeout
    BY <1>6, ShutdownWalks, ShutdownStops, Zenon DEF ShutdownStep
  <1>7. CASE UNCHANGED vars
    <2>1. UNCHANGED <<mu, sysDone, creation, shutting, running>>
      BY <1>7, Zenon DEF vars
    <2>2. TypeOK' /\ StartInv' /\ \A a \in Creators : Settled(a) => Settled(a)'
      BY <2>1, Zenon DEF SystemInv, TypeOK, StartInv, Settled, creation, shutting, running
    <2> QED  BY <2>1, <2>2, RunningFrame, Zenon
  <1> QED  BY <1>1, <1>2, <1>3, <1>4, <1>5, <1>6, <1>7, Zenon DEF Next

\* The system keeps its invariant.
LEMMA SystemSafe == Spec => []SystemInv
  BY InitSystem, SystemKeeps, PTL DEF Spec

\* Whenever no creation holds s.mu, the registry, the handles and the routing table agree,
\* also after creations that failed half way.
THEOREM RegistriesAgree == Spec => []ServicesAgree
  <1>1. SystemInv => ServicesAgree
    <2> SUFFICES ASSUME SystemInv, mu \notin Creators PROVE ServicesAgree
      BY Zenon DEF ServicesAgree
    <2>1. \A c \in Creators : pc[c] # "discover"
      BY Zenon DEF SystemInv, LockInv, Locked
    <2>2. \A n \in Names : n \in services <=> \E h \in handles : h.name = n
      BY <2>1, Zenon DEF SystemInv, CreationInv
    <2>3. /\ services \subseteq Names /\ NoName \notin Names
          /\ \A h \in handles : h.name \in Names \cup {NoName}
      BY CreatorsAssumption, Zenon DEF SystemInv, TypeOK
    <2>4. \A n : n \in services <=> n \in {h.name : h \in handles} \ {NoName}
      BY <2>2, <2>3, Zenon
    <2>5. services = {h.name : h \in handles} \ {NoName}
      BY <2>4, Zenon
    <2>6. /\ \A h \in handles : h.actor \in actors
          /\ \A g, h \in handles : g.name = h.name /\ g.name # NoName => g = h
      BY Zenon DEF SystemInv, CreationInv
    <2> QED  BY <2>5, <2>6, Zenon DEF ServicesAgree
  <1> QED  BY <1>1, SystemSafe, PTL

\* When Shutdown has ended, every actor in the routing table has had its Stop called,
\* however creations race it.
THEOREM MissesNoActor == Spec => []NoActorMissed
  <1>1. SystemInv => NoActorMissed
    BY Zenon DEF SystemInv, StoppingInv, NoActorMissed
  <1> QED  BY <1>1, SystemSafe, PTL

\* When Shutdown has returned nil, the only loops alive are those of actors whose Stop was
\* refused or whose Start was in flight.
THEOREM StopsAll == Spec => []ShutdownStopsAll
  <1>1. SystemInv => ShutdownStopsAll
    <2> SUFFICES ASSUME SystemInv, sd = "returned", NEW a \in Creators \ spared
                 PROVE  loop[a] \in {"none", "exited"}
      BY Zenon DEF ShutdownStopsAll
    <2>1. CASE a \in attempted
      BY <2>1, Zenon DEF SystemInv, StoppingInv, Settled, Stops
    <2>2. CASE a \notin attempted
      <3>1. a \notin actors
        BY <2>2, Zenon DEF SystemInv, StoppingInv, Ended
      <3>2. pc[a] # "created"
        BY <3>1, Zenon DEF SystemInv, CreationInv
      <3> QED  BY <3>2, Zenon DEF SystemInv, StartInv
    <2> QED  BY <2>1, <2>2, Zenon
  <1> QED  BY <1>1, SystemSafe, PTL

\* The system's fields keep their types.
THEOREM SystemTypeCorrect == Spec => []TypeOK
  <1>1. SystemInv => TypeOK
    BY Zenon DEF SystemInv
  <1> QED  BY <1>1, SystemSafe, PTL


----------------------------------------------------------------------------
(* ConfigLoader and ConfigWatcher                                          *)

\* Only a provider with a watcher reloads.  Two reloads at work overlap, and one that has
\* read the old configuration has the one in place unless reloads overlap.
ReloadInv ==
  /\ mode # "watch" => watchLoop = "off" /\ ~timer /\ \A r \in Reloads : reload[r].pc = "idle"
  /\ \A r, s \in Reloads : r # s /\ reload[r].pc # "idle" /\ reload[s].pc # "idle" => overlapped
  /\ \A r \in Reloads : reload[r].pc = "set" => reload[r].old = config \/ overlapped

ConfigInv == ConfigTypeOK /\ ConfigValid /\ Precedence /\ ReloadInv

Reloading == [pc : {"idle", "old", "set"}, from : Contents, old : Configs \cup {Failed}]

\* The fields of the default.
LEMMA Default ==
  /\ DefaultConfig \in Configs
  /\ DefaultConfig.port \in Nat /\ DefaultConfig.level \in Words
  /\ DefaultConfig.debug = TRUE /\ DefaultConfig.monitor \in Nat
  <1>0. PICK p \in Nat, m \in Nat : p = 8080 /\ m = 9090
    BY SMT
  <1>1. DefaultConfig = [port |-> p, level |-> "info", debug |-> TRUE, monitor |-> m]
    BY <1>0, SMT DEF DefaultConfig
  <1>2. "info" \in Words
    BY ConfigAssumption, Zenon
  <1>3. PICK d : d = DefaultConfig
    BY Zenon
  <1>4. d = [port |-> p, level |-> "info", debug |-> TRUE, monitor |-> m]
    BY <1>1, <1>3, Zenon
  <1>5. d \in Configs /\ d.port = p /\ d.level = "info" /\ d.debug = TRUE /\ d.monitor = m
    BY <1>2, <1>4, Zenon DEF Configs
  <1> QED  BY <1>1, <1>2, <1>3, <1>5, Zenon

\* The overrides of a configuration.
LEMMA Overrides ==
  ASSUME NEW c \in Configs, NEW e \in Variables, NEW r, r = loadFromEnv(c, e)
  PROVE  /\ r \in Configs
         /\ r.port = (IF parsePort(e.port) THEN e.port ELSE c.port)
         /\ r.level = (IF e.level # "" THEN e.level ELSE c.level)
         /\ r.debug = (IF e.debug # "" THEN e.debug = "true" ELSE c.debug)
         /\ r.monitor = (IF parsePort(e.monitor) THEN e.monitor ELSE c.monitor)
  <1>1. /\ c.port \in Nat /\ c.level \in Words /\ c.debug \in BOOLEAN /\ c.monitor \in Nat
        /\ e.port \in Nat /\ e.level \in Words /\ e.debug \in Words /\ e.monitor \in Nat
    BY Zenon DEF Configs, Variables
  <1> DEFINE p == IF parsePort(e.port) THEN e.port ELSE c.port
             l == IF e.level # "" THEN e.level ELSE c.level
             d == IF e.debug # "" THEN e.debug = "true" ELSE c.debug
             m == IF parsePort(e.monitor) THEN e.monitor ELSE c.monitor
  <1>2. p \in Nat /\ l \in Words /\ d \in BOOLEAN /\ m \in Nat
    BY <1>1, Zenon
  <1>3. r = [c EXCEPT !.port = p, !.level = l, !.debug = d, !.monitor = m]
    BY Zenon DEF loadFromEnv
  <1> HIDE DEF p, l, d, m
  <1>4. c = [port |-> c.port, level |-> c.level, debug |-> c.debug, monitor |-> c.monitor]
    BY Zenon DEF Configs
  <1>5. r = [port |-> p, level |-> l, debug |-> d, monitor |-> m]
    BY <1>3, <1>4, Zenon
  <1>6. r \in Configs /\ r.port = p /\ r.level = l /\ r.debug = d /\ r.monitor = m
    <2>1. PICK x : x = r
      BY Zenon
    <2>2. x = [port |-> p, level |-> l, debug |-> d, monitor |-> m]
      BY <1>5, <2>1, Zenon
    <2>3. x \in Configs /\ x.port = p /\ x.level = l /\ x.debug = d /\ x.monitor = m
      BY <1>2, <2>2, Zenon DEF Configs
    <2> QED  BY <2>1, <2>3, Zenon
  <1> QED  BY <1>6, Zenon DEF p, l, d, m

\* A file over the default.
LEMMA Merges ==
  ASSUME NEW f \in Files, NEW r, r = mergeConfig(DefaultConfig, f)
  PROVE  /\ r \in Configs
         /\ r.port = (IF f.port # 0 THEN f.port ELSE DefaultConfig.port)
         /\ r.level = (IF f.level # "" THEN f.level ELSE DefaultConfig.level)
         /\ r.debug = f.debug /\ r.monitor = DefaultConfig.monitor
  <1>1. f.port \in Nat /\ f.level \in Words /\ f.debug \in BOOLEAN
    BY Zenon DEF Files
  <1> DEFINE p == IF f.port # 0 THEN f.port ELSE DefaultConfig.port
             l == IF f.level # "" THEN f.level ELSE DefaultConfig.level
  <1>3. p \in Nat /\ l \in Words
    BY <1>1, Default, Zenon
  <1>4. r = [DefaultConfig EXCEPT !.port = p, !.level = l, !.debug = f.debug]
    BY Zenon DEF mergeConfig
  <1> HIDE DEF p, l
  <1>5. r = [port |-> p, level |-> l, debug |-> f.debug, monitor |-> DefaultConfig.monitor]
    <2>1. DefaultConfig = [port |-> DefaultConfig.port, level |-> DefaultConfig.level,
                           debug |-> DefaultConfig.debug, monitor |-> DefaultConfig.monitor]
      BY Default, Zenon DEF Configs
    <2> QED  BY <1>4, <2>1, Zenon
  <1>6. r \in Configs /\ r.port = p /\ r.level = l /\ r.debug = f.debug /\ r.monitor = DefaultConfig.monitor
    <2>1. PICK x : x = r
      BY Zenon
    <2>2. x = [port |-> p, level |-> l, debug |-> f.debug, monitor |-> DefaultConfig.monitor]
      BY <1>5, <2>1, Zenon
    <2>3. /\ x \in Configs /\ x.port = p /\ x.level = l /\ x.debug = f.debug
          /\ x.monitor = DefaultConfig.monitor
      BY <1>1, <1>3, <2>2, Default, Zenon DEF Configs
    <2> QED  BY <2>1, <2>3, Zenon
  <1> QED  BY <1>6, Zenon DEF p, l

\* What is loaded from a file is valid and obeys the order of precedence.
LEMMA LoadsFile ==
  ASSUME NEW f \in Files \cup {Absent, Garbled}, NEW e \in Variables, NEW c,
         c = loadFromFile(f, e), c # Failed
  PROVE  c \in Configs /\ Validate(c) /\ Wins(c, f, e) /\ f # Absent
  <1>1. f \in Files /\ f # Absent /\ c = loadFromEnv(mergeConfig(DefaultConfig, f), e) /\ Validate(c)
    BY Zenon DEF loadFromFile, Checked
  <1>0. PICK g : g = mergeConfig(DefaultConfig, f)
    BY Zenon
  <1>2. /\ g \in Configs /\ g.port = (IF f.port # 0 THEN f.port ELSE DefaultConfig.port)
        /\ g.level = (IF f.level # "" THEN f.level ELSE DefaultConfig.level)
        /\ g.debug = f.debug /\ g.monitor = DefaultConfig.monitor
    BY <1>0, <1>1, Merges, Zenon
  <1>3. /\ c \in Configs /\ c.port = (IF parsePort(e.port) THEN e.port ELSE g.port)
        /\ c.level = (IF e.level # "" THEN e.level ELSE g.level)
        /\ c.debug = (IF e.debug # "" THEN e.debug = "true" ELSE g.debug)
        /\ c.monitor = (IF parsePort(e.monitor) THEN e.monitor ELSE g.monitor)
    <2>1. c = loadFromEnv(g, e)
      BY <1>0, <1>1, Zenon
    <2> QED  BY <1>2, <2>1, Overrides, ZenonT(30)
  <1>4. Wins(c, f, e)
    BY <1>1, <1>2, <1>3, Zenon DEF Wins
  <1> QED  BY <1>1, <1>3, <1>4, Zenon

\* The same for a provider that looks for the file, or finds none.
LEMMA LoadsAuto ==
  ASSUME NEW f \in Files \cup {Absent, Garbled}, NEW e \in Variables, NEW c,
         c = (IF f = Absent THEN Checked(DefaultConfig, e) ELSE loadFromFile(f, e)), c # Failed
  PROVE  c \in Configs /\ Validate(c) /\ Wins(c, f, e)
  <1>1. CASE f = Absent
    <2>1. c = loadFromEnv(DefaultConfig, e) /\ Validate(c)
      BY <1>1, Zenon DEF Checked
    <2>2. /\ c \in Configs /\ c.port = (IF parsePort(e.port) THEN e.port ELSE DefaultConfig.port)
          /\ c.level = (IF e.level # "" THEN e.level ELSE DefaultConfig.level)
          /\ c.debug = (IF e.debug # "" THEN e.debug = "true" ELSE DefaultConfig.debug)
          /\ c.monitor = (IF parsePort(e.monitor) THEN e.monitor ELSE DefaultConfig.monitor)
      <3>1. PICK d : d = DefaultConfig
        BY Zenon
      <3>2. d \in Configs /\ c = loadFromEnv(d, e)
        BY <2>1, <3>1, Default, Zenon
      <3>3. /\ c \in Configs /\ c.port = (IF parsePort(e.port) THEN e.port ELSE d.port)
            /\ c.level = (IF e.level # "" THEN e.level ELSE d.level)
            /\ c.debug = (IF e.debug # "" THEN e.debug = "true" ELSE d.debug)
            /\ c.monitor = (IF parsePort(e.monitor) THEN e.monitor ELSE d.monitor)
        BY <3>2, Overrides, ZenonT(30)
      <3> QED  BY <3>1, <3>3, Zenon
    <2> QED  BY <1>1, <2>1, <2>2, Zenon DEF Wins
  <1>2. CASE f # Absent
    BY <1>2, LoadsFile, Zenon
  <1> QED  BY <1>1, <1>2, Zenon

\* The file that the search comes up with.
LEMMA Finds ==
  ASSUME NEW f, NEW g
  PROVE  findConfigFile(<<f, g>>) \in {f, g, Absent}
  <1> DEFINE files == <<f, g>>
             found == {i \in DOMAIN files : files[i] # Absent}
  <1>1. DOMAIN files = {1, 2} /\ files[1] = f /\ files[2] = g
    BY SMT
  <1>2. CASE found = {}
    BY <1>2, Zenon DEF findConfigFile
  <1>3. CASE found # {}
    <2>1. found \subseteq {1, 2}
      BY <1>1, Zenon
    <2>2. \E i \in found : \A j \in found : i <= j
      <3> HIDE DEF found
      <3>1. CASE 1 \in found
        BY <2>1, <3>1, SMT
      <3>2. CASE 1 \notin found
        <4>1. 2 \in found /\ \A j \in found : j = 2
          BY <1>3, <2>1, <3>2, Zenon
        <4> QED  BY <4>1, SMT
      <3> QED  BY <3>1, <3>2, Zenon
    <2>3. PICK i \in found : i = CHOOSE k \in found : \A j \in found : k <= j
      <3> HIDE DEF found
      <3> QED  BY <2>2, Zenon
    <2>4. findConfigFile(files) = files[i]
      BY <1>3, <2>3, Zenon DEF findConfigFile
    <2> QED  BY <1>1, <2>1, <2>4, Zenon
  <1> QED  BY <1>2, <1>3, Zenon

LEMMA AutoLoads ==
  ASSUME NEW f \in Contents, NEW e \in Envs, NEW c, c = AutoLoad(<<f, Fallback>>, e), c # Failed
  PROVE  /\ c \in Configs /\ Validate(c)
         /\ Wins(c, findConfigFile(<<f, Fallback>>), e)
         /\ findConfigFile(<<f, Fallback>>) \in Contents \cup {Fallback}
  <1>1. PICK s : s = findConfigFile(<<f, Fallback>>)
    BY Zenon
  <1>2. s \in {f, Fallback, Absent}
    BY <1>1, Finds, Zenon
  <1>3. s \in Contents \cup {Fallback} /\ s \in Files \cup {Absent, Garbled} /\ e \in Variables
    BY <1>2, ConfigAssumption, Zenon
  <1>4. c = (IF s = Absent THEN Checked(DefaultConfig, e) ELSE loadFromFile(s, e))
    BY <1>1, Zenon DEF AutoLoad
  <1>5. c \in Configs /\ Validate(c) /\ Wins(c, s, e)
    BY <1>3, <1>4, LoadsAuto, Zenon
  <1> QED  BY <1>1, <1>3, <1>5, Zenon

\* A file gives a valid configuration in which the right setting wins, or none.
LEMMA FileLoads ==
  ASSUME NEW f \in Contents, NEW e \in Envs, NEW c, c = loadFromFile(f, e)
  PROVE  c \in Configs \cup {Failed} /\ (c # Failed => Validate(c) /\ Wins(c, f, e))
  <1>1. f \in Files \cup {Absent, Garbled} /\ e \in Variables
    BY ConfigAssumption, Zenon
  <1>2. CASE c # Failed
    BY <1>1, <1>2, LoadsFile, Zenon
  <1> QED  BY <1>2, Zenon

LEMMA ConfigStarts == ConfigInit => ConfigInv
  <1> SUFFICES ASSUME ConfigInit
               PROVE  ConfigInv
    BY Zenon
  <1>1. Idle \in Reloading /\ Idle.pc = "idle"
    BY ConfigAssumption, Zenon DEF Idle, Reloading
  <1>2. reload \in [Reloads -> Reloading] /\ \A r \in Reloads : reload[r].pc = "idle"
    BY <1>1, Zenon DEF ConfigInit
  <1>3. edits \in 0 .. MaxEdits
    BY ConfigAssumption, SMT DEF ConfigInit
  <1>4. ConfigTypeOK
    BY <1>2, <1>3, ConfigAssumption, Zenon DEF ConfigInit, ConfigTypeOK, Reloading
  <1>5. ConfigValid /\ Precedence
    BY Zenon DEF ConfigInit, ConfigValid, Precedence
  <1>6. ReloadInv
    BY <1>2, Zenon DEF ConfigInit, ReloadInv
  <1> QED  BY <1>4, <1>5, <1>6, Zenon DEF ConfigInv

\* The steps that leave the configuration and the reloads alone.
LEMMA WatchStep ==
  ASSUME ConfigInv, UNCHANGED loading,
         \/ RemoveFile \/ \E c \in Contents : WriteFile(c)
         \/ StartWatcher \/ StopWatcher \/ WatcherStopped
         \/ LoopWrite \/ LoopRemove \/ LoopEnds \/ ReAdd
  PROVE  ConfigInv'
  <1>0. /\ mode' = mode /\ env' = env /\ config' = config /\ source' = source
        /\ reload' = reload /\ overlapped' = overlapped
    BY Zenon DEF loading
  <1>1. ConfigTypeOK /\ ConfigValid /\ Precedence /\ ReloadInv
    BY Zenon DEF ConfigInv
  <1>2. file' \in Contents /\ edits' \in 0 .. MaxEdits
    <2>1. CASE \E c \in Contents, v \in {"write", "remove"} : EditFile(c, v)
      <3>1. file' \in Contents
        BY <2>1, Zenon DEF EditFile
      <3>2. edits \in 0 .. MaxEdits /\ edits < MaxEdits /\ edits' = edits + 1
        BY <1>1, <2>1, Zenon DEF EditFile, ConfigTypeOK
      <3> QED  BY <3>1, <3>2, ConfigAssumption, SMT
    <2>2. CASE UNCHANGED <<file, edits>>
      BY <1>1, <2>2, Zenon DEF ConfigTypeOK
    <2> QED  BY <2>1, <2>2, ConfigAssumption, Zenon
             DEF RemoveFile, WriteFile, StartWatcher, StopWatcher, WatcherStopped, LoopWrite, LoopRemove,
                 LoopEnds, ReAdd
  <1>3. /\ watched' \in BOOLEAN /\ events' \subseteq {"write", "remove"}
        /\ timer' \in BOOLEAN /\ readd' \in BOOLEAN /\ unseen' \in BOOLEAN
        /\ watchLoop' \in {"off", "on", "ended"} /\ stop' \in {"no", "cancelled", "done"}
    BY <1>1, Zenon DEF ConfigTypeOK, RemoveFile, WriteFile, EditFile, StartWatcher, StopWatcher,
                   WatcherStopped, LoopWrite, LoopRemove, LoopEnds, ReAdd
  <1>4. ConfigTypeOK'
    BY <1>0, <1>1, <1>2, <1>3, Zenon DEF ConfigTypeOK
  <1>5. ConfigValid' /\ Precedence'
    BY <1>0, <1>1, Zenon DEF ConfigValid, Precedence
  <1>6. mode # "watch" => watchLoop' = "off" /\ ~timer'
    BY <1>1, Zenon DEF ReloadInv, RemoveFile, WriteFile, EditFile, StartWatcher, StopWatcher,
                   WatcherStopped, LoopWrite, LoopRemove, LoopEnds, ReAdd
  <1>7. ReloadInv'
    BY <1>0, <1>1, <1>6, Zenon DEF ReloadInv
  <1> QED  BY <1>4, <1>5, <1>7, Zenon DEF ConfigInv

\* A provider is made, or loads.
LEMMA ProviderStep ==
  ASSUME ConfigInv, NewFileProvider \/ ProviderLoad
  PROVE  ConfigInv'
  <1>1. ConfigTypeOK /\ ConfigValid /\ Precedence /\ ReloadInv
    BY Zenon DEF ConfigInv
  <1>2. /\ UNCHANGED <<env, file, edits, watching, reload, overlapped>>
        /\ mode # "watch" /\ mode' \in {"watch", "auto", "failed"}
    BY Zenon DEF NewFileProvider, ProviderLoad
  <1>3. /\ config' \in Configs \cup {Failed} /\ source' \in Contents \cup {Fallback} /\ unseen' \in BOOLEAN
        /\ config' # Failed => Validate(config') /\ Wins(config', source', env)
    <2> env \in Envs /\ file \in Contents /\ unseen \in BOOLEAN /\ source \in Contents \cup {Fallback}
      BY <1>1, Zenon DEF ConfigTypeOK
    <2>1. CASE ProviderLoad
      <3>1. /\ config' = AutoLoad(<<file, Fallback>>, env) /\ config' # Failed
            /\ source' = findConfigFile(<<file, Fallback>>) /\ unseen' = unseen
        BY <2>1, Zenon DEF ProviderLoad
      <3>2. /\ config' \in Configs /\ Validate(config')
            /\ Wins(config', findConfigFile(<<file, Fallback>>), env)
            /\ findConfigFile(<<file, Fallback>>) \in Contents \cup {Fallback}
        <4> PICK f, e, c : f = file /\ e = env /\ c = config'
          BY Zenon
        <4>1. f \in Contents /\ e \in Envs /\ c = AutoLoad(<<f, Fallback>>, e) /\ c # Failed
          BY <3>1, Zenon
        <4>2. /\ c \in Configs /\ Validate(c) /\ Wins(c, findConfigFile(<<f, Fallback>>), e)
              /\ findConfigFile(<<f, Fallback>>) \in Contents \cup {Fallback}
          BY <4>1, AutoLoads, Zenon
        <4> QED  BY <4>2, Zenon
      <3> QED  BY <3>1, <3>2, Zenon
    <2>2. CASE UNCHANGED <<config, source, unseen>>
      BY <1>1, <2>2, Zenon DEF ConfigTypeOK, ConfigValid, Precedence
    <2>3. CASE /\ config' = loadFromFile(file, env) /\ unseen' \in BOOLEAN
               /\ source' \in Contents \cup {Fallback} /\ (config' = Failed \/ source' = file)
      BY <2>3, FileLoads, Zenon
    <2> QED  BY <2>1, <2>2, <2>3, Zenon DEF NewFileProvider
  <1>4. ConfigTypeOK'
    BY <1>1, <1>2, <1>3, Zenon DEF ConfigTypeOK, watching
  <1>5. ConfigValid' /\ Precedence'
    BY <1>2, <1>3, Zenon DEF ConfigValid, Precedence
  <1>6. ReloadInv'
    BY <1>1, <1>2, Zenon DEF ReloadInv, watching
  <1> QED  BY <1>4, <1>5, <1>6, Zenon DEF ConfigInv

\* A reload begins.
LEMMA BeginStep ==
  ASSUME ConfigInv, NEW r \in Reloads, TimerFires(r) \/ Reload(r)
  PROVE  ConfigInv'
  <1>1. ConfigTypeOK /\ ConfigValid /\ Precedence /\ ReloadInv
    BY Zenon DEF ConfigInv
  <1>2. /\ UNCHANGED <<mode, env, file, edits, config, source, watched, events, readd, watchLoop, stop>>
        /\ mode = "watch" /\ timer' \in BOOLEAN /\ unseen' \in BOOLEAN /\ Begin(r)
    BY <1>1, Zenon DEF TimerFires, Reload, Begin, ReloadInv, ConfigTypeOK, watching
  <1>3. CASE UNCHANGED <<reload, overlapped>>
    <2>1. ConfigTypeOK'
      BY <1>1, <1>2, <1>3, Zenon DEF ConfigTypeOK
    <2>2. ConfigValid' /\ Precedence' /\ ReloadInv'
      BY <1>1, <1>2, <1>3, Zenon DEF ConfigValid, Precedence, ReloadInv
    <2> QED  BY <2>1, <2>2, Zenon DEF ConfigInv
  <1>4. CASE /\ reload' = [reload EXCEPT ![r] = [pc |-> "old", from |-> file, old |-> Failed]]
             /\ overlapped' = \E s \in Reloads \ {r} : reload[s].pc # "idle"
    <2>1. reload \in [Reloads -> Reloading] /\ file \in Contents
      BY <1>1, Zenon DEF ConfigTypeOK, Reloading
    <2>2. PICK new : new = [pc |-> "old", from |-> file, old |-> Failed]
      BY Zenon
    <2>3. new \in Reloading /\ new.pc = "old"
      BY <2>1, <2>2, Zenon DEF Reloading
    <2>4. reload' = [reload EXCEPT ![r] = new]
      BY <1>4, <2>2, Zenon
    <2>5. /\ reload' \in [Reloads -> Reloading] /\ reload'[r].pc = "old"
          /\ \A s \in Reloads : s # r => reload'[s] = reload[s]
      BY <2>1, <2>3, <2>4, Zenon
    <2>6. overlapped' \in BOOLEAN
      BY <1>4, Zenon
    <2>7. ConfigTypeOK'
      BY <1>1, <1>2, <2>5, <2>6, Zenon DEF ConfigTypeOK, Reloading
    <2>8. ConfigValid' /\ Precedence'
      BY <1>1, <1>2, Zenon DEF ConfigValid, Precedence
    <2>9. \A s \in Reloads : s # r /\ reload[s].pc # "idle" => overlapped'
      BY <1>4, Zenon
    <2>10. ReloadInv'
      <3>1. \A p, q \in Reloads : p # q /\ reload'[p].pc # "idle" /\ reload'[q].pc # "idle" => overlapped'
        BY <2>5, <2>9, Zenon
      <3>2. \A p \in Reloads : reload'[p].pc = "set" => overlapped'
        <4> TAKE p \in Reloads
        <4>1. CASE p = r
          BY <2>5, <4>1, Zenon
        <4>2. CASE p # r
          BY <2>5, <2>9, <4>2, Zenon
        <4> QED  BY <4>1, <4>2, Zenon
      <3> QED  BY <1>2, <3>1, <3>2, Zenon DEF ReloadInv
    <2> QED  BY <2>7, <2>8, <2>10, Zenon DEF ConfigInv
  <1> QED  BY <1>2, <1>3, <1>4, Zenon DEF Begin

\* A step that changes at most what is loaded and the reloads keeps the types of the rest.
LEMMA TypesKept ==
  ASSUME ConfigTypeOK,
         mode' = mode, env' = env, file' = file, edits' = edits,
         watched' = watched, events' = events, timer' = timer, readd' = readd,
         watchLoop' = watchLoop, stop' = stop, overlapped' = overlapped, unseen' = unseen,
         config' \in Configs \cup {Failed}, source' \in Contents \cup {Fallback},
         reload' \in [Reloads -> Reloading]
  PROVE  ConfigTypeOK'
  <1>1. /\ mode' \in {"new", "watch", "auto", "failed"} /\ env' \in Envs
        /\ edits' \in 0 .. MaxEdits /\ file' \in Contents
    BY Zenon DEF ConfigTypeOK
  <1>2. /\ watched' \in BOOLEAN /\ events' \subseteq {"write", "remove"}
        /\ timer' \in BOOLEAN /\ readd' \in BOOLEAN
    BY Zenon DEF ConfigTypeOK
  <1>3. overlapped' \in BOOLEAN /\ unseen' \in BOOLEAN
    BY Zenon DEF ConfigTypeOK
  <1>4. watchLoop' \in {"off", "on", "ended"} /\ stop' \in {"no", "cancelled", "done"}
    BY Zenon DEF ConfigTypeOK
  <1> QED  BY <1>1, <1>2, <1>3, <1>4, Zenon DEF ConfigTypeOK, Reloading

\* A reload reads the configuration it replaces.
LEMMA ReadOldStep ==
  ASSUME ConfigInv, NEW r \in Reloads, ReadOld(r)
  PROVE  ConfigInv'
  <1>1. ConfigTypeOK /\ ConfigValid /\ Precedence /\ ReloadInv
    BY Zenon DEF ConfigInv
  <1>2. /\ UNCHANGED <<mode, env, file, edits, config, source, watching, overlapped, unseen>>
        /\ reload[r].pc = "old" /\ reload' = [reload EXCEPT ![r] = [@ EXCEPT !.pc = "set", !.old = config]]
    BY Zenon DEF ReadOld
  <1>3. reload \in [Reloads -> Reloading] /\ config \in Configs \cup {Failed}
    BY <1>1, Zenon DEF ConfigTypeOK, Reloading
  <1>4. PICK new : new = [reload[r] EXCEPT !.pc = "set", !.old = config]
    BY Zenon
  <1>5. new \in Reloading /\ new.pc = "set" /\ new.old = config
    <2>1. PICK was : was = reload[r]
      BY Zenon
    <2>2. was \in Reloading /\ was.from \in Contents
      BY <1>3, <2>1, Zenon DEF Reloading
    <2>3. was = [pc |-> was.pc, from |-> was.from, old |-> was.old]
      BY <2>2, Zenon DEF Reloading
    <2>4. new = [pc |-> "set", from |-> was.from, old |-> config]
      BY <1>4, <2>1, <2>3, Zenon
    <2> QED  BY <1>3, <2>2, <2>4, Zenon DEF Reloading
  <1>6. /\ reload' \in [Reloads -> Reloading] /\ reload'[r] = new
        /\ \A s \in Reloads : s # r => reload'[s] = reload[s]
    BY <1>2, <1>3, <1>4, <1>5, Zenon
  <1>7. ConfigTypeOK'
    <2>1. /\ mode' = mode /\ env' = env /\ file' = file /\ edits' = edits /\ config' = config /\ source' = source
          /\ watched' = watched /\ events' = events /\ timer' = timer /\ readd' = readd
          /\ watchLoop' = watchLoop /\ stop' = stop /\ overlapped' = overlapped /\ unseen' = unseen
      BY <1>2, Zenon DEF watching
    <2>2. config' \in Configs \cup {Failed} /\ source' \in Contents \cup {Fallback}
      BY <1>1, <2>1, Zenon DEF ConfigTypeOK
    <2> QED  BY <1>1, <1>6, <2>1, <2>2, TypesKept, Zenon
  <1>8. ConfigValid' /\ Precedence'
    BY <1>1, <1>2, Zenon DEF ConfigValid, Precedence
  <1>9. ReloadInv'
    <2>1. mode = "watch"
      BY <1>1, <1>2, Zenon DEF ReloadInv
    <2>2. \A s \in Reloads : reload'[s].pc # "idle" => reload[s].pc # "idle"
      BY <1>2, <1>6, Zenon
    <2>3. \A s \in Reloads : reload'[s].pc = "set" => reload'[s].old = config \/ overlapped
      BY <1>1, <1>5, <1>6, Zenon DEF ReloadInv
    <2> QED  BY <1>1, <1>2, <2>1, <2>2, <2>3, Zenon DEF ReloadInv
  <1> QED  BY <1>7, <1>8, <1>9, Zenon DEF ConfigInv

\* A reload installs its configuration.
LEMMA InstallStep ==
  ASSUME ConfigInv, NEW r \in Reloads, Install(r)
  PROVE  ConfigInv'
  <1>1. ConfigTypeOK /\ ConfigValid /\ Precedence /\ ReloadInv
    BY Zenon DEF ConfigInv
  <1>2. /\ UNCHANGED <<mode, env, file, edits, watching, overlapped, unseen>>
        /\ reload[r].pc = "set" /\ reload' = [reload EXCEPT ![r] = Idle]
        /\ config' = loadFromFile(reload[r].from, env) /\ source' = reload[r].from
    BY Zenon DEF Install
  <1>3. /\ reload \in [Reloads -> Reloading] /\ env \in Envs /\ reload[r].from \in Contents
        /\ Idle \in Reloading /\ Idle.pc = "idle"
    BY <1>1, ConfigAssumption, Zenon DEF ConfigTypeOK, Reloading, Idle
  <1>4. /\ reload' \in [Reloads -> Reloading] /\ reload'[r].pc = "idle"
        /\ \A s \in Reloads : s # r => reload'[s] = reload[s]
    BY <1>2, <1>3, Zenon
  <1>5. /\ config' \in Configs \cup {Failed}
        /\ config' # Failed => Validate(config') /\ Wins(config', source', env)
    BY <1>2, <1>3, FileLoads, Zenon
  <1>6. ConfigTypeOK'
    <2>1. /\ mode' = mode /\ env' = env /\ file' = file /\ edits' = edits
          /\ watched' = watched /\ events' = events /\ timer' = timer /\ readd' = readd
          /\ watchLoop' = watchLoop /\ stop' = stop /\ overlapped' = overlapped /\ unseen' = unseen
      BY <1>2, Zenon DEF watching
    <2>2. source' \in Contents \cup {Fallback}
      BY <1>2, <1>3, Zenon
    <2> QED  BY <1>1, <1>4, <1>5, <2>1, <2>2, TypesKept, Zenon
  <1>7. ConfigValid' /\ Precedence'
    BY <1>2, <1>5, Zenon DEF ConfigValid, Precedence
  <1>8. ReloadInv'
    <2>1. mode = "watch"
      BY <1>1, <1>2, Zenon DEF ReloadInv
    <2>2. \A s \in Reloads : reload'[s].pc # "idle" => s # r /\ reload[s].pc # "idle"
      BY <1>4, Zenon
    <2>3. \A s \in Reloads : reload'[s].pc = "set" => overlapped
      BY <1>1, <1>2, <2>2, Zenon DEF ReloadInv
    <2> QED  BY <1>1, <1>2, <2>1, <2>2, <2>3, Zenon DEF ReloadInv
  <1> QED  BY <1>6, <1>7, <1>8, Zenon DEF ConfigInv

LEMMA ConfigSteps == ConfigInv /\ [ConfigNext]_configVars => ConfigInv'
  <1> SUFFICES ASSUME ConfigInv, [ConfigNext]_configVars
               PROVE  ConfigInv'
    BY Zenon
  <1>1. CASE /\ UNCHANGED loading
             /\ \/ RemoveFile \/ \E c \in Contents : WriteFile(c)
                \/ StartWatcher \/ StopWatcher \/ WatcherStopped
                \/ LoopWrite \/ LoopRemove \/ LoopEnds \/ ReAdd
    BY <1>1, WatchStep, Zenon
  <1>2. CASE NewFileProvider \/ ProviderLoad
    BY <1>2, ProviderStep, Zenon
  <1>3. CASE \E r \in Reloads : TimerFires(r) \/ Reload(r)
    BY <1>3, BeginStep, Zenon
  <1>4. CASE \E r \in Reloads : ReadOld(r)
    BY <1>4, ReadOldStep, Zenon
  <1>5. CASE \E r \in Reloads : Install(r)
    BY <1>5, InstallStep, Zenon
  <1>6. CASE UNCHANGED configVars
    <2>1. /\ mode' = mode /\ env' = env /\ file' = file /\ edits' = edits /\ config' = config
          /\ source' = source /\ reload' = reload
          /\ watched' = watched /\ events' = events /\ timer' = timer /\ readd' = readd
          /\ watchLoop' = watchLoop /\ stop' = stop /\ overlapped' = overlapped /\ unseen' = unseen
      BY <1>6, Zenon DEF configVars
    <2>2. ConfigTypeOK'
      <3>1. ConfigTypeOK
        BY Zenon DEF ConfigInv
      <3>2. /\ config' \in Configs \cup {Failed} /\ source' \in Contents \cup {Fallback}
            /\ reload' \in [Reloads -> Reloading]
        BY <2>1, <3>1, Zenon DEF ConfigTypeOK, Reloading
      <3> QED  BY <2>1, <3>1, <3>2, TypesKept, Zenon
    <2>3. ConfigValid' /\ Precedence' /\ ReloadInv'
      BY <2>1, Zenon DEF ConfigInv, ConfigValid, Precedence, ReloadInv
    <2> QED  BY <2>2, <2>3, Zenon DEF ConfigInv
  <1>7. ASSUME \/ RemoveFile \/ \E c \in Contents : WriteFile(c)
               \/ StartWatcher \/ StopWatcher \/ WatcherStopped
               \/ LoopWrite \/ LoopRemove \/ LoopEnds \/ ReAdd
        PROVE  UNCHANGED loading
    BY <1>7, Zenon DEF RemoveFile, WriteFile, EditFile, StartWatcher, StopWatcher, WatcherStopped, LoopWrite,
                       LoopRemove, LoopEnds, ReAdd
  <1> QED  BY <1>1, <1>2, <1>3, <1>4, <1>5, <1>6, <1>7, Zenon DEF ConfigNext

LEMMA ConfigSafe == ConfigSpec => []ConfigInv
  BY ConfigStarts, ConfigSteps, PTL DEF ConfigSpec

\* The configuration, the file and the reloads keep their types.
THEOREM ConfigTypeCorrect == ConfigSpec => []ConfigTypeOK
  <1>1. ConfigInv => ConfigTypeOK
    BY Zenon DEF ConfigInv
  <1> QED  BY <1>1, ConfigSafe, PTL

\* Load, AutoLoad and reloadConfig never put an invalid configuration in place.
THEOREM ConfigsAreValid == ConfigSpec => []ConfigValid
  <1>1. ConfigInv => ConfigValid
    BY Zenon DEF ConfigInv
  <1> QED  BY <1>1, ConfigSafe, PTL

\* In every configuration a usable variable wins over the file, and the file over the
\* default, in each of the ways loadFromEnv and mergeConfig treat a field.
THEOREM VariablesWin == ConfigSpec => []Precedence
  <1>1. ConfigInv => Precedence
    BY Zenon DEF ConfigInv
  <1> QED  BY <1>1, ConfigSafe, PTL

\* The callbacks of reloadConfig get the configuration that was replaced, unless another
\* reload was at work when the last one began.
THEOREM OldIsReplaced == ConfigSpec => ReplacedIsOld
  <1>1. ConfigInv /\ [ConfigNext]_configVars =>
          [\A r \in Reloads : reload[r].pc = "set" /\ reload'[r].pc = "idle" =>
             reload[r].old = config \/ overlapped]_configVars
    BY Zenon DEF ConfigInv, ReloadInv
  <1> QED  BY <1>1, ConfigSafe, PTL DEF ConfigSpec, ReplacedIsOld
=============================================================================
