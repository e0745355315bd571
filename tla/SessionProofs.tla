---------------------------- MODULE SessionProofs ----------------------------
(***************************************************************************)
(* Proofs about calls and instances, for any number of those that use them: *)
(* a session of SessionManager has one answer at most, its own; a call of  *)
(* RemoteService returns the answer to that call; a service of a Container *)
(* has one instance.                                                       *)
(***************************************************************************)
EXTENDS SessionManager, RemoteService, Container, FiniteSetTheorems, TLAPS

----------------------------------------------------------------------------

(* SessionManager                                                           *)

\* A registered session is open under its own id and its channel is open and empty.
MapInv ==
  \A i \in Ids : sessions[i] # NoOne =>
    LET s == sessions[i]
    IN  s \in open /\ id[s] = i /\ ~closed[s] /\ chan[s] = NoOne /\ answered[s] = NoOne

\* What is known of every session, registered or not.
VerdictInv ==
  \A o \in Owners :
    /\ o \notin open => result[o] = NoOne /\ chan[o] = NoOne /\ ~closed[o] /\ answered[o] = NoOne
    /\ closed[o] => answered[o] = NoOne
    /\ chan[o] # NoOne => chan[o] = answered[o]
    /\ result[o] \in Owners => result[o] = answered[o]
    /\ result[o] = "closed" => closed[o]

SafeInv == SessionTypeOK /\ MapInv /\ VerdictInv /\ ~misused

\* A new manager has no session.
LEMMA InitSafe == NewSessionManager => SafeInv
  <1> SUFFICES ASSUME NewSessionManager PROVE SafeInv
    BY Zenon
  <1>1. SessionTypeOK
    <2>1. 0 \in Ids
      BY SessionManagerAssumption DEF Ids
    <2>2. expired \in [Owners -> BOOLEAN] /\ closed \in [Owners -> BOOLEAN] /\ misused \in BOOLEAN
      BY Zenon DEF NewSessionManager
    <2> QED  BY <2>1, <2>2, Zenon DEF NewSessionManager, SessionTypeOK
  <1>2. MapInv
    BY Zenon DEF NewSessionManager, MapInv
  <1>3. VerdictInv
    BY SessionManagerAssumption, Zenon DEF NewSessionManager, VerdictInv, NoAnswer
  <1> QED  BY <1>1, <1>2, <1>3, Zenon DEF NewSessionManager, SafeInv

\* The next id is an id.
LEMMA NextId == ASSUME SessionTypeOK PROVE (counter + 1) % IdSpace \in Ids
  <1>1. \A x \in Nat, m \in Nat \ {0} : x % m \in 0 .. m - 1
    OBVIOUS
  <1> QED  BY <1>1, SessionManagerAssumption DEF SessionTypeOK, Ids

\* Closing and deleting registered sessions keeps the invariant.
LEMMA DiscardSafe ==
  ASSUME SafeInv, NEW S \in SUBSET Owners, Discard(S),
         \A s \in S : \E i \in Ids : sessions[i] = s
  PROVE  SafeInv'
  <1>1. \A s \in S : s \in open /\ ~closed[s] /\ chan[s] = NoOne /\ answered[s] = NoOne
    BY SessionManagerAssumption DEF SafeInv, MapInv
  <1>2. /\ UNCHANGED <<counter, id, expired, chan, result, open, answered>>
        /\ closed' = [o \in Owners |-> closed[o] \/ o \in S]
        /\ sessions' = [i \in Ids |-> IF sessions[i] \in S THEN NoOne ELSE sessions[i]]
    BY Zenon DEF Discard
  <1>3. ~misused'
    BY <1>1, Zenon DEF Discard, SafeInv
  <1>4. SessionTypeOK'
    <2>1. closed' \in [Owners -> BOOLEAN]
      BY <1>2, Zenon DEF SafeInv, SessionTypeOK
    <2>2. sessions' \in [Ids -> Owners \cup {NoOne}]
      BY <1>2, Zenon DEF SafeInv, SessionTypeOK
    <2>3. misused' \in BOOLEAN
      BY Zenon DEF Discard
    <2> QED  BY <1>2, <2>1, <2>2, <2>3, Zenon DEF SafeInv, SessionTypeOK
  <1>5. MapInv'
    BY <1>2, Zenon DEF SafeInv, MapInv, SessionTypeOK
  <1>6. VerdictInv'
    BY <1>1, <1>2, Zenon DEF SafeInv, VerdictInv
  <1> QED  BY <1>3, <1>4, <1>5, <1>6, Zenon DEF SafeInv

\* Every step keeps the invariant.
LEMMA SafeStep == ASSUME SafeInv, [SessionNext]_sessionVars PROVE SafeInv'
  <1>1. CASE UNCHANGED sessionVars
    BY <1>1, Zenon DEF sessionVars, SafeInv, SessionTypeOK, MapInv, VerdictInv
  <1>2. ASSUME NEW o \in Owners, CreateSession(o)
        PROVE  SafeInv'
    <2>1. counter' \in Ids
      BY <1>2, NextId, Zenon DEF CreateSession, SafeInv
    <2>2. SessionTypeOK'
      BY <1>2, <2>1, Zenon DEF CreateSession, SafeInv, SessionTypeOK
    <2>3. MapInv'
      BY <1>2, <2>1 DEF CreateSession, SafeInv, SessionTypeOK, MapInv, VerdictInv
    <2>4. VerdictInv'
      BY <1>2, Zenon DEF CreateSession, SafeInv, VerdictInv
    <2> QED  BY <1>2, <2>2, <2>3, <2>4, Zenon DEF CreateSession, SafeInv
  <1>3. ASSUME NEW q \in Owners, CompleteSession(q)
        PROVE  SafeInv'
    <2> DEFINE s == sessions[id[q]]
    <2>1. /\ s \in Owners /\ s \in open /\ id[s] = id[q] /\ id[q] \in Ids /\ ~closed[s]
          /\ chan[s] = NoOne /\ answered[s] = NoOne
      BY <1>3, Zenon DEF CompleteSession, SafeInv, SessionTypeOK, MapInv
    <2>2. /\ chan' = [chan EXCEPT ![s] = q]
          /\ answered' = [answered EXCEPT ![s] = q]
          /\ sessions' = [sessions EXCEPT ![id[q]] = NoOne]
          /\ UNCHANGED <<counter, id, expired, closed, result, open, misused>>
      BY <1>3, <2>1, Zenon DEF CompleteSession
    <2> HIDE DEF s
    <2>3. SessionTypeOK'
      BY <2>1, <2>2, Zenon DEF SafeInv, SessionTypeOK
    <2>4. MapInv'
      BY <2>1, <2>2 DEF SafeInv, SessionTypeOK, MapInv
    <2>5. VerdictInv'
      BY <2>1, <2>2, SessionManagerAssumption DEF SafeInv, SessionTypeOK, VerdictInv
    <2> QED  BY <2>2, <2>3, <2>4, <2>5, Zenon DEF SafeInv
  <1>4. ASSUME NEW q \in Owners, CleanupSession(q)
        PROVE  SafeInv'
    <2>1. sessions[id[q]] \in Owners /\ id[q] \in Ids
      BY <1>4, Zenon DEF CleanupSession, SafeInv, SessionTypeOK
    <2> QED  BY <1>4, <2>1, DiscardSafe, Zenon DEF CleanupSession
  <1>5. ASSUME NEW o \in Owners, Expire(o)
        PROVE  SafeInv'
    BY <1>5, Zenon DEF Expire, SafeInv, SessionTypeOK, MapInv, VerdictInv
  <1>6. CASE CleanupExpired
    BY <1>6, DiscardSafe, Zenon DEF CleanupExpired, Overdue
  <1>7. ASSUME NEW o \in Owners, NEW r \in Owners \cup NoAnswer, Returns(o, r),
               chan' = chan \/ chan' = [chan EXCEPT ![o] = NoOne],
               r \in Owners => r = answered[o],
               r = "closed" => closed[o]
        PROVE  SafeInv'
    <2>1. SessionTypeOK'
      BY <1>7, Zenon DEF Returns, SafeInv, SessionTypeOK
    <2>2. MapInv'
      BY <1>7 DEF Returns, SafeInv, SessionTypeOK, MapInv
    <2>3. VerdictInv'
      BY <1>7, SessionManagerAssumption DEF Returns, SafeInv, SessionTypeOK, VerdictInv
    <2> QED  BY <1>7, <2>1, <2>2, <2>3, Zenon DEF Returns, SafeInv
  <1>8. ASSUME NEW o \in Owners, WaitReceive(o)
        PROVE  SafeInv'
    <2>1. "closed" \in NoAnswer /\ "closed" \notin Owners
      BY SessionManagerAssumption, Zenon DEF NoAnswer
    <2>2. chan[o] # NoOne => chan[o] \in Owners /\ chan[o] = answered[o] /\ ~closed[o]
      BY SessionManagerAssumption, Zenon DEF SafeInv, SessionTypeOK, VerdictInv
    <2> QED  BY <1>7, <1>8, <2>1, <2>2, SessionManagerAssumption, Zenon DEF WaitReceive
  <1>9. ASSUME NEW o \in Owners, WaitContext(o) \/ WaitTimeout(o)
        PROVE  SafeInv'
    <2>1. "ctx" \in NoAnswer /\ "timeout" \in NoAnswer /\ "ctx" \notin Owners /\ "timeout" \notin Owners
      BY SessionManagerAssumption, Zenon DEF NoAnswer
    <2> QED  BY <1>7, <1>9, <2>1, Zenon DEF WaitContext, WaitTimeout
  <1> QED  BY <1>1, <1>2, <1>3, <1>4, <1>5, <1>6, <1>8, <1>9, Zenon DEF SessionNext

\* SafeInv holds throughout.
LEMMA SafeHolds == SessionSpec => []SafeInv
  BY InitSafe, SafeStep, PTL DEF SessionSpec

\* No Response channel is closed twice, sent to after it is closed, or full when an
\* answer arrives, for any number of sessions and even after the id counter wraps.
THEOREM ChannelsSafe == SessionSpec => [](SessionTypeOK /\ ChannelsUsedOnce)
  <1>1. SafeInv => SessionTypeOK /\ ChannelsUsedOnce
    BY Zenon DEF SafeInv, ChannelsUsedOnce
  <1> QED  BY <1>1, SafeHolds, PTL

----------------------------------------------------------------------------
(* Answers reach the session they are for                                  *)

\* While the counter has not wrapped, open sessions have different ids, so an answer
\* carrying an id is accepted only by the session it is for.
IdInv ==
  /\ counter = Cardinality(open)
  /\ \A o \in open : id[o] \in 1 .. counter
  /\ \A o, q \in open : id[o] = id[q] => o = q
  /\ \A o \in Owners : answered[o] # NoOne => answered[o] = o

\* Every step keeps IdInv.
LEMMA IdStep ==
  ASSUME IdsSuffice, SafeInv, IdInv, [SessionNext]_sessionVars
  PROVE  IdInv'
  <1> USE DEF SafeInv
  <1>1. ASSUME UNCHANGED <<counter, id, open, answered>>
        PROVE  IdInv'
    BY <1>1, Zenon DEF IdInv
  <1>2. ASSUME NEW o \in Owners, CreateSession(o)
        PROVE  IdInv'
    <2>1. o \notin open /\ open' = open \cup {o}
      BY <1>2, Zenon DEF CreateSession
    <2>2. /\ IsFiniteSet(open) /\ Cardinality(open) < Cardinality(Owners)
          /\ Cardinality(open) \in Nat /\ Cardinality(Owners) \in Nat
      <3>1. open \subseteq Owners /\ open # Owners
        BY <2>1, Zenon DEF SessionTypeOK
      <3> QED  BY <3>1, FS_Subset, FS_CardinalityType DEF IdsSuffice
    <2>3. Cardinality(open') = Cardinality(open) + 1
      BY <2>1, <2>2, FS_AddElement, Zenon
    <2>4. counter + 1 < IdSpace
      BY <2>2, SessionManagerAssumption DEF IdInv, IdsSuffice
    <2>5. counter' = counter + 1
      BY <1>2, <2>2, <2>4, SessionManagerAssumption DEF CreateSession, IdInv
    <2>6. \A q \in open' : id'[q] = IF q = o THEN counter + 1 ELSE id[q]
      BY <1>2, <2>1, <2>5 DEF CreateSession, SessionTypeOK
    <2>7. counter \in Nat /\ answered' = answered
      BY <1>2, <2>2, Zenon DEF CreateSession, IdInv
    <2> QED  BY <2>1, <2>3, <2>5, <2>6, <2>7 DEF IdInv
  <1>3. ASSUME NEW q \in Owners, CompleteSession(q)
        PROVE  IdInv'
    <2>1. /\ sessions[id[q]] \in open /\ id[sessions[id[q]]] = id[q] /\ q \in open
          /\ id[q] \in Ids
      BY <1>3, Zenon DEF CompleteSession, SessionTypeOK, MapInv
    <2>2. sessions[id[q]] = q
      BY <2>1, Zenon DEF IdInv
    <2>3. UNCHANGED <<counter, id, open>>
      BY <1>3, Zenon DEF CompleteSession
    <2>4. answered' = answered \/ answered' = [answered EXCEPT ![q] = q]
      BY <1>3, <2>2, Zenon DEF CompleteSession
    <2>5. \A o \in Owners : answered'[o] # NoOne => answered'[o] = o
      BY <2>4 DEF IdInv, SessionTypeOK
    <2> QED  BY <2>3, <2>5, Zenon DEF IdInv
  <1>4. CASE UNCHANGED sessionVars
    BY <1>1, <1>4, Zenon DEF sessionVars
  <1>5. ASSUME NEW o \in Owners, CleanupSession(o) \/ Expire(o) \/ WaitReceive(o)
                                 \/ WaitContext(o) \/ WaitTimeout(o)
        PROVE  IdInv'
    BY <1>1, <1>5, Zenon DEF CleanupSession, Discard, Expire, WaitReceive, WaitContext, WaitTimeout,
                      Returns
  <1>6. CASE CleanupExpired
    BY <1>1, <1>6, Zenon DEF CleanupExpired, Discard
  <1> QED  BY <1>2, <1>3, <1>4, <1>5, <1>6, Zenon DEF SessionNext

\* Whatever the id space, an answer accepted for a session was sent to its id.
AcceptedById == \A o \in Owners : answered[o] # NoOne => answered[o] \in open /\ id[answered[o]] = id[o]

\* Every step keeps AcceptedById.
LEMMA AcceptedStep ==
  ASSUME SafeInv, SafeInv', AcceptedById, [SessionNext]_sessionVars
  PROVE  AcceptedById'
  <1> USE DEF SafeInv
  <1>1. ASSUME UNCHANGED <<id, open, answered>>
        PROVE  AcceptedById'
    BY <1>1, Zenon DEF AcceptedById
  <1>2. ASSUME NEW o \in Owners, CreateSession(o)
        PROVE  AcceptedById'
    <2>1. o \notin open /\ answered' = answered /\ open' = open \cup {o}
          /\ \A q \in Owners : q # o => id'[q] = id[q]
      BY <1>2, Zenon DEF CreateSession, SessionTypeOK
    <2>2. answered[o] = NoOne /\ \A q \in Owners : answered[q] # NoOne => answered[q] \in Owners
      BY <2>1 DEF VerdictInv, SessionTypeOK
    <2> QED  BY <2>1, <2>2, Zenon DEF AcceptedById
  <1>3. ASSUME NEW q \in Owners, CompleteSession(q)
        PROVE  AcceptedById'
    <2>1. sessions[id[q]] \in open /\ id[sessions[id[q]]] = id[q] /\ q \in open
      BY <1>3, Zenon DEF CompleteSession, SessionTypeOK, MapInv
    <2>2. UNCHANGED <<id, open>> /\ \A o \in Owners : answered'[o] = answered[o]
                                                  \/ (o = sessions[id[q]] /\ answered'[o] = q)
      BY <1>3, <2>1 DEF CompleteSession, SessionTypeOK
    <2> QED  BY <2>1, <2>2, Zenon DEF AcceptedById
  <1>4. ASSUME NEW o \in Owners, CleanupSession(o) \/ Expire(o) \/ WaitContext(o)
                                 \/ WaitTimeout(o) \/ WaitReceive(o)
        PROVE  AcceptedById'
    BY <1>1, <1>4, Zenon DEF CleanupSession, Discard, Expire, WaitContext, WaitTimeout, WaitReceive, Returns
  <1>5. CASE CleanupExpired
    BY <1>1, <1>5, Zenon DEF CleanupExpired, Discard
  <1>6. CASE UNCHANGED sessionVars
    BY <1>1, <1>6, Zenon DEF sessionVars
  <1> QED  BY <1>2, <1>3, <1>4, <1>5, <1>6, Zenon DEF SessionNext

\* For any number of sessions and any id space, an owner only receives answers that
\* were sent to the id of its own session.
THEOREM AnswersById == SessionSpec => []AnswersMatchId
  <1>1. NewSessionManager => AcceptedById
    BY Zenon DEF NewSessionManager, AcceptedById
  <1>2. SafeInv /\ SafeInv' /\ AcceptedById /\ [SessionNext]_sessionVars => AcceptedById'
    BY AcceptedStep, Zenon
  <1>3. SafeInv /\ AcceptedById => AnswersMatchId
    BY SessionManagerAssumption DEF SafeInv, VerdictInv, AcceptedById, AnswersMatchId
  <1> QED  BY <1>1, <1>2, <1>3, SafeHolds, PTL DEF SessionSpec

\* With fewer sessions than ids, an owner never receives another request's answer.
THEOREM OwnAnswersOnly == ASSUME IdsSuffice PROVE SessionSpec => []AnswersOwnRequest
  <1>1. NewSessionManager => IdInv
    BY FS_EmptySet, Zenon DEF NewSessionManager, IdInv
  <1>2. SafeInv /\ IdInv /\ [SessionNext]_sessionVars => IdInv'
    BY IdStep, Zenon
  <1>3. SafeInv /\ IdInv => AnswersOwnRequest
    BY SessionManagerAssumption DEF SafeInv, VerdictInv, IdInv, AnswersOwnRequest
  <1> QED  BY <1>1, <1>2, <1>3, SafeHolds, PTL DEF SessionSpec

----------------------------------------------------------------------------
(* A session implements the one-shot promise                               *)

\* Discarding registered sessions is a Drop.
LEMMA DiscardDrops ==
  ASSUME SafeInv, NEW S \in SUBSET Owners, Discard(S),
         \A s \in S : \E i \in Ids : sessions[i] = s
  PROVE  OneShot!Drop(S)
  <1>1. \A s \in S : s \in open /\ ~closed[s] /\ answered[s] = NoOne
    BY SessionManagerAssumption DEF SafeInv, MapInv
  <1>2. UNCHANGED <<open, answered, result>> /\ \A o \in Owners : closed'[o] = (closed[o] \/ o \in S)
    BY Zenon DEF Discard
  <1> QED  BY <1>1, <1>2, Zenon DEF OneShot!Drop

\* Every step is a step of Promise or leaves it unchanged.
LEMMA PromiseStep ==
  ASSUME SafeInv, [SessionNext]_sessionVars
  PROVE  [OneShot!Next]_(OneShot!pv)
  <1> USE DEF SafeInv
  <1>1. ASSUME UNCHANGED <<open, answered, closed, result>>
        PROVE  UNCHANGED OneShot!pv
    BY <1>1, Zenon DEF OneShot!pv
  <1>2. ASSUME NEW o \in Owners, CreateSession(o)
        PROVE  OneShot!Open(o)
    BY <1>2, Zenon DEF CreateSession, OneShot!Open, VerdictInv, SessionTypeOK
  <1>3. ASSUME NEW q \in Owners, CompleteSession(q)
        PROVE  \E o \in Owners : OneShot!Answer(o)
    <2>0. PICK s \in Owners : s = sessions[id[q]]
      BY <1>3, Zenon DEF CompleteSession, SessionTypeOK
    <2>1. s \in open /\ ~closed[s] /\ chan[s] = NoOne /\ answered[s] = NoOne
      BY <1>3, <2>0, Zenon DEF CompleteSession, SessionTypeOK, MapInv
    <2>2. answered' = [answered EXCEPT ![s] = q] /\ UNCHANGED <<closed, open, result>> /\ q # NoOne
      BY <1>3, <2>0, <2>1, SessionManagerAssumption, Zenon DEF CompleteSession
    <2>3. OneShot!Answer(s)
      BY <2>1, <2>2, Zenon DEF OneShot!Answer, SessionTypeOK
    <2> QED  BY <2>3, Zenon
  <1>4. ASSUME NEW q \in Owners, CleanupSession(q)
        PROVE  \E S \in SUBSET Owners : OneShot!Drop(S)
    <2>1. sessions[id[q]] \in Owners /\ id[q] \in Ids
      BY <1>4, Zenon DEF CleanupSession, SessionTypeOK
    <2> QED  BY <1>4, <2>1, DiscardDrops, Zenon DEF CleanupSession
  <1>5. ASSUME CleanupExpired
        PROVE  \E S \in SUBSET Owners : OneShot!Drop(S)
    <2>1. PICK S \in SUBSET Owners : S = Overdue
      BY Zenon DEF Overdue
    <2>2. Discard(S) /\ \A s \in S : \E i \in Ids : sessions[i] = s
      BY <1>5, <2>1, Zenon DEF CleanupExpired, Overdue
    <2>3. OneShot!Drop(S)
      BY <2>2, DiscardDrops, Zenon
    <2> QED  BY <2>3, Zenon
  <1>6. ASSUME NEW o \in Owners, NEW r \in Owners \cup NoAnswer, Returns(o, r)
        PROVE  /\ result[o] = NoOne /\ o \in open /\ UNCHANGED <<open, answered, closed>>
               /\ \A q \in Owners : result'[q] = IF q = o THEN r ELSE result[q]
               /\ r # NoOne
    BY <1>6, SessionManagerAssumption, Zenon DEF Returns, SessionTypeOK
  <1>7. ASSUME NEW o \in Owners, WaitReceive(o)
        PROVE  OneShot!Learn(o, "answered") \/ OneShot!Learn(o, "dropped")
    <2>1. CASE chan[o] # NoOne /\ Returns(o, chan[o])
      <3>1. chan[o] \in Owners /\ answered[o] # NoOne
        BY <2>1, Zenon DEF SessionTypeOK, VerdictInv
      <3>2. chan[o] # "closed" /\ chan[o] \notin {"ctx", "timeout"}
        BY <3>1, SessionManagerAssumption, Zenon DEF NoAnswer
      <3>3. /\ result[o] = NoOne /\ o \in open /\ UNCHANGED <<open, answered, closed>>
            /\ \A q \in Owners : result'[q] = IF q = o THEN chan[o] ELSE result[q]
        BY <1>6, <2>1, <3>1, Zenon
      <3> QED  BY <2>1, <3>1, <3>2, <3>3, Zenon DEF OneShot!Learn
    <2>2. CASE closed[o] /\ Returns(o, "closed")
      <3>1. answered[o] = NoOne /\ "closed" \in NoAnswer
        BY <2>2, Zenon DEF VerdictInv, NoAnswer
      <3> QED  BY <1>6, <2>2, <3>1, ZenonT(30) DEF OneShot!Learn
    <2> QED  BY <1>7, <2>1, <2>2, Zenon DEF WaitReceive
  <1>8. ASSUME NEW o \in Owners, WaitContext(o) \/ WaitTimeout(o)
        PROVE  OneShot!Learn(o, "gaveUp")
    <2>1. "ctx" \in NoAnswer /\ "timeout" \in NoAnswer
      BY Zenon DEF NoAnswer
    <2> QED  BY <1>6, <1>8, <2>1, ZenonT(30) DEF WaitContext, WaitTimeout, OneShot!Learn
  <1>9. ASSUME NEW o \in Owners, Expire(o)
        PROVE  UNCHANGED OneShot!pv
    BY <1>1, <1>9, Zenon DEF Expire
  <1>10. CASE UNCHANGED sessionVars
    BY <1>1, <1>10, Zenon DEF sessionVars
  <1> QED  BY <1>2, <1>3, <1>4, <1>5, <1>7, <1>8, <1>9, <1>10, Zenon DEF SessionNext, OneShot!Next

\* Sessions implement the promise: answered once or dropped, never both, and the
\* waiter's outcome agrees with the verdict.
THEOREM ImplementsPromise == SessionSpec => AnsweredOrDropped
  <1>1. NewSessionManager => OneShot!Init
    BY Zenon DEF NewSessionManager, OneShot!Init
  <1> QED  BY <1>1, PromiseStep, SafeHolds, PTL DEF SessionSpec, AnsweredOrDropped, OneShot!Spec

----------------------------------------------------------------------------

(* RemoteService                                                            *)

Calling(u) == caller[u].pc # "idle"

Messages == [type : {"call", "result", "error", "forget"}, id : 0 .. MaxCalls, arg : 1 .. MaxCalls]

\* A call under way has an id that the counter has given out since the node last started,
\* and shares it with no other.
CallIdInv ==
  /\ callCounter <= begun
  /\ \A u \in RemoteCallers : Calling(u) => caller[u].id \in 1 .. callCounter /\ caller[u].arg \in 1 .. begun
  /\ \A u, v \in RemoteCallers : Calling(u) /\ Calling(v) /\ caller[u].id = caller[v].id => u = v

TypeInv == RemoteTypeOK /\ net \subseteq Messages /\ serving \subseteq Messages

\* Until a restart, every message under a call's id carries the argument of that call, and
\* what its channels hold answers it.
MessageInv ==
  \A m \in net \cup serving :
    /\ m.id <= callCounter
    /\ m.type = "result" => m.arg \in served
    /\ \A u \in RemoteCallers : Calling(u) /\ caller[u].id = m.id => m.arg = caller[u].arg

ChannelInv ==
  \A u \in RemoteCallers : Calling(u) =>
    /\ pendingCalls[caller[u].id].result \in {0, caller[u].arg}
    /\ pendingCalls[caller[u].id].error \in {0, caller[u].arg}
    /\ pendingCalls[caller[u].id].result # 0 => caller[u].arg \in served

AnswerInv == restarted \/ (MessageInv /\ ChannelInv)

RemoteInv == TypeInv /\ CallIdInv /\ PendingAreCalling /\ AnswerInv /\ OwnAnswer

----------------------------------------------------------------------------

\* A new service has no call under way.
LEMMA InitRemote == NewRemoteService => RemoteInv
  <1> SUFFICES ASSUME NewRemoteService PROVE RemoteInv
    BY Zenon
  <1> USE RemoteAssumption
  <1>1. DOMAIN pendingCalls = {}
    BY Zenon DEF NewRemoteService, NonePending
  <1>2. \A u \in RemoteCallers : caller[u].pc = "idle" /\ caller[u].out = "none"
    BY Zenon DEF NewRemoteService, NoCalls
  <1>3. caller \in [RemoteCallers -> CallRecords]
    BY DEF NewRemoteService, NoCalls, CallRecords
  <1>4. handlers \in BOOLEAN /\ restarted \in BOOLEAN
    BY Zenon DEF NewRemoteService
  <1>5. TypeInv
    BY <1>1, <1>3, <1>4 DEF NewRemoteService, TypeInv, RemoteTypeOK
  <1>6. CallIdInv /\ PendingAreCalling
    BY <1>1, <1>2 DEF NewRemoteService, CallIdInv, PendingAreCalling, Calling
  <1>7. AnswerInv /\ OwnAnswer
    BY <1>2, Zenon DEF NewRemoteService, AnswerInv, MessageInv, ChannelInv, OwnAnswer, Calling
  <1> QED  BY <1>5, <1>6, <1>7, Zenon DEF RemoteInv

\* The calls that are pending, one by one.
LEMMA PendingIds ==
  /\ PendingAreCalling => \A j : j \in DOMAIN pendingCalls <=> \E v \in RemoteCallers : Calling(v) /\ j = caller[v].id
  /\ (\A j : j \in DOMAIN pendingCalls' <=> \E v \in RemoteCallers : Calling(v)' /\ j = caller'[v].id)
       => PendingAreCalling'
  <1>1. PendingAreCalling => \A j : j \in DOMAIN pendingCalls <=> \E v \in RemoteCallers : Calling(v) /\ j = caller[v].id
    BY Zenon DEF PendingAreCalling, Calling
  <1> DEFINE S == {caller'[v].id : v \in {w \in RemoteCallers : caller'[w].pc # "idle"}}
  <1>2. \A j : j \in S <=> \E v \in RemoteCallers : Calling(v)' /\ j = caller'[v].id
    BY Zenon DEF Calling
  <1>3. PendingAreCalling' <=> DOMAIN pendingCalls' = S
    BY Zenon DEF PendingAreCalling
  <1> HIDE DEF S
  <1> QED  BY <1>1, <1>2, <1>3, Zenon

\* A new call takes an id that no call under way and no message has.
LEMMA CallStep == ASSUME RemoteInv, NEW u \in RemoteCallers, Call(u) PROVE RemoteInv'
  <1> USE RemoteAssumption
  <1> DEFINE i == callCounter + 1
             a == begun + 1
             rec == [pc |-> "send", id |-> i, arg |-> a, out |-> "none", from |-> 0]
  <1>1. /\ caller[u].pc = "idle" /\ begun < MaxCalls /\ begun' = a /\ callCounter' = i
        /\ caller' = [caller EXCEPT ![u] = rec]
        /\ UNCHANGED <<net, handlers, serving, served, restarted>>
    BY Zenon DEF Call, generateCallID
  <1>2. /\ DOMAIN pendingCalls' = DOMAIN pendingCalls \cup {i}
        /\ pendingCalls'[i] = [result |-> 0, error |-> 0]
        /\ \A j \in DOMAIN pendingCalls : j # i => pendingCalls'[j] = pendingCalls[j]
    BY Zenon DEF Call, generateCallID
  <1>3. RemoteTypeOK /\ TypeInv /\ CallIdInv /\ PendingAreCalling /\ AnswerInv /\ OwnAnswer
    BY Zenon DEF RemoteInv, TypeInv
  <1>4. i \in 1 .. MaxCalls /\ a \in 1 .. MaxCalls /\ i <= a /\ callCounter \in Nat /\ begun \in Nat
    BY <1>1, <1>3 DEF RemoteTypeOK, CallIdInv
  <1>5. /\ caller'[u] = rec /\ Calling(u)' /\ ~Calling(u)
        /\ \A v \in RemoteCallers \ {u} : caller'[v] = caller[v] /\ Calling(v)' = Calling(v)
    BY <1>1, <1>3, Zenon DEF RemoteTypeOK, Calling
  <1>6. TypeInv'
    <2>1. caller' \in [RemoteCallers -> CallRecords]
      <3>1. rec \in CallRecords
        BY <1>4 DEF CallRecords
      <3> HIDE DEF rec
      <3> QED  BY <1>1, <1>3, <3>1, Zenon DEF RemoteTypeOK
    <2>2. /\ DOMAIN pendingCalls' \subseteq CallIds
          /\ \A j \in DOMAIN pendingCalls' : pendingCalls'[j] \in [result : 0 .. MaxCalls, error : 0 .. MaxCalls]
      BY <1>2, <1>3, <1>4 DEF RemoteTypeOK, CallIds
    <2>3. \A m \in net \cup serving : m.arg \in 1 .. a
      BY <1>3, <1>4 DEF RemoteTypeOK
    <2>4. callCounter' \in 0 .. MaxCalls /\ begun' \in 0 .. MaxCalls
      BY <1>1, <1>4
    <2>5. \A m \in net' \cup serving' : m.arg \in 1 .. begun'
      BY <1>1, <2>3, Zenon
    <2> HIDE DEF i, a, rec
    <2> QED  BY <1>1, <1>3, <2>1, <2>2, <2>4, <2>5, Zenon DEF TypeInv, RemoteTypeOK
  <1>7. CallIdInv'
    BY <1>1, <1>3, <1>4, <1>5 DEF CallIdInv
  <1>8. PendingAreCalling'
    <2>1. \A j : j \in DOMAIN pendingCalls <=> \E v \in RemoteCallers : Calling(v) /\ j = caller[v].id
      BY <1>3, PendingIds, Zenon
    <2>2. caller'[u].id = i
      BY <1>5
    <2> HIDE DEF i, a, rec
    <2>3. \A j : j \in DOMAIN pendingCalls' <=> \E v \in RemoteCallers : Calling(v)' /\ j = caller'[v].id
      BY <1>2, <1>5, <2>1, <2>2
    <2> QED  BY <2>3, PendingIds, Zenon
  <1>9. AnswerInv'
    <2> SUFFICES ASSUME ~restarted PROVE MessageInv' /\ ChannelInv'
      BY <1>1, Zenon DEF AnswerInv
    <2>1. MessageInv'
      <3>1. \A m \in net \cup serving : m.id \in Nat /\ m.id <= callCounter
        BY <1>1, <1>3 DEF MessageInv, AnswerInv, TypeInv, Messages
      <3>2. \A m \in net \cup serving : m.id <= i /\ m.id # caller'[u].id
        BY <1>4, <1>5, <3>1
      <3>3. MessageInv
        BY <1>1, <1>3, Zenon DEF AnswerInv
      <3> HIDE DEF i, a, rec
      <3> QED  BY <1>1, <1>5, <3>2, <3>3 DEF MessageInv
    <2>2. \A v \in RemoteCallers \ {u} : Calling(v) => caller[v].id \in DOMAIN pendingCalls /\ caller[v].id # i
      BY <1>3, <1>4, SMTT(30) DEF CallIdInv, PendingAreCalling, Calling
    <2>3. ChannelInv'
      BY <1>1, <1>2, <1>3, <1>5, <2>2 DEF ChannelInv, AnswerInv
    <2> QED  BY <2>1, <2>3, Zenon
  <1>10. OwnAnswer'
    BY <1>1, <1>3, <1>5 DEF OwnAnswer
  <1> QED  BY <1>6, <1>7, <1>8, <1>9, <1>10, Zenon DEF RemoteInv

\* A call that ends takes its own entry with it, and no other's.
LEMMA CallEndsStep ==
  ASSUME RemoteInv, NEW u \in RemoteCallers, Calling(u), NEW out, NEW from, CallEnds(u, out, from),
         out \in {"result", "error", "send", "timeout"}, from \in 0 .. MaxCalls,
         restarted \/ (out \in {"result", "error"} => from = caller[u].arg),
         restarted \/ (out = "result" => caller[u].arg \in served)
  PROVE  RemoteInv'
  <1> USE RemoteAssumption
  <1> DEFINE i == caller[u].id
  <1>1. /\ DOMAIN pendingCalls' = DOMAIN pendingCalls \ {i}
        /\ \A j \in DOMAIN pendingCalls \ {i} : pendingCalls'[j] = pendingCalls[j]
        /\ UNCHANGED <<callCounter, begun, net, handlers, serving, served, restarted>>
    BY Zenon DEF CallEnds, DropCall
  <1>2. RemoteTypeOK /\ TypeInv /\ CallIdInv /\ PendingAreCalling /\ AnswerInv /\ OwnAnswer
    BY Zenon DEF RemoteInv, TypeInv
  <1>3. /\ caller'[u] = [pc |-> "idle", id |-> i, arg |-> caller[u].arg, out |-> out, from |-> from]
        /\ \A v \in RemoteCallers \ {u} : caller'[v] = caller[v]
        /\ caller' = [v \in RemoteCallers |-> caller'[v]]
    BY <1>2, ZenonT(30) DEF RemoteTypeOK, CallRecords, CallEnds
  <1>4. TypeInv'
    <2>1. caller'[u] \in CallRecords
      BY <1>2, <1>3 DEF RemoteTypeOK, CallRecords
    <2>2. caller' \in [RemoteCallers -> CallRecords]
      BY <1>2, <1>3, <2>1, Zenon DEF RemoteTypeOK
    <2> QED  BY <1>1, <1>2, <2>2, Zenon DEF TypeInv, RemoteTypeOK
  <1>5. CallIdInv'
    BY <1>1, <1>2, <1>3 DEF CallIdInv, Calling
  <1>6. PendingAreCalling'
    <2>1. \A v \in RemoteCallers \ {u} : Calling(v) => caller[v].id # i
      BY <1>2, Zenon DEF CallIdInv
    <2>2. \A j : j \in DOMAIN pendingCalls <=> \E v \in RemoteCallers : Calling(v) /\ j = caller[v].id
      BY <1>2, PendingIds, Zenon
    <2>3. \A j : j \in DOMAIN pendingCalls' <=> \E v \in RemoteCallers : Calling(v)' /\ j = caller'[v].id
      BY <1>1, <1>3, <2>1, <2>2 DEF Calling
    <2> QED  BY <2>3, PendingIds, Zenon
  <1>7. AnswerInv'
    <2>1. \A v \in RemoteCallers \ {u} : Calling(v) => pendingCalls'[caller[v].id] = pendingCalls[caller[v].id]
      BY <1>1, <1>2, Zenon DEF CallIdInv, PendingAreCalling, Calling
    <2> SUFFICES ASSUME ~restarted PROVE MessageInv' /\ ChannelInv'
      BY <1>1, Zenon DEF AnswerInv
    <2>2. MessageInv /\ ChannelInv
      BY <1>2, Zenon DEF AnswerInv
    <2>3. MessageInv'
      BY <1>1, <1>3, <2>2 DEF MessageInv, Calling
    <2>4. ChannelInv'
      BY <1>1, <1>3, <2>1, <2>2 DEF ChannelInv, Calling
    <2> QED  BY <2>3, <2>4, Zenon
  <1>8. OwnAnswer'
    <2> SUFFICES ASSUME ~restarted, NEW v \in RemoteCallers
                 PROVE  /\ caller'[v].out \in {"result", "error"} => caller'[v].from = caller'[v].arg
                        /\ caller'[v].out = "result" => caller'[v].arg \in served
      BY <1>1, Zenon DEF OwnAnswer
    <2> QED  BY <1>2, <1>3 DEF OwnAnswer
  <1> QED  BY <1>4, <1>5, <1>6, <1>7, <1>8, Zenon DEF RemoteInv

\* A request carries the id and the argument of its call.
LEMMA SendMessageStep == ASSUME RemoteInv, NEW u \in RemoteCallers, CallSend(u) PROVE RemoteInv'
  <1> USE RemoteAssumption
  <1> DEFINE n == [type |-> "call", id |-> caller[u].id, arg |-> caller[u].arg]
  <1>1. /\ net' = net \cup {n} /\ Calling(u)
        /\ UNCHANGED <<callCounter, begun, pendingCalls, handlers, serving, served, restarted>>
    BY Zenon DEF CallSend, Calling
  <1>2. RemoteTypeOK /\ TypeInv /\ CallIdInv /\ PendingAreCalling /\ AnswerInv /\ OwnAnswer
    BY Zenon DEF RemoteInv, TypeInv
  <1>3. /\ caller'[u] = [caller[u] EXCEPT !.pc = "wait"]
        /\ \A v \in RemoteCallers \ {u} : caller'[v] = caller[v]
        /\ caller' = [v \in RemoteCallers |-> caller'[v]]
    BY <1>2, Zenon DEF RemoteTypeOK, CallSend
  <1>4. /\ \A v \in RemoteCallers : /\ Calling(v)' = Calling(v) /\ caller'[v].id = caller[v].id
                                    /\ caller'[v].arg = caller[v].arg /\ caller'[v].out = caller[v].out
                                    /\ caller'[v].from = caller[v].from
    BY <1>1, <1>2, <1>3 DEF RemoteTypeOK, CallRecords, Calling
  <1>5. caller[u].id \in 1 .. callCounter /\ caller[u].arg \in 1 .. begun
    BY <1>1, <1>2, Zenon DEF CallIdInv
  <1>6. TypeInv'
    <2>1. caller'[u] \in CallRecords
      BY <1>2, <1>3, Zenon DEF RemoteTypeOK, CallRecords
    <2>2. caller' \in [RemoteCallers -> CallRecords]
      BY <1>2, <1>3, <2>1, Zenon DEF RemoteTypeOK
    <2>3. n \in Messages
      BY <1>2, <1>5 DEF Messages, RemoteTypeOK
    <2>4. n.arg \in 1 .. begun
      BY <1>5, Zenon
    <2> HIDE DEF n
    <2>5. /\ \A m \in net' \cup serving' : m.arg \in 1 .. begun'
          /\ net' \subseteq Messages /\ serving' \subseteq Messages
      BY <1>1, <1>2, <2>3, <2>4, Zenon DEF TypeInv, RemoteTypeOK
    <2> QED  BY <1>1, <1>2, <2>2, <2>5, Zenon DEF TypeInv, RemoteTypeOK
  <1>7. CallIdInv'
    BY <1>1, <1>2, <1>4 DEF CallIdInv
  <1>8. PendingAreCalling'
    <2>1. \A j : j \in DOMAIN pendingCalls <=> \E v \in RemoteCallers : Calling(v) /\ j = caller[v].id
      BY <1>2, PendingIds, Zenon
    <2>2. \A j : j \in DOMAIN pendingCalls' <=> \E v \in RemoteCallers : Calling(v)' /\ j = caller'[v].id
      BY <1>1, <1>4, <2>1
    <2> QED  BY <2>2, PendingIds, Zenon
  <1>9. AnswerInv'
    <2> SUFFICES ASSUME ~restarted PROVE MessageInv' /\ ChannelInv'
      BY <1>1, Zenon DEF AnswerInv
    <2>1. MessageInv /\ ChannelInv
      BY <1>2, Zenon DEF AnswerInv
    <2>2. \A v \in RemoteCallers : Calling(v) /\ caller[v].id = n.id => n.arg = caller[v].arg
      BY <1>1, <1>2, Zenon DEF CallIdInv
    <2>3. MessageInv'
      <3>1. n.id <= callCounter /\ n.type # "result"
        BY <1>2, <1>5 DEF RemoteTypeOK
      <3> HIDE DEF n
      <3> QED  BY <1>1, <1>4, <2>1, <2>2, <3>1 DEF MessageInv
    <2>4. ChannelInv'
      BY <1>1, <1>4, <2>1, Zenon DEF ChannelInv
    <2> QED  BY <2>3, <2>4, Zenon
  <1>10. OwnAnswer'
    BY <1>1, <1>2, <1>4 DEF OwnAnswer
  <1> QED  BY <1>6, <1>7, <1>8, <1>9, <1>10, Zenon DEF RemoteInv

\* An answer reaches the call of its id and fills a channel that is empty.
LEMMA ReplyStep ==
  ASSUME RemoteInv, NEW m \in net, handleRemoteReply(m), UNCHANGED net PROVE RemoteInv'
  <1> USE RemoteAssumption
  <1>1. /\ DOMAIN pendingCalls' = DOMAIN pendingCalls
        /\ UNCHANGED <<callCounter, begun, caller, handlers, serving, served, restarted>>
    BY Zenon DEF handleRemoteReply
  <1>2. RemoteTypeOK /\ TypeInv /\ CallIdInv /\ PendingAreCalling /\ AnswerInv /\ OwnAnswer
    BY Zenon DEF RemoteInv, TypeInv
  <1>3. \A i \in DOMAIN pendingCalls :
          /\ pendingCalls'[i] \in [result : 0 .. MaxCalls, error : 0 .. MaxCalls]
          /\ pendingCalls'[i].result = pendingCalls[i].result
               \/ (m.type = "result" /\ m.id = i /\ pendingCalls'[i].result = m.arg)
          /\ pendingCalls'[i].error = pendingCalls[i].error
               \/ (m.id = i /\ pendingCalls'[i].error = m.arg)
    <2> SUFFICES ASSUME NEW i \in DOMAIN pendingCalls
                 PROVE  /\ pendingCalls'[i] \in [result : 0 .. MaxCalls, error : 0 .. MaxCalls]
                        /\ pendingCalls'[i].result = pendingCalls[i].result
                             \/ (m.type = "result" /\ m.id = i /\ pendingCalls'[i].result = m.arg)
                        /\ pendingCalls'[i].error = pendingCalls[i].error
                             \/ (m.id = i /\ pendingCalls'[i].error = m.arg)
      BY Zenon
    <2> DEFINE p == pendingCalls[i]
    <2>1. p \in [result : 0 .. MaxCalls, error : 0 .. MaxCalls] /\ m.arg \in 0 .. MaxCalls
      BY <1>2 DEF RemoteTypeOK
    <2>2. pendingCalls'[i] = IF i \notin Awaits(m) THEN p
                             ELSE IF m.type = "result" THEN [p EXCEPT !.result = IF @ = 0 THEN m.arg ELSE @]
                             ELSE [p EXCEPT !.error = IF @ = 0 THEN m.arg ELSE @]
      BY Zenon DEF handleRemoteReply
    <2>3. i \in Awaits(m) => m.id = i
      BY Zenon DEF Awaits
    <2> HIDE DEF p
    <2>4. CASE i \notin Awaits(m)
      BY <2>1, <2>2, <2>4, Zenon DEF p
    <2>5. CASE i \in Awaits(m) /\ m.type = "result"
      BY <2>1, <2>2, <2>3, <2>5, Zenon DEF p
    <2>6. CASE i \in Awaits(m) /\ m.type # "result"
      BY <2>1, <2>2, <2>3, <2>6, Zenon DEF p
    <2> QED  BY <2>4, <2>5, <2>6, Zenon
  <1>4. TypeInv'
    BY <1>1, <1>2, <1>3, Zenon DEF TypeInv, RemoteTypeOK
  <1>5. CallIdInv' /\ PendingAreCalling' /\ OwnAnswer'
    BY <1>1, <1>2, Zenon DEF CallIdInv, PendingAreCalling, OwnAnswer, Calling
  <1>6. AnswerInv'
    <2> SUFFICES ASSUME ~restarted PROVE MessageInv' /\ ChannelInv'
      BY <1>1, Zenon DEF AnswerInv
    <2>1. MessageInv /\ ChannelInv
      BY <1>2, Zenon DEF AnswerInv
    <2>2. MessageInv'
      BY <1>1, <2>1, Zenon DEF MessageInv, Calling
    <2>3. \A u \in RemoteCallers : Calling(u) => caller[u].id \in DOMAIN pendingCalls
      BY <1>2, Zenon DEF PendingAreCalling, Calling
    <2>4. \A u \in RemoteCallers : Calling(u) /\ caller[u].id = m.id =>
            m.arg = caller[u].arg /\ (m.type = "result" => m.arg \in served)
      BY <2>1, Zenon DEF MessageInv
    <2>5. ChannelInv'
      BY <1>1, <1>3, <2>1, <2>3, <2>4 DEF ChannelInv, Calling
    <2> QED  BY <2>2, <2>5, Zenon
  <1> QED  BY <1>4, <1>5, <1>6, Zenon DEF RemoteInv

\* Steps that leave the calls alone: messages are kept, answered in their own name, or
\* belong to no call.
LEMMA OtherStep ==
  ASSUME RemoteInv, UNCHANGED <<callCounter, caller, pendingCalls, restarted>>,
         begun' \in begun .. MaxCalls, handlers' \in BOOLEAN,
         served \subseteq served', served' \subseteq 1 .. MaxCalls,
         \A n \in net' \cup serving' :
           /\ n \in Messages
           /\ \/ n \in net \cup serving
              \/ n.type = "forget" /\ n.id = 0 /\ n.arg <= begun'
              \/ \E m \in net \cup serving :
                   n.id = m.id /\ n.arg = m.arg /\ (n.type = "result" => n.arg \in served')
  PROVE  RemoteInv'
  <1> USE RemoteAssumption
  <1>1. RemoteTypeOK /\ TypeInv /\ CallIdInv /\ PendingAreCalling /\ AnswerInv /\ OwnAnswer
    BY Zenon DEF RemoteInv, TypeInv
  <1>2. callCounter \in Nat /\ begun \in Nat /\ begun' \in Nat /\ begun <= begun' /\ begun' <= MaxCalls
    BY <1>1 DEF RemoteTypeOK
  <1>3. TypeInv'
    <2>1. \A n \in net' \cup serving' : n.arg \in 1 .. begun'
      BY <1>1, <1>2 DEF RemoteTypeOK, Messages
    <2> QED  BY <1>1, <1>2, <2>1 DEF TypeInv, RemoteTypeOK
  <1>4. CallIdInv'
    BY <1>1, <1>2 DEF CallIdInv, Calling
  <1>5. PendingAreCalling' /\ OwnAnswer'
    BY <1>1, Zenon DEF PendingAreCalling, OwnAnswer
  <1>6. AnswerInv'
    <2> SUFFICES ASSUME ~restarted PROVE MessageInv' /\ ChannelInv'
      BY Zenon DEF AnswerInv
    <2>1. MessageInv /\ ChannelInv
      BY <1>1, Zenon DEF AnswerInv
    <2>2. \A u \in RemoteCallers : Calling(u) => caller[u].id # 0
      BY <1>1, <1>2 DEF CallIdInv
    <2>3. MessageInv'
      <3> SUFFICES ASSUME NEW n \in net' \cup serving'
                   PROVE  /\ n.id <= callCounter
                          /\ n.type = "result" => n.arg \in served'
                          /\ \A u \in RemoteCallers : Calling(u) /\ caller[u].id = n.id => n.arg = caller[u].arg
        BY Zenon DEF MessageInv, Calling
      <3>1. CASE n \in net \cup serving
        BY <2>1, <3>1, Zenon DEF MessageInv
      <3>2. CASE n.type = "forget" /\ n.id = 0
        BY <1>2, <2>2, <3>2
      <3>3. ASSUME NEW m \in net \cup serving, n.id = m.id, n.arg = m.arg, n.type = "result" => n.arg \in served'
            PROVE  /\ n.id <= callCounter
                   /\ n.type = "result" => n.arg \in served'
                   /\ \A u \in RemoteCallers : Calling(u) /\ caller[u].id = n.id => n.arg = caller[u].arg
        BY <2>1, <3>3, Zenon DEF MessageInv
      <3> QED  BY <3>1, <3>2, <3>3, Zenon
    <2>4. ChannelInv'
      BY <2>1, Zenon DEF ChannelInv, Calling
    <2> QED  BY <2>3, <2>4, Zenon
  <1> QED  BY <1>3, <1>4, <1>5, <1>6, Zenon DEF RemoteInv

\* A restarted node has no calls.
LEMMA RestartStep == ASSUME RemoteInv, Restart PROVE RemoteInv'
  <1> USE RemoteAssumption
  <1>1. /\ callCounter' = 0 /\ restarted' = TRUE /\ UNCHANGED <<begun, net, handlers, serving, served>>
        /\ DOMAIN pendingCalls' = {}
        /\ caller' = [u \in RemoteCallers |-> [pc |-> "idle", id |-> 0, arg |-> 0, out |-> "none", from |-> 0]]
    BY Zenon DEF Restart, NonePending, NoCalls
  <1>2. RemoteTypeOK /\ TypeInv
    BY Zenon DEF RemoteInv, TypeInv
  <1>3. \A u \in RemoteCallers : caller'[u].pc = "idle"
    BY <1>1, Zenon
  <1>4. caller' \in [RemoteCallers -> CallRecords]
    BY <1>1 DEF CallRecords
  <1>5. TypeInv'
    BY <1>1, <1>2, <1>4 DEF TypeInv, RemoteTypeOK
  <1>6. CallIdInv' /\ PendingAreCalling'
    <2>1. CallIdInv'
      BY <1>1, <1>2, <1>3 DEF CallIdInv, Calling, RemoteTypeOK
    <2>2. PendingAreCalling'
      BY <1>1, <1>3, PendingIds, Zenon DEF Calling
    <2> QED  BY <2>1, <2>2, Zenon
  <1>7. AnswerInv' /\ OwnAnswer'
    BY <1>1, Zenon DEF AnswerInv, OwnAnswer
  <1> QED  BY <1>5, <1>6, <1>7, Zenon DEF RemoteInv

\* Whatever message arrives, and however often.
LEMMA MessageStep == ASSUME RemoteInv, NEW m \in net, HandleMessage(m) PROVE RemoteInv'
  <1>1. RemoteTypeOK /\ net \subseteq Messages /\ serving \subseteq Messages /\ m \in Messages
    BY Zenon DEF RemoteInv, TypeInv
  <1>2. begun \in begun .. MaxCalls /\ handlers \in BOOLEAN /\ served \subseteq 1 .. MaxCalls
    BY <1>1, RemoteAssumption DEF RemoteTypeOK
  <1>3. CASE ServiceNotFound(m)
    <2>1. [type |-> "error", id |-> m.id, arg |-> m.arg] \in Messages
      BY <1>1, Zenon DEF Messages
    <2> QED  BY <1>1, <1>2, <1>3, <2>1, OtherStep DEF ServiceNotFound, sendErrorResponse, Respond
  <1>4. CASE handleRemoteCall(m) /\ UNCHANGED net
    BY <1>1, <1>2, <1>4, OtherStep, Zenon DEF handleRemoteCall
  <1>5. CASE handleRemoteReply(m) /\ UNCHANGED net
    BY <1>5, ReplyStep, Zenon
  <1>6. CASE handleFireAndForget(m) /\ UNCHANGED net
    <2>1. served' \in {served, served \cup {m.arg}} /\ m.arg \in 1 .. MaxCalls
      BY <1>1, <1>6, Zenon DEF handleFireAndForget, Messages
    <2> QED  BY <1>1, <1>2, <1>6, <2>1, OtherStep, Zenon DEF handleFireAndForget
  <1> QED  BY <1>3, <1>4, <1>5, <1>6, Zenon DEF HandleMessage

\* Whatever a handler of the serving node does.
LEMMA ServingStep ==
  ASSUME RemoteInv, NEW m \in serving, sendSuccessResponse(m) \/ HandlerFails(m) PROVE RemoteInv'
  <1>1. RemoteTypeOK /\ net \subseteq Messages /\ serving \subseteq Messages /\ m \in Messages
    BY Zenon DEF RemoteInv, TypeInv
  <1>2. begun \in begun .. MaxCalls /\ handlers \in BOOLEAN /\ served \subseteq 1 .. MaxCalls
    BY <1>1, RemoteAssumption DEF RemoteTypeOK
  <1>3. m.arg \in 1 .. MaxCalls /\ \A t \in {"result", "error"} : [type |-> t, id |-> m.id, arg |-> m.arg] \in Messages
    BY <1>1, Zenon DEF Messages
  <1>4. CASE sendSuccessResponse(m)
    BY <1>1, <1>2, <1>3, <1>4, OtherStep DEF sendSuccessResponse, Respond
  <1>5. CASE HandlerFails(m)
    BY <1>1, <1>2, <1>3, <1>5, OtherStep DEF HandlerFails, sendErrorResponse, Respond
  <1> QED  BY <1>4, <1>5, Zenon

\* Every step keeps the invariant.
LEMMA RemoteStep == ASSUME RemoteInv, [RemoteNext]_remoteVars PROVE RemoteInv'
  <1>1. CASE UNCHANGED remoteVars
    BY <1>1, ZenonT(30) DEF remoteVars, RemoteInv, TypeInv, RemoteTypeOK, CallIdInv, PendingAreCalling, AnswerInv,
                MessageInv, ChannelInv, OwnAnswer, Calling
  <1>2. ASSUME NEW u \in RemoteCallers, CallFails(u) \/ CallTimesOut(u)
        PROVE  RemoteInv'
    <2>1. Calling(u) /\ 0 \in 0 .. MaxCalls
      BY <1>2, RemoteAssumption DEF CallFails, CallTimesOut, Calling
    <2>2. CallEnds(u, "send", 0) \/ CallEnds(u, "timeout", 0)
      BY <1>2, Zenon DEF CallFails, CallTimesOut
    <2> QED  BY <2>1, <2>2, CallEndsStep, Zenon
  <1>3. ASSUME NEW u \in RemoteCallers, CallAnswered(u)
        PROVE  RemoteInv'
    <2> DEFINE p == pendingCalls[caller[u].id]
    <2>1. Calling(u)
      BY <1>3, Zenon DEF CallAnswered, Calling
    <2>2. caller[u].id \in DOMAIN pendingCalls
      BY <2>1, Zenon DEF RemoteInv, PendingAreCalling, Calling
    <2>3. p.result \in 0 .. MaxCalls /\ p.error \in 0 .. MaxCalls
      BY <2>2, Zenon DEF RemoteInv, TypeInv, RemoteTypeOK
    <2>4. /\ restarted \/ (p.result # 0 => p.result = caller[u].arg /\ caller[u].arg \in served)
          /\ restarted \/ (p.error # 0 => p.error = caller[u].arg)
      BY <2>1, Zenon DEF RemoteInv, AnswerInv, ChannelInv
    <2>5. \/ p.result # 0 /\ CallEnds(u, "result", p.result)
          \/ p.error # 0 /\ CallEnds(u, "error", p.error)
      BY <1>3, Zenon DEF CallAnswered
    <2> HIDE DEF p
    <2> QED  BY <2>1, <2>3, <2>4, <2>5, CallEndsStep, Zenon
  <1>4. CASE SendRemote
    <2> DEFINE n == [type |-> "forget", id |-> 0, arg |-> begun + 1]
    <2>1. /\ net \subseteq Messages /\ serving \subseteq Messages /\ begun \in Nat /\ n \in Messages
          /\ handlers \in BOOLEAN /\ served \subseteq 1 .. MaxCalls
      BY <1>4, RemoteAssumption DEF SendRemote, RemoteInv, TypeInv, RemoteTypeOK, Messages
    <2> QED  BY <1>4, <2>1, OtherStep, RemoteAssumption DEF SendRemote
  <1>5. CASE RegisterHandler \/ UnregisterHandler
    <2>1. /\ net \subseteq Messages /\ serving \subseteq Messages /\ begun \in begun .. MaxCalls
          /\ served \subseteq 1 .. MaxCalls
      BY RemoteAssumption DEF RemoteInv, TypeInv, RemoteTypeOK
    <2>2. handlers' \in BOOLEAN
      BY <1>5, Zenon DEF RegisterHandler, UnregisterHandler
    <2> QED  BY <1>5, <2>1, <2>2, OtherStep, Zenon DEF RegisterHandler, UnregisterHandler
  <1> QED
    BY <1>1, <1>2, <1>3, <1>4, <1>5, CallStep, SendMessageStep, RestartStep, MessageStep, ServingStep, Zenon DEF RemoteNext

----------------------------------------------------------------------------

\* So it holds throughout.
LEMMA RemoteSafe == RemoteSpec => []RemoteInv
  BY InitRemote, RemoteStep, PTL DEF RemoteSpec

\* The answer a call returns is its own, for any number of callers and calls and any
\* behaviour of the network and of the other node, until the calling node restarts.
THEOREM AnswersAreOwn == RemoteSpec => []OwnAnswer
  <1>1. RemoteInv => OwnAnswer
    BY Zenon DEF RemoteInv
  <1> QED  BY RemoteSafe, <1>1, PTL

\* The table of pending calls never holds an entry that no call waits for, nor misses one.
THEOREM NoPendingLeft == RemoteSpec => []PendingAreCalling
  <1>1. RemoteInv => PendingAreCalling
    BY Zenon DEF RemoteInv
  <1> QED  BY RemoteSafe, <1>1, PTL

\* The variables keep their types; call ids stay within the number of calls begun.
THEOREM RemoteTypeCorrect == RemoteSpec => []RemoteTypeOK
  <1>1. RemoteInv => RemoteTypeOK
    BY Zenon DEF RemoteInv, TypeInv
  <1> QED  BY RemoteSafe, <1>1, PTL

----------------------------------------------------------------------------

(* Container                                                                *)

Transient(n) == isScoped /\ scopes[n] = "transient"

\* A factory runs, and a goroutine waits for itself, with the mutex held, so that nobody
\* changes what the holder looked at: there is no instance yet, unless none is kept.
HolderInv ==
  \A g \in Users :
    /\ use[g].pc # "idle" => use[g].name \in Names
    /\ use[g].pc = "scope" => use[g].scope \in Scopes
    /\ use[g].pc \in {"factory", "relock"} => holder = g
    /\ use[g].pc = "factory" => Transient(use[g].name) \/ instances[use[g].name] = 0

\* What was given out is the instance that the map holds.
GivenInv == \A n \in Names : given[n] \subseteq {instances[n]} \ {0}

ContainerInv == ContainerTypeOK /\ HolderInv /\ GivenInv

----------------------------------------------------------------------------

\* A new container gives out nothing and nobody holds its mutex.
LEMMA InitContainer == NewContainer => ContainerInv
  <1> SUFFICES ASSUME NewContainer PROVE ContainerInv
    BY Zenon
  <1>1. \A g \in Users : use[g].pc = "idle"
    BY Zenon DEF NewContainer
  <1>2. ContainerTypeOK
    <2>1. isScoped \in BOOLEAN
      BY Zenon DEF NewContainer
    <2>2. use \in [Users -> UseRecords]
      BY Zenon DEF NewContainer, UseRecords
    <2> QED  BY <1>1, <2>1, <2>2, Zenon DEF NewContainer, ContainerTypeOK
  <1>3. HolderInv
    BY <1>1, Zenon DEF HolderInv
  <1>4. GivenInv
    BY Zenon DEF NewContainer, GivenInv
  <1> QED  BY <1>2, <1>3, <1>4, Zenon DEF ContainerInv

\* There is an instance that is new.
LEMMA FreshInstance ==
  ASSUME GivenInv, NEW n \in Names PROVE Fresh(n) \in Instances /\ Fresh(n) # 0 /\ Fresh(n) \notin given[n] \cup {instances[n]}
  <1>1. \E i \in {1, 2} : i \notin given[n] \cup {instances[n]}
    BY DEF GivenInv
  <1>2. {1, 2} \subseteq Instances
    BY DEF Instances
  <1>3. Fresh(n) \in Instances /\ Fresh(n) \notin given[n] \cup {instances[n]}
    BY <1>1, <1>2, Zenon DEF Fresh
  <1> QED  BY <1>3 DEF Instances

\* Steps that change the maps are taken while nobody holds the mutex.
LEMMA FreeStep ==
  ASSUME ContainerInv, holder = "none",
         UNCHANGED <<isScoped, holder, use>>,
         factories' \in [Names -> Factories \cup {"none"}], UNCHANGED scopes,
         instances' \in [Names -> Instances \cup {0}], given' \in [Names -> SUBSET Instances],
         GivenInv'
  PROVE  ContainerInv'
  <1>1. \A g \in Users : use[g].pc \notin {"factory", "relock"}
    BY ContainerAssumption, Zenon DEF ContainerInv, HolderInv
  <1>2. ContainerTypeOK'
    BY <1>1, Zenon DEF ContainerInv, ContainerTypeOK
  <1>3. HolderInv'
    BY <1>1, Zenon DEF ContainerInv, HolderInv
  <1> QED  BY <1>2, <1>3, Zenon DEF ContainerInv

\* A goroutine moves on to record r.  It changes the maps and the mutex only if it holds
\* the mutex or nobody does, and so disturbs no other that has it.
LEMMA MoveStep ==
  ASSUME ContainerInv, NEW g \in Users, NEW r \in UseRecords,
         use'[g] = r, \A q \in Users \ {g} : use'[q] = use[q], use' = [q \in Users |-> use'[q]],
         UNCHANGED isScoped,
         \/ holder \in {"none", g}
         \/ UNCHANGED <<factories, instances, scopes, holder, given>>,
         factories' \in [Names -> Factories \cup {"none"}], scopes' \in [Names -> Scopes \cup {"none"}],
         instances' \in [Names -> Instances \cup {0}], given' \in [Names -> SUBSET Instances],
         holder' \in Users \cup {"none"}, GivenInv',
         r.pc # "idle" => r.name \in Names, r.pc = "scope" => r.scope \in Scopes,
         r.pc \in {"factory", "relock"} => holder' = g,
         r.pc = "factory" => /\ factories'[r.name] \in Factories
                             /\ (isScoped /\ scopes'[r.name] = "transient") \/ instances'[r.name] = 0
  PROVE  ContainerInv'
  <1>1. ContainerTypeOK /\ HolderInv
    BY Zenon DEF ContainerInv
  <1>2. /\ use' \in [Users -> UseRecords] /\ use'[g] = r
        /\ \A q \in Users \ {g} : use'[q] = use[q]
    BY <1>1, Zenon DEF ContainerTypeOK
  <1>3. \A q \in Users \ {g} : use[q].pc \in {"factory", "relock"} =>
          UNCHANGED <<factories, instances, scopes, holder, given>>
    BY <1>1, ContainerAssumption DEF HolderInv
  <1>4. ContainerTypeOK'
    <2>1. isScoped' \in BOOLEAN
      BY <1>1, Zenon DEF ContainerTypeOK
    <2>2. \A q \in Users : use'[q].pc = "factory" => factories'[use'[q].name] \in Factories
      <3>1. \A q \in Users \ {g} : use'[q].pc = "factory" => factories'[use'[q].name] \in Factories
        BY <1>1, <1>2, <1>3, Zenon DEF ContainerTypeOK
      <3>2. use'[g].pc = "factory" => factories'[use'[g].name] \in Factories
        BY <1>2, Zenon
      <3> QED  BY <3>1, <3>2, Zenon
    <2> QED  BY <1>2, <2>1, <2>2, Zenon DEF ContainerTypeOK
  <1>5. HolderInv'
    <2> SUFFICES ASSUME NEW q \in Users
                 PROVE  /\ use'[q].pc # "idle" => use'[q].name \in Names
                        /\ use'[q].pc = "scope" => use'[q].scope \in Scopes
                        /\ use'[q].pc \in {"factory", "relock"} => holder' = q
                        /\ use'[q].pc = "factory" =>
                             (isScoped /\ scopes'[use'[q].name] = "transient") \/ instances'[use'[q].name] = 0
      BY Zenon DEF HolderInv, Transient
    <2>1. CASE q = g
      BY <1>2, <2>1, ZenonT(30) DEF Transient
    <2>2. CASE q # g
      BY <1>1, <1>2, <1>3, <2>2 DEF HolderInv, Transient
    <2> QED  BY <2>1, <2>2, Zenon
  <1> QED  BY <1>4, <1>5, Zenon DEF ContainerInv

\* The records that goroutines move on to.
LEMMA MoveRecords ==
  ASSUME ContainerTypeOK, NEW g \in Users, NEW pc \in {"idle", "scope", "lock", "factory", "relock"}
  PROVE  /\ [pc |-> "idle", name |-> "none", scope |-> "none"] \in UseRecords
         /\ [pc |-> pc, name |-> use[g].name, scope |-> use[g].scope] \in UseRecords
         /\ Return(g) =>
              /\ use'[g] = [pc |-> "idle", name |-> "none", scope |-> "none"]
              /\ (\A q \in Users \ {g} : use'[q] = use[q]) /\ use' = [q \in Users |-> use'[q]]
         /\ GoesOn(g, pc) =>
              /\ use'[g] = [pc |-> pc, name |-> use[g].name, scope |-> use[g].scope]
              /\ (\A q \in Users \ {g} : use'[q] = use[q]) /\ use' = [q \in Users |-> use'[q]]
  <1>1. use[g] \in UseRecords
    BY Zenon DEF ContainerTypeOK
  <1>2. /\ [pc |-> "idle", name |-> "none", scope |-> "none"] \in UseRecords
        /\ [pc |-> pc, name |-> use[g].name, scope |-> use[g].scope] \in UseRecords
    BY <1>1, Zenon DEF UseRecords
  <1>3. Return(g) =>
          /\ use'[g] = [pc |-> "idle", name |-> "none", scope |-> "none"]
          /\ (\A q \in Users \ {g} : use'[q] = use[q]) /\ use' = [q \in Users |-> use'[q]]
    BY Zenon DEF ContainerTypeOK, Return
  <1>4. GoesOn(g, pc) =>
          /\ use'[g] = [pc |-> pc, name |-> use[g].name, scope |-> use[g].scope]
          /\ (\A q \in Users \ {g} : use'[q] = use[q]) /\ use' = [q \in Users |-> use'[q]]
    BY ZenonT(30) DEF ContainerTypeOK, GoesOn, UseRecords
  <1> QED  BY <1>2, <1>3, <1>4, Zenon

\* Nothing but goroutine g's own record changes, and it comes to own nothing.
LEMMA StartStep == ASSUME ContainerInv, NEW g \in Users, NEW n \in Names, Resolve(g, n) PROVE ContainerInv'
  <1> DEFINE r == [pc |-> "lock", name |-> n, scope |-> "none"]
  <1>1. r \in UseRecords /\ use' = [use EXCEPT ![g] = r]
        /\ UNCHANGED <<isScoped, factories, instances, scopes, holder, given>>
    BY Zenon DEF Resolve, UseRecords
  <1>2. ContainerTypeOK /\ GivenInv'
    BY <1>1, Zenon DEF ContainerInv, GivenInv
  <1>3. use'[g] = r /\ (\A q \in Users \ {g} : use'[q] = use[q]) /\ use' = [q \in Users |-> use'[q]]
    BY <1>1, <1>2, Zenon DEF ContainerTypeOK
  <1>4. r.pc = "lock" /\ r.name \in Names
    BY Zenon
  <1> HIDE DEF r
  <1> QED  BY <1>1, <1>2, <1>3, <1>4, MoveStep, Zenon DEF ContainerTypeOK

\* RegisterScoped leaves its scope to be set.
LEMMA RegisterStep ==
  ASSUME ContainerInv, NEW g \in Users, NEW n \in Names, NEW f \in Factories, NEW s \in Scopes,
         RegisterScoped(g, n, f, s)
  PROVE  ContainerInv'
  <1> DEFINE r == [pc |-> "scope", name |-> n, scope |-> s]
  <1>1. ContainerTypeOK /\ GivenInv
    BY Zenon DEF ContainerInv
  <1>2. /\ holder = "none" /\ factories' = [factories EXCEPT ![n] = f]
        /\ UNCHANGED <<isScoped, instances, scopes, holder, given>> /\ use' = [use EXCEPT ![g] = r]
    BY Zenon DEF RegisterScoped, Register
  <1>3. use'[g] = r /\ (\A q \in Users \ {g} : use'[q] = use[q]) /\ use' = [q \in Users |-> use'[q]]
    BY <1>1, <1>2, Zenon DEF ContainerTypeOK
  <1>4. r \in UseRecords /\ r.pc = "scope" /\ r.name \in Names /\ r.scope \in Scopes
    BY Zenon DEF UseRecords
  <1> HIDE DEF r
  <1>5. factories' \in [Names -> Factories \cup {"none"}] /\ GivenInv'
    BY <1>1, <1>2, Zenon DEF ContainerTypeOK, GivenInv
  <1> QED  BY <1>1, <1>2, <1>3, <1>4, <1>5, MoveStep, Zenon DEF ContainerTypeOK

\* The second half of RegisterScoped sets the scope only.
LEMMA ScopeStep == ASSUME ContainerInv, NEW g \in Users, SetScope(g) PROVE ContainerInv'
  <1> DEFINE r == [pc |-> "idle", name |-> "none", scope |-> "none"]
  <1>1. ContainerTypeOK /\ GivenInv /\ HolderInv
    BY Zenon DEF ContainerInv
  <1>2. /\ holder = "none" /\ UNCHANGED <<isScoped, factories, instances, holder, given>> /\ Return(g)
        /\ scopes' = [scopes EXCEPT ![use[g].name] = use[g].scope]
        /\ use[g].name \in Names /\ use[g].scope \in Scopes
    BY <1>1, Zenon DEF SetScope, HolderInv
  <1>3. r \in UseRecords /\ use'[g] = r /\ (\A q \in Users \ {g} : use'[q] = use[q]) /\ use' = [q \in Users |-> use'[q]]
    BY <1>1, <1>2, MoveRecords, Zenon
  <1>4. r.pc = "idle"
    BY Zenon
  <1> HIDE DEF r
  <1>5. scopes' \in [Names -> Scopes \cup {"none"}] /\ GivenInv'
    BY <1>1, <1>2, Zenon DEF ContainerTypeOK, GivenInv
  <1> QED  BY <1>1, <1>2, <1>3, <1>4, <1>5, MoveStep DEF ContainerTypeOK

\* Giving out the instance of the map, or one that is put there, keeps GivenInv.
LEMMA GiveInstance ==
  ASSUME ContainerTypeOK, GivenInv, NEW n \in Names, NEW i \in Instances, Give(n, i),
         \/ ~Transient(n) /\ instances[n] = i /\ UNCHANGED instances
         \/ ~Transient(n) /\ instances[n] = 0 /\ instances' = [instances EXCEPT ![n] = i]
         \/ Transient(n) /\ UNCHANGED instances
  PROVE  /\ GivenInv' /\ given' \in [Names -> SUBSET Instances]
         /\ instances' \in [Names -> Instances \cup {0}]
  <1>1. i # 0
    BY DEF Instances
  <1>2. CASE Transient(n)
    BY <1>2, Zenon DEF Give, Transient, GivenInv, ContainerTypeOK
  <1>3. CASE ~Transient(n)
    <2>1. given' = [given EXCEPT ![n] = @ \cup {i}]
      BY <1>3, Zenon DEF Give, Transient
    <2>2. given' \in [Names -> SUBSET Instances] /\ instances' \in [Names -> Instances \cup {0}]
      BY <1>3, <2>1, Zenon DEF ContainerTypeOK
    <2>3. instances'[n] = i /\ given[n] \subseteq {i} /\ \A m \in Names \ {n} : instances'[m] = instances[m]
      BY <1>3, Zenon DEF ContainerTypeOK, GivenInv
    <2>4. given'[n] = given[n] \cup {i} /\ \A m \in Names \ {n} : given'[m] = given[m]
      BY <2>1, Zenon DEF ContainerTypeOK
    <2>5. GivenInv'
      BY <1>1, <2>3, <2>4, Zenon DEF GivenInv
    <2> QED  BY <2>2, <2>5, Zenon
  <1> QED  BY <1>2, <1>3, Zenon

\* Resolve with the mutex in hand.
LEMMA LockedStep == ASSUME ContainerInv, NEW g \in Users, ResolveLocked(g) PROVE ContainerInv'
  <1> DEFINE n == use[g].name
             idle == [pc |-> "idle", name |-> "none", scope |-> "none"]
             to(pc) == [pc |-> pc, name |-> use[g].name, scope |-> use[g].scope]
  <1>1. ContainerTypeOK /\ GivenInv /\ HolderInv
    BY Zenon DEF ContainerInv
  <1>2. n \in Names /\ holder = "none" /\ UNCHANGED <<isScoped, factories, instances, scopes>>
    BY <1>1, Zenon DEF ResolveLocked, HolderInv
  <1>3. idle \in UseRecords /\ to("relock") \in UseRecords /\ to("factory") \in UseRecords
    BY <1>1, MoveRecords, Zenon
  <1>4. /\ idle.pc = "idle" /\ to("relock").pc = "relock" /\ to("relock").name = n
        /\ to("factory").pc = "factory" /\ to("factory").name = n
    BY Zenon
  <1>5. CASE ResolvesTwice(n) /\ GoesOn(g, "relock") /\ holder' = g /\ UNCHANGED given
    <2>1. /\ use'[g] = to("relock")
          /\ (\A q \in Users \ {g} : use'[q] = use[q]) /\ use' = [q \in Users |-> use'[q]]
      BY <1>1, <1>5, MoveRecords, Zenon
    <2>2. GivenInv'
      BY <1>1, <1>2, <1>5, Zenon DEF GivenInv
    <2> HIDE DEF to, n, idle
    <2> QED  BY <1>1, <1>2, <1>3, <1>4, <1>5, <2>1, <2>2, MoveStep DEF ContainerTypeOK
  <1>6. CASE ~Transient(n) /\ instances[n] # 0 /\ Return(g) /\ Give(n, instances[n]) /\ UNCHANGED holder
    <2>1. use'[g] = idle /\ (\A q \in Users \ {g} : use'[q] = use[q]) /\ use' = [q \in Users |-> use'[q]]
      BY <1>1, <1>6, MoveRecords, Zenon
    <2>2. instances[n] \in Instances
      BY <1>1, <1>2, <1>6, Zenon DEF ContainerTypeOK
    <2> HIDE DEF to, n, idle
    <2>3. GivenInv' /\ given' \in [Names -> SUBSET Instances]
      BY <1>1, <1>2, <1>6, <2>2, GiveInstance, ZenonT(30)
    <2> QED  BY <1>1, <1>2, <1>3, <1>4, <1>6, <2>1, <2>3, MoveStep DEF ContainerTypeOK
  <1>7. CASE ResolveUnknown(g)
    <2>1. use'[g] = idle /\ (\A q \in Users \ {g} : use'[q] = use[q]) /\ use' = [q \in Users |-> use'[q]]
      BY <1>1, <1>7, MoveRecords, Zenon DEF ResolveUnknown
    <2>2. UNCHANGED <<holder, given>> /\ GivenInv'
      BY <1>1, <1>2, <1>7, Zenon DEF ResolveUnknown, GivenInv
    <2> HIDE DEF to, n, idle
    <2> QED  BY <1>1, <1>2, <1>3, <1>4, <2>1, <2>2, MoveStep DEF ContainerTypeOK
  <1>8. CASE (Transient(n) \/ instances[n] = 0) /\ factories[n] # "none" /\ RunFactory(g)
    <2>1. /\ use'[g] = to("factory")
          /\ (\A q \in Users \ {g} : use'[q] = use[q]) /\ use' = [q \in Users |-> use'[q]]
      BY <1>1, <1>8, MoveRecords, Zenon DEF RunFactory
    <2>2. holder' = g /\ UNCHANGED given /\ GivenInv'
      BY <1>1, <1>2, <1>8, Zenon DEF RunFactory, GivenInv
    <2>3. factories'[n] \in Factories /\ ((isScoped /\ scopes'[n] = "transient") \/ instances'[n] = 0)
      BY <1>1, <1>2, <1>8, Zenon DEF ContainerTypeOK, Transient
    <2> HIDE DEF to, n, idle
    <2> QED  BY <1>1, <1>2, <1>3, <1>4, <2>1, <2>2, <2>3, MoveStep DEF ContainerTypeOK
  <1> QED  BY <1>5, <1>6, <1>7, <1>8, Zenon DEF ResolveLocked, Transient


\* The factory's steps.  Its goroutine holds the mutex, so what it returns is put where
\* there is nothing, or kept by nobody.
LEMMA FactoryStep ==
  ASSUME ContainerInv, NEW g \in Users, FactoryLocks(g) \/ FactoryFails(g) \/ FactoryReturns(g) PROVE ContainerInv'
  <1> DEFINE n == use[g].name
             idle == [pc |-> "idle", name |-> "none", scope |-> "none"]
             to(pc) == [pc |-> pc, name |-> use[g].name, scope |-> use[g].scope]
  <1>1. ContainerTypeOK /\ GivenInv /\ HolderInv
    BY Zenon DEF ContainerInv
  <1>2. /\ n \in Names /\ holder = g /\ UNCHANGED <<isScoped, factories, scopes>>
        /\ Transient(n) \/ instances[n] = 0
    BY <1>1, Zenon DEF FactoryLocks, FactoryFails, FactoryReturns, HolderInv
  <1>3. idle \in UseRecords /\ to("relock") \in UseRecords
    BY <1>1, MoveRecords, Zenon
  <1>4. idle.pc = "idle" /\ to("relock").pc = "relock" /\ to("relock").name = n
    BY Zenon
  <1>5. CASE FactoryLocks(g)
    <2>1. /\ use'[g] = to("relock")
          /\ (\A q \in Users \ {g} : use'[q] = use[q]) /\ use' = [q \in Users |-> use'[q]]
      BY <1>1, <1>5, MoveRecords, Zenon DEF FactoryLocks
    <2>2. UNCHANGED <<instances, holder, given>> /\ GivenInv'
      BY <1>1, <1>5, Zenon DEF FactoryLocks, GivenInv
    <2> HIDE DEF to, n, idle
    <2> QED  BY <1>1, <1>2, <1>3, <1>4, <2>1, <2>2, MoveStep DEF ContainerTypeOK
  <1>6. CASE FactoryFails(g)
    <2>1. use'[g] = idle /\ (\A q \in Users \ {g} : use'[q] = use[q]) /\ use' = [q \in Users |-> use'[q]]
      BY <1>1, <1>6, MoveRecords, Zenon DEF FactoryFails
    <2>2. holder' = "none" /\ UNCHANGED <<instances, given>> /\ GivenInv'
      BY <1>1, <1>6, Zenon DEF FactoryFails, GivenInv
    <2> HIDE DEF to, n, idle
    <2> QED  BY <1>1, <1>2, <1>3, <1>4, <2>1, <2>2, MoveStep, Zenon DEF ContainerTypeOK
  <1>7. CASE FactoryReturns(g)
    <2>1. use'[g] = idle /\ (\A q \in Users \ {g} : use'[q] = use[q]) /\ use' = [q \in Users |-> use'[q]]
      BY <1>1, <1>7, MoveRecords, Zenon DEF FactoryReturns
    <2>2. /\ holder' = "none" /\ Give(n, Fresh(n))
          /\ instances' = IF Transient(n) THEN instances ELSE [instances EXCEPT ![n] = Fresh(n)]
      BY <1>7, Zenon DEF FactoryReturns, Transient
    <2>3. Fresh(n) \in Instances
      BY <1>1, <1>2, FreshInstance, Zenon
    <2> HIDE DEF to, n, idle
    <2>4. /\ GivenInv' /\ given' \in [Names -> SUBSET Instances]
          /\ instances' \in [Names -> Instances \cup {0}]
      BY <1>1, <1>2, <2>2, <2>3, GiveInstance, Zenon
    <2> QED  BY <1>1, <1>2, <1>3, <1>4, <2>1, <2>2, <2>4, MoveStep DEF ContainerTypeOK
  <1> QED  BY <1>5, <1>6, <1>7, Zenon

\* Every step keeps the invariant.
LEMMA ContainerNextStep == ASSUME ContainerInv, [ContainerNext]_containerVars PROVE ContainerInv'
  <1>1. ContainerTypeOK /\ GivenInv
    BY Zenon DEF ContainerInv
  <1>2. CASE UNCHANGED containerVars
    BY <1>2, Zenon DEF containerVars, ContainerInv, ContainerTypeOK, HolderInv, GivenInv, Transient
  <1>3. CASE Clear
    <2>1. /\ factories' \in [Names -> Factories \cup {"none"}] /\ instances' \in [Names -> Instances \cup {0}]
          /\ given' \in [Names -> SUBSET Instances] /\ GivenInv'
      BY <1>3, Zenon DEF Clear, GivenInv
    <2> QED  BY <1>3, <2>1, FreeStep, Zenon DEF Clear
  <1>4. ASSUME NEW n \in Names, RegisterInstance(n)
        PROVE  ContainerInv'
    <2>1. Fresh(n) \in Instances /\ instances[n] = 0 /\ given[n] = {}
      BY <1>1, <1>4, FreshInstance, Zenon DEF RegisterInstance, GivenInv
    <2>2. instances' \in [Names -> Instances \cup {0}] /\ GivenInv'
      BY <1>1, <1>4, <2>1, Zenon DEF RegisterInstance, GivenInv, ContainerTypeOK
    <2> QED  BY <1>1, <1>4, <2>2, FreeStep, Zenon DEF RegisterInstance, ContainerTypeOK
  <1>5. ASSUME NEW n \in Names, RemoveInstance(n)
        PROVE  ContainerInv'
    <2>1. /\ instances' \in [Names -> Instances \cup {0}] /\ given' \in [Names -> SUBSET Instances]
          /\ GivenInv'
      BY <1>1, <1>5, Zenon DEF RemoveInstance, GivenInv, ContainerTypeOK
    <2> QED  BY <1>1, <1>5, <2>1, FreeStep, Zenon DEF RemoveInstance, ContainerTypeOK
  <1>6. ASSUME NEW n \in Names, NEW f \in Factories, Register(n, f), UNCHANGED use
        PROVE  ContainerInv'
    <2>1. factories' \in [Names -> Factories \cup {"none"}] /\ GivenInv'
      BY <1>1, <1>6, Zenon DEF Register, GivenInv, ContainerTypeOK
    <2> QED  BY <1>1, <1>6, <2>1, FreeStep, Zenon DEF Register, ContainerTypeOK
  <1> QED
    BY <1>2, <1>3, <1>4, <1>5, <1>6, RegisterStep, ScopeStep, StartStep, LockedStep, FactoryStep
    DEF ContainerNext, ContainerStep

----------------------------------------------------------------------------

\* So it holds throughout.
LEMMA ContainerSafe == ContainerSpec => []ContainerInv
  BY InitContainer, ContainerNextStep, PTL DEF ContainerSpec

\* Whoever resolves a service that is not transient, and in whatever order, gets the same
\* instance until it is removed.
THEOREM InstanceIsOne == ContainerSpec => []OneInstance
  <1>1. ContainerInv => OneInstance
    BY Zenon DEF ContainerInv, GivenInv, OneInstance
  <1> QED  BY ContainerSafe, <1>1, PTL

\* The variables keep their types, and a factory that runs stays registered.
THEOREM ContainerTypeCorrect == ContainerSpec => []ContainerTypeOK
  <1>1. ContainerInv => ContainerTypeOK
    BY Zenon DEF ContainerInv
  <1> QED  BY ContainerSafe, <1>1, PTL
=============================================================================
