--------------------------- MODULE SessionManager ---------------------------
(***************************************************************************)
(* SessionManager and MessageSession of core/advanced_router.go.  Every    *)
(* method of the manager holds sm.mu throughout and is one step; the       *)
(* response channel of a session is used outside the lock by the goroutine *)
(* that waits on it.  An owner opens one session and waits; answers to its *)
(* request may arrive any number of times and at any time.                 *)
(***************************************************************************)
EXTENDS Integers, FiniteSets

CONSTANTS
  Owners,   \* goroutines that open a session each; also name their answers
  IdSpace,  \* number of session ids (2^32 in the code)
  NoOne

Ids == 0 .. IdSpace - 1
NoAnswer == {"closed", "ctx", "timeout"}

ASSUME SessionManagerAssumption ==
  IdSpace \in Nat \ {0} /\ NoOne \notin Owners /\ NoOne \notin NoAnswer /\ NoAnswer \cap Owners = {}

VARIABLES
  counter,   \* last session id handed out
  sessions,  \* id -> the session registered under it
  id,        \* the ID field of each owner's session
  expired,   \* the session is older than its Timeout
  chan,      \* content of the Response channel, capacity 1
  closed,    \* the Response channel was closed
  result,    \* what WaitForResponse returned
  open,      \* owners whose session was created
  answered,  \* history: the answer CompleteSession accepted for each session
  misused    \* a send on or a close of a closed channel, or a full channel

sessionVars == <<counter, sessions, id, expired, chan, closed, result, open, answered, misused>>

NewSessionManager ==
  /\ counter = 0
  /\ sessions = [i \in Ids |-> NoOne]
  /\ id = [o \in Owners |-> 0]
  /\ expired = [o \in Owners |-> FALSE]
  /\ chan = [o \in Owners |-> NoOne]
  /\ closed = [o \in Owners |-> FALSE]
  /\ result = [o \in Owners |-> NoOne]
  /\ open = {}
  /\ answered = [o \in Owners |-> NoOne]
  /\ misused = FALSE

----------------------------------------------------------------------------
\* The id is the incremented counter; a session still registered under it is replaced.
CreateSession(o) ==
  /\ o \notin open
  /\ counter' = (counter + 1) % IdSpace
  /\ id' = [id EXCEPT ![o] = counter']
  /\ sessions' = [sessions EXCEPT ![counter'] = o]
  /\ open' = open \cup {o}
  /\ UNCHANGED <<expired, chan, closed, result, answered, misused>>

\* Mutant of CompleteSession: the session stays registered after its answer.
CompleteSessionKeep(q) ==
  /\ q \in open
  /\ sessions[id[q]] # NoOne
  /\ LET s == sessions[id[q]]
     IN  IF closed[s] \/ chan[s] # NoOne
         THEN misused' = TRUE /\ UNCHANGED <<chan, answered>>
         ELSE /\ chan' = [chan EXCEPT ![s] = q]
              /\ answered' = [answered EXCEPT ![s] = q]
              /\ UNCHANGED misused
  /\ UNCHANGED <<counter, sessions, id, expired, closed, result, open>>

\* Somebody answers the request of owner q.  An unknown id is an error; otherwise
\* the session leaves the map, and its channel takes the answer if it can.
CompleteSession(q) ==
  /\ q \in open
  /\ sessions[id[q]] # NoOne
  /\ LET s == sessions[id[q]]
     IN  IF closed[s] \/ chan[s] # NoOne
         THEN misused' = TRUE /\ UNCHANGED <<chan, answered>>
         ELSE /\ chan' = [chan EXCEPT ![s] = q]
              /\ answered' = [answered EXCEPT ![s] = q]
              /\ UNCHANGED misused
  /\ sessions' = [sessions EXCEPT ![id[q]] = NoOne]
  /\ UNCHANGED <<counter, id, expired, closed, result, open>>

\* close(session.Response); delete(sm.sessions, sessionID) for each session of S.
Discard(S) ==
  /\ misused' = (misused \/ \E s \in S : closed[s])
  /\ closed' = [o \in Owners |-> closed[o] \/ o \in S]
  /\ sessions' = [i \in Ids |-> IF sessions[i] \in S THEN NoOne ELSE sessions[i]]
  /\ UNCHANGED <<counter, id, expired, chan, result, open, answered>>

\* CleanupSession with the id of owner q: only a registered session is closed.
CleanupSession(q) ==
  /\ q \in open
  /\ sessions[id[q]] # NoOne
  /\ Discard({sessions[id[q]]})

\* time.Since(CreatedAt) passes Timeout.
Expire(o) ==
  /\ o \in open
  /\ ~expired[o]
  /\ expired' = [expired EXCEPT ![o] = TRUE]
  /\ UNCHANGED <<counter, sessions, id, chan, closed, result, open, answered, misused>>

\* One tick of the cleanup goroutine: all sessions that expired go together.
Overdue == {s \in Owners : expired[s] /\ \E i \in Ids : sessions[i] = s}

\* Mutant of CleanupExpired: the age comparison is the wrong way round.
CleanupYoung ==
  LET young == {s \in Owners : ~expired[s] /\ \E i \in Ids : sessions[i] = s}
  IN  young # {} /\ Discard(young)

CleanupExpired == Overdue # {} /\ Discard(Overdue)

----------------------------------------------------------------------------
(* WaitForResponse: one case of its select fires                           *)

Returns(o, r) ==
  /\ o \in open /\ result[o] = NoOne
  /\ result' = [result EXCEPT ![o] = r]
  /\ UNCHANGED <<counter, sessions, id, expired, closed, open, answered, misused>>

\* Mutant of WaitReceive: the nil that a closed channel yields is taken for an answer.
WaitReceiveNil(o) ==
  \/ chan[o] # NoOne /\ Returns(o, chan[o]) /\ chan' = [chan EXCEPT ![o] = NoOne]
  \/ chan[o] = NoOne /\ closed[o] /\ Returns(o, o) /\ UNCHANGED chan

WaitReceive(o) ==
  \/ chan[o] # NoOne /\ Returns(o, chan[o]) /\ chan' = [chan EXCEPT ![o] = NoOne]
  \/ chan[o] = NoOne /\ closed[o] /\ Returns(o, "closed") /\ UNCHANGED chan

WaitContext(o) == Returns(o, "ctx") /\ UNCHANGED chan

WaitTimeout(o) == expired[o] /\ Returns(o, "timeout") /\ UNCHANGED chan

----------------------------------------------------------------------------
SessionNext ==
  \/ \E o \in Owners :
       \/ CreateSession(o) \/ CompleteSession(o) \/ CleanupSession(o) \/ Expire(o)
       \/ WaitReceive(o) \/ WaitContext(o) \/ WaitTimeout(o)
  \/ CleanupExpired

SessionSpec == NewSessionManager /\ [][SessionNext]_sessionVars

\* Time passes, and the ticker of cleanupExpiredSessions keeps firing.
SessionFairness == WF_sessionVars(CleanupExpired) /\ \A o \in Owners : WF_sessionVars(Expire(o))

----------------------------------------------------------------------------
(* Properties                                                              *)

IdsSuffice == IsFiniteSet(Owners) /\ Cardinality(Owners) < IdSpace

\* The manager's map, the session ids, the Response channels and the results keep
\* their types.
SessionTypeOK ==
  /\ counter \in Ids
  /\ sessions \in [Ids -> Owners \cup {NoOne}]
  /\ id \in [Owners -> Ids]
  /\ expired \in [Owners -> BOOLEAN]
  /\ chan \in [Owners -> Owners \cup {NoOne}]
  /\ closed \in [Owners -> BOOLEAN]
  /\ result \in [Owners -> Owners \cup NoAnswer \cup {NoOne}]
  /\ open \subseteq Owners
  /\ answered \in [Owners -> Owners \cup {NoOne}]
  /\ misused \in BOOLEAN

\* CompleteSession, CleanupSession and the cleanup goroutine never send on or close
\* a closed Response channel and never meet a full one, in any order of answers,
\* duplicates, cleanups and expiries, even when session ids wrap around.
ChannelsUsedOnce == ~misused

\* An owner that receives an answer receives one sent to the id of its own session,
\* however many late and duplicate answers arrive and even when ids wrap around.
AnswersMatchId == \A o \in Owners : result[o] \in Owners => id[result[o]] = id[o]

\* With more ids than sessions that is the answer to its own request: no answer
\* reaches a session opened after the one it was meant for.
AnswersOwnRequest == \A o \in Owners : result[o] \in Owners => result[o] = o

\* A session behaves like a promise: answered once or dropped, never both, and
\* WaitForResponse reports an answer only if one was accepted and "was closed" only
\* if the session was dropped.
OneShot == INSTANCE Promise WITH
             Askers  <- Owners,
             verdict <- [o \in Owners |->
                           IF o \notin open THEN "none"
                           ELSE IF answered[o] # NoOne THEN "answered"
                           ELSE IF closed[o] THEN "dropped" ELSE "pending"],
             outcome <- [o \in Owners |->
                           IF result[o] = NoOne THEN "none"
                           ELSE IF result[o] = "closed" THEN "dropped"
                           ELSE IF result[o] \in {"ctx", "timeout"} THEN "gaveUp"
                           ELSE "answered"]
AnsweredOrDropped == OneShot!Spec

\* Sessions do not leak: every session leaves the manager's map, answered or not.
NoLeak == \A o \in Owners : o \in open ~> \A i \in Ids : sessions[i] # o
=============================================================================
