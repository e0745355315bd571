---------------------------- MODULE LoginServer -----------------------------
(***************************************************************************)
(* LoginServer of loginserver/loginserver.go: a goroutine per client goes  *)
(* through the key exchange, authentication, the check of earlier logins,  *)
(* the login itself and its record.  Nothing locks the maps, so any two of *)
(* these goroutines interleave at every map access; the runtime may also   *)
(* notice two of them in a map at once and end the program.  Multiple      *)
(* logins of a user are not allowed (MultiLogin is false, as in            *)
(* examples/login).  The game servers are external: a login handler opens  *)
(* a play session there; a kick that arrives, or the player, ends it.       *)
(***************************************************************************)
EXTENDS Integers, FiniteSets

CONSTANTS
  MaxClients,  \* client connections
  Uids,        \* users
  GameServers, \* servers a token may name
  Subids       \* subids a login handler may return

ASSUME LoginAssumption == MaxClients \in Nat /\ "none" \notin GameServers

VARIABLES
  listener, \* the listener is open
  actors,   \* the registered game servers
  users,    \* uid -> the recorded login, or NoUser
  client,   \* client -> its step, and what it has found out
  playing,  \* sessions of the game servers that no kick was sent for: [uid, subid, by]
  kicked,   \* those a kick was sent for: it is on its way, or was lost and nobody knows
  mixed,    \* users that logged in twice at a time, or got a subid of theirs twice
  raced     \* the runtime has ended the program for a concurrent map access

loginVars == <<listener, actors, users, client, playing, kicked, mixed, raced>>

Clients == 1 .. MaxClients     \* in the order in which they are accepted
NoUser == [subid |-> 0, server |-> "none"]

NewLoginServer ==
  /\ listener = FALSE /\ actors = {} /\ playing = {} /\ kicked = {} /\ mixed = {} /\ raced = FALSE
  /\ users = [u \in Uids |-> NoUser]
  /\ client = [l \in Clients |-> [pc |-> "none", uid |-> "none", server |-> "none", subid |-> 0, found |-> NoUser]]

\* The goroutines between the check of earlier logins and the record of their own.
LoggingIn(uid) == {l \in Clients : client[l].uid = uid /\ client[l].pc \in {"kick", "login", "record"}}

\* The client is answered, or not, and its connection closed.
Close(l) == client' = [client EXCEPT ![l].pc = "closed", ![l].server = "none", ![l].found = NoUser]

----------------------------------------------------------------------------

StartLogin ==
  /\ ~listener /\ listener' = TRUE
  /\ UNCHANGED <<actors, users, client, playing, kicked, mixed, raced>>

StopLogin ==
  /\ listener /\ listener' = FALSE
  /\ UNCHANGED <<actors, users, client, playing, kicked, mixed, raced>>

RegisterGameServer(g) ==
  /\ g \notin actors
  /\ actors' = actors \cup {g}
  /\ UNCHANGED <<listener, users, client, playing, kicked, mixed, raced>>

AcceptClient(l) ==
  /\ listener /\ client[l].pc = "none" /\ \A m \in 1 .. l - 1 : client[m].pc # "none"
  /\ client' = [client EXCEPT ![l].pc = "exchange"]
  /\ UNCHANGED <<listener, actors, users, playing, kicked, mixed, raced>>

\* The exchange fails: the client leaves, the deadline passes, a line does not decode, or
\* the HMAC is wrong.
ExchangeFails(l) ==
  /\ client[l].pc = "exchange"
  /\ Close(l)
  /\ UNCHANGED <<listener, actors, users, playing, kicked, mixed, raced>>

\* AuthHandler refuses the token, or panics and is recovered ...
AuthFails(l) ==
  /\ client[l].pc = "exchange"
  /\ Close(l)
  /\ UNCHANGED <<listener, actors, users, playing, kicked, mixed, raced>>

\* ... or takes it for a user and a server.
AuthHandler(l, uid, g) ==
  /\ client[l].pc = "exchange"
  /\ IF g \in actors
     THEN client' = [client EXCEPT ![l].pc = "check", ![l].uid = uid, ![l].server = g]
     ELSE Close(l)
  /\ UNCHANGED <<listener, actors, users, playing, kicked, mixed, raced>>

\* The check of earlier logins.
CheckUser(l) ==
  LET uid == client[l].uid
  IN  /\ client[l].pc = "check"
      /\ client' = [client EXCEPT ![l].pc = IF users[uid] # NoUser THEN "kick" ELSE "login",
                                  ![l].found = users[uid]]
      /\ mixed' = IF LoggingIn(uid) # {} THEN mixed \cup {uid} ELSE mixed
      /\ UNCHANGED <<listener, actors, users, playing, kicked, raced>>

\* Mutant of kickUser: the record goes, the game server is not told.
kickUserQuietly(l) ==
  /\ client[l].pc = "kick"
  /\ users' = [users EXCEPT ![client[l].uid] = NoUser]
  /\ client' = [client EXCEPT ![l].pc = "login"]
  /\ UNCHANGED <<listener, actors, playing, kicked, mixed, raced>>

\* kickUser: a kick of the session that was found is sent to its game server, whether or
\* not Send fails, and the record goes.
kickUser(l) ==
  LET uid == client[l].uid
      old == client[l].found
      named == IF old.server \in actors THEN {s \in playing : s.uid = uid /\ s.subid = old.subid} ELSE {}
  IN  /\ client[l].pc = "kick"
      /\ playing' = playing \ named /\ kicked' = kicked \cup named
      /\ users' = [users EXCEPT ![uid] = NoUser]
      /\ client' = [client EXCEPT ![l].pc = "login"]
      /\ UNCHANGED <<listener, actors, mixed, raced>>

\* LoginHandler fails, or panics and is recovered.
LoginFails(l) ==
  /\ client[l].pc = "login"
  /\ Close(l)
  /\ UNCHANGED <<listener, actors, users, playing, kicked, mixed, raced>>

\* LoginHandler opens a session and names it.
LoginHandler(l, subid) ==
  LET uid == client[l].uid
  IN  /\ client[l].pc = "login"
      /\ client' = [client EXCEPT ![l].pc = "record", ![l].subid = subid]
      /\ playing' = playing \cup {[uid |-> uid, subid |-> subid, by |-> l]}
      /\ mixed' = IF \E m \in Clients \ {l} : client[m].uid = uid /\ client[m].subid = subid
                  THEN mixed \cup {uid} ELSE mixed
      /\ UNCHANGED <<listener, actors, users, kicked, raced>>

RecordUser(l) ==
  /\ client[l].pc = "record"
  /\ users' = [users EXCEPT ![client[l].uid] = [subid |-> client[l].subid, server |-> client[l].server]]
  /\ Close(l)
  /\ UNCHANGED <<listener, actors, playing, kicked, mixed, raced>>

\* A kick comes to the game server, which ends the sessions that it names.
KickArrives(s) ==
  LET named == [uid : {s.uid}, subid : {s.subid}, by : Clients]
  IN  /\ playing' = playing \ named /\ kicked' = kicked \ named
      /\ UNCHANGED <<listener, actors, users, client, mixed, raced>>

\* The player leaves, and the game server logs the user out.
Logout(s) ==
  /\ playing' = playing \ {s} /\ kicked' = kicked \ {s}
  /\ users' = [users EXCEPT ![s.uid] = IF users[s.uid].subid = s.subid THEN NoUser ELSE @]
  /\ UNCHANGED <<listener, actors, client, mixed, raced>>

\* Two goroutines are in the map of users at once.
MapRace ==
  /\ Cardinality({l \in Clients : client[l].pc \in {"check", "kick", "record"}}) > 1
  /\ raced' = TRUE
  /\ UNCHANGED <<listener, actors, users, client, playing, kicked, mixed>>

LoginStep(l) ==
  \/ AcceptClient(l) \/ ExchangeFails(l) \/ AuthFails(l) \/ CheckUser(l)
  \/ kickUser(l) \/ LoginFails(l) \/ RecordUser(l)
  \/ \E uid \in Uids, g \in GameServers : AuthHandler(l, uid, g)
  \/ \E subid \in Subids : LoginHandler(l, subid)

LoginNext ==
  /\ ~raced
  /\ \/ StartLogin \/ StopLogin \/ MapRace
     \/ \E g \in GameServers : RegisterGameServer(g)
     \/ \E l \in Clients : LoginStep(l)
     \/ \E s \in kicked : KickArrives(s)
     \/ \E s \in playing \cup kicked : Logout(s)

\* Every goroutine goes on: the connection has a deadline, and the handlers return.
LoginFairness ==
  \A l \in Clients : WF_loginVars(~raced /\ client[l].pc # "none" /\ LoginStep(l))

LoginSpec == NewLoginServer /\ [][LoginNext]_loginVars /\ LoginFairness

----------------------------------------------------------------------------

UserRecords == [subid : Subids \cup {0}, server : GameServers \cup {"none"}]

LoginTypeOK ==
  /\ listener \in BOOLEAN /\ raced \in BOOLEAN /\ actors \subseteq GameServers /\ mixed \subseteq Uids
  /\ users \in [Uids -> UserRecords]
  /\ client \in [Clients -> [pc : {"none", "exchange", "check", "kick", "login", "record", "closed"},
                             uid : Uids \cup {"none"}, server : GameServers \cup {"none"},
                             subid : Subids \cup {0}, found : UserRecords]]
  /\ playing \cup kicked \subseteq [uid : Uids, subid : Subids, by : Clients]

\* Of a user's sessions all but one, the one on record, were sent a kick once the login is
\* through; so the next login finds that one, and no session is forgotten.  A session that
\* was sent a kick plays on until the kick arrives, for ever if it is lost: nothing in
\* this code prevents that.  The exceptions are users with two logins at a time, which
\* nothing keeps apart, and users whose login handler repeats a subid.
OneSessionPerUser ==
  \A s \in playing :
    \/ s.uid \in mixed
    \/ client[s.by].pc = "record"
    \/ users[s.uid].subid = s.subid /\ \A t \in playing : t.uid = s.uid => t = s

=============================================================================
