----------------------------- MODULE MsgServer ------------------------------
(***************************************************************************)
(* MsgServer of msgserver/msgserver.go: a goroutine per connection takes   *)
(* an fd, registers, makes the handshake that opens or joins the session   *)
(* of a user name, and serves messages until the connection fails, is      *)
(* kicked or comes to its deadline.  The fd is read and incremented        *)
(* without a lock.  A session is named after the connection that opened    *)
(* it: cleaning up takes it out of the table, not from its connections,    *)
(* and the next handshake of the user opens another.  Messages themselves  *)
(* change nothing but the time of the last one.  Start and Stop decide     *)
(* only whether connections come in at all.                                *)
(***************************************************************************)
EXTENDS Integers

CONSTANTS
  MaxPeers,  \* connections
  Usernames,
  MaxSeq     \* sequence numbers in handshakes go from 0 to MaxSeq

ASSUME MsgAssumption == MaxPeers \in Nat /\ MaxSeq \in Nat

VARIABLES
  nextFD,
  loadedFD,  \* connection -> the nextFD that its increment has loaded, or 0
  peer,      \* connection -> its step, fd, session and sequence number
  byFd,      \* the connections map: fd -> connection
  sessions,  \* user name -> [opener, seq]
  sharedFds  \* fds that a goroutine took while another had them, and still in use

msgVars == <<nextFD, loadedFD, peer, byFd, sessions, sharedFds>>

Peers == 1 .. MaxPeers      \* in the order in which their goroutines take an fd
Nobody == 0                 \* no connection
MaxFD == MaxPeers + 1
NoSession == [opener |-> Nobody, seq |-> 0]

NewMsgServer ==
  /\ nextFD = 1 /\ loadedFD = [p \in Peers |-> 0] /\ sharedFds = {}
  /\ peer = [p \in Peers |-> [pc |-> "none", fd |-> 0, session |-> Nobody, seq |-> 0]]
  /\ byFd = [f \in 1 .. MaxFD |-> Nobody]
  /\ sessions = [u \in Usernames |-> NoSession]

At(p, pcs) == peer[p].pc \in pcs

----------------------------------------------------------------------------

\* A connection is accepted, and handleConnection reads an fd for it ...
TakeFD(p) ==
  /\ At(p, {"none"}) /\ \A q \in 1 .. p - 1 : ~At(q, {"none"})
  /\ peer' = [peer EXCEPT ![p].pc = "load", ![p].fd = nextFD]
  /\ sharedFds' = IF \E q \in Peers : peer[q].fd = nextFD /\ ~At(q, {"none", "gone"})
                  THEN sharedFds \cup {nextFD} ELSE sharedFds
  /\ UNCHANGED <<nextFD, loadedFD, byFd, sessions>>

\* ... and increments it: a load ...
LoadFD(p) ==
  /\ At(p, {"load"})
  /\ loadedFD' = [loadedFD EXCEPT ![p] = nextFD]
  /\ peer' = [peer EXCEPT ![p].pc = "store"]
  /\ UNCHANGED <<nextFD, byFd, sessions, sharedFds>>

\* ... and a store, of a number that may be smaller than what others have stored since.
StoreFD(p) ==
  /\ At(p, {"store"})
  /\ nextFD' = loadedFD[p] + 1
  /\ loadedFD' = [loadedFD EXCEPT ![p] = 0]
  /\ peer' = [peer EXCEPT ![p].pc = "add"]
  /\ UNCHANGED <<byFd, sessions, sharedFds>>

AddPeer(p) ==
  /\ At(p, {"add"})
  /\ byFd' = [byFd EXCEPT ![peer[p].fd] = p]
  /\ peer' = [peer EXCEPT ![p].pc = "handshake"]
  /\ UNCHANGED <<nextFD, loadedFD, sessions, sharedFds>>

\* Mutant of Stale: the number of the last handshake is accepted again.
StaleBefore(u, seq) == seq < sessions[u].seq

Stale(u, seq) == seq <= sessions[u].seq

\* handleHandshake, when the message is well-formed and the handler has accepted it: the
\* number must be new, or the session is.
handleHandshake(p, u, seq) ==
  /\ At(p, {"handshake"})
  /\ \/ /\ sessions[u] = NoSession
        /\ sessions' = [sessions EXCEPT ![u] = [opener |-> p, seq |-> 0]]
        /\ peer' = [peer EXCEPT ![p].pc = "loop", ![p].session = p]
     \/ /\ sessions[u] # NoSession /\ ~Stale(u, seq)
        /\ sessions' = [sessions EXCEPT ![u].seq = seq]
        /\ peer' = [peer EXCEPT ![p].pc = "loop", ![p].session = sessions[u].opener, ![p].seq = seq]
     \/ /\ sessions[u] # NoSession /\ Stale(u, seq)
        /\ peer' = [peer EXCEPT ![p].pc = "end"]
        /\ UNCHANGED sessions
  /\ UNCHANGED <<nextFD, loadedFD, byFd, sharedFds>>

\* The handshake or the message loop ends: a bad handshake, a failed read, the deadline.
PeerEnds(p) ==
  /\ At(p, {"handshake", "loop"})
  /\ peer' = [peer EXCEPT ![p].pc = "end"]
  /\ UNCHANGED <<nextFD, loadedFD, byFd, sessions, sharedFds>>

\* Mutant of Deleted: only a connection with a session is taken from the map.
DeletedWithSession(p) == IF peer[p].session = Nobody THEN byFd ELSE [byFd EXCEPT ![peer[p].fd] = Nobody]

\* The deferred cleanup deletes the map's entry for the fd, whosever it is.
Deleted(p) == [byFd EXCEPT ![peer[p].fd] = Nobody]

RemovePeer(p) ==
  LET others == {q \in Peers \ {p} : ~At(q, {"none", "gone"})}
  IN  /\ At(p, {"end"})
      /\ byFd' = Deleted(p)
      /\ peer' = [peer EXCEPT ![p].pc = "gone", ![p].fd = 0]
      /\ sharedFds' = sharedFds \cap {peer[q].fd : q \in others}
      /\ UNCHANGED <<nextFD, loadedFD, sessions>>

\* Kick closes the connection that the map has for the fd: its next read fails.
KickFd(f) ==
  /\ byFd[f] # Nobody
  /\ peer' = [peer EXCEPT ![byFd[f]].pc = "end"]
  /\ UNCHANGED <<nextFD, loadedFD, byFd, sessions, sharedFds>>

\* CleanupSessions, for a user whose session was silent for long enough.
CleanupSessions(u) ==
  /\ sessions[u] # NoSession
  /\ sessions' = [sessions EXCEPT ![u] = NoSession]
  /\ UNCHANGED <<nextFD, loadedFD, peer, byFd, sharedFds>>

MsgNext ==
  \/ \E p \in Peers : \/ TakeFD(p) \/ LoadFD(p) \/ StoreFD(p) \/ AddPeer(p) \/ PeerEnds(p) \/ RemovePeer(p)
                      \/ \E u \in Usernames, seq \in 0 .. MaxSeq : handleHandshake(p, u, seq)
  \/ \E f \in DOMAIN byFd : KickFd(f)
  \/ \E u \in Usernames : CleanupSessions(u)

MsgSpec == NewMsgServer /\ [][MsgNext]_msgVars

----------------------------------------------------------------------------

PeerRecords ==
  [pc : {"none", "load", "store", "add", "handshake", "loop", "end", "gone"}, fd : 0 .. MaxFD,
   session : Peers \cup {Nobody}, seq : 0 .. MaxSeq]

MsgTypeOK ==
  /\ nextFD \in 1 .. MaxFD /\ loadedFD \in [Peers -> 0 .. MaxFD] /\ sharedFds \subseteq 1 .. MaxFD
  /\ peer \in [Peers -> PeerRecords]
  /\ byFd \in [1 .. MaxFD -> Peers \cup {Nobody}]
  /\ sessions \in [Usernames -> [opener : Peers \cup {Nobody}, seq : 0 .. MaxSeq]]

\* The map of connections holds no connection that is gone, and holds every one that is
\* being served under the fd the handler knows it by; except for fds that two goroutines
\* took because they read nextFD at a time, whose connections lose each other's entry.
FdsOwned ==
  /\ \A f \in DOMAIN byFd : byFd[f] # Nobody =>
       peer[byFd[f]].fd = f /\ At(byFd[f], {"handshake", "loop", "end"})
  /\ \A p \in Peers : At(p, {"handshake", "loop", "end"}) /\ peer[p].fd \notin sharedFds =>
       byFd[peer[p].fd] = p

\* No two handshakes join one session with the same sequence number, and the session
\* remembers the greatest; the number of the handshake that opened it is not remembered.
SeqUsedOnce ==
  \A p, q \in Peers :
    peer[p].session # Nobody /\ peer[q].session = peer[p].session /\ {p, q} \cap {peer[p].session} = {} =>
      /\ p # q => peer[p].seq # peer[q].seq
      /\ \A u \in Usernames : sessions[u].opener = peer[p].session => peer[p].seq <= sessions[u].seq
=============================================================================
