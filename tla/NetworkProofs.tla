--------------------------- MODULE NetworkProofs ----------------------------
(***************************************************************************)
(* Proofs about connections.  TcpConnection and ConnectionManager, for any *)
(* number of connections, sends and heartbeats and a queue of any          *)
(* capacity: frames are written in the order of the queue, a heartbeat     *)
(* that is off has no loops but those CloseAllConnections told to stop,    *)
(* and no connection is forgotten while it is open.  TcpClient, for any    *)
(* number of connections and attempts: once disconnected it stays so.      *)
(***************************************************************************)
EXTENDS ConnectionManager, TcpClient, TLAPS

----------------------------------------------------------------------------
(* TcpConnection and ConnectionManager                                     *)

\* Frames of the queue that sendLoop is done with: those it has taken, but for the one it
\* is writing.
Past(acc, q, at) == Len(acc) - Len(q) - (IF at \in Frames THEN 1 ELSE 0)

\* The channel holds the last frames it took, sendLoop the one before, and no frame is
\* taken twice, for its Send has ended with that.
Queued(acc, q, at, sent) ==
  /\ \A i, j \in 1 .. Len(acc) : acc[i] = acc[j] => i = j
  /\ \A i \in 1 .. Len(acc) : sent[acc[i]] = "ok"
  /\ Len(q) <= Len(acc)
  /\ \A k \in 1 .. Len(q) : q[k] = acc[Len(acc) - Len(q) + k]
  /\ at \in Frames => Len(q) < Len(acc) /\ at = acc[Len(acc) - Len(q)]

\* What sendLoop has put on the wire are some of the first n frames the channel took, each
\* once and after those before it ...
Ordered(acc, n, w) ==
  /\ \A j \in 1 .. Len(w) : w[j].by = "loop" =>
       \E q \in 1 .. n : /\ acc[q] = w[j].frame
                         /\ \A p \in 1 .. q - 1 : \E i \in 1 .. j - 1 : w[i] = Whole(acc[p])
  /\ \A i, j \in 1 .. Len(w) :
       w[i].by = "loop" /\ w[j].by = "loop" /\ w[i].frame = w[j].frame => i = j

\* ... and all n of them, as long as it goes on.
Complete(acc, n, w) == \A p \in 1 .. n : \E i \in 1 .. Len(w) : w[i] = Whole(acc[p])

Going(at) == at \in Frames \cup {"range"}

QueueInv ==
  \A c \in Conns :
    /\ Queued(accepted[c], sendChan[c], loop[c], sends[c])
    /\ Ordered(accepted[c], Past(accepted[c], sendChan[c], loop[c]), wire[c])
    /\ Going(loop[c]) => Complete(accepted[c], Past(accepted[c], sendChan[c], loop[c]), wire[c])

\* A heartbeat message that has not been sent was not given to any connection.
BeatInv == \A m \in Beats \ beats, c \in Conns : sends[c][m] = "idle"

\* Only the operations that visit connections have connections to visit, and
\* CloseAllConnections has closed those it has visited.
HolderInv ==
  /\ holder.op \in {"none", "stop"} => holder.todo = {}
  /\ holder.won \subseteq holder.todo
  /\ holder.op = "closeAll" => \A c \in connections \ holder.todo : isClosed(c)

\* There is a stop channel while the heartbeat is on; when it is off and nobody waits for
\* its loops, they are gone or their channel is closed.  A loop waits for a channel that is
\* closed or can still be.
HeartbeatInv ==
  /\ hbOn => stopChan # 0 /\ holder.op # "stop"
  /\ ~hbOn /\ holder.op # "stop" /\ Alive # {} => stopChan \in ended \ {0}
  /\ holder.op # "stop" =>
       \A g \in Alive : loops[g].at = "wait" => loops[g].stop \in (ended \cup {stopChan}) \ {0}

ConnectionInv == TypeOK /\ QueueInv /\ BeatInv /\ HolderInv /\ HeartbeatInv

----------------------------------------------------------------------------

Wires == [frame : Frames, by : {"loop", "caller"}, whole : BOOLEAN]
PhaseNames == {"open", "flagged", "stated", "chanClosed", "closed"}
SendStates == {"idle", "spawned", "put", "direct", "ok", "error"}
LoopAts == Frames \cup {"range", "closing", "done"}

LEMMA Appended ==
  ASSUME NEW S, NEW s \in Seq(S), NEW x \in S
  PROVE  /\ Append(s, x) \in Seq(S) /\ Len(Append(s, x)) = Len(s) + 1
         /\ Len(s) \in Nat
         /\ \A i \in 1 .. Len(s) : Append(s, x)[i] = s[i] /\ s[i] \in S
         /\ Append(s, x)[Len(s) + 1] = x
  OBVIOUS

LEMMA TailOf ==
  ASSUME NEW S, NEW s \in Seq(S), s # << >>
  PROVE  /\ Tail(s) \in Seq(S) /\ Len(Tail(s)) = Len(s) - 1 /\ Len(s) \in Nat \ {0}
         /\ \A i \in 1 .. Len(s) - 1 : Tail(s)[i] = s[i + 1]
         /\ Head(s) = s[1] /\ Head(s) \in S
  OBVIOUS

----------------------------------------------------------------------------
(* What each step does to the order on the wire                            *)

LEMMA OrderedAccept ==
  ASSUME NEW acc \in Seq(Frames), NEW n \in Nat, n <= Len(acc), NEW w \in Seq(Wires),
         Ordered(acc, n, w), NEW m \in Frames
  PROVE  Ordered(Append(acc, m), n, w) /\ (Complete(acc, n, w) => Complete(Append(acc, m), n, w))
  <1> DEFINE more == Append(acc, m)
  <1>1. \A i \in 1 .. n : more[i] = acc[i]
    BY Appended
  <1> HIDE DEF more
  <1>2. Complete(acc, n, w) => Complete(more, n, w)
    BY <1>1, Zenon DEF Complete
  <1>3. ASSUME NEW j \in 1 .. Len(w), w[j].by = "loop"
        PROVE \E q \in 1 .. n : /\ more[q] = w[j].frame
                                /\ \A p \in 1 .. q - 1 : \E i \in 1 .. j - 1 : w[i] = Whole(more[p])
    <2>1. PICK q \in 1 .. n : /\ acc[q] = w[j].frame
                              /\ \A p \in 1 .. q - 1 : \E i \in 1 .. j - 1 : w[i] = Whole(acc[p])
      BY <1>3, Zenon DEF Ordered
    <2>2. \A p \in 1 .. q - 1 : p \in 1 .. n
      OBVIOUS
    <2>3. \A p \in 1 .. q - 1 : \E i \in 1 .. j - 1 : w[i] = Whole(more[p])
      BY <1>1, <2>1, <2>2, Zenon
    <2> QED  BY <1>1, <2>1, <2>3, Zenon
  <1> QED  BY <1>2, <1>3, Zenon DEF Ordered, more

LEMMA CompleteAppend ==
  ASSUME NEW acc \in Seq(Frames), NEW n \in Nat, NEW k \in Nat, NEW w \in Seq(Wires), NEW x \in Wires,
         Complete(acc, n, w), k = n \/ (k = n + 1 /\ x = Whole(acc[k]))
  PROVE  Complete(acc, k, Append(w, x))
  <1> DEFINE more == Append(w, x)
  <1>1. /\ Len(w) \in Nat /\ Len(more) = Len(w) + 1 /\ more[Len(w) + 1] = x
        /\ \A i \in 1 .. Len(w) : more[i] = w[i]
    BY Appended
  <1> HIDE DEF more
  <1>2. ASSUME NEW p \in 1 .. k  PROVE \E i \in 1 .. Len(more) : more[i] = Whole(acc[p])
    <2>1. CASE p \in 1 .. n
      <3>1. PICK i \in 1 .. Len(w) : w[i] = Whole(acc[p])
        BY <2>1, Zenon DEF Complete
      <3>2. i \in 1 .. Len(more) /\ more[i] = Whole(acc[p])
        BY <1>1, <3>1
      <3> QED  BY <3>2, Zenon
    <2>2. CASE p \notin 1 .. n
      <3>1. p = k /\ x = Whole(acc[p]) /\ Len(w) + 1 \in 1 .. Len(more)
        BY <1>1, <2>2
      <3> QED  BY <1>1, <3>1, Zenon
    <2> QED  BY <2>1, <2>2, Zenon
  <1> QED  BY <1>2, Zenon DEF Complete, more

\* What sendLoop writes next is one of the first k frames, after all those before it.
Fits(acc, k, w, x) ==
  x.by = "loop" =>
    /\ \E q \in 1 .. k : /\ acc[q] = x.frame
                         /\ \A p \in 1 .. q - 1 : \E i \in 1 .. Len(w) : w[i] = Whole(acc[p])
    /\ \A i \in 1 .. Len(w) : w[i].by = "loop" => w[i].frame # x.frame

LEMMA OrderedAppend ==
  ASSUME NEW acc \in Seq(Frames), NEW n \in Nat, NEW k \in Nat, n <= k, NEW w \in Seq(Wires), NEW x \in Wires,
         Ordered(acc, n, w), Fits(acc, k, w, x)
  PROVE  Ordered(acc, k, Append(w, x))
  <1> DEFINE more == Append(w, x)
  <1>1. /\ Len(w) \in Nat /\ Len(more) = Len(w) + 1 /\ more[Len(w) + 1] = x
        /\ \A i \in 1 .. Len(w) : more[i] = w[i]
    BY Appended
  <1> HIDE DEF more
  <1>3. ASSUME NEW j \in 1 .. Len(more), more[j].by = "loop"
        PROVE \E q \in 1 .. k : /\ acc[q] = more[j].frame
                                /\ \A p \in 1 .. q - 1 : \E i \in 1 .. j - 1 : more[i] = Whole(acc[p])
    <2>1. CASE j = Len(w) + 1
      <3>1. PICK q \in 1 .. k : /\ acc[q] = x.frame
                                /\ \A p \in 1 .. q - 1 : \E i \in 1 .. Len(w) : w[i] = Whole(acc[p])
        BY <1>1, <1>3, <2>1, Zenon DEF Fits
      <3>2. 1 .. j - 1 = 1 .. Len(w)
        BY <1>1, <2>1
      <3>3. \A p \in 1 .. q - 1 : \E i \in 1 .. j - 1 : more[i] = Whole(acc[p])
        BY <1>1, <3>1, <3>2, Zenon
      <3> QED  BY <1>1, <2>1, <3>1, <3>3, Zenon
    <2>2. CASE j # Len(w) + 1
      <3>1. j \in 1 .. Len(w) /\ more[j] = w[j]
        BY <1>1, <2>2
      <3>2. PICK q \in 1 .. n : /\ acc[q] = w[j].frame
                                /\ \A p \in 1 .. q - 1 : \E i \in 1 .. j - 1 : w[i] = Whole(acc[p])
        BY <1>3, <3>1, Zenon DEF Ordered
      <3>3. \A i \in 1 .. j - 1 : more[i] = w[i]
        BY <1>1, <3>1
      <3>4. \A p \in 1 .. q - 1 : \E i \in 1 .. j - 1 : more[i] = Whole(acc[p])
        BY <3>2, <3>3, Zenon
      <3>5. q \in 1 .. k
        OBVIOUS
      <3> QED  BY <3>1, <3>2, <3>4, <3>5, Zenon
    <2> QED  BY <2>1, <2>2, Zenon
  <1>4. ASSUME NEW i \in 1 .. Len(more), NEW j \in 1 .. Len(more),
               more[i].by = "loop", more[j].by = "loop", more[i].frame = more[j].frame
        PROVE i = j
    <2>1. \A l \in 1 .. Len(more) : (l = Len(w) + 1 /\ more[l] = x) \/ (l \in 1 .. Len(w) /\ more[l] = w[l])
      BY <1>1
    <2>2. CASE i \in 1 .. Len(w) /\ j \in 1 .. Len(w)
      <3>1. more[i] = w[i] /\ more[j] = w[j]
        BY <1>1, <2>2, Zenon
      <3> QED  BY <1>4, <2>2, <3>1, Zenon DEF Ordered
    <2> QED  BY <1>4, <2>1, <2>2, Zenon DEF Fits
  <1> QED  BY <1>3, <1>4, Zenon DEF Ordered, more

LEMMA OrderedLater ==
  ASSUME NEW acc \in Seq(Frames), NEW n \in Nat, NEW k \in Nat, n <= k, NEW w \in Seq(Wires), Ordered(acc, n, w)
  PROVE  Ordered(acc, k, w)
  <1>1. ASSUME NEW j \in 1 .. Len(w), w[j].by = "loop"
        PROVE \E q \in 1 .. k : /\ acc[q] = w[j].frame
                                /\ \A p \in 1 .. q - 1 : \E i \in 1 .. j - 1 : w[i] = Whole(acc[p])
    <2>1. PICK q \in 1 .. n : /\ acc[q] = w[j].frame
                              /\ \A p \in 1 .. q - 1 : \E i \in 1 .. j - 1 : w[i] = Whole(acc[p])
      BY <1>1, Zenon DEF Ordered
    <2>2. q \in 1 .. k
      OBVIOUS
    <2> QED  BY <2>1, <2>2, Zenon
  <1> QED  BY <1>1, Zenon DEF Ordered

----------------------------------------------------------------------------
(* The steps of a connection                                               *)

\* What a step may do to the connections: none opens again.
StaysClosed == \A c \in Conns : phase'[c] = "open" => phase[c] = "open"

LEMMA PastIs ==
  ASSUME NEW acc \in Seq(Frames), NEW q \in Seq(Frames), NEW at \in LoopAts, NEW sent, Queued(acc, q, at, sent)
  PROVE  /\ Past(acc, q, at) \in Nat /\ Past(acc, q, at) <= Len(acc) /\ Len(acc) \in Nat /\ Len(q) \in Nat
         /\ at \in Frames => Past(acc, q, at) = Len(acc) - Len(q) - 1
         /\ at \notin Frames => Past(acc, q, at) = Len(acc) - Len(q)
  BY DEF Queued, Past

LEMMA Strings ==
  /\ "range" \notin Frames /\ "closing" \notin Frames /\ "done" \notin Frames
  /\ Going("range") /\ ~Going("closing") /\ ~Going("done") /\ \A m \in Frames : Going(m)
  BY QueueAssumption, Zenon DEF Going

\* A Send call of connection c that is not over goes on.
LEMMA SendMoves ==
  ASSUME ConnTypeOK, QueueInv, NEW c \in Conns, NEW m \in Frames, NEW at \in SendStates,
         sends[c][m] # "ok", SendAt(c, m, at), UNCHANGED <<phase, sendChan, loop, wire, accepted>>, crashed' \in BOOLEAN
  PROVE  ConnTypeOK' /\ QueueInv' /\ StaysClosed
  <1>1. /\ sends \in [Conns -> [Frames -> SendStates]] /\ sends' \in [Conns -> [Frames -> SendStates]]
        /\ sends'[c][m] = at /\ \A d \in Conns, k \in Frames : d # c \/ k # m => sends'[d][k] = sends[d][k]
    BY Zenon DEF ConnTypeOK, SendAt, SendStates
  <1>2. ConnTypeOK'
    BY <1>1, Zenon DEF ConnTypeOK, SendStates
  <1>3. ASSUME NEW d \in Conns
        PROVE  Queued(accepted'[d], sendChan'[d], loop'[d], sends'[d])
    <2>1. Queued(accepted[d], sendChan[d], loop[d], sends[d]) /\ accepted[d] \in Seq(Frames)
      BY Zenon DEF QueueInv, ConnTypeOK
    <2>2. \A i \in 1 .. Len(accepted[d]) : accepted[d][i] \in Frames /\ sends[d][accepted[d][i]] = "ok"
      BY <2>1 DEF Queued
    <2>3. \A i \in 1 .. Len(accepted[d]) : sends'[d][accepted[d][i]] = "ok"
      BY <1>1, <2>2, Zenon
    <2> QED  BY <2>1, <2>3, Zenon DEF Queued
  <1>4. QueueInv'
    BY <1>3, Zenon DEF QueueInv
  <1> QED  BY <1>2, <1>4, Zenon DEF StaysClosed

LEMMA SpawnMoves ==
  ASSUME ConnTypeOK, QueueInv, NEW cs \in SUBSET Conns, NEW m \in Frames,
         \A c \in Conns : sends[c][m] = "idle", Spawn(cs, m), UNCHANGED <<phase, sendChan, loop, wire, accepted, crashed>>
  PROVE  ConnTypeOK' /\ QueueInv' /\ StaysClosed
  <1>1. /\ sends \in [Conns -> [Frames -> SendStates]] /\ sends' \in [Conns -> [Frames -> SendStates]]
        /\ \A d \in Conns, k \in Frames : k # m => sends'[d][k] = sends[d][k]
    BY Zenon DEF ConnTypeOK, Spawn, SendStates
  <1>2. ConnTypeOK'
    BY <1>1, Zenon DEF ConnTypeOK, SendStates
  <1>3. ASSUME NEW d \in Conns
        PROVE  Queued(accepted'[d], sendChan'[d], loop'[d], sends'[d])
    <2>1. Queued(accepted[d], sendChan[d], loop[d], sends[d]) /\ accepted[d] \in Seq(Frames)
      BY Zenon DEF QueueInv, ConnTypeOK
    <2>2. \A i \in 1 .. Len(accepted[d]) : accepted[d][i] \in Frames /\ sends[d][accepted[d][i]] = "ok"
      BY <2>1 DEF Queued
    <2>3. \A i \in 1 .. Len(accepted[d]) : sends'[d][accepted[d][i]] = "ok"
      BY <1>1, <2>2, Zenon
    <2> QED  BY <2>1, <2>3, Zenon DEF Queued
  <1>4. QueueInv'
    BY <1>3, Zenon DEF QueueInv
  <1> QED  BY <1>2, <1>4, Zenon DEF StaysClosed

\* The channel takes a frame.
LEMMA QueueStep ==
  ASSUME ConnTypeOK, QueueInv, NEW c \in Conns, NEW m \in Frames, sends[c][m] = "put",
         Len(sendChan[c]) < SendQueue, SendAt(c, m, "ok"),
         sendChan' = Set(sendChan, c, Append(sendChan[c], m)),
         accepted' = Set(accepted, c, Append(accepted[c], m)),
         UNCHANGED <<phase, loop, wire, crashed>>
  PROVE  ConnTypeOK' /\ QueueInv' /\ StaysClosed
  <1> DEFINE acc == accepted[c]
             q == sendChan[c]
             acc2 == Append(acc, m)
             q2 == Append(q, m)
             at == loop[c]
  <1>1. /\ acc \in Seq(Frames) /\ q \in Seq(Frames) /\ at \in LoopAts /\ wire[c] \in Seq(Wires)
        /\ sends \in [Conns -> [Frames -> SendStates]]
        /\ Queued(acc, q, at, sends[c]) /\ Ordered(acc, Past(acc, q, at), wire[c])
        /\ Going(at) => Complete(acc, Past(acc, q, at), wire[c])
    BY Zenon DEF ConnTypeOK, QueueInv, LoopAts, SendStates, Wires
  <1>2. /\ accepted' = [accepted EXCEPT ![c] = acc2] /\ sendChan' = [sendChan EXCEPT ![c] = q2]
    BY Zenon DEF Set
  <1>3. /\ sends' \in [Conns -> [Frames -> SendStates]] /\ sends'[c][m] = "ok"
        /\ \A k \in Frames \ {m} : sends'[c][k] = sends[c][k]
        /\ \A d \in Conns \ {c} : sends'[d] = sends[d]
    BY <1>1, Zenon DEF SendAt, SendStates
  <1>4. /\ acc2 \in Seq(Frames) /\ Len(acc2) = Len(acc) + 1 /\ acc2[Len(acc) + 1] = m /\ Len(acc) \in Nat
        /\ \A i \in 1 .. Len(acc) : acc2[i] = acc[i] /\ acc[i] \in Frames
    BY <1>1, Appended
  <1>5. /\ q2 \in Seq(Frames) /\ Len(q2) = Len(q) + 1 /\ q2[Len(q) + 1] = m /\ Len(q) \in Nat
        /\ \A i \in 1 .. Len(q) : q2[i] = q[i]
    BY <1>1, Appended
  <1>6. Past(acc, q, at) \in Nat /\ Past(acc, q, at) <= Len(acc) /\ Past(acc2, q2, at) = Past(acc, q, at)
    <2>1. Past(acc, q, at) \in Nat /\ Past(acc, q, at) <= Len(acc)
      BY <1>1, PastIs, Zenon
    <2>2. Len(acc2) - Len(q2) = Len(acc) - Len(q)
      BY <1>4, <1>5
    <2>3. Past(acc2, q2, at) = Past(acc, q, at)
      BY <2>2, Zenon DEF Past
    <2> QED  BY <2>1, <2>3, Zenon
  <1>8. Ordered(acc2, Past(acc2, q2, at), wire[c]) /\ (Going(at) => Complete(acc2, Past(acc2, q2, at), wire[c]))
    BY <1>1, <1>6, OrderedAccept, Zenon
  <1>9. Len(q2) <= SendQueue
    BY <1>5, QueueAssumption
  <1> HIDE DEF acc2, q2
  <1>10. Queued(acc2, q2, at, sends'[c])
    <2> HIDE DEF acc, q, at
    <2>0. \A i \in 1 .. Len(acc2) : i = Len(acc) + 1 \/ i \in 1 .. Len(acc)
      BY <1>4
    <2>1. \A i \in 1 .. Len(acc) : sends[c][acc[i]] = "ok" /\ acc[i] # m
      BY <1>1, Zenon DEF Queued
    <2>2. \A i, j \in 1 .. Len(acc) : acc[i] = acc[j] => i = j
      BY <1>1, Zenon DEF Queued
    <2>3. \A i, j \in 1 .. Len(acc2) : acc2[i] = acc2[j] => i = j
      BY <1>4, <2>0, <2>1, <2>2
    <2>4. \A i \in 1 .. Len(acc2) : sends'[c][acc2[i]] = "ok"
      BY <1>3, <1>4, <2>0, <2>1
    <2>5. Len(q) <= Len(acc) /\ \A k \in 1 .. Len(q) : q[k] = acc[Len(acc) - Len(q) + k]
      BY <1>1, Zenon DEF Queued
    <2>6. ASSUME NEW k \in 1 .. Len(q2)  PROVE q2[k] = acc2[Len(acc2) - Len(q2) + k]
      <3>1. Len(acc2) - Len(q2) + k = Len(acc) - Len(q) + k
        BY <1>4, <1>5
      <3>2. CASE k = Len(q) + 1
        BY <1>4, <1>5, <2>5, <3>1, <3>2
      <3>3. CASE k \in 1 .. Len(q)
        <4>1. Len(acc) - Len(q) + k \in 1 .. Len(acc)
          BY <1>4, <1>5, <2>5, <3>3
        <4> QED  BY <1>4, <1>5, <2>5, <3>1, <3>3, <4>1, Zenon
      <3> QED  BY <1>5, <3>2, <3>3
    <2>7. ASSUME at \in Frames  PROVE Len(q2) < Len(acc2) /\ at = acc2[Len(acc2) - Len(q2)]
      <3>1. Len(q) < Len(acc) /\ at = acc[Len(acc) - Len(q)]
        BY <1>1, <2>7, Zenon DEF Queued
      <3>2. Len(acc2) - Len(q2) = Len(acc) - Len(q) /\ Len(acc) - Len(q) \in 1 .. Len(acc)
        BY <1>4, <1>5, <3>1
      <3> QED  BY <1>4, <1>5, <3>1, <3>2
    <2> QED  BY <1>4, <1>5, <2>3, <2>4, <2>5, <2>6, <2>7 DEF Queued
  <1>11. /\ accepted'[c] = acc2 /\ sendChan'[c] = q2
         /\ \A d \in Conns \ {c} : accepted'[d] = accepted[d] /\ sendChan'[d] = sendChan[d]
         /\ accepted' \in [Conns -> Seq(Frames)] /\ sendChan' \in [Conns -> Seq(Frames)]
    BY <1>2, <1>4, <1>5 DEF ConnTypeOK
  <1>12. ConnTypeOK'
    BY <1>3, <1>9, <1>11, Zenon DEF ConnTypeOK, SendStates
  <1>13. QueueInv'
    BY <1>3, <1>8, <1>10, <1>11, Zenon DEF QueueInv
  <1> QED  BY <1>12, <1>13, Zenon DEF StaysClosed

\* A caller writes by itself.
LEMMA DirectStep ==
  ASSUME ConnTypeOK, QueueInv, NEW c \in Conns, NEW m \in Frames, Direct(c, m)
  PROVE  ConnTypeOK' /\ QueueInv' /\ StaysClosed
  <1>1. /\ sends[c][m] = "direct" /\ UNCHANGED <<phase, sendChan, loop, accepted, crashed>>
        /\ \E ok \in BOOLEAN : sendDirect(c, m, "caller", ok) /\ SendAt(c, m, IF ok THEN "ok" ELSE "error")
    BY Zenon DEF Direct
  <1>2. PICK ok \in BOOLEAN : sendDirect(c, m, "caller", ok) /\ SendAt(c, m, IF ok THEN "ok" ELSE "error")
    BY <1>1, Zenon
  <1>3. PICK at \in SendStates : SendAt(c, m, at)
    BY <1>2, Zenon DEF SendStates
  <1>4. /\ sends \in [Conns -> [Frames -> SendStates]] /\ sends' \in [Conns -> [Frames -> SendStates]]
        /\ \A d \in Conns, k \in Frames : d # c \/ k # m => sends'[d][k] = sends[d][k]
    BY <1>3, Zenon DEF ConnTypeOK, SendAt, SendStates
  <1>5. ASSUME NEW d \in Conns
        PROVE  Queued(accepted[d], sendChan[d], loop[d], sends'[d])
    <2>1. Queued(accepted[d], sendChan[d], loop[d], sends[d]) /\ accepted[d] \in Seq(Frames)
      BY Zenon DEF QueueInv, ConnTypeOK
    <2>2. \A i \in 1 .. Len(accepted[d]) : accepted[d][i] \in Frames /\ sends[d][accepted[d][i]] = "ok"
      BY <2>1 DEF Queued
    <2>3. \A i \in 1 .. Len(accepted[d]) : sends'[d][accepted[d][i]] = "ok"
      BY <1>1, <1>4, <2>2, Zenon
    <2> QED  BY <2>1, <2>3, Zenon DEF Queued
  <1>6. /\ wire' \in [Conns -> Seq(Wires)] /\ \A d \in Conns \ {c} : wire'[d] = wire[d]
        /\ Ordered(accepted[c], Past(accepted[c], sendChan[c], loop[c]), wire'[c])
        /\ Going(loop[c]) => Complete(accepted[c], Past(accepted[c], sendChan[c], loop[c]), wire'[c])
    <2>1. /\ wire \in [Conns -> Seq(Wires)] /\ accepted[c] \in Seq(Frames) /\ sendChan[c] \in Seq(Frames)
          /\ loop[c] \in LoopAts /\ Queued(accepted[c], sendChan[c], loop[c], sends[c])
          /\ Ordered(accepted[c], Past(accepted[c], sendChan[c], loop[c]), wire[c])
          /\ Going(loop[c]) => Complete(accepted[c], Past(accepted[c], sendChan[c], loop[c]), wire[c])
      BY Zenon DEF ConnTypeOK, QueueInv, Wires, LoopAts
    <2>2. CASE UNCHANGED wire
      BY <2>1, <2>2, Zenon
    <2>3. CASE wire' = Set(wire, c, Append(wire[c], [frame |-> m, by |-> "caller", whole |-> ok]))
      <3> DEFINE x == [frame |-> m, by |-> "caller", whole |-> ok]
                 n == Past(accepted[c], sendChan[c], loop[c])
      <3>0. /\ wire[c] \in Seq(Wires) /\ Ordered(accepted[c], n, wire[c])
            /\ Going(loop[c]) => Complete(accepted[c], n, wire[c])
        BY <2>1, Zenon
      <3>1. x \in Wires /\ Fits(accepted[c], n, wire[c], x) /\ n \in Nat /\ n <= n
        BY <2>1, PastIs DEF Wires, Fits
      <3> HIDE DEF x, n
      <3>2. Ordered(accepted[c], n, Append(wire[c], x))
        BY <2>1, <3>0, <3>1, OrderedAppend, Zenon
      <3>3. Going(loop[c]) => Complete(accepted[c], n, Append(wire[c], x))
        BY <2>1, <3>0, <3>1, CompleteAppend, Zenon
      <3>4. wire' = [wire EXCEPT ![c] = Append(wire[c], x)]
        BY <2>3, Zenon DEF Set, x
      <3>5. Append(wire[c], x) \in Seq(Wires)
        BY <2>1, <3>1
      <3> QED  BY <2>1, <3>2, <3>3, <3>4, <3>5, Zenon DEF n
    <2> QED  BY <1>2, <2>2, <2>3, Zenon DEF sendDirect
  <1>7. ConnTypeOK'
    BY <1>1, <1>4, <1>6, Zenon DEF ConnTypeOK, SendStates, Wires
  <1>8. QueueInv'
    BY <1>1, <1>5, <1>6, Zenon DEF QueueInv
  <1> QED  BY <1>1, <1>7, <1>8, Zenon DEF StaysClosed

\* sendLoop takes a frame, or ends.
LEMMA TakeStep ==
  ASSUME ConnTypeOK, QueueInv, NEW c \in Conns, Take(c)
  PROVE  ConnTypeOK' /\ QueueInv' /\ StaysClosed
  <1>1. /\ loop[c] = "range" /\ UNCHANGED <<phase, sends, wire, accepted, crashed>>
        /\ \/ /\ sendChan[c] # << >> /\ sendChan' = Set(sendChan, c, Tail(sendChan[c]))
              /\ loop' = Set(loop, c, IF isClosed(c) THEN "done" ELSE Head(sendChan[c]))
           \/ sendChan[c] = << >> /\ loop' = Set(loop, c, "done") /\ UNCHANGED sendChan
    BY Zenon DEF Take
  <1> DEFINE acc == accepted[c]
             q == sendChan[c]
  <1>2. /\ acc \in Seq(Frames) /\ q \in Seq(Frames) /\ wire[c] \in Seq(Wires) /\ loop[c] \in LoopAts
        /\ loop \in [Conns -> LoopAts] /\ sendChan \in [Conns -> Seq(Frames)] /\ SendQueue \in Nat
        /\ Queued(acc, q, "range", sends[c]) /\ Ordered(acc, Past(acc, q, "range"), wire[c])
        /\ Complete(acc, Past(acc, q, "range"), wire[c]) /\ Len(q) <= SendQueue
    BY <1>1, Strings, QueueAssumption, Zenon DEF ConnTypeOK, QueueInv, LoopAts, Wires
  <1>3. Past(acc, q, "range") \in Nat /\ Past(acc, q, "range") = Len(acc) - Len(q) /\ Len(acc) \in Nat /\ Len(q) \in Nat
    BY <1>2, PastIs, Strings, Zenon DEF LoopAts
  <1>4. PICK q2 \in Seq(Frames), at \in LoopAts :
          /\ sendChan' = [sendChan EXCEPT ![c] = q2] /\ loop' = [loop EXCEPT ![c] = at] /\ at # "range"
          /\ \/ q # << >> /\ q2 = Tail(q) /\ (at = "done" \/ at = Head(q))
             \/ q = << >> /\ q2 = q /\ at = "done"
    <2>1. CASE q # << >>
      <3>1. Tail(q) \in Seq(Frames) /\ Head(q) \in Frames
        BY <1>2, <2>1, TailOf, Zenon
      <3>2. PICK a \in {"done", Head(q)} : loop' = [loop EXCEPT ![c] = a]
        BY <1>1, <2>1, Zenon DEF Set
      <3>3. a \in LoopAts /\ a # "range"
        BY <3>1, <3>2, Strings, Zenon DEF LoopAts
      <3>4. sendChan' = [sendChan EXCEPT ![c] = Tail(q)]
        BY <1>1, <2>1, Zenon DEF Set
      <3> QED  BY <2>1, <3>1, <3>2, <3>3, <3>4, Zenon
    <2>2. CASE q = << >>
      <3>1. sendChan' = [sendChan EXCEPT ![c] = q] /\ loop' = [loop EXCEPT ![c] = "done"] /\ "done" \in LoopAts
        BY <1>1, <1>2, <2>2, Zenon DEF Set, LoopAts
      <3> QED  BY <1>2, <2>2, <3>1, Zenon
    <2> QED  BY <2>1, <2>2, Zenon
  <1> HIDE DEF acc, q
  <1>5. Len(q2) \in Nat /\ Len(q2) <= Len(q) /\ Len(acc) - Len(q) <= Len(acc) - Len(q2)
    BY <1>2, <1>3, <1>4, TailOf
  <1>6. Queued(acc, q2, at, sends[c])
    <2>1. CASE q # << >>
      <3>1. /\ q2 = Tail(q) /\ Len(q2) = Len(q) - 1 /\ Len(q) \in Nat \ {0} /\ Head(q) = q[1] /\ Head(q) \in Frames
            /\ \A k \in 1 .. Len(q) - 1 : q2[k] = q[k + 1]
        BY <1>2, <1>4, <2>1, TailOf, Zenon
      <3>2. Len(q) <= Len(acc) /\ \A k \in 1 .. Len(q) : q[k] = acc[Len(acc) - Len(q) + k]
        BY <1>2, Zenon DEF Queued
      <3>3. ASSUME NEW k \in 1 .. Len(q2)  PROVE q2[k] = acc[Len(acc) - Len(q2) + k]
        <4>1. k \in 1 .. Len(q) - 1 /\ k + 1 \in 1 .. Len(q) /\ Len(acc) - Len(q2) + k = Len(acc) - Len(q) + (k + 1)
          BY <1>3, <3>1
        <4> QED  BY <3>1, <3>2, <4>1, Zenon
      <3>4. at \in Frames => Len(q2) < Len(acc) /\ at = acc[Len(acc) - Len(q2)]
        <4>1. Len(acc) - Len(q2) = Len(acc) - Len(q) + 1 /\ 1 \in 1 .. Len(q) /\ Len(q2) < Len(acc)
          BY <1>3, <3>1, <3>2
        <4>2. at \in Frames => at = q[1]
          BY <1>4, <2>1, <3>1, Strings, Zenon
        <4> QED  BY <3>2, <4>1, <4>2, Zenon
      <3> QED  BY <1>2, <1>3, <3>1, <3>2, <3>3, <3>4 DEF Queued
    <2>2. CASE q = << >>
      <3>1. q2 = q /\ at \notin Frames
        BY <1>4, <2>2, Strings, Zenon
      <3> QED  BY <1>2, <3>1, Strings, Zenon DEF Queued
    <2> QED  BY <2>1, <2>2, Zenon
  <1>7. Ordered(acc, Past(acc, q2, at), wire[c]) /\ (Going(at) => Complete(acc, Past(acc, q2, at), wire[c]))
    <2>1. CASE at \in Frames
      <3>1. Len(q2) = Len(q) - 1
        BY <1>2, <1>4, <2>1, Strings, TailOf, Zenon
      <3>2. Past(acc, q2, at) = Past(acc, q, "range")
        BY <1>3, <2>1, <3>1 DEF Past
      <3> QED  BY <1>2, <3>2, Zenon
    <2>2. CASE at \notin Frames
      <3>1. ~Going(at)
        BY <1>4, <2>2, Zenon DEF Going
      <3>2. Past(acc, q2, at) \in Nat /\ Past(acc, q, "range") <= Past(acc, q2, at)
        BY <1>2, <1>3, <1>4, <1>5, <1>6, <2>2, PastIs
      <3>3. Ordered(acc, Past(acc, q2, at), wire[c])
        BY <1>2, <1>3, <3>2, OrderedLater, Zenon
      <3> QED  BY <3>1, <3>3, Zenon
    <2> QED  BY <2>1, <2>2, Zenon
  <1>8. /\ sendChan'[c] = q2 /\ loop'[c] = at /\ sendChan' \in [Conns -> Seq(Frames)] /\ loop' \in [Conns -> LoopAts]
        /\ \A d \in Conns \ {c} : sendChan'[d] = sendChan[d] /\ loop'[d] = loop[d]
        /\ Len(q2) <= SendQueue
    BY <1>2, <1>3, <1>4, <1>5
  <1>9. ConnTypeOK'
    BY <1>1, <1>8, Zenon DEF ConnTypeOK, LoopAts
  <1>10. QueueInv'
    BY <1>1, <1>6, <1>7, <1>8, Zenon DEF QueueInv, acc
  <1> QED  BY <1>1, <1>9, <1>10, Zenon DEF StaysClosed

\* sendLoop writes its frame.
LEMMA WriteStep ==
  ASSUME ConnTypeOK, QueueInv, NEW c \in Conns, Write(c)
  PROVE  ConnTypeOK' /\ QueueInv' /\ StaysClosed
  <1> DEFINE acc == accepted[c]
             q == sendChan[c]
             at == loop[c]
             w == wire[c]
             n == Past(acc, q, at)
  <1>1. PICK ok \in BOOLEAN :
          /\ sendDirect(c, at, "loop", ok)
          /\ loop' = Set(loop, c, IF ok THEN "range" ELSE IF isClosed(c) THEN "done" ELSE "closing")
          /\ phase' = IF ok \/ isClosed(c) THEN phase ELSE Set(phase, c, "flagged")
    BY Zenon DEF Write
  <1>2. at \in Frames /\ UNCHANGED <<sendChan, sends, accepted, crashed>>
    BY Zenon DEF Write
  <1>3. /\ acc \in Seq(Frames) /\ q \in Seq(Frames) /\ w \in Seq(Wires) /\ at \in LoopAts
        /\ wire \in [Conns -> Seq(Wires)] /\ loop \in [Conns -> LoopAts] /\ phase \in [Conns -> PhaseNames]
        /\ Queued(acc, q, at, sends[c]) /\ Ordered(acc, n, w) /\ Complete(acc, n, w)
    BY <1>2, Strings, Zenon DEF ConnTypeOK, QueueInv, LoopAts, Wires, PhaseNames, Going
  <1>4. /\ n \in Nat /\ Len(acc) \in Nat /\ Len(q) \in Nat /\ n = Len(acc) - Len(q) - 1
        /\ n + 1 = Len(acc) - Len(q) /\ n + 1 \in 1 .. Len(acc) /\ at = acc[n + 1]
    <2>1. n \in Nat /\ Len(acc) \in Nat /\ Len(q) \in Nat /\ n = Len(acc) - Len(q) - 1
      BY <1>2, <1>3, PastIs, Zenon
    <2>2. Len(q) < Len(acc) /\ at = acc[Len(acc) - Len(q)]
      BY <1>2, <1>3, Zenon DEF Queued
    <2> HIDE DEF n, acc, q, at
    <2>3. n + 1 = Len(acc) - Len(q) /\ n + 1 \in 1 .. Len(acc)
      BY <2>1, <2>2
    <2> QED  BY <2>1, <2>2, <2>3, Zenon
  <1>5. PICK to \in LoopAts \ Frames :
          loop' = [loop EXCEPT ![c] = to] /\ (ok => to = "range") /\ (~ok => to \in {"done", "closing"})
    <2>1. CASE ok
      BY <1>1, <2>1, Strings, Zenon DEF Set, LoopAts
    <2>2. CASE ~ok
      <3>1. loop' = [loop EXCEPT ![c] = "done"] \/ loop' = [loop EXCEPT ![c] = "closing"]
        BY <1>1, <2>2, Zenon DEF Set
      <3> QED  BY <2>2, <3>1, Strings, Zenon DEF LoopAts
    <2> QED  BY <2>1, <2>2, Zenon
  <1>6. phase' \in [Conns -> PhaseNames] /\ StaysClosed
    <2>1. phase' = phase \/ phase' = [phase EXCEPT ![c] = "flagged"]
      BY <1>1, Zenon DEF Set
    <2> QED  BY <1>3, <2>1, Zenon DEF StaysClosed, PhaseNames
  <1> DEFINE x == [frame |-> at, by |-> "loop", whole |-> ok]
  <1>7. x \in Wires /\ x.by = "loop" /\ x.frame = at /\ (ok => x = Whole(at))
    BY <1>2, Zenon DEF Wires, Whole
  <1>8. /\ \/ wire' = [wire EXCEPT ![c] = Append(w, x)]
           \/ ~ok /\ wire' = wire
    BY <1>1, Zenon DEF sendDirect, Set
  <1> HIDE DEF acc, q, at, w, n, x
  <1>9. Queued(acc, q, to, sends[c])
    BY <1>3, <1>5, Zenon DEF Queued
  <1>10. Past(acc, q, to) = n + 1
    BY <1>4, <1>5 DEF Past
  <1>11. Going(to) => ok
    BY <1>5, Strings, Zenon DEF Going
  <1>12. Ordered(acc, n + 1, Append(w, x)) /\ (ok => Complete(acc, n + 1, Append(w, x)))
    <2>1. /\ acc[n + 1] = x.frame /\ n + 1 \in 1 .. n + 1 /\ n + 1 \in Nat /\ n <= n + 1
          /\ \A p \in 1 .. (n + 1) - 1 : \E i \in 1 .. Len(w) : w[i] = Whole(acc[p])
      <3>1. n + 1 \in 1 .. n + 1 /\ n + 1 \in Nat /\ n <= n + 1 /\ (n + 1) - 1 = n
        BY <1>4
      <3> QED  BY <1>3, <1>4, <1>7, <3>1, Zenon DEF Complete
    <2>2. ASSUME NEW i \in 1 .. Len(w), w[i].by = "loop"  PROVE w[i].frame # x.frame
      <3>1. PICK r \in 1 .. n : acc[r] = w[i].frame
        BY <1>3, <2>2, Zenon DEF Ordered
      <3>2. r \in 1 .. Len(acc) /\ r # n + 1
        BY <1>4
      <3>3. acc[r] # acc[n + 1]
        BY <1>3, <1>4, <3>2, Zenon DEF Queued
      <3> QED  BY <1>4, <1>7, <3>1, <3>3, Zenon
    <2>3. Fits(acc, n + 1, w, x)
      BY <2>1, <2>2, Zenon DEF Fits
    <2>4. Ordered(acc, n + 1, Append(w, x))
      BY <1>3, <1>4, <1>7, <2>1, <2>3, OrderedAppend, Zenon
    <2>5. ok => Complete(acc, n + 1, Append(w, x))
      BY <1>3, <1>4, <1>7, <2>1, CompleteAppend, Zenon
    <2> QED  BY <2>4, <2>5, Zenon
  <1>13. CASE ~ok /\ wire' = wire
    <2>1. Ordered(acc, n + 1, w)
      <3>1. n + 1 \in Nat /\ n <= n + 1
        BY <1>4
      <3> QED  BY <1>3, <1>4, <3>1, OrderedLater, Zenon
    <2>2. ~Going(to)
      BY <1>11, <1>13, Zenon
    <2>3. QueueInv'
      BY <1>2, <1>3, <1>5, <1>9, <1>10, <1>13, <2>1, <2>2, Zenon DEF QueueInv, acc, q, w
    <2>4. ConnTypeOK'
      BY <1>2, <1>3, <1>5, <1>6, <1>13, Zenon DEF ConnTypeOK, LoopAts, PhaseNames
    <2> QED  BY <1>6, <2>3, <2>4, Zenon
  <1>14. CASE wire' = [wire EXCEPT ![c] = Append(w, x)]
    <2>1. Append(w, x) \in Seq(Wires)
      BY <1>3, <1>7
    <2>2. /\ wire' \in [Conns -> Seq(Wires)] /\ wire'[c] = Append(w, x) /\ loop'[c] = to /\ loop' \in [Conns -> LoopAts]
          /\ \A d \in Conns \ {c} : wire'[d] = wire[d] /\ loop'[d] = loop[d]
      BY <1>3, <1>5, <1>14, <2>1, Zenon
    <2>3. QueueInv'
      BY <1>2, <1>9, <1>10, <1>11, <1>12, <2>2, Zenon DEF QueueInv, acc, q
    <2>4. ConnTypeOK'
      BY <1>2, <1>6, <2>2, Zenon DEF ConnTypeOK, LoopAts, PhaseNames, Wires
    <2> QED  BY <1>6, <2>3, <2>4, Zenon
  <1> QED  BY <1>8, <1>13, <1>14, Zenon

\* A Close goes on; sendLoop ends if it was waiting for that.
LEMMA PhaseMoves ==
  ASSUME ConnTypeOK, QueueInv, NEW c \in Conns, NEW to \in PhaseNames \ {"open"},
         phase' = [phase EXCEPT ![c] = to],
         loop' = loop \/ (loop[c] = "closing" /\ loop' = [loop EXCEPT ![c] = "done"]),
         UNCHANGED <<sendChan, sends, wire, accepted, crashed>>
  PROVE  ConnTypeOK' /\ QueueInv' /\ StaysClosed
  <1>1. phase \in [Conns -> PhaseNames] /\ loop \in [Conns -> LoopAts]
    BY Zenon DEF ConnTypeOK, PhaseNames, LoopAts
  <1>2. phase' \in [Conns -> PhaseNames] /\ StaysClosed
    BY <1>1, Zenon DEF StaysClosed, PhaseNames
  <1>3. CASE loop' = loop
    BY <1>2, <1>3, Zenon DEF ConnTypeOK, QueueInv, PhaseNames
  <1>4. CASE loop[c] = "closing" /\ loop' = [loop EXCEPT ![c] = "done"]
    <2>1. /\ loop' \in [Conns -> LoopAts] /\ loop'[c] = "done" /\ \A d \in Conns \ {c} : loop'[d] = loop[d]
      BY <1>1, <1>4, Zenon DEF LoopAts
    <2>2. /\ Queued(accepted[c], sendChan[c], "closing", sends[c])
          /\ Ordered(accepted[c], Past(accepted[c], sendChan[c], "closing"), wire[c])
      BY <1>4, Zenon DEF QueueInv
    <2>3. /\ Queued(accepted[c], sendChan[c], "done", sends[c])
          /\ Ordered(accepted[c], Past(accepted[c], sendChan[c], "done"), wire[c])
      <3>1. Queued(accepted[c], sendChan[c], "done", sends[c])
        BY <2>2, Strings, Zenon DEF Queued
      <3>2. Past(accepted[c], sendChan[c], "closing") = Past(accepted[c], sendChan[c], "done")
        BY Strings, Zenon DEF Past
      <3> QED  BY <2>2, <3>1, <3>2, Zenon
    <2>4. ConnTypeOK'
      BY <1>2, <2>1, Zenon DEF ConnTypeOK, PhaseNames, LoopAts
    <2>5. QueueInv'
      BY <2>1, <2>3, Strings, Zenon DEF QueueInv
    <2> QED  BY <1>2, <2>4, <2>5, Zenon
  <1> QED  BY <1>3, <1>4, Zenon

LEMMA CloseMoves ==
  ASSUME ConnTypeOK, QueueInv, NEW c \in Conns, CloseStep(c)
  PROVE  ConnTypeOK' /\ QueueInv' /\ StaysClosed
  <1>0. Phases[3] = "stated" /\ Phases[4] = "chanClosed" /\ Phases[5] = "closed"
    BY Zenon DEF Phases
  <1>1. PICK to \in PhaseNames \ {"open"} : phase' = [phase EXCEPT ![c] = to]
    <2>1. PICK i \in 2 .. 4 : phase' = [phase EXCEPT ![c] = Phases[i + 1]]
      BY Zenon DEF CloseStep, Set
    <2>2. Phases[i + 1] \in PhaseNames \ {"open"}
      <3>1. i + 1 \in {3, 4, 5}
        BY <2>1
      <3> QED  BY <1>0, <3>1, Zenon DEF PhaseNames
    <2> QED  BY <2>1, <2>2, Zenon
  <1>2. loop' = loop \/ (loop[c] = "closing" /\ loop' = [loop EXCEPT ![c] = "done"])
    BY Zenon DEF CloseStep, Set
  <1> QED  BY <1>1, <1>2, PhaseMoves, Zenon DEF CloseStep

LEMMA PutStep ==
  ASSUME ConnTypeOK, QueueInv, NEW c \in Conns, NEW m \in Frames, Put(c, m)
  PROVE  ConnTypeOK' /\ QueueInv' /\ StaysClosed
  <1>1. sends[c][m] = "put" /\ UNCHANGED <<phase, loop, wire>>
    BY Zenon DEF Put
  <1>2. CASE crashed' = TRUE /\ UNCHANGED <<sendChan, sends, accepted>>
    BY <1>1, <1>2, Zenon DEF ConnTypeOK, QueueInv, StaysClosed
  <1>3. CASE /\ Len(sendChan[c]) < SendQueue
             /\ sendChan' = Set(sendChan, c, Append(sendChan[c], m))
             /\ accepted' = Set(accepted, c, Append(accepted[c], m))
             /\ SendAt(c, m, "ok") /\ UNCHANGED crashed
    BY <1>1, <1>3, QueueStep, Zenon
  <1>4. CASE SendAt(c, m, "direct") /\ UNCHANGED <<sendChan, accepted, crashed>>
    <2>1. "direct" \in SendStates /\ crashed' \in BOOLEAN
      BY <1>4, Zenon DEF SendStates, ConnTypeOK
    <2> QED  BY <1>1, <1>4, <2>1, SendMoves, Zenon
  <1> QED  BY <1>2, <1>3, <1>4, Zenon DEF Put

LEMMA CheckStep ==
  ASSUME ConnTypeOK, QueueInv, NEW c \in Conns, NEW m \in Frames, sends[c][m] # "ok", CheckClosed(c, m)
  PROVE  ConnTypeOK' /\ QueueInv' /\ StaysClosed
  <1>1. PICK at \in SendStates : SendAt(c, m, at)
    BY Zenon DEF CheckClosed, SendStates
  <1>2. crashed' \in BOOLEAN /\ UNCHANGED <<phase, sendChan, loop, wire, accepted>>
    BY Zenon DEF CheckClosed, ConnTypeOK
  <1> QED  BY <1>1, <1>2, SendMoves, Zenon

\* The connections by themselves keep their invariants, open no connection again, and
\* begin no call of Send.
LEMMA ConnSteps ==
  ASSUME ConnTypeOK, QueueInv, ConnNext
  PROVE  /\ ConnTypeOK' /\ QueueInv' /\ StaysClosed
         /\ \A c \in Conns, m \in Frames : sends[c][m] = "idle" => sends'[c][m] = "idle"
  <1> DEFINE Rest == \A d \in Conns, k \in Frames : sends[d][k] = "idle" => sends'[d][k] = "idle"
  <1>0. sends \in [Conns -> [Frames -> SendStates]]
    BY Zenon DEF ConnTypeOK, SendStates
  <1>1. PICK c \in Conns : \/ SendLoop(c) \/ CloseStep(c)
                         \/ \E m \in Frames : SpawnedSend(c, m) \/ Put(c, m) \/ Direct(c, m)
    BY Zenon DEF ConnNext
  <1>2. CASE SendLoop(c)
    <2>1. Rest
      BY <1>2, Zenon DEF SendLoop, Take, Write
    <2> QED  BY <1>2, <2>1, TakeStep, WriteStep, Zenon DEF SendLoop
  <1>3. CASE CloseStep(c)
    <2>1. Rest
      BY <1>3, Zenon DEF CloseStep
    <2> QED  BY <1>3, <2>1, CloseMoves, Zenon
  <1>4. ASSUME NEW m \in Frames, sends[c][m] # "idle", NEW at, SendAt(c, m, at)  PROVE Rest
    BY <1>0, <1>4, Zenon DEF SendAt
  <1>5. ASSUME NEW m \in Frames, SpawnedSend(c, m)  PROVE ConnTypeOK' /\ QueueInv' /\ StaysClosed /\ Rest
    <2>1. sends[c][m] = "spawned" /\ CheckClosed(c, m)
      BY <1>5, Zenon DEF SpawnedSend
    <2>2. PICK at : SendAt(c, m, at)
      BY <2>1, Zenon DEF CheckClosed
    <2>3. Rest
      BY <1>4, <2>1, <2>2, Zenon
    <2> QED  BY <2>1, <2>3, CheckStep, Zenon
  <1>6. ASSUME NEW m \in Frames, Put(c, m)  PROVE ConnTypeOK' /\ QueueInv' /\ StaysClosed /\ Rest
    <2>1. sends[c][m] = "put" /\ (UNCHANGED sends \/ SendAt(c, m, "ok") \/ SendAt(c, m, "direct"))
      BY <1>6, Zenon DEF Put
    <2>2. Rest
      BY <1>4, <2>1, Zenon
    <2> QED  BY <1>6, <2>2, PutStep, Zenon
  <1>7. ASSUME NEW m \in Frames, Direct(c, m)  PROVE ConnTypeOK' /\ QueueInv' /\ StaysClosed /\ Rest
    <2>1. sends[c][m] = "direct" /\ \E at : SendAt(c, m, at)
      BY <1>7, Zenon DEF Direct
    <2>2. Rest
      BY <1>4, <2>1, Zenon
    <2> QED  BY <1>7, <2>2, DirectStep, Zenon
  <1> QED  BY <1>1, <1>2, <1>3, <1>5, <1>6, <1>7, Zenon

----------------------------------------------------------------------------
(* The manager                                                             *)

\* The fields of the manager keep their types.
ManagerTypes ==
  /\ connections \subseteq Conns
  /\ holder \in [op : {"none", "remove", "cleanup", "closeAll", "stop"}, todo : SUBSET Conns, won : SUBSET Conns]
  /\ hbOn \in BOOLEAN /\ started \in 0 .. MaxHeartbeats
  /\ ticker \in 0 .. started /\ stopChan \in 0 .. started
  /\ ended \subseteq 0 .. MaxHeartbeats /\ ticks \subseteq Gens /\ beats \subseteq Beats
  /\ loops \in [Gens -> [at : {"none", "select", "readStop", "wait", "beat", "done"},
                         tick : 0 .. MaxHeartbeats, stop : 0 .. MaxHeartbeats]]

ManagerInv == ManagerTypes /\ HolderInv /\ HeartbeatInv

LEMMA Parts == ConnectionInv <=> ConnTypeOK /\ QueueInv /\ BeatInv /\ ManagerInv
  BY Zenon DEF ConnectionInv, TypeOK, ManagerTypes, ManagerInv

\* The lock is kept, or taken by something that is not StopHeartbeat.
LEMMA MapStep ==
  ASSUME ManagerInv, StaysClosed, UNCHANGED hbVars,
         connections' \subseteq Conns,
         holder' \in [op : {"none", "remove", "cleanup", "closeAll"}, todo : SUBSET Conns, won : SUBSET Conns],
         holder.op # "stop",
         holder'.op = "none" => holder'.todo = {}, holder'.won \subseteq holder'.todo,
         holder'.op = "closeAll" => \A c \in connections' \ holder'.todo : phase'[c] # "open"
  PROVE  ManagerInv'
  <1>1. ManagerTypes'
    BY Zenon DEF ManagerInv, ManagerTypes, hbVars
  <1>2. HolderInv'
    BY Zenon DEF HolderInv, isClosed
  <1>3. holder'.op # "stop" /\ UNCHANGED <<hbOn, stopChan, ended, loops>>
    BY Zenon DEF hbVars
  <1>4. HeartbeatInv'
    BY <1>3, Zenon DEF ManagerInv, HeartbeatInv, Alive
  <1> QED  BY <1>1, <1>2, <1>4, Zenon DEF ManagerInv

\* Nothing of the manager changes.
LEMMA ManagerStays ==
  ASSUME ManagerInv, StaysClosed, UNCHANGED <<connections, holder, hbVars>>
  PROVE  ManagerInv'
  <1>1. ManagerTypes'
    BY Zenon DEF ManagerInv, ManagerTypes, hbVars
  <1>3. HeartbeatInv'
    BY Zenon DEF ManagerInv, HeartbeatInv, hbVars, Alive
  <1>2. HolderInv'
    BY Zenon DEF ManagerInv, ManagerTypes, HolderInv, isClosed, StaysClosed
  <1> QED  BY <1>1, <1>2, <1>3, Zenon DEF ManagerInv

LEMMA LockStep ==
  ASSUME ManagerInv, NEW op \in {"remove", "cleanup", "closeAll"}, NEW cs \in SUBSET Conns,
         op = "closeAll" => cs = connections, Lock(op, cs)
  PROVE  ManagerInv' /\ UNCHANGED <<connVars, beats, connections>>
  <1> DEFINE h == [op |-> op, todo |-> cs, won |-> {}]
  <1>1. holder = Free /\ holder' = h /\ UNCHANGED <<connVars, connections, hbVars>>
    BY Zenon DEF Lock
  <1>2. h \in [op : {"none", "remove", "cleanup", "closeAll"}, todo : SUBSET Conns, won : SUBSET Conns]
    BY Zenon
  <1>3. h.op = op /\ h.todo = cs /\ h.won = {} /\ h.op # "none" /\ holder.op # "stop"
    BY <1>1, Zenon DEF Free
  <1> HIDE DEF h
  <1>4. StaysClosed /\ connections' \subseteq Conns
    BY <1>1, Zenon DEF StaysClosed, connVars, ManagerInv, ManagerTypes
  <1>5. ManagerInv'
    BY <1>1, <1>2, <1>3, <1>4, MapStep, Zenon
  <1> QED  BY <1>1, <1>5, Zenon DEF hbVars

\* The operation is done with c.
LEMMA DoneStep ==
  ASSUME ManagerInv, NEW c \in holder.todo, Done(c)
  PROVE  /\ holder' \in [op : {"none", "remove", "cleanup", "closeAll"}, todo : SUBSET Conns, won : SUBSET Conns]
         /\ holder.op \notin {"stop", "none"}
         /\ (holder'.op = "none" => holder'.todo = {}) /\ holder'.won = {}
         /\ holder'.op = "closeAll" => holder.op = "closeAll" /\ holder'.todo = holder.todo \ {c}
  <1>1. /\ holder \in [op : {"none", "remove", "cleanup", "closeAll", "stop"}, todo : SUBSET Conns, won : SUBSET Conns]
        /\ holder.op \notin {"stop", "none"}
    BY Zenon DEF ManagerInv, ManagerTypes, HolderInv
  <1>2. CASE holder' = Free
    BY <1>1, <1>2, Zenon DEF Free
  <1>3. CASE holder' = [holder EXCEPT !.todo = @ \ {c}, !.won = {}]
    <2> DEFINE t == holder.todo \ {c}
               h == [holder EXCEPT !.todo = t, !.won = {}]
    <2>1. t \in SUBSET Conns /\ holder' = h
      BY <1>1, <1>3, Zenon
    <2> HIDE DEF t
    <2>2. /\ h \in [op : {"none", "remove", "cleanup", "closeAll"}, todo : SUBSET Conns, won : SUBSET Conns]
          /\ h.op = holder.op /\ h.todo = t /\ h.won = {}
      BY <1>1, <2>1, Zenon
    <2> HIDE DEF h
    <2> QED  BY <1>1, <2>1, <2>2, Zenon DEF t
  <1> QED  BY <1>2, <1>3, Zenon DEF Done

\* A visit that is over: Cleanup keeps the connection, or it leaves the map, closed.
LEMMA VisitedStep ==
  ASSUME ManagerInv, StaysClosed, NEW c \in holder.todo, Done(c), UNCHANGED hbVars,
         \/ UNCHANGED connections /\ holder.op = "cleanup"
         \/ /\ phase'[c] # "open"
            /\ connections' = IF holder.op = "closeAll" THEN connections ELSE connections \ {c}
  PROVE  ManagerInv'
  <1>1. /\ holder' \in [op : {"none", "remove", "cleanup", "closeAll"}, todo : SUBSET Conns, won : SUBSET Conns]
        /\ holder.op \notin {"stop", "none"}
        /\ (holder'.op = "none" => holder'.todo = {}) /\ holder'.won = {}
        /\ holder'.op = "closeAll" => holder.op = "closeAll" /\ holder'.todo = holder.todo \ {c}
    BY DoneStep, Zenon
  <1>2. connections \subseteq Conns /\ connections' \subseteq Conns
    BY Zenon DEF ManagerInv, ManagerTypes
  <1>3. ASSUME holder'.op = "closeAll", NEW d \in connections' \ holder'.todo  PROVE phase'[d] # "open"
    <2>1. holder.op = "closeAll" /\ connections' = connections /\ (d = c \/ d \in connections \ holder.todo)
      BY <1>1, <1>3, Zenon
    <2>2. CASE d = c
      BY <2>1, <2>2, Zenon
    <2>3. CASE d \in connections \ holder.todo
      BY <1>2, <2>1, <2>3, Zenon DEF ManagerInv, HolderInv, isClosed, StaysClosed
    <2> QED  BY <2>1, <2>2, <2>3, Zenon
  <1> QED  BY <1>1, <1>2, <1>3, MapStep, Zenon

LEMMA VisitStep ==
  ASSUME ConnTypeOK, QueueInv, ManagerInv, NEW c \in Conns, Visit(c)
  PROVE  ConnTypeOK' /\ QueueInv' /\ ManagerInv'
  <1>1. /\ holder.won = {} /\ c \in holder.todo /\ holder.op \notin {"none", "stop"}
        /\ UNCHANGED <<sendChan, loop, sends, wire, accepted, crashed, hbVars>>
    BY Zenon DEF Visit, ManagerInv, HolderInv
  <1>2. CASE holder.op = "cleanup" /\ Done(c) /\ UNCHANGED <<phase, connections>>
    <2>1. ConnTypeOK' /\ QueueInv' /\ StaysClosed
      BY <1>1, <1>2, Zenon DEF ConnTypeOK, QueueInv, StaysClosed
    <2> QED  BY <1>1, <1>2, <2>1, VisitedStep, Zenon
  <1>3. CASE isClosed(c) /\ Visited(c) /\ UNCHANGED phase
    <2>1. ConnTypeOK' /\ QueueInv' /\ StaysClosed
      BY <1>1, <1>3, Zenon DEF ConnTypeOK, QueueInv, StaysClosed
    <2>2. phase'[c] # "open" /\ Done(c) /\ connections' = IF holder.op = "closeAll" THEN connections ELSE connections \ {c}
      BY <1>3, Zenon DEF isClosed, Visited
    <2> QED  BY <1>1, <2>1, <2>2, VisitedStep, Zenon
  <1>4. CASE /\ phase' = Set(phase, c, "flagged") /\ holder' = [holder EXCEPT !.won = {c}]
             /\ UNCHANGED connections
    <2>1. ConnTypeOK' /\ QueueInv' /\ StaysClosed
      <3>1. "flagged" \in PhaseNames \ {"open"} /\ phase' = [phase EXCEPT ![c] = "flagged"]
        BY <1>4, Zenon DEF PhaseNames, Set
      <3> QED  BY <1>1, <3>1, PhaseMoves, Zenon
    <2>2. /\ holder \in [op : {"none", "remove", "cleanup", "closeAll", "stop"}, todo : SUBSET Conns, won : SUBSET Conns]
          /\ connections \subseteq Conns
      BY Zenon DEF ManagerInv, ManagerTypes
    <2>3. /\ holder' \in [op : {"none", "remove", "cleanup", "closeAll"}, todo : SUBSET Conns, won : SUBSET Conns]
          /\ holder'.op = holder.op /\ holder'.todo = holder.todo /\ holder'.won = {c}
      BY <1>1, <1>4, <2>2, Zenon
    <2>4. holder'.op = "closeAll" => \A d \in connections' \ holder'.todo : phase'[d] # "open"
      BY <1>4, <2>1, <2>2, <2>3, Zenon DEF ManagerInv, HolderInv, isClosed, StaysClosed
    <2> QED  BY <1>1, <1>4, <2>1, <2>2, <2>3, <2>4, MapStep, Zenon
  <1> QED  BY <1>2, <1>3, <1>4, Zenon DEF Visit

LEMMA CloseReturnedStep ==
  ASSUME ConnTypeOK, ManagerInv, NEW c \in Conns, CloseReturned(c)
  PROVE  ManagerInv' /\ UNCHANGED <<connVars, beats>>
  <1>1. c \in holder.todo /\ phase[c] = "closed" /\ Visited(c) /\ UNCHANGED <<connVars, hbVars>>
    BY Zenon DEF CloseReturned, ManagerInv, HolderInv
  <1>2. StaysClosed /\ phase'[c] # "open" /\ UNCHANGED hbVars /\ Done(c)
    BY <1>1, Zenon DEF StaysClosed, connVars, Visited
  <1>3. connections' = IF holder.op = "closeAll" THEN connections ELSE connections \ {c}
    BY <1>1, Zenon DEF Visited
  <1>4. ManagerInv'
    BY <1>1, <1>2, <1>3, VisitedStep, Zenon
  <1> QED  BY <1>1, <1>4, Zenon DEF hbVars

\* The steps of the manager that touch neither a connection nor a heartbeat's loop.
LEMMA MapSteps ==
  ASSUME ConnTypeOK, ManagerInv,
         \/ \E c \in Conns : AddConnection(c) \/ RemoveConnection(c)
         \/ Cleanup \/ CloseAllConnections \/ ClearConnections
         \/ StopHeartbeat \/ StopClose \/ StopWait
  PROVE  ManagerInv' /\ UNCHANGED <<connVars, beats>>
  <1>1. ASSUME NEW c \in Conns, AddConnection(c)  PROVE ManagerInv' /\ UNCHANGED <<connVars, beats>>
    <2>1. /\ holder = Free /\ holder' = Free /\ connections' = connections \cup {c}
          /\ UNCHANGED <<connVars, hbVars>>
      BY <1>1, Zenon DEF AddConnection
    <2>2. /\ Free \in [op : {"none", "remove", "cleanup", "closeAll"}, todo : SUBSET Conns, won : SUBSET Conns]
          /\ Free.op = "none" /\ Free.todo = {} /\ Free.won = {}
      BY Zenon DEF Free
    <2>3. StaysClosed /\ connections' \subseteq Conns
      BY <2>1, Zenon DEF StaysClosed, connVars, ManagerInv, ManagerTypes
    <2>4. ManagerInv'
      BY <2>1, <2>2, <2>3, MapStep, Zenon
    <2> QED  BY <2>1, <2>4, Zenon DEF hbVars
  <1>2. ASSUME NEW c \in Conns, RemoveConnection(c)  PROVE ManagerInv' /\ UNCHANGED <<connVars, beats>>
    BY <1>2, LockStep, Zenon DEF RemoveConnection
  <1>3. CASE Cleanup \/ CloseAllConnections
    <2>1. connections \in SUBSET Conns
      BY Zenon DEF ManagerInv, ManagerTypes
    <2> QED  BY <1>3, <2>1, LockStep, Zenon DEF Cleanup, CloseAllConnections
  <1>4. CASE ClearConnections
    <2>1. /\ holder.op = "closeAll" /\ holder' = Free /\ connections' = {} /\ hbOn' = FALSE
          /\ ended' = IF hbOn THEN ended \cup {stopChan} ELSE ended
          /\ UNCHANGED <<connVars, started, ticker, stopChan, ticks, fired, beats, loops>>
      BY <1>4, Zenon DEF ClearConnections
    <2>2. stopChan \in 0 .. MaxHeartbeats
      BY StartsAssumption DEF ManagerInv, ManagerTypes
    <2>3. ManagerTypes'
      BY <2>1, <2>2, Zenon DEF ManagerInv, ManagerTypes, Free
    <2>4. HolderInv'
      BY <2>1, Zenon DEF HolderInv, Free
    <2>5. HeartbeatInv'
      <3>1. Alive' = Alive /\ holder'.op # "stop"
        BY <2>1, Zenon DEF Alive, Free
      <3>2. CASE hbOn
        BY <2>1, <3>1, <3>2, Zenon DEF ManagerInv, HeartbeatInv
      <3>3. CASE ~hbOn
        BY <2>1, <3>1, <3>3, Zenon DEF ManagerInv, HeartbeatInv
      <3> QED  BY <3>2, <3>3, Zenon
    <2> QED  BY <2>1, <2>3, <2>4, <2>5, Zenon DEF ManagerInv
  <1>5. CASE StopHeartbeat
    <2>1. /\ holder' = [Free EXCEPT !.op = "stop"] /\ hbOn' = FALSE /\ ticker' = 0
          /\ UNCHANGED <<connVars, connections, started, stopChan, ended, ticks, fired, beats, loops>>
      BY <1>5, Zenon DEF StopHeartbeat
    <2>0. 0 \in 0 .. started
      BY StartsAssumption DEF ManagerInv, ManagerTypes
    <2>2. /\ holder'.op = "stop" /\ holder'.todo = {} /\ holder'.won = {}
          /\ holder' \in [op : {"none", "remove", "cleanup", "closeAll", "stop"}, todo : SUBSET Conns, won : SUBSET Conns]
      BY <2>1, Zenon DEF Free
    <2>3. ManagerTypes'
      BY <2>0, <2>1, <2>2, Zenon DEF ManagerInv, ManagerTypes
    <2>4. HolderInv' /\ HeartbeatInv'
      BY <2>1, <2>2, Zenon DEF HolderInv, HeartbeatInv
    <2> QED  BY <2>1, <2>3, <2>4, Zenon DEF ManagerInv
  <1>6. CASE StopClose
    <2>1. /\ holder.op = "stop" /\ ended' = ended \cup {stopChan} /\ stopChan' = 0
          /\ UNCHANGED <<connVars, connections, holder, hbOn, started, ticker, ticks, fired, beats, loops>>
      BY <1>6, Zenon DEF StopClose
    <2>2. stopChan \in 0 .. MaxHeartbeats /\ 0 \in 0 .. started
      BY StartsAssumption DEF ManagerInv, ManagerTypes
    <2>3. ManagerTypes'
      BY <2>1, <2>2, Zenon DEF ManagerInv, ManagerTypes
    <2>4. HolderInv' /\ HeartbeatInv'
      BY <2>1, Zenon DEF ManagerInv, HolderInv, HeartbeatInv
    <2> QED  BY <2>1, <2>3, <2>4, Zenon DEF ManagerInv
  <1>7. CASE StopWait
    <2>1. Alive = {} /\ holder.op = "stop" /\ holder' = Free /\ UNCHANGED <<connVars, connections, hbVars>>
      BY <1>7, Zenon DEF StopWait
    <2>2. ManagerTypes'
      BY <2>1, Zenon DEF ManagerInv, ManagerTypes, hbVars, Free
    <2>3. HolderInv' /\ HeartbeatInv'
      <3>1. Alive' = {} /\ hbOn' = FALSE
        BY <2>1, Zenon DEF Alive, hbVars, ManagerInv, ManagerTypes, HeartbeatInv
      <3> QED  BY <2>1, <3>1, Zenon DEF HolderInv, HeartbeatInv, Free
    <2> QED  BY <2>1, <2>2, <2>3, Zenon DEF ManagerInv, hbVars
  <1> QED  BY <1>1, <1>2, <1>3, <1>4, <1>5, <1>6, <1>7, Zenon

LoopRecords == [at : {"none", "select", "readStop", "wait", "beat", "done"},
                tick : 0 .. MaxHeartbeats, stop : 0 .. MaxHeartbeats]

\* A step of one loop that is alive: no other loop comes to life by it, and it waits for
\* the channel that the manager has.
LEMMA LoopStep ==
  ASSUME ManagerInv, NEW g \in Gens, loops[g].at \notin {"none", "done"},
         loops' = loops \/ \E r \in LoopRecords : loops' = [loops EXCEPT ![g] = r] /\ (r.at = "wait" => r.stop = stopChan),
         ticks' \subseteq Gens, beats' \subseteq Beats, UNCHANGED <<phase, LoopFrame>>
  PROVE  ManagerInv'
  <1>0. /\ UNCHANGED <<connections, holder, hbOn, started, ticker, stopChan, ended>>
        /\ loops \in [Gens -> LoopRecords]
    BY Zenon DEF LoopFrame, ManagerInv, ManagerTypes, LoopRecords
  <1>4. loops' \in [Gens -> LoopRecords]
    <2>1. CASE loops' = loops
      BY <1>0, <2>1, Zenon
    <2>2. CASE loops' # loops
      <3>1. PICK r \in LoopRecords : loops' = [loops EXCEPT ![g] = r]
        BY <2>2, Zenon
      <3> QED  BY <1>0, <3>1, Zenon
    <2> QED  BY <2>1, <2>2, Zenon
  <1>1. ManagerTypes'
    BY <1>0, <1>4, Zenon DEF ManagerInv, ManagerTypes, LoopRecords
  <1>2. HolderInv'
    BY <1>0, Zenon DEF ManagerInv, HolderInv, isClosed
  <1>3. HeartbeatInv'
    <2>1. CASE loops' = loops
      BY <1>0, <2>1, Zenon DEF ManagerInv, HeartbeatInv, Alive
    <2>2. CASE loops' # loops
      <3>0. PICK r \in LoopRecords : loops' = [loops EXCEPT ![g] = r] /\ (r.at = "wait" => r.stop = stopChan)
        BY <2>2, Zenon
      <3>1. g \in Alive /\ Alive' \subseteq Alive /\ loops'[g] = r /\ \A k \in Gens \ {g} : loops'[k] = loops[k]
        BY <1>0, <3>0, Zenon DEF Alive
      <3>2. holder.op # "stop" => stopChan # 0
        BY <3>1, Zenon DEF ManagerInv, HeartbeatInv
      <3>3. Alive \subseteq Gens
        BY Zenon DEF Alive
      <3>4. ASSUME holder.op # "stop", NEW k \in Alive', loops'[k].at = "wait"
            PROVE  loops'[k].stop \in (ended \cup {stopChan}) \ {0}
        <4>1. CASE k = g
          BY <3>0, <3>1, <3>2, <3>4, <4>1, Zenon
        <4>2. CASE k # g
          <5>1. k \in Alive /\ loops'[k] = loops[k]
            BY <3>1, <3>3, <4>2, Zenon
          <5> QED  BY <3>4, <5>1, Zenon DEF ManagerInv, HeartbeatInv
        <4> QED  BY <4>1, <4>2, Zenon
      <3> QED  BY <1>0, <3>1, <3>4, Zenon DEF ManagerInv, HeartbeatInv
    <2> QED  BY <2>1, <2>2, Zenon
  <1> QED  BY <1>1, <1>2, <1>3, Zenon DEF ManagerInv

LEMMA LoopSteps ==
  ASSUME ConnTypeOK, ManagerInv, NEW g \in Gens,
         ReadTicker(g) \/ ReadStopChan(g) \/ TakeTick(g) \/ LoopReturn(g)
  PROVE  /\ ManagerInv' /\ crashed' \in BOOLEAN
         /\ UNCHANGED <<phase, sendChan, loop, sends, wire, accepted, beats>>
  <1>1. /\ loops \in [Gens -> LoopRecords] /\ ticker \in 0 .. MaxHeartbeats /\ stopChan \in 0 .. MaxHeartbeats
        /\ 0 \in 0 .. MaxHeartbeats /\ ticks \subseteq Gens /\ beats \subseteq Beats
    BY StartsAssumption DEF ManagerInv, ManagerTypes, LoopRecords
  <1>2. loops[g].at \notin {"none", "done"}
    BY Zenon DEF ReadTicker, ReadStopChan, TakeTick, LoopReturn
  <1>4. /\ crashed' \in BOOLEAN /\ ticks' \subseteq Gens
        /\ UNCHANGED <<phase, sendChan, loop, sends, wire, accepted, beats, LoopFrame>>
    BY <1>1, Zenon DEF ConnTypeOK, ReadTicker, ReadStopChan, TakeTick, LoopReturn, connVars
  <1>5. loops' = loops \/ \E r \in LoopRecords : loops' = [loops EXCEPT ![g] = r] /\ (r.at = "wait" => r.stop = stopChan)
    <2>1. CASE ReadTicker(g)
      <3>1. CASE ticker = 0
        BY <2>1, <3>1, Zenon DEF ReadTicker
      <3>2. CASE ticker # 0
        <4> DEFINE r == [loops[g] EXCEPT !.at = "readStop", !.tick = ticker]
        <4>1. r \in LoopRecords /\ r.at = "readStop"
          BY <1>1, Zenon DEF LoopRecords
        <4>2. loops' = [loops EXCEPT ![g] = r]
          BY <1>1, <2>1, <3>2, Zenon DEF ReadTicker
        <4> QED  BY <4>1, <4>2, Zenon
      <3> QED  BY <3>1, <3>2, Zenon
    <2>2. CASE ReadStopChan(g)
      <3> DEFINE r == [loops[g] EXCEPT !.at = "wait", !.stop = stopChan]
      <3>1. r \in LoopRecords /\ r.stop = stopChan
        BY <1>1, Zenon DEF LoopRecords
      <3>2. loops' = [loops EXCEPT ![g] = r]
        BY <1>1, <2>2, Zenon DEF ReadStopChan
      <3> QED  BY <3>1, <3>2, Zenon
    <2>3. CASE TakeTick(g) \/ LoopReturn(g)
      <3>1. PICK at \in {"beat", "done"} : loops' = [loops EXCEPT ![g] = [at |-> at, tick |-> 0, stop |-> 0]]
        BY <2>3, Zenon DEF TakeTick, LoopReturn, LoopAt
      <3> DEFINE r == [at |-> at, tick |-> 0, stop |-> 0]
      <3>2. r \in LoopRecords /\ r.at # "wait"
        BY <1>1, Zenon DEF LoopRecords
      <3> QED  BY <3>1, <3>2, Zenon
    <2> QED  BY <2>1, <2>2, <2>3, Zenon
  <1>6. beats' \subseteq Beats
    BY <1>1, <1>4, Zenon
  <1>7. ManagerInv'
    BY <1>2, <1>4, <1>5, <1>6, LoopStep, Zenon
  <1> QED  BY <1>4, <1>7, Zenon

\* A heartbeat is started, or its ticker fires.
LEMMA TickerSteps ==
  ASSUME ManagerInv, StartHeartbeat \/ \E g \in Gens : Fire(g)
  PROVE  ManagerInv' /\ UNCHANGED <<connVars, beats>>
  <1>1. CASE StartHeartbeat
    <2> DEFINE n == started + 1
    <2>1. /\ hbOn' = TRUE /\ started' = n /\ ticker' = n /\ stopChan' = n /\ started < MaxHeartbeats
          /\ loops' = [loops EXCEPT ![n].at = "select"]
          /\ UNCHANGED <<connVars, connections, holder, ended, ticks, fired, beats>>
      BY <1>1, Zenon DEF StartHeartbeat
    <2>2. n \in Gens /\ n \in 0 .. MaxHeartbeats /\ n \in 0 .. n /\ n # 0
      BY <2>1, StartsAssumption DEF ManagerInv, ManagerTypes, Gens
    <2> HIDE DEF n
    <2>3. ManagerTypes'
      BY <2>1, <2>2 DEF ManagerInv, ManagerTypes
    <2>4. HolderInv'
      BY <2>1, <2>2, Zenon DEF ManagerInv, HolderInv, isClosed, connVars
    <2>5. HeartbeatInv'
      <3>1. /\ ~hbOn /\ holder.op # "stop" /\ holder' = holder /\ loops \in [Gens -> LoopRecords]
        BY <1>1, Zenon DEF StartHeartbeat, Free, ManagerInv, ManagerTypes, LoopRecords
      <3>2. loops'[n].at = "select" /\ \A k \in Gens \ {n} : loops'[k] = loops[k]
        BY <2>1, <2>2, <3>1, Zenon DEF LoopRecords
      <3>3. ASSUME NEW k \in Alive', loops'[k].at = "wait"  PROVE loops'[k].stop \in ended \ {0}
        <4>1. k \in Gens /\ k # n /\ loops'[k] = loops[k] /\ k \in Alive
          BY <3>2, <3>3, Zenon DEF Alive
        <4> QED  BY <3>1, <3>3, <4>1, Zenon DEF ManagerInv, HeartbeatInv
      <3> QED  BY <2>1, <2>2, <3>1, <3>3, Zenon DEF HeartbeatInv
    <2> QED  BY <2>1, <2>3, <2>4, <2>5, Zenon DEF ManagerInv
  <1>2. ASSUME NEW g \in Gens, Fire(g)  PROVE ManagerInv' /\ UNCHANGED <<connVars, beats>>
    <2>1. /\ ticks' = ticks \cup {g}
          /\ UNCHANGED <<connVars, connections, holder, hbOn, started, ticker, stopChan, ended, beats, loops>>
      BY <1>2, Zenon DEF Fire
    <2>2. ManagerTypes'
      BY <2>1, Zenon DEF ManagerInv, ManagerTypes
    <2>3. HolderInv' /\ HeartbeatInv'
      BY <2>1, Zenon DEF ManagerInv, HolderInv, HeartbeatInv, Alive, isClosed, connVars
    <2> QED  BY <2>1, <2>2, <2>3, Zenon DEF ManagerInv
  <1> QED  BY <1>1, <1>2, Zenon

----------------------------------------------------------------------------
(* The invariant                                                           *)

LEMMA ConnectionInit == Init => ConnectionInv
  <1> SUFFICES ASSUME Init PROVE ConnectionInv
    BY Zenon
  <1>1. ConnTypeOK
    <2>1. \A S : << >> \in Seq(S) /\ Len(<< >>) = 0
      OBVIOUS
    <2>2. /\ phase \in [Conns -> {"open", "flagged", "stated", "chanClosed", "closed"}]
          /\ loop \in [Conns -> Frames \cup {"range", "closing", "done"}] /\ crashed \in BOOLEAN
      BY Zenon DEF Init, NewTCPConnection
    <2>3. sends \in [Conns -> [Frames -> {"idle", "spawned", "put", "direct", "ok", "error"}]]
      BY Zenon DEF Init, NewTCPConnection
    <2>4. /\ sendChan \in [Conns -> Seq(Frames)] /\ accepted \in [Conns -> Seq(Frames)]
          /\ wire \in [Conns -> Seq([frame : Frames, by : {"loop", "caller"}, whole : BOOLEAN])]
      BY <2>1, Zenon DEF Init, NewTCPConnection
    <2>5. ASSUME NEW c \in Conns  PROVE Len(sendChan[c]) <= SendQueue
      <3>1. sendChan[c] = << >>
        BY Zenon DEF Init, NewTCPConnection
      <3> QED  BY <2>1, <3>1, QueueAssumption
    <2> QED  BY <2>2, <2>3, <2>4, <2>5, Zenon DEF ConnTypeOK
  <1>2. QueueInv
    <2> SUFFICES ASSUME NEW c \in Conns
                 PROVE /\ Queued(accepted[c], sendChan[c], loop[c], sends[c])
                       /\ Ordered(accepted[c], Past(accepted[c], sendChan[c], loop[c]), wire[c])
                       /\ Complete(accepted[c], Past(accepted[c], sendChan[c], loop[c]), wire[c])
      BY Zenon DEF QueueInv
    <2>1. accepted[c] = << >> /\ sendChan[c] = << >> /\ loop[c] = "range" /\ wire[c] = << >>
      BY Zenon DEF Init, NewTCPConnection
    <2>2. "range" \notin Frames
      BY Strings, Zenon
    <2> QED  BY <2>1, <2>2 DEF Queued, Ordered, Complete, Past
  <1>3. BeatInv
    BY StartsAssumption, Zenon DEF Init, NewTCPConnection, BeatInv
  <1>4. ManagerTypes
    <2>1. 0 \in 0 .. MaxHeartbeats /\ 0 \in 0 .. 0
      BY StartsAssumption
    <2>2. loops \in [Gens -> [at : {"none", "select", "readStop", "wait", "beat", "done"},
                              tick : 0 .. MaxHeartbeats, stop : 0 .. MaxHeartbeats]]
      BY <2>1, Zenon DEF Init
    <2>3. holder \in [op : {"none", "remove", "cleanup", "closeAll", "stop"}, todo : SUBSET Conns, won : SUBSET Conns]
      BY Zenon DEF Init, Free
    <2> QED  BY <2>1, <2>2, <2>3, Zenon DEF Init, ManagerTypes
  <1>5. HolderInv /\ HeartbeatInv
    BY Zenon DEF Init, HolderInv, HeartbeatInv, Alive, Free
  <1> QED  BY <1>1, <1>2, <1>3, <1>4, <1>5, Parts, Zenon DEF ManagerInv

\* A Send called by a user: no heartbeat message is touched.
LEMMA UserStep ==
  ASSUME ConnectionInv, NEW c \in Conns, NEW m \in Users, SendMessage(c, m),
         UNCHANGED <<connections, holder, hbVars>>
  PROVE  ConnectionInv'
  <1>1. ConnTypeOK /\ QueueInv /\ BeatInv /\ ManagerInv /\ m \in Frames /\ m \notin Beats
    BY Parts, Zenon DEF Users
  <1>2. sends[c][m] = "idle" /\ CheckClosed(c, m)
    BY Zenon DEF SendMessage
  <1>3. ConnTypeOK' /\ QueueInv' /\ StaysClosed
    BY <1>1, <1>2, CheckStep, Zenon
  <1>4. BeatInv'
    <2>1. PICK at : sends' = [sends EXCEPT ![c][m] = at]
      BY <1>2, Zenon DEF CheckClosed, SendAt
    <2>2. \A d \in Conns, k \in Beats : sends'[d][k] = sends[d][k]
      BY <1>1, <2>1, StartsAssumption, Zenon DEF ConnTypeOK
    <2> QED  BY <1>1, <2>2, Zenon DEF BeatInv, hbVars
  <1>5. ManagerInv'
    BY <1>1, <1>3, ManagerStays, Zenon
  <1>6. ConnTypeOK' /\ QueueInv' /\ BeatInv' /\ ManagerInv'
    BY <1>3, <1>4, <1>5, Zenon
  <1> QED  BY <1>6, Zenon DEF ConnectionInv, TypeOK, ManagerTypes, ManagerInv

LEMMA BroadcastStep ==
  ASSUME ConnectionInv, NEW m \in Users, Broadcast(m)
  PROVE  ConnectionInv'
  <1>1. ConnTypeOK /\ QueueInv /\ BeatInv /\ ManagerInv /\ m \in Frames /\ m \notin Beats
    BY Parts, Zenon DEF Users
  <1>2. /\ \A c \in Conns : sends[c][m] = "idle"
        /\ Spawn(connections, m) /\ connections \in SUBSET Conns
        /\ UNCHANGED <<phase, sendChan, loop, wire, accepted, crashed, connections, holder, hbVars>>
    BY <1>1, Zenon DEF Broadcast, GetAllConnections, ManagerInv, ManagerTypes
  <1>3. ConnTypeOK' /\ QueueInv' /\ StaysClosed
    BY <1>1, <1>2, SpawnMoves, Zenon
  <1>4. BeatInv'
    <2>1. \A d \in Conns, k \in Beats : sends'[d][k] = sends[d][k]
      BY <1>1, <1>2, StartsAssumption, Zenon DEF ConnTypeOK, Spawn
    <2> QED  BY <1>1, <1>2, <2>1, ZenonT(30) DEF BeatInv, hbVars
  <1>5. ManagerInv'
    BY <1>1, <1>2, <1>3, ManagerStays, Zenon
  <1>6. ConnTypeOK' /\ QueueInv' /\ BeatInv' /\ ManagerInv'
    BY <1>3, <1>4, <1>5, Zenon
  <1> QED  BY <1>6, Zenon DEF ConnectionInv, TypeOK, ManagerTypes, ManagerInv

LEMMA HeartbeatStep ==
  ASSUME ConnectionInv, NEW g \in Gens, sendHeartbeatToAll(g)
  PROVE  ConnectionInv'
  <1>1. ConnTypeOK /\ QueueInv /\ BeatInv /\ ManagerInv /\ Beats \subseteq Frames /\ MaxHeartbeats \in Nat
    BY Parts, StartsAssumption, Zenon
  <1>2. PICK m \in Beats \ beats : beats' = beats \cup {m} /\ Spawn(GetConnectionsByState, m)
    BY Zenon DEF sendHeartbeatToAll
  <1>3. PICK cs \in SUBSET Conns : cs = GetConnectionsByState
    BY <1>1, Zenon DEF GetConnectionsByState, ManagerInv, ManagerTypes
  <1>4. /\ loops[g].at = "beat" /\ LoopAt(g, "select")
        /\ UNCHANGED <<phase, sendChan, loop, wire, accepted, crashed, ticks, LoopFrame>>
    BY Zenon DEF sendHeartbeatToAll
  <1>5. Spawn(cs, m) /\ m \in Frames /\ \A c \in Conns : sends[c][m] = "idle"
    BY <1>1, <1>2, <1>3, Zenon DEF BeatInv
  <1>6. ConnTypeOK' /\ QueueInv' /\ StaysClosed
    BY <1>1, <1>4, <1>5, SpawnMoves, Zenon
  <1>7. BeatInv'
    <2>1. \A d \in Conns, k \in Beats \ {m} : sends'[d][k] = sends[d][k]
      BY <1>1, <1>5, Zenon DEF ConnTypeOK, Spawn
    <2> QED  BY <1>1, <1>2, <2>1, Zenon DEF BeatInv
  <1>8. ManagerInv'
    <2>1. beats' \subseteq Beats /\ ticks' \subseteq Gens
      BY <1>1, <1>2, <1>4, Zenon DEF ManagerInv, ManagerTypes
    <2> DEFINE r == [at |-> "select", tick |-> 0, stop |-> 0]
    <2>3. r \in LoopRecords /\ r.at # "wait" /\ loops' = [loops EXCEPT ![g] = r]
      BY <1>1, <1>4 DEF LoopAt, LoopRecords
    <2> HIDE DEF r
    <2> QED  BY <1>1, <1>4, <2>1, <2>3, LoopStep, Zenon
  <1>9. ConnTypeOK' /\ QueueInv' /\ BeatInv' /\ ManagerInv'
    BY <1>6, <1>7, <1>8, Zenon
  <1> QED  BY <1>9, Zenon DEF ConnectionInv, TypeOK, ManagerTypes, ManagerInv

\* The connections and the heartbeat's messages are left alone.
LEMMA QuietStep ==
  ASSUME ConnectionInv, ManagerInv', crashed' \in BOOLEAN,
         UNCHANGED <<phase, sendChan, loop, sends, wire, accepted, beats>>
  PROVE  ConnectionInv'
  <1>1. ConnTypeOK' /\ QueueInv' /\ BeatInv'
    BY Zenon DEF ConnectionInv, TypeOK, ConnTypeOK, QueueInv, BeatInv
  <1> QED  BY <1>1, Zenon DEF ConnectionInv, TypeOK, ManagerTypes, ManagerInv

LEMMA ConnectionNext == ConnectionInv /\ [Next]_vars => ConnectionInv'
  <1> SUFFICES ASSUME ConnectionInv, [Next]_vars PROVE ConnectionInv'
    BY Zenon
  <1>0. ConnTypeOK /\ QueueInv /\ BeatInv /\ ManagerInv
    BY Parts, Zenon
  <1>1. CASE ConnNext /\ UNCHANGED <<connections, holder, hbVars>>
    <2>1. /\ ConnTypeOK' /\ QueueInv' /\ StaysClosed
          /\ \A c \in Conns, m \in Frames : sends[c][m] = "idle" => sends'[c][m] = "idle"
      BY <1>0, <1>1, ConnSteps, Zenon
    <2>2. BeatInv'
      BY <1>0, <1>1, <2>1, StartsAssumption, Zenon DEF BeatInv, hbVars
    <2>3. ManagerInv'
      BY <1>0, <1>1, <2>1, ManagerStays, Zenon
    <2> QED  BY <2>1, <2>2, <2>3, Zenon DEF ConnectionInv, TypeOK, ManagerTypes, ManagerInv
  <1>2. CASE \/ \E c \in Conns : AddConnection(c) \/ RemoveConnection(c)
             \/ Cleanup \/ CloseAllConnections \/ ClearConnections
             \/ StopHeartbeat \/ StopClose \/ StopWait
    <2>1. ManagerInv' /\ UNCHANGED <<connVars, beats>>
      BY <1>0, <1>2, MapSteps, Zenon
    <2>2. crashed' \in BOOLEAN /\ UNCHANGED <<phase, sendChan, loop, sends, wire, accepted, beats>>
      BY <1>0, <2>1, Zenon DEF connVars, ConnTypeOK
    <2> QED  BY <2>1, <2>2, QuietStep, Zenon
  <1>3. ASSUME NEW c \in Conns, CloseReturned(c)  PROVE ConnectionInv'
    <2>1. ManagerInv' /\ UNCHANGED <<connVars, beats>>
      BY <1>0, <1>3, CloseReturnedStep, Zenon
    <2>2. crashed' \in BOOLEAN /\ UNCHANGED <<phase, sendChan, loop, sends, wire, accepted, beats>>
      BY <1>0, <2>1, Zenon DEF connVars, ConnTypeOK
    <2> QED  BY <2>1, <2>2, QuietStep, Zenon
  <1>4. ASSUME NEW c \in Conns, Visit(c)  PROVE ConnectionInv'
    <2>1. ConnTypeOK' /\ QueueInv' /\ ManagerInv'
      BY <1>0, <1>4, VisitStep, Zenon
    <2>2. BeatInv'
      BY <1>0, <1>4, Zenon DEF Visit, BeatInv, hbVars
    <2> QED  BY <2>1, <2>2, Zenon DEF ConnectionInv, TypeOK, ManagerTypes, ManagerInv
  <1>5. ASSUME NEW c \in Conns, NEW m \in Users,
               \/ SendMessageToConnection(c, m)
               \/ SendMessage(c, m) /\ UNCHANGED <<connections, holder, hbVars>>
        PROVE  ConnectionInv'
    BY <1>5, UserStep, Zenon DEF SendMessageToConnection
  <1>6. ASSUME NEW m \in Users, BroadcastMessage(m) \/ BroadcastData(m)  PROVE ConnectionInv'
    BY <1>6, BroadcastStep, Zenon DEF BroadcastMessage, BroadcastData
  <1>7. CASE StartHeartbeat \/ \E g \in Gens : Fire(g)
    <2>1. ManagerInv' /\ UNCHANGED <<connVars, beats>>
      BY <1>0, <1>7, TickerSteps, Zenon
    <2>2. crashed' \in BOOLEAN /\ UNCHANGED <<phase, sendChan, loop, sends, wire, accepted, beats>>
      BY <1>0, <2>1, Zenon DEF connVars, ConnTypeOK
    <2> QED  BY <2>1, <2>2, QuietStep, Zenon
  <1>8. ASSUME NEW g \in Gens, HeartbeatLoop(g)  PROVE ConnectionInv'
    <2>1. CASE ReadTicker(g) \/ ReadStopChan(g) \/ TakeTick(g) \/ LoopReturn(g)
      BY <1>0, <2>1, LoopSteps, QuietStep, Zenon
    <2>2. CASE sendHeartbeatToAll(g)
      BY <2>2, HeartbeatStep, Zenon
    <2> QED  BY <1>8, <2>1, <2>2, Zenon DEF HeartbeatLoop
  <1>9. CASE UNCHANGED vars
    <2>1. UNCHANGED <<connections, holder, hbVars>> /\ UNCHANGED <<phase, sendChan, loop, sends, wire, accepted, crashed, beats>>
      BY <1>9, Zenon DEF vars, connVars, hbVars
    <2>2. StaysClosed /\ crashed' \in BOOLEAN
      BY <1>0, <2>1, Zenon DEF StaysClosed, ConnTypeOK
    <2>3. ManagerInv'
      BY <1>0, <2>1, <2>2, ManagerStays, Zenon
    <2> QED  BY <2>1, <2>2, <2>3, QuietStep, Zenon
  <1>10. CASE HolderSteps
    BY <1>2, <1>3, <1>4, <1>10, Zenon DEF HolderSteps
  <1> QED  BY <1>1, <1>2, <1>3, <1>4, <1>5, <1>6, <1>7, <1>8, <1>9, <1>10, Zenon DEF Next

\* The invariant of tcpConnection and connectionManager: what sendLoop has put on the wire
\* is a prefix of what sendChan took, heartbeat messages go out once, CloseAllConnections
\* leaves open connections only among those it has yet to visit, and a heartbeat that is
\* off has no loops but those that CloseAllConnections told to stop.
THEOREM ConnectionsSafe == Spec => []ConnectionInv
  <1>1. QED  BY ConnectionInit, ConnectionNext, PTL DEF Spec

\* The fields of the connections and of their manager keep their types; sendChan never
\* holds more than its capacity.
THEOREM ConnectionsTypeCorrect == Spec => []TypeOK
  <1>1. ConnectionInv => TypeOK
    BY Zenon DEF ConnectionInv
  <1> QED  BY <1>1, ConnectionsSafe, PTL

\* sendLoop of tcp_connection.go writes the frames of sendChan in the order they were
\* accepted, each once, and nothing after a frame it wrote in part.
THEOREM WritesInOrder == Spec => []QueuedInOrder
  <1>1. ConnectionInv => QueuedInOrder
    <2> SUFFICES ASSUME ConnectionInv, NEW c \in Conns, NEW j \in 1 .. Len(wire[c]), wire[c][j].by = "loop"
                 PROVE  /\ \E q \in 1 .. Len(accepted[c]) :
                             /\ accepted[c][q] = wire[c][j].frame
                             /\ \A p \in 1 .. q - 1 : \E i \in 1 .. j - 1 : wire[c][i] = Whole(accepted[c][p])
                        /\ \A i \in 1 .. j - 1 : wire[c][i].by = "loop" => wire[c][i].frame # wire[c][j].frame
      BY Zenon DEF QueuedInOrder
    <2> DEFINE n == Past(accepted[c], sendChan[c], loop[c])
    <2>1. /\ accepted[c] \in Seq(Frames) /\ sendChan[c] \in Seq(Frames) /\ wire[c] \in Seq(Wires)
          /\ loop[c] \in LoopAts
          /\ Queued(accepted[c], sendChan[c], loop[c], sends[c]) /\ Ordered(accepted[c], n, wire[c])
      BY Zenon DEF ConnectionInv, TypeOK, ConnTypeOK, QueueInv, Wires, LoopAts
    <2>0. n \in Nat /\ n <= Len(accepted[c]) /\ Len(accepted[c]) \in Nat
      BY <2>1, PastIs, Zenon
    <2> HIDE DEF n
    <2>2. n \in 0 .. Len(accepted[c]) /\ Len(accepted[c]) \in Nat /\ Len(wire[c]) \in Nat
      BY <2>0, <2>1
    <2>3. PICK q \in 1 .. n : /\ accepted[c][q] = wire[c][j].frame
                              /\ \A p \in 1 .. q - 1 : \E i \in 1 .. j - 1 : wire[c][i] = Whole(accepted[c][p])
      BY <2>1, Zenon DEF Ordered
    <2>4. q \in 1 .. Len(accepted[c])
      BY <2>2, <2>3
    <2>5. ASSUME NEW i \in 1 .. j - 1, wire[c][i].by = "loop", wire[c][i].frame = wire[c][j].frame  PROVE FALSE
      <3>1. i \in 1 .. Len(wire[c]) /\ i # j
        BY <2>2
      <3> QED  BY <2>1, <2>5, <3>1, Zenon DEF Ordered
    <2> QED  BY <2>3, <2>4, <2>5, Zenon
  <1> QED  BY <1>1, ConnectionsSafe, PTL

\* While the heartbeat of connection_manager.go is off and no StopHeartbeat waits, no
\* heartbeatLoop is running, but for one that CloseAllConnections has told to stop and
\* not waited for.
THEOREM OffLoopsEnd == Spec => []OffMeansJoinedOrTold
  <1>1. ConnectionInv => OffMeansJoinedOrTold
    <2> SUFFICES ASSUME ConnectionInv, ~hbOn, holder.op # "stop", Alive # {}
                 PROVE  /\ stopChan \in ended \ {0}
                        /\ \A g \in Alive : loops[g].at = "wait" => loops[g].stop \in ended \ {0}
      BY Zenon DEF OffMeansJoinedOrTold
    <2> QED  BY Zenon DEF ConnectionInv, HeartbeatInv
  <1> QED  BY <1>1, ConnectionsSafe, PTL

----------------------------------------------------------------------------
(* What no step may do                                                     *)

\* RemoveConnection, Cleanup and CloseAllConnections of connection_manager.go take off the
\* map only connections whose closed flag is set: none is forgotten while it is open.
THEOREM ForgetsOnlyClosed == Spec => NoOrphans
  <1> DEFINE Left == \A c \in connections \ connections' : isClosed(c)
  <1>1. ConnectionInv /\ [Next]_vars => [Left]_vars
    <2> SUFFICES ASSUME ConnectionInv, Next, NEW c \in connections, c \notin connections'  PROVE isClosed(c)
      BY Zenon
    <2>1. /\ ~(\E d \in Conns : AddConnection(d) \/ RemoveConnection(d)) /\ ~Cleanup /\ ~CloseAllConnections
          /\ ~UNCHANGED connections
      BY Zenon DEF AddConnection, RemoveConnection, Cleanup, CloseAllConnections, Lock
    <2>2. /\ ~StartHeartbeat /\ ~StopHeartbeat /\ ~StopClose /\ ~StopWait
          /\ \A g \in Gens : ~Fire(g) /\ ~HeartbeatLoop(g)
      BY <2>1, Zenon DEF StartHeartbeat, StopHeartbeat, StopClose, StopWait, Fire, HeartbeatLoop, ReadTicker,
                  ReadStopChan, TakeTick, LoopReturn, sendHeartbeatToAll, LoopFrame
    <2>3. \A m \in Users : /\ ~BroadcastMessage(m) /\ ~BroadcastData(m)
                           /\ \A d \in Conns : ~SendMessageToConnection(d, m)
      BY <2>1, Zenon DEF BroadcastMessage, BroadcastData, Broadcast, SendMessageToConnection
    <2>4. HolderSteps
      BY <2>1, <2>2, <2>3, Zenon DEF Next
    <2>5. CASE ClearConnections
      BY <2>5, Zenon DEF ClearConnections, ConnectionInv, HolderInv
    <2>6. ASSUME NEW d \in Conns, Visit(d)  PROVE isClosed(c)
      BY <2>1, <2>6, Zenon DEF Visit, Visited
    <2>7. ASSUME NEW d \in Conns, CloseReturned(d)  PROVE isClosed(c)
      BY <2>7, Zenon DEF CloseReturned, Visited, isClosed
    <2> QED  BY <2>2, <2>4, <2>5, <2>6, <2>7, Zenon DEF HolderSteps
  <1>2. Spec => [][Left]_vars
    BY <1>1, ConnectionsSafe, PTL DEF Spec
  <1> QED  BY <1>2, Zenon DEF NoOrphans

----------------------------------------------------------------------------
(* TcpClient                                                                *)

\* The connecting flag and the loops agree on who dials; a client that never had a
\* connection has no loops.
DialInv ==
  /\ dial.who = -1 <=> dial.at = "none"
  /\ \A r \in Made : again[r] = "dialing" <=> dial.who = r
  /\ dial.at = "mark" => made > 0
  /\ made = 0 => /\ ~connected /\ ~adding
                 /\ \A r \in Readers : reader[r].at = "none"
                 /\ \A r \in Made : again[r] = "none"

\* How far a Disconnect that no connect disturbs has come.  Until it drops the connection
\* the latest one is current.
LeaveInv ==
  /\ leaver \in {"none", "close", "clear", "drop"} => conn = made
  /\ leaver # "none" /\ undisturbed =>
       /\ dial.who = -1
       /\ leaver \in {"clear", "drop", "join", "back"} => made = 0 \/ made \in shut
       /\ leaver \in {"drop", "join", "back"} => ~connected
       /\ leaver \in {"join", "back"} => conn = 0
       /\ leaver = "back" => /\ \A r \in Readers : reader[r].at \in {"none", "start", "done"}
                             /\ \A r \in Made : again[r] \in {"none", "done"}

ClientInv == ClientTypeOK /\ DialInv /\ LeaveInv /\ AttemptsBounded

Places == {"none", "start", "check", "read", "done"}
ReaderStates == [at : Places, on : 0 .. MaxConns]
LoopStates == {"none", "wait", "want", "dialing", "done"}

----------------------------------------------------------------------------

\* A new client has no connection.
LEMMA InitClient == NewTCPClient => ClientInv
  <1> SUFFICES ASSUME NewTCPClient PROVE ClientInv
    BY Zenon
  <1>1. [at |-> "none", on |-> 0] \in ReaderStates /\ MaxConns \in Nat
    BY ClientAssumption DEF ReaderStates, Places
  <1>2. reader \in [Readers -> ReaderStates] /\ \A r \in Readers : reader[r].at = "none"
    BY <1>1, Zenon DEF NewTCPClient
  <1>3. dial \in [who : -1 .. MaxConns, at : {"none", "dial", "mark"}] /\ dial.who = -1 /\ dial.at = "none"
    BY <1>1 DEF NewTCPClient, NoDial
  <1>4. /\ connected \in BOOLEAN /\ autoReconnect \in BOOLEAN /\ hasHandler \in BOOLEAN /\ adding \in BOOLEAN
        /\ quit \in BOOLEAN /\ undisturbed \in BOOLEAN
    BY Zenon DEF NewTCPClient
  <1>5. made \in 0 .. MaxConns /\ conn \in 0 .. made /\ currentAttempt \in Nat
    BY <1>1 DEF NewTCPClient
  <1>6. ClientTypeOK
    BY <1>2, <1>3, <1>4, <1>5, Zenon DEF NewTCPClient, ClientTypeOK, ReaderStates, Places
  <1>7. DialInv
    BY <1>1, <1>2, <1>3 DEF NewTCPClient, DialInv, Made
  <1>8. LeaveInv
    BY Zenon DEF NewTCPClient, LeaveInv
  <1>9. AttemptsBounded
    BY ClientAssumption DEF NewTCPClient, AttemptsBounded
  <1> QED  BY <1>6, <1>7, <1>8, <1>9, Zenon DEF ClientInv

\* The bounds of the numbers of connections and loops, and the types of a reader and of a
\* dial, by fields.
LEMMA ClientFields ==
  ASSUME ClientTypeOK
  PROVE  /\ MaxConns \in Nat /\ made \in Nat /\ made <= MaxConns /\ conn \in Nat /\ conn <= made
         /\ dial.who \in -1 .. MaxConns /\ dial.at \in {"none", "dial", "mark"}
         /\ reader \in [Readers -> ReaderStates]
         /\ \A r \in Readers : reader[r] \in ReaderStates /\ reader[r].at \in Places /\ reader[r].on \in 0 .. MaxConns
         /\ again \in [Made -> LoopStates]
  <1>1. /\ MaxConns \in Nat /\ made \in Nat /\ made <= MaxConns /\ conn \in Nat /\ conn <= made
        /\ dial \in [who : -1 .. MaxConns, at : {"none", "dial", "mark"}]
    BY ClientAssumption DEF ClientTypeOK
  <1>2. reader \in [Readers -> ReaderStates] /\ again \in [Made -> LoopStates]
    BY Zenon DEF ClientTypeOK, ReaderStates, Places, LoopStates
  <1>3. \A r \in Readers : reader[r] \in ReaderStates /\ reader[r].at \in Places /\ reader[r].on \in 0 .. MaxConns
    <2>1. \A q \in ReaderStates : q.at \in Places /\ q.on \in 0 .. MaxConns
      BY Zenon DEF ReaderStates
    <2> QED  BY <1>2, <2>1, Zenon
  <1> QED  BY <1>1, <1>2, <1>3, Zenon

\* A step that only moves one reader, not to a place where it would use a connection after
\* Disconnect is through, and perhaps clears the connected flag.
LEMMA ReaderMoves ==
  ASSUME ClientInv, NEW r \in Readers, NEW new \in ReaderStates, reader' = [reader EXCEPT ![r] = new],
         made > 0, connected' \in BOOLEAN, connected' => connected, adding' \in BOOLEAN, adding' => adding,
         leaver = "back" /\ undisturbed => new.at \in {"none", "start", "done"},
         UNCHANGED <<conn, made, shut, dial, currentAttempt, autoReconnect, hasHandler, again, leaving>>
  PROVE  ClientInv'
  <1>1. ClientTypeOK /\ DialInv /\ LeaveInv /\ AttemptsBounded
    BY Zenon DEF ClientInv
  <1>2. reader \in [Readers -> ReaderStates] /\ made \in Nat
    BY <1>1, ClientFields, Zenon
  <1>3. reader' \in [Readers -> ReaderStates] /\ reader'[r] = new /\ \A q \in Readers \ {r} : reader'[q] = reader[q]
    BY <1>2, Zenon
  <1>4. ClientTypeOK'
    BY <1>1, <1>3, Zenon DEF ClientTypeOK, ReaderStates, Places, leaving
  <1>5. DialInv'
    BY <1>1, <1>2 DEF DialInv
  <1>6. LeaveInv'
    BY <1>1, <1>3, Zenon DEF LeaveInv, leaving
  <1>7. AttemptsBounded'
    BY <1>1, Zenon DEF AttemptsBounded
  <1> QED  BY <1>4, <1>5, <1>6, <1>7, Zenon DEF ClientInv

\* The message loops.
LEMMA MessageLoopStep == ASSUME ClientInv, NEW r \in Readers, MessageLoop(r) PROVE ClientInv'
  <1>1. ClientTypeOK /\ DialInv /\ LeaveInv /\ AttemptsBounded
    BY Zenon DEF ClientInv
  <1>2. /\ MaxConns \in Nat /\ made \in Nat /\ made <= MaxConns /\ conn \in Nat /\ conn <= made
        /\ reader[r].at \in Places /\ reader[r].on \in 0 .. MaxConns
    BY <1>1, ClientFields, Zenon
  <1>3. reader[r].at \in {"start", "check", "read"} /\ made > 0
    BY <1>1, <1>2 DEF MessageLoop, ReaderStarts, ReaderChecks, ReaderReads, DialInv
  <1>4. UNCHANGED <<conn, made, shut, dial, currentAttempt, autoReconnect, hasHandler, adding, again, leaving>>
    BY Zenon DEF MessageLoop, ReaderStarts, ReaderChecks, ReaderReads, link, options
  <1>5. connected' \in BOOLEAN /\ (connected' => connected) /\ adding' \in BOOLEAN
    <2>1. connected' = connected \/ connected' = FALSE
      BY Zenon DEF MessageLoop, ReaderStarts, ReaderChecks, ReaderReads, link
    <2>2. connected \in BOOLEAN /\ adding' = adding /\ adding \in BOOLEAN
      BY <1>1, <1>4, Zenon DEF ClientTypeOK
    <2>3. CASE connected' = connected
      BY <2>2, <2>3, Zenon
    <2>4. CASE connected' = FALSE
      BY <2>2, <2>4, Zenon
    <2> QED  BY <2>1, <2>3, <2>4, Zenon
  <1>6. ASSUME NEW at \in Places, NEW on \in 0 .. MaxConns, ReaderAt(r, at, on),
               leaver = "back" /\ undisturbed => at \in {"none", "start", "done"}
        PROVE ClientInv'
    <2> DEFINE new == [at |-> at, on |-> on]
    <2>1. new \in ReaderStates /\ new.at = at /\ reader' = [reader EXCEPT ![r] = new]
      BY <1>6, Zenon DEF ReaderStates, ReaderAt
    <2> HIDE DEF new
    <2> QED  BY <1>3, <1>4, <1>5, <1>6, <2>1, ReaderMoves, Zenon
  <1>7. CASE ReaderStarts(r)
    <2>0. conn \in 0 .. MaxConns
      BY <1>2
    <2>1. ReaderAt(r, IF conn = 0 THEN "done" ELSE "check", conn)
      BY <1>7, Zenon DEF ReaderStarts
    <2>2. leaver = "back" /\ undisturbed => conn = 0
      BY <1>1, Zenon DEF LeaveInv
    <2>3. CASE conn = 0
      <3>1. ReaderAt(r, "done", conn) /\ "done" \in Places
        BY <2>1, <2>3, Zenon DEF Places
      <3> QED  BY <1>6, <2>0, <3>1, Zenon
    <2>4. CASE conn # 0
      <3>1. ReaderAt(r, "check", conn) /\ "check" \in Places
        BY <2>1, <2>4, Zenon DEF Places
      <3> QED  BY <1>6, <2>0, <2>2, <2>4, <3>1, Zenon
    <2> QED  BY <2>3, <2>4, Zenon
  <1>8. CASE ReaderChecks(r) \/ ReaderReads(r)
    <2>1. ~(leaver = "back" /\ undisturbed)
      BY <1>1, <1>8, Zenon DEF LeaveInv, ReaderChecks, ReaderReads
    <2>2. \/ ReaderAt(r, "done", 0) \/ ReaderAt(r, "read", reader[r].on) \/ ReaderAt(r, "check", reader[r].on)
      BY <1>8, Zenon DEF ReaderChecks, ReaderReads
    <2>3. {"done", "read", "check"} \subseteq Places /\ 0 \in 0 .. MaxConns
      BY <1>2 DEF Places
    <2> QED  BY <1>2, <1>6, <2>1, <2>2, <2>3, Zenon
  <1> QED  BY <1>7, <1>8, Zenon DEF MessageLoop

\* The user's settings.
LEMMA OptionsStep ==
  ASSUME ClientInv, SetAutoReconnect \/ ClientSetMessageHandler \/ SetStartsReader PROVE ClientInv'
  <1>1. ClientTypeOK /\ DialInv /\ LeaveInv /\ AttemptsBounded
    BY Zenon DEF ClientInv
  <1>2. CASE SetAutoReconnect \/ ClientSetMessageHandler
    <2>1. /\ autoReconnect' \in BOOLEAN /\ hasHandler' \in BOOLEAN /\ adding' \in BOOLEAN
          /\ (made = 0 => ~adding')
          /\ UNCHANGED <<link, dial, currentAttempt, reader, again, leaving>>
      <3>1. /\ autoReconnect \in BOOLEAN /\ hasHandler \in BOOLEAN /\ adding \in BOOLEAN /\ connected \in BOOLEAN
            /\ (made = 0 => ~adding /\ ~connected)
        BY <1>1, Zenon DEF ClientTypeOK, DialInv
      <3>2. UNCHANGED <<link, dial, currentAttempt, reader, again, leaving>>
        BY <1>2, Zenon DEF SetAutoReconnect, ClientSetMessageHandler
      <3>3. \/ autoReconnect' \in BOOLEAN /\ hasHandler' = hasHandler /\ adding' = adding
            \/ autoReconnect' = autoReconnect /\ hasHandler' = TRUE /\ adding' = connected
        BY <1>2, Zenon DEF SetAutoReconnect, ClientSetMessageHandler
      <3>4. CASE autoReconnect' \in BOOLEAN /\ hasHandler' = hasHandler /\ adding' = adding
        BY <3>1, <3>2, <3>4, Zenon
      <3>5. CASE autoReconnect' = autoReconnect /\ hasHandler' = TRUE /\ adding' = connected
        BY <3>1, <3>2, <3>5, Zenon
      <3> QED  BY <3>3, <3>4, <3>5, Zenon
    <2>2. ClientTypeOK'
      BY <1>1, <2>1, Zenon DEF ClientTypeOK, link, leaving
    <2>3. DialInv' /\ LeaveInv' /\ AttemptsBounded'
      BY <1>1, <2>1, Zenon DEF DialInv, LeaveInv, AttemptsBounded, link, leaving
    <2> QED  BY <2>2, <2>3, Zenon DEF ClientInv
  <1>3. CASE SetStartsReader
    <2> DEFINE new == [reader[0] EXCEPT !.at = "start"]
    <2>1. 0 \in Readers /\ made \in Nat
      BY <1>1, ClientFields DEF Readers
    <2>2. reader[0] \in ReaderStates /\ reader \in [Readers -> ReaderStates]
      BY <1>1, <2>1, ClientFields, Zenon
    <2>3. new \in ReaderStates /\ new.at = "start"
      BY <2>2, Zenon DEF ReaderStates, Places
    <2>4. reader' = [reader EXCEPT ![0] = new]
      BY <1>3, <2>2, Zenon DEF SetStartsReader, ReaderStates
    <2>5. /\ made > 0 /\ adding /\ adding' = FALSE /\ connected' = connected /\ connected \in BOOLEAN
          /\ UNCHANGED <<conn, made, shut, dial, currentAttempt, autoReconnect, hasHandler, again, leaving>>
      BY <1>1, <1>3, <2>1 DEF SetStartsReader, DialInv, link, ClientTypeOK
    <2> HIDE DEF new
    <2> QED  BY <2>1, <2>3, <2>4, <2>5, ReaderMoves, Zenon
  <1> QED  BY <1>2, <1>3, Zenon

\* A user's connect begins; a Disconnect under way counts as disturbed from now on.
LEMMA ConnectStep == ASSUME ClientInv, Connect PROVE ClientInv'
  <1>1. ClientTypeOK /\ DialInv /\ LeaveInv /\ AttemptsBounded
    BY Zenon DEF ClientInv
  <1>2. /\ dial = NoDial /\ dial' = [who |-> 0, at |-> "dial"] /\ undisturbed' = FALSE
        /\ UNCHANGED <<link, currentAttempt, options, reader, again, quit, leaver>>
    BY Zenon DEF Connect, BeginConnect
  <1>3. /\ dial' \in [who : -1 .. MaxConns, at : {"none", "dial", "mark"}]
        /\ dial.who = -1 /\ dial'.who = 0 /\ dial'.at = "dial" /\ MaxConns \in Nat
    BY <1>2, ClientAssumption DEF NoDial
  <1>4. ClientTypeOK'
    BY <1>1, <1>2, <1>3, ZenonT(30) DEF ClientTypeOK, link, options
  <1>5. DialInv'
    <2>1. \A r \in Made : again'[r] # "dialing" /\ dial'.who # r
      BY <1>1, <1>2, <1>3 DEF DialInv, Made
    <2>2. /\ dial'.who # -1 /\ dial'.at # "none" /\ dial'.at # "mark"
          /\ UNCHANGED <<made, connected, adding, reader, again>>
      BY <1>2, <1>3 DEF link, options
    <2> QED  BY <1>1, <2>1, <2>2, Zenon DEF DialInv
  <1>6. LeaveInv' /\ AttemptsBounded'
    BY <1>1, <1>2, Zenon DEF LeaveInv, AttemptsBounded, link
  <1> QED  BY <1>4, <1>5, <1>6, Zenon DEF ClientInv

\* A dial disturbs every Disconnect.
LEMMA DialDisturbs == ASSUME ClientInv, dial.at # "none" PROVE ~(leaver # "none" /\ undisturbed)
  BY Zenon DEF ClientInv, DialInv, LeaveInv

\* What becomes of the loops when a connect is over: none is dialing any more.
LEMMA IdleLoops ==
  ASSUME ClientInv
  PROVE  /\ Idle(again) \in [Made -> LoopStates]
         /\ \A r \in Made : Idle(again)[r] # "dialing"
         /\ \A r \in Made : again[r] = "none" => Idle(again)[r] = "none"
  <1>1. ClientTypeOK /\ DialInv
    BY Zenon DEF ClientInv
  <1>2. again \in [Made -> LoopStates] /\ dial.who \in -1 .. MaxConns /\ MaxConns \in Nat
    BY <1>1, ClientFields, Zenon
  <1>3. \A r \in Made : again[r] = "dialing" <=> dial.who = r
    BY <1>1, Zenon DEF DialInv
  <1>4. CASE dial.who > 0
    <2>1. dial.who \in Made /\ Idle(again) = [again EXCEPT ![dial.who] = "wait"]
      BY <1>2, <1>4 DEF Idle, Made
    <2> QED  BY <1>2, <1>3, <2>1, Zenon DEF LoopStates
  <1>5. CASE ~(dial.who > 0)
    <2>1. dial.who \notin Made /\ Idle(again) = again
      BY <1>2, <1>5 DEF Idle, Made
    <2> QED  BY <1>2, <1>3, <2>1, Zenon
  <1> QED  BY <1>4, <1>5, Zenon

\* The caller of a connect goes on.
LEMMA ReturnStep ==
  ASSUME ClientTypeOK, AttemptsBounded, NEW ok \in BOOLEAN, Return(ok)
  PROVE  /\ dial' \in [who : -1 .. MaxConns, at : {"none", "dial", "mark"}] /\ dial'.who = -1 /\ dial'.at = "none"
         /\ currentAttempt' \in Nat /\ AttemptsBounded'
  <1>1. dial' = NoDial /\ currentAttempt' \in {0, currentAttempt}
    BY Zenon DEF Return
  <1>2. dial' \in [who : -1 .. MaxConns, at : {"none", "dial", "mark"}] /\ dial'.who = -1 /\ dial'.at = "none"
    BY <1>1, ClientAssumption DEF NoDial
  <1>3. currentAttempt' \in Nat
    BY <1>1 DEF ClientTypeOK
  <1>4. AttemptsBounded'
    BY <1>1, ClientAssumption DEF AttemptsBounded
  <1> QED  BY <1>2, <1>3, <1>4, Zenon

\* A dial fails, succeeds, and is made known.
LEMMA DialStepsStep == ASSUME ClientInv, DialSteps PROVE ClientInv'
  <1>1. ClientTypeOK /\ DialInv /\ LeaveInv /\ AttemptsBounded
    BY Zenon DEF ClientInv
  <1>2. /\ MaxConns \in Nat /\ made \in Nat /\ made <= MaxConns /\ conn \in Nat /\ conn <= made
        /\ reader \in [Readers -> ReaderStates] /\ again \in [Made -> LoopStates]
        /\ dial.who \in -1 .. MaxConns /\ dial.at \in {"none", "dial", "mark"}
    BY <1>1, ClientFields, Zenon
  <1>3. dial.at # "none" /\ UNCHANGED leaving
    BY Zenon DEF DialSteps, DialFails, DialSucceeds, ConnectDone
  <1>4. ~(leaver # "none" /\ undisturbed)
    BY <1>3, DialDisturbs, Zenon
  <1>5. CASE DialFails
    <2>1. Return(FALSE) /\ again' = Idle(again) /\ UNCHANGED <<link, options, reader>> /\ FALSE \in BOOLEAN
      BY <1>5, Zenon DEF DialFails
    <2>2. /\ dial' \in [who : -1 .. MaxConns, at : {"none", "dial", "mark"}] /\ dial'.who = -1 /\ dial'.at = "none"
          /\ currentAttempt' \in Nat /\ AttemptsBounded'
      BY <1>1, <2>1, ReturnStep, Zenon
    <2>3. /\ again' \in [Made -> LoopStates] /\ \A r \in Made : again'[r] # "dialing"
          /\ \A r \in Made : again[r] = "none" => again'[r] = "none"
      BY <2>1, IdleLoops, Zenon
    <2>4. ClientTypeOK'
      BY <1>1, <1>3, <2>1, <2>2, <2>3, ZenonT(30) DEF ClientTypeOK, link, options, leaving, LoopStates
    <2>5. DialInv'
      <3>1. \A r \in Made : dial'.who # r
        BY <2>2 DEF Made
      <3> QED  BY <1>1, <2>1, <2>2, <2>3, <3>1, Zenon DEF DialInv, link, options
    <2>6. LeaveInv'
      BY <1>1, <1>3, <1>4, <2>1, Zenon DEF LeaveInv, link, leaving
    <2> QED  BY <2>2, <2>4, <2>5, <2>6, Zenon DEF ClientInv
  <1>6. CASE DialSucceeds
    <2> DEFINE d == [dial EXCEPT !.at = "mark"]
    <2>1. /\ dial.at = "dial" /\ made < MaxConns /\ made' = made + 1 /\ conn' = made + 1 /\ dial' = d
          /\ UNCHANGED <<connected, shut, currentAttempt, options, reader, again>>
      BY <1>6, Zenon DEF DialSucceeds
    <2>2. d \in [who : -1 .. MaxConns, at : {"none", "dial", "mark"}] /\ d.who = dial.who /\ d.at = "mark"
      BY <1>1, Zenon DEF ClientTypeOK
    <2> HIDE DEF d
    <2>3. made' \in 0 .. MaxConns /\ conn' \in 0 .. made'
      BY <1>2, <2>1
    <2>4. ClientTypeOK'
      BY <1>1, <1>3, <2>1, <2>2, <2>3, Zenon DEF ClientTypeOK, options, leaving
    <2>5. DialInv'
      BY <1>1, <1>2, <2>1, <2>2 DEF DialInv
    <2>6. LeaveInv' /\ AttemptsBounded'
      BY <1>1, <1>3, <1>4, <2>1, Zenon DEF LeaveInv, AttemptsBounded, leaving
    <2> QED  BY <2>4, <2>5, <2>6, Zenon DEF ClientInv
  <1>7. CASE ConnectDone
    <2>1. /\ dial.at = "mark" /\ connected' = TRUE /\ Return(TRUE) /\ TRUE \in BOOLEAN
          /\ UNCHANGED <<conn, made, shut, options>>
      BY <1>7, Zenon DEF ConnectDone
    <2>2. made > 0 /\ made \in Readers /\ made \in Made
      BY <1>1, <1>2, <2>1 DEF DialInv, Readers, Made
    <2>3. /\ dial' \in [who : -1 .. MaxConns, at : {"none", "dial", "mark"}] /\ dial'.who = -1 /\ dial'.at = "none"
          /\ currentAttempt' \in Nat /\ AttemptsBounded'
      BY <1>1, <2>1, ReturnStep, Zenon
    <2>4. again' \in [Made -> LoopStates] /\ \A r \in Made : again'[r] # "dialing"
      <3> DEFINE rest == Idle(again)
      <3>1. rest \in [Made -> LoopStates] /\ \A r \in Made : rest[r] # "dialing"
        BY IdleLoops, Zenon
      <3>2. again' = rest \/ again' = [rest EXCEPT ![made] = "wait"]
        BY <1>7, Zenon DEF ConnectDone
      <3> HIDE DEF rest
      <3> QED  BY <2>2, <3>1, <3>2, Zenon DEF LoopStates
    <2>5. reader' \in [Readers -> ReaderStates]
      <3> DEFINE new == [reader[made] EXCEPT !.at = "start"]
      <3>1. reader' = reader \/ reader' = [reader EXCEPT ![made] = new]
        BY <1>2, <1>7, <2>2, Zenon DEF ConnectDone, ReaderStates
      <3>2. new \in ReaderStates
        BY <1>2, <2>2, Zenon DEF ReaderStates, Places
      <3> HIDE DEF new
      <3> QED  BY <1>2, <2>2, <3>1, <3>2, Zenon
    <2>6. ClientTypeOK'
      BY <1>1, <1>3, <2>1, <2>3, <2>4, <2>5, Zenon DEF ClientTypeOK, options, leaving, LoopStates, ReaderStates, Places
    <2>7. DialInv'
      <3>1. \A r \in Made : dial'.who # r
        BY <2>3 DEF Made
      <3>2. made' = made /\ made' # 0
        BY <2>1, <2>2
      <3>3. \A r \in Made : again'[r] = "dialing" <=> dial'.who = r
        BY <2>4, <3>1, Zenon
      <3> QED  BY <2>3, <3>2, <3>3, Zenon DEF DialInv
    <2>8. LeaveInv'
      BY <1>1, <1>3, <1>4, <2>1, Zenon DEF LeaveInv, leaving
    <2> QED  BY <2>3, <2>6, <2>7, <2>8, Zenon DEF ClientInv
  <1> QED  BY <1>5, <1>6, <1>7, Zenon DEF DialSteps

\* The reconnect loops: an attempt is made below the maximum only, by one loop at a time.
LEMMA ReconnectLoopStep == ASSUME ClientInv, NEW r \in Made, ReconnectLoop(r) PROVE ClientInv'
  <1>1. ClientTypeOK /\ DialInv /\ LeaveInv /\ AttemptsBounded
    BY Zenon DEF ClientInv
  <1>2. /\ MaxConns \in Nat /\ made \in Nat /\ again \in [Made -> LoopStates] /\ dial.who \in -1 .. MaxConns
    BY <1>1, ClientFields, Zenon
  <1>3. again[r] \in {"wait", "want"} /\ UNCHANGED <<link, options, reader, quit, leaver>>
    BY Zenon DEF ReconnectLoop, Tick, AttemptReconnect, ReconnectLoopEnds, leaving
  <1>4. made > 0 /\ ~(leaver = "back" /\ undisturbed)
    BY <1>1, <1>2, <1>3 DEF DialInv, LeaveInv
  <1>5. ASSUME NEW to \in {"wait", "want", "done"}, again' = [again EXCEPT ![r] = to],
               currentAttempt' \in Nat, AttemptsBounded', UNCHANGED <<dial, undisturbed>>
        PROVE ClientInv'
    <2>1. again' \in [Made -> LoopStates] /\ again'[r] = to /\ \A q \in Made \ {r} : again'[q] = again[q]
      BY <1>2, <1>5, Zenon DEF LoopStates
    <2>2. ClientTypeOK'
      BY <1>1, <1>3, <1>5, <2>1 DEF ClientTypeOK, link, options, LoopStates
    <2>3. DialInv'
      BY <1>1, <1>2, <1>3, <1>4, <1>5, <2>1, Zenon DEF DialInv, link, options
    <2>4. LeaveInv'
      BY <1>1, <1>3, <1>4, <1>5, Zenon DEF LeaveInv, link
    <2> QED  BY <1>5, <2>2, <2>3, <2>4, Zenon DEF ClientInv
  <1>6. CASE Tick(r) \/ ReconnectLoopEnds(r)
    <2>1. /\ UNCHANGED <<dial, undisturbed, currentAttempt>> /\ currentAttempt' \in Nat
          /\ again' = [again EXCEPT ![r] = "want"] \/ again' = [again EXCEPT ![r] = "done"]
      BY <1>1, <1>6, Zenon DEF Tick, ReconnectLoopEnds, leaving, ClientTypeOK
    <2>2. AttemptsBounded'
      BY <1>1, <2>1, Zenon DEF AttemptsBounded
    <2> QED  BY <1>5, <2>1, <2>2, Zenon
  <1>7. CASE AttemptReconnect(r) /\ (Exhausted \/ \E q \in Made : again[q] = "dialing")
    <2>1. again' = [again EXCEPT ![r] = "wait"] /\ UNCHANGED <<dial, undisturbed, currentAttempt>> /\ currentAttempt' \in Nat
      BY <1>1, <1>7, Zenon DEF AttemptReconnect, ClientTypeOK
    <2>2. AttemptsBounded'
      BY <1>1, <2>1, Zenon DEF AttemptsBounded
    <2> QED  BY <1>5, <2>1, <2>2, Zenon
  <1>8. CASE AttemptReconnect(r) /\ ~(Exhausted \/ \E q \in Made : again[q] = "dialing")
    <2>1. currentAttempt' = currentAttempt + 1 /\ ~Exhausted
      BY <1>8, Zenon DEF AttemptReconnect
    <2>2. currentAttempt' \in Nat /\ AttemptsBounded'
      BY <1>1, <2>1, ClientAssumption DEF AttemptsBounded, Exhausted, ClientTypeOK
    <2>3. CASE dial # NoDial
      <3>1. again' = [again EXCEPT ![r] = "wait"] /\ UNCHANGED <<dial, undisturbed>>
        BY <1>8, <2>3, Zenon DEF AttemptReconnect
      <3> QED  BY <1>5, <2>2, <3>1, Zenon
    <2>4. CASE dial = NoDial
      <3>1. dial' = [who |-> r, at |-> "dial"] /\ undisturbed' = FALSE /\ again' = [again EXCEPT ![r] = "dialing"]
        BY <1>8, <2>4, Zenon DEF AttemptReconnect, BeginConnect
      <3>2. /\ dial' \in [who : -1 .. MaxConns, at : {"none", "dial", "mark"}] /\ dial'.who = r /\ dial'.at = "dial" /\ r # -1
        BY <1>2, <3>1 DEF Made
      <3>3. /\ again' \in [Made -> LoopStates] /\ again'[r] = "dialing"
            /\ \A q \in Made \ {r} : again'[q] = again[q] /\ again[q] # "dialing"
        BY <1>2, <1>8, <3>1, Zenon DEF LoopStates
      <3>4. ClientTypeOK'
        BY <1>1, <1>3, <2>2, <3>1, <3>2, <3>3, Zenon DEF ClientTypeOK, link, options, LoopStates
      <3>5. DialInv'
        <4>1. made' = made /\ made' > 0
          BY <1>3, <1>4, Zenon DEF link
        <4> QED  BY <1>2, <3>2, <3>3, <4>1 DEF DialInv
      <3>6. LeaveInv'
        BY <1>1, <1>3, <3>1, Zenon DEF LeaveInv, link
      <3> QED  BY <2>2, <3>4, <3>5, <3>6, Zenon DEF ClientInv
    <2> QED  BY <2>3, <2>4, Zenon
  <1> QED  BY <1>6, <1>7, <1>8, Zenon DEF ReconnectLoop

\* The steps of Disconnect.
LEMMA LeaveStep == ASSUME ClientInv, Disconnect \/ LeaveSteps PROVE ClientInv'
  <1>1. ClientTypeOK /\ DialInv /\ LeaveInv /\ AttemptsBounded
    BY Zenon DEF ClientInv
  <1>2. /\ MaxConns \in Nat /\ made \in Nat /\ made <= MaxConns /\ conn \in Nat /\ conn <= made
        /\ dial.who \in -1 .. MaxConns
    BY <1>1, ClientFields, Zenon
  <1>3. UNCHANGED <<made, dial, currentAttempt, options, reader, again>>
    BY Zenon DEF Disconnect, LeaveSteps, LeaveClose, LeaveClear, LeaveDrop, LeaveJoin, Leave, link
  <1>4. AttemptsBounded'
    BY <1>1, <1>3, Zenon DEF AttemptsBounded
  <1>5. CASE Disconnect
    <2>1. leaver = "none" /\ quit' = TRUE /\ leaver' = "close" /\ undisturbed' = (dial = NoDial) /\ UNCHANGED link
      BY <1>5, Zenon DEF Disconnect
    <2>2. undisturbed' \in BOOLEAN /\ (undisturbed' => dial.who = -1)
      <3>1. CASE dial = NoDial
        <4>1. undisturbed' = TRUE
          BY <2>1, <3>1, Zenon
        <4> QED  BY <3>1, <4>1, Zenon DEF NoDial
      <3>2. CASE dial # NoDial
        <4>1. undisturbed' = FALSE
          BY <2>1, <3>2, Zenon
        <4> QED  BY <4>1, Zenon
      <3> QED  BY <3>1, <3>2, Zenon
    <2>3. ClientTypeOK'
      BY <1>1, <1>3, <2>1, <2>2, Zenon DEF ClientTypeOK, link, options
    <2>4. DialInv'
      BY <1>1, <1>3, <2>1, Zenon DEF DialInv, link, options
    <2>5. LeaveInv'
      BY <1>1, <1>3, <2>1, <2>2, Zenon DEF LeaveInv, link
    <2> QED  BY <1>4, <2>3, <2>4, <2>5, Zenon DEF ClientInv
  <1>6. CASE LeaveClose
    <2>1. /\ leaver = "close" /\ shut' = shut \cup ({conn} \ {0}) /\ leaver' = (IF conn = 0 THEN "back" ELSE "clear")
          /\ UNCHANGED <<conn, connected, quit, undisturbed>>
      BY <1>6, Zenon DEF LeaveClose, Leave
    <2>2. conn = made
      BY <1>1, <2>1, Zenon DEF LeaveInv
    <2>3. shut' \subseteq Made
      BY <1>1, <1>2, <2>1 DEF ClientTypeOK, Made
    <2>4. ClientTypeOK'
      BY <1>1, <1>3, <2>1, <2>3, Zenon DEF ClientTypeOK, options
    <2>5. DialInv'
      BY <1>1, <1>3, <2>1, Zenon DEF DialInv, options
    <2>6. LeaveInv'
      BY <1>1, <1>3, <2>1, <2>2, Zenon DEF LeaveInv, DialInv
    <2> QED  BY <1>4, <2>4, <2>5, <2>6, Zenon DEF ClientInv
  <1>7. CASE LeaveClear \/ LeaveDrop
    <2>1. /\ UNCHANGED <<shut, quit, undisturbed>>
          /\ \/ leaver = "clear" /\ leaver' = "drop" /\ connected' = FALSE /\ conn' = conn
             \/ leaver = "drop" /\ leaver' = "join" /\ connected' = connected /\ conn' = 0
      BY <1>7, Zenon DEF LeaveClear, LeaveDrop, Leave
    <2>2. connected' \in BOOLEAN /\ conn' \in 0 .. made' /\ leaver' \in {"drop", "join"}
      <3>1. connected \in BOOLEAN /\ conn \in 0 .. made' /\ 0 \in 0 .. made'
        BY <1>1, <1>2, <1>3 DEF ClientTypeOK
      <3>2. CASE leaver' = "drop" /\ connected' = FALSE /\ conn' = conn
        BY <3>1, <3>2, Zenon
      <3>3. CASE leaver' = "join" /\ connected' = connected /\ conn' = 0
        BY <3>1, <3>3, Zenon
      <3> QED  BY <2>1, <3>2, <3>3, Zenon
    <2>3. ClientTypeOK'
      BY <1>1, <1>3, <2>1, <2>2, Zenon DEF ClientTypeOK, options
    <2>4. DialInv'
      <3>1. UNCHANGED <<dial, made, adding, reader, again>> /\ (connected' => connected)
        BY <1>3, <2>1 DEF options
      <3> QED  BY <1>1, <3>1, Zenon DEF DialInv
    <2>5. LeaveInv'
      BY <1>1, <1>3, <2>1 DEF LeaveInv
    <2> QED  BY <1>4, <2>3, <2>4, <2>5, Zenon DEF ClientInv
  <1>8. CASE LeaveJoin
    <2>1. leaver = "join" /\ leaver' = "back" /\ LoopsDone /\ UNCHANGED <<conn, connected, shut, quit, undisturbed>>
      BY <1>8, Zenon DEF LeaveJoin, Leave
    <2>2. ClientTypeOK'
      BY <1>1, <1>3, <2>1, Zenon DEF ClientTypeOK, options
    <2>3. DialInv'
      BY <1>1, <1>3, <2>1, Zenon DEF DialInv, options
    <2>4. LeaveInv'
      BY <1>1, <1>3, <2>1, Zenon DEF LeaveInv, LoopsDone
    <2> QED  BY <1>4, <2>2, <2>3, <2>4, Zenon DEF ClientInv
  <1> QED  BY <1>5, <1>6, <1>7, <1>8, Zenon DEF LeaveSteps

\* Every step of a client keeps its invariant.
LEMMA ClientKeeps == ClientInv /\ [ClientNext]_cliVars => ClientInv'
  <1> SUFFICES ASSUME ClientInv, [ClientNext]_cliVars PROVE ClientInv'
    BY Zenon
  <1>1. CASE SetAutoReconnect \/ ClientSetMessageHandler \/ SetStartsReader
    BY <1>1, OptionsStep, Zenon
  <1>2. CASE Connect
    BY <1>2, ConnectStep, Zenon
  <1>3. CASE DialSteps
    BY <1>3, DialStepsStep, Zenon
  <1>4. CASE Disconnect \/ LeaveSteps
    BY <1>4, LeaveStep, Zenon
  <1>5. ASSUME NEW r \in Readers, MessageLoop(r) PROVE ClientInv'
    BY <1>5, MessageLoopStep, Zenon
  <1>6. ASSUME NEW r \in Made, ReconnectLoop(r) PROVE ClientInv'
    BY <1>6, ReconnectLoopStep, Zenon
  <1>7. CASE UNCHANGED cliVars
    <2> USE <1>7 DEF cliVars, link, options, leaving
    <2>1. ClientTypeOK'
      BY DEF ClientInv, ClientTypeOK
    <2>2. DialInv'
      BY Zenon DEF ClientInv, DialInv
    <2>3. LeaveInv' /\ AttemptsBounded'
      BY Zenon DEF ClientInv, LeaveInv, AttemptsBounded
    <2> QED  BY <2>1, <2>2, <2>3, Zenon DEF ClientInv
  <1> QED  BY <1>1, <1>2, <1>3, <1>4, <1>5, <1>6, <1>7, Zenon DEF ClientNext

\* A client keeps its invariant.
LEMMA ClientSafe == ClientSpec => []ClientInv
  BY InitClient, ClientKeeps, PTL DEF ClientSpec

\* A Disconnect that no connect disturbs leaves no connection and no working loop behind,
\* however the message loops, the reconnect loops and the user's settings interleave.
THEOREM DisconnectsForGood == ClientSpec => []DisconnectIsFinal
  <1>1. ClientInv => DisconnectIsFinal
    BY DEF ClientInv, LeaveInv, DisconnectIsFinal
  <1> QED  BY <1>1, ClientSafe, PTL

\* The attempts in a row never exceed the maximum, whatever number of loops reconnect.
THEOREM AttemptsStayBounded == ClientSpec => []AttemptsBounded
  <1>1. ClientInv => AttemptsBounded
    BY Zenon DEF ClientInv
  <1> QED  BY <1>1, ClientSafe, PTL

\* The client's state keeps its types.
THEOREM ClientTypeCorrect == ClientSpec => []ClientTypeOK
  <1>1. ClientInv => ClientTypeOK
    BY Zenon DEF ClientInv
  <1> QED  BY <1>1, ClientSafe, PTL

=============================================================================
