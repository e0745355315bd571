----------------------------- MODULE Directory -----------------------------
(***************************************************************************)
(* What HandleManager promises: a directory of actors.  An actor has at    *)
(* most one entry, a name belongs to at most one entry, and the number of  *)
(* an entry is never used for another one.                                 *)
(***************************************************************************)
CONSTANTS Numbers, Actors, Names, Anonymous, Absent

VARIABLES entries, used

dv == <<entries, used>>

Bound(a) == \E h \in Numbers : entries[h] # Absent /\ entries[h].actor = a
Named(n) == \E h \in Numbers : entries[h] # Absent /\ entries[h].name = n

Init ==
  /\ entries = [h \in Numbers |-> Absent]
  /\ used = {}

Enter(h, a, n) ==
  /\ h \notin used
  /\ ~Bound(a)
  /\ n # Anonymous => ~Named(n)
  /\ entries' = [entries EXCEPT ![h] = [actor |-> a, name |-> n]]
  /\ used' = used \cup {h}

Remove(h) ==
  /\ entries[h] # Absent
  /\ entries' = [entries EXCEPT ![h] = Absent]
  /\ UNCHANGED used

Next == \E h \in Numbers :
          \/ Remove(h)
          \/ \E a \in Actors, n \in Names \cup {Anonymous} : Enter(h, a, n)

Spec == Init /\ [][Next]_dv
=============================================================================
