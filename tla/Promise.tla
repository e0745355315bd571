------------------------------ MODULE Promise ------------------------------
(***************************************************************************)
(* What a message session promises: once opened it is answered at most     *)
(* once or dropped, never both, and the one who waits learns the verdict   *)
(* or gives up.                                                            *)
(***************************************************************************)
CONSTANT Askers

VARIABLES verdict, outcome

pv == <<verdict, outcome>>

Init ==
  /\ verdict = [o \in Askers |-> "none"]
  /\ outcome = [o \in Askers |-> "none"]

Open(o) ==
  /\ verdict[o] = "none"
  /\ verdict' = [verdict EXCEPT ![o] = "pending"]
  /\ UNCHANGED outcome

Answer(o) ==
  /\ verdict[o] = "pending"
  /\ verdict' = [verdict EXCEPT ![o] = "answered"]
  /\ UNCHANGED outcome

Drop(S) ==
  /\ \A o \in S : verdict[o] = "pending"
  /\ verdict' = [o \in Askers |-> IF o \in S THEN "dropped" ELSE verdict[o]]
  /\ UNCHANGED outcome

Learn(o, v) ==
  /\ outcome[o] = "none"
  /\ verdict[o] # "none"
  /\ v \in {"answered", "dropped"} => verdict[o] = v
  /\ outcome' = [outcome EXCEPT ![o] = v]
  /\ UNCHANGED verdict

Next ==
  \/ \E o \in Askers : Open(o) \/ Answer(o)
  \/ \E o \in Askers, v \in {"answered", "dropped", "gaveUp"} : Learn(o, v)
  \/ \E S \in SUBSET Askers : Drop(S)

Spec == Init /\ [][Next]_pv
=============================================================================
