------------------------------ MODULE MCSystem ------------------------------
(* Model values for the ActorSystem runs. *)
EXTENDS ActorSystem

CONSTANTS c1, c2, c3, n1

ThreeCreators == {c1, c2, c3}
SecondOnly == {c2}
OneName == {n1}
=============================================================================
