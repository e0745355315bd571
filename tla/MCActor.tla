------------------------------ MODULE MCActor ------------------------------
(* Model values for the Actor runs. *)
EXTENDS Actor

CONSTANTS a1, c1, c2, l1, p1, p2, p3

TwoCallersOneSender == {c1, c2, a1}
TwoCallers == {c1, c2}
OneCallerOneSender == {c1, a1}
OneCaller == {c1}
OneLoop == {l1}
OneStopper == {p1}
ThreeStoppers == {p1, p2, p3}
SecondStopper == {p2}
NoStopper == {}
=============================================================================
