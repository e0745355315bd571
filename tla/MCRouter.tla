------------------------------ MODULE MCRouter ------------------------------
(***************************************************************************)
(* The two halves of core/advanced_router.go, which share no state: the    *)
(* router and the session manager.  A behaviour exercises one of them, the *)
(* subject, while the other stays as it was made.                          *)
(***************************************************************************)
EXTENDS AdvancedRouter, SessionManager

VARIABLE subject

MCInit == subject \in {"router", "sessions"} /\ Init /\ NewSessionManager

MCNext ==
  \/ subject = "router" /\ Next /\ UNCHANGED <<subject, sessionVars>>
  \/ subject = "sessions" /\ SessionNext /\ UNCHANGED <<subject, vars>>

MCSpec == MCInit /\ [][MCNext]_<<subject, vars, sessionVars>> /\ SessionFairness
=============================================================================
