--------------------------- MODULE MCApplication ---------------------------
(* Model values for the Application run. *)
EXTENDS Application, TLC

CONSTANTS s1, s2, r1, r2, k1

CoreAndTwoServices == {ActorSystemService, NetworkServerService, s1, s2}
CoreInfallible == {ActorSystemService}
TwoRunners == {r1, r2}
OneCloser == {k1}
\* No property names a service of the program or a runner.
Interchangeable == Permutations({s1, s2}) \cup Permutations({r1, r2})
RunnersAndCloser == {r1, r2, k1}
=============================================================================
