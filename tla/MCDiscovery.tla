---------------------------- MODULE MCDiscovery ----------------------------
(* Model values for the ServiceDiscovery run.  In a behaviour either callers  *)
(* of DiscoverService act on the registry, or watchers and the health check   *)
(* do.  Callers and watchers can neither see nor delay each other, and what   *)
(* the health check writes a caller of UpdateStatus may write too.            *)
EXTENDS ServiceDiscovery, TLC

CONSTANTS n1, n2, i1, i2, i3, w1, k1, Unhealthy

TwoNames == {n1, n2}
ThreeInfos == {i1, i2, i3}
TwoStatuses == {Healthy, Unhealthy}
OneWatcher == {w1}
OneClient == {k1}
\* No property names a service or an object.
Interchangeable == Permutations({n1, n2}) \cup Permutations({i1, i2, i3})

VARIABLE subject

MCInit == Init /\ subject \in {"calls", "watchers"}

MCNext ==
  /\ Next
  /\ subject = "calls" => <<watching, checking>>' = <<watching, checking>>
  /\ subject = "watchers" => <<balancing, calls>>' = <<balancing, calls>>
  /\ UNCHANGED subject

MCSpec == MCInit /\ [][MCNext]_<<vars, subject>>
=============================================================================
