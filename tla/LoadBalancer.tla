---------------------------- MODULE LoadBalancer ----------------------------
(***************************************************************************)
(* loadBalancer of core/service_discovery.go: what Select may pick from a  *)
(* list of healthy services, as a function of one balancer's state.  Which *)
(* member of the list it picks depends on an index, on chance or on        *)
(* metrics that anybody may report at any time, and is left open, so the   *)
(* list is a set and strategies that keep nothing but an index are alike.  *)
(* What matters is the list that the weighted strategy keeps.              *)
(***************************************************************************)
EXTENDS Integers, FiniteSets

Strategies == {"weighted_round_robin", "other"}

\* The balancers of services from S.
BalancersOf(S) == [strategy : Strategies, weightedServices : SUBSET S]

NewLoadBalancer(s) == [strategy |-> s, weightedServices |-> {}]

\* The choices of Select and the balancers they leave, as pairs.
PairsOf(list, lb) == {<<i, lb>> : i \in list}

\* selectRoundRobin, selectRandom, selectLeastConnections and the default.
selectFromList(lb, list) == PairsOf(list, lb)

\* Every service as often as it weighs, which is at least once.
buildWeightedServices(lb, list) == [lb EXCEPT !.weightedServices = list]

\* The weighted list is taken for current when it is as long as the argument; it is at
\* least as long as it has members, and how much longer the weights decided.
MayKeep(lb, list) ==
  lb.weightedServices # {} /\ Cardinality(lb.weightedServices) <= Cardinality(list)

selectWeightedRoundRobin(lb, list) ==
  PairsOf(list, buildWeightedServices(lb, list))
    \cup (IF MayKeep(lb, list) THEN PairsOf(lb.weightedServices, lb) ELSE {})

Select(lb, list) ==
  IF lb.strategy = "weighted_round_robin" THEN selectWeightedRoundRobin(lb, list)
  ELSE selectFromList(lb, list)
=============================================================================
