-------------------------- MODULE DiscoveryProofs --------------------------
(***************************************************************************)
(* DiscoverService is linearizable, for any number of callers, names,      *)
(* registrations and changes of strategy.                                  *)
(*                                                                         *)
(* The argument: until it returns, a call has collected the right answers  *)
(* of every moment.  A service found and not read yet is either still      *)
(* registered, and then its status decides whether it is right now, or it  *)
(* has been unregistered during the call: a call by name had None as its   *)
(* right answer then, and the status has been frozen since, because a name *)
(* never leads to an unregistered object again.                            *)
(*                                                                         *)
(* Watchers that drop no event have an exact picture of the table, for any *)
(* number of watchers and channels of any capacity: of the events about a  *)
(* name that wait in a channel the last one is true, but for the one about *)
(* to be sent, and a name without events is pictured as it is.             *)
(***************************************************************************)
EXTENDS ServiceDiscovery, TLAPS

\* What the proof needs of the types.
Types ==
  /\ services \in [Names -> Infos \cup {None}]
  /\ nameOf \in [Infos -> Names \cup {None}]
  /\ status \in [Infos -> Statuses]
  /\ lbs \in [Balancers -> LB!BalancersOf(Infos)]
  /\ current \in Balancers
  /\ pc \in [Clients -> PCs]
  /\ asked \in [Clients -> Names \cup {None}]
  /\ found \in [Clients -> SUBSET Infos]
  /\ healthy \in [Clients -> SUBSET Infos]
  /\ using \in [Clients -> Balancers]
  /\ answer \in [Clients -> Infos \cup {None}]
  /\ right \in [Clients -> SUBSET (Infos \cup {None})]
  /\ checked \in Infos \cup {None}
  /\ readStatus \in Statuses
  /\ todo \subseteq Infos

\* A name leads to an object of that name; a snapshot holds objects that have a name.
Named ==
  /\ \A n \in Names : services[n] # None => nameOf[services[n]] = n
  /\ \A i \in todo : nameOf[i] # None
  /\ checked # None => nameOf[checked] # None

\* Callers use balancers that have been made.
UsesMade == \A c \in Clients : using[c] <= current

\* A service that was found and whose status is yet to be read.
InHand(c, i) ==
  /\ nameOf[i] \in Names /\ asked[c] \in {None, nameOf[i]}
  /\ \/ services[nameOf[i]] = i
     \/ (status[i] = Healthy => i \in right[c]) /\ (asked[c] # None => None \in right[c])

\* A call that has found something.
Reading(c) ==
  /\ \A i \in found[c] : InHand(c, i)
  /\ healthy[c] \subseteq right[c]
  /\ asked[c] # None /\ found[c] = {} /\ healthy[c] = {} => None \in right[c]

Promise(c) == answer[c] \in right[c] \/ (asked[c] = None /\ answer[c] = None)

Discovering(c) ==
  /\ pc[c] # "idle" => Answers(asked[c]) \subseteq right[c]
  /\ pc[c] \in {"idle", "lookup"} => healthy[c] = {}
  /\ pc[c] \in {"fetch", "filter"} => Reading(c)
  /\ pc[c] = "idle" /\ right[c] # {} /\ ~Weighted(c) => Promise(c)

Calls == \A c \in Clients : Discovering(c)

IInv == Types /\ Named /\ UsesMade /\ Calls

----------------------------------------------------------------------------
(* What a step of the registry may do to the objects callers hold          *)

TableTypes ==
  /\ services \in [Names -> Infos \cup {None}]
  /\ nameOf \in [Infos -> Names \cup {None}]
  /\ status \in [Infos -> Statuses]
  /\ checked \in Infos \cup {None}
  /\ readStatus \in Statuses
  /\ todo \subseteq Infos

\* Names are kept, an object that has left its name is frozen for good, and one that
\* leaves it now does not change its status.
TableEffect ==
  /\ \A i \in Infos : nameOf[i] # None => nameOf'[i] = nameOf[i]
  /\ \A i \in Infos, n \in Names : nameOf[i] = n /\ services[n] # i =>
       services'[n] # i /\ status'[i] = status[i]
  /\ \A i \in Infos, n \in Names : services[n] = i =>
       services'[n] = i \/ (services'[n] = None /\ status'[i] = status[i])

\* Storing a status under a name in use changes only the object of that name.
LEMMA SetStatusEffect ==
  ASSUME TableTypes, Named, NEW n \in Names, NEW s \in Statuses,
         services[n] # None, SetStatus(n, s), UNCHANGED <<services, nameOf>>
  PROVE  /\ status' \in [Infos -> Statuses]
         /\ \A i \in Infos : services[n] # i => status'[i] = status[i]
         /\ TableEffect
<1>1. services[n] \in Infos /\ nameOf[services[n]] = n
  BY Zenon DEF TableTypes, Named
<1>2. status' = [status EXCEPT ![services[n]] = s]
  BY Zenon DEF SetStatus
<1>3. status' \in [Infos -> Statuses]
  BY <1>1, <1>2, Zenon DEF TableTypes
<1>4. \A i \in Infos : services[n] # i => status'[i] = status[i]
  BY <1>1, <1>2, Zenon DEF TableTypes
<1>5. TableEffect
  BY <1>1, <1>4, Zenon DEF TableEffect, TableTypes
<1> QED
  BY <1>3, <1>4, <1>5, Zenon

\* A step that leaves the table alone has no effect on it.
LEMMA QuietTable ==
  ASSUME TableTypes, Named, UNCHANGED table
  PROVE  TableEffect
<1> QED
  BY Zenon DEF TableEffect, table, TableTypes

\* Every step of the registry keeps the table well formed and the objects of callers
\* as TableEffect says.
LEMMA RegistryStepEffect ==
  ASSUME TableTypes, Named, RegistryStep
  PROVE  TableTypes' /\ Named' /\ TableEffect
<1> USE RegistryAssumption
<1>1. ASSUME NEW n \in Names, NEW i \in Infos, Register(n, i)
      PROVE  TableTypes' /\ Named' /\ TableEffect
  <2>1. TableTypes'
    BY <1>1, Zenon DEF Register, TableTypes, checking
  <2>2. Named'
    BY <1>1 DEF Register, TableTypes, Named, checking
  <2>3. TableEffect
    BY <1>1 DEF Register, TableTypes, Named, TableEffect
  <2> QED
    BY <2>1, <2>2, <2>3, Zenon
<1>2. ASSUME NEW n \in Names, Unregister(n)
      PROVE  TableTypes' /\ Named' /\ TableEffect
  <2>1. TableTypes'
    BY <1>2, Zenon DEF Unregister, TableTypes, checking
  <2>2. Named'
    BY <1>2, Zenon DEF Unregister, TableTypes, Named, checking
  <2>3. TableEffect
    BY <1>2, Zenon DEF Unregister, TableTypes, Named, TableEffect
  <2> QED
    BY <2>1, <2>2, <2>3, Zenon
<1>3. ASSUME NEW n \in Names, NEW s \in Statuses, UpdateStatus(n, s)
      PROVE  TableTypes' /\ Named' /\ TableEffect
  <2>1. status' \in [Infos -> Statuses] /\ TableEffect
    BY <1>3, SetStatusEffect, Zenon DEF UpdateStatus
  <2>2. TableTypes' /\ Named'
    BY <1>3, <2>1, Zenon DEF UpdateStatus, TableTypes, Named, checking
  <2> QED
    BY <2>1, <2>2, Zenon
<1>4. ASSUME CheckWrite
      PROVE  TableTypes' /\ Named' /\ TableEffect
  <2>1. status' \in [Infos -> Statuses] /\ TableEffect
    <3>1. nameOf[checked] \in Names
      BY <1>4, Zenon DEF CheckWrite, TableTypes, Named
    <3>2. CASE services[nameOf[checked]] # None
      <4>1. SetStatus(nameOf[checked], readStatus) /\ UNCHANGED <<services, nameOf>>
        BY <1>4, <3>2, Zenon DEF CheckWrite
      <4>2. readStatus \in Statuses
        BY Zenon DEF TableTypes
      <4> QED
        BY <3>1, <3>2, <4>1, <4>2, SetStatusEffect, Zenon
    <3>3. CASE services[nameOf[checked]] = None
      <4>1. UNCHANGED table
        BY <1>4, <3>3, Zenon DEF CheckWrite, table
      <4> QED
        BY <4>1, QuietTable, Zenon DEF TableTypes, table
    <3> QED
      BY <3>2, <3>3, Zenon
  <2>2. TableTypes' /\ Named'
    BY <1>4, <2>1, Zenon DEF CheckWrite, TableTypes, Named
  <2> QED
    BY <2>1, <2>2, Zenon
<1>5. ASSUME UNCHANGED <<table, checking>>
      PROVE  TableTypes' /\ Named' /\ TableEffect
  BY <1>5, QuietTable, Zenon DEF TableTypes, Named, table, checking
<1>6. ASSUME performHealthChecks
      PROVE  TableTypes' /\ Named' /\ TableEffect
  <2>1. UNCHANGED table /\ TableEffect
    BY <1>6, QuietTable, Zenon DEF performHealthChecks
  <2>2. TableTypes' /\ Named'
    BY <1>6 DEF performHealthChecks, Registered, TableTypes, Named, table
  <2> QED
    BY <2>1, <2>2, Zenon
<1>7. ASSUME NEW i \in Infos, CheckRead(i) \/ CheckSkip(i)
      PROVE  TableTypes' /\ Named' /\ TableEffect
  <2>1. UNCHANGED table /\ TableEffect
    BY <1>7, QuietTable, Zenon DEF CheckRead, CheckSkip
  <2>2. TableTypes' /\ Named'
    BY <1>7 DEF CheckRead, CheckSkip, TableTypes, Named, table
  <2> QED
    BY <2>1, <2>2, Zenon
<1>8. ASSUME NEW n \in Names, UpdateMetadata(n)
      PROVE  TableTypes' /\ Named' /\ TableEffect
  BY <1>8, <1>5, Zenon DEF UpdateMetadata
<1>9. ASSUME NEW w \in Watchers, Watch(w) \/ List(w) \/ Receive(w) \/ EndWatch(w)
      PROVE  TableTypes' /\ Named' /\ TableEffect
  BY <1>9, <1>5, Zenon DEF Watch, List, Receive, EndWatch
<1>10. ASSUME notifyWatchers
       PROVE  TableTypes' /\ Named' /\ TableEffect
  BY <1>10, <1>5, Zenon DEF notifyWatchers
<1> QED
  BY <1>1, <1>2, <1>3, <1>4, <1>6, <1>7, <1>8, <1>9, <1>10, Zenon DEF RegistryStep

----------------------------------------------------------------------------
(* Right answers                                                           *)

\* Answers, for a table given by its parts.
AnswersIn(sv, nm, st, q) ==
  LET ok == {i \in {sv[n] : n \in Names} \ {None} : q \in {None, nm[i]} /\ st[i] = Healthy}
  IN  IF ok = {} THEN {None} ELSE ok

\* It is the same.
LEMMA AnswersAre ==
  ASSUME NEW q PROVE Answers(q) = AnswersIn(services, nameOf, status, q)
<1>1. {i \in Matching(q) : status[i] = Healthy}
        = {i \in {services[n] : n \in Names} \ {None} : q \in {None, nameOf[i]} /\ status[i] = Healthy}
  BY Zenon DEF Matching, Registered
<1> QED
  BY <1>1, Zenon DEF Answers, AnswersIn

\* A registered service that is healthy is a right answer, and None is one when the name
\* asked for leads to no healthy service.
LEMMA RightAnswers ==
  ASSUME NEW sv \in [Names -> Infos \cup {None}], NEW nm, NEW st, NEW q
  PROVE  /\ AnswersIn(sv, nm, st, q) \subseteq Infos \cup {None}
         /\ \A n \in Names : sv[n] # None /\ nm[sv[n]] = n /\ q \in {None, n} /\ st[sv[n]] = Healthy
              => sv[n] \in AnswersIn(sv, nm, st, q)
         /\ q \in Names /\ (\A n \in Names : sv[n] # None => nm[sv[n]] = n)
              /\ (sv[q] = None \/ st[sv[q]] # Healthy) => None \in AnswersIn(sv, nm, st, q)
<1> USE RegistryAssumption
<1> DEFINE ok == {i \in {sv[n] : n \in Names} \ {None} : q \in {None, nm[i]} /\ st[i] = Healthy}
<1>1. AnswersIn(sv, nm, st, q) = IF ok = {} THEN {None} ELSE ok
  BY Zenon DEF AnswersIn
<1>2. ok \subseteq Infos
  BY Zenon
<1>3. \A n \in Names : sv[n] # None /\ nm[sv[n]] = n /\ q \in {None, n} /\ st[sv[n]] = Healthy => sv[n] \in ok
  BY Zenon
<1>4. ASSUME q \in Names, \A n \in Names : sv[n] # None => nm[sv[n]] = n, sv[q] = None \/ st[sv[q]] # Healthy
      PROVE  ok = {}
  <2> SUFFICES ASSUME NEW i \in ok PROVE FALSE
    BY Zenon
  <2>1. PICK n \in Names : i = sv[n] /\ i # None /\ q \in {None, nm[i]} /\ st[i] = Healthy
    BY Zenon
  <2>2. nm[i] = n /\ q # None
    BY <1>4, <2>1, Zenon
  <2>3. q = n
    BY <2>1, <2>2, Zenon
  <2> QED
    BY <1>4, <2>1, <2>3, Zenon
<1> HIDE DEF ok
<1> QED
  BY <1>1, <1>2, <1>3, <1>4, Zenon

----------------------------------------------------------------------------
(* The balancer                                                            *)

\* Select leaves a balancer of the same strategy and chooses a service; every strategy but
\* the weighted one chooses it from the list.
LEMMA Selected ==
  ASSUME NEW lb \in LB!BalancersOf(Infos), NEW list \in SUBSET Infos, NEW choice \in LB!Select(lb, list)
  PROVE  /\ choice[2] \in LB!BalancersOf(Infos) /\ choice[2].strategy = lb.strategy
         /\ choice[1] \in Infos
         /\ lb.strategy # "weighted_round_robin" => choice[1] \in list
<1>1. lb.strategy \in LB!Strategies /\ lb.weightedServices \in SUBSET Infos
  BY Zenon DEF LB!BalancersOf
<1>2. ASSUME NEW L \in SUBSET Infos, NEW b, choice \in LB!PairsOf(L, b)
      PROVE  choice[1] \in L /\ choice[2] = b
  BY <1>2 DEF LB!PairsOf
<1>3. CASE lb.strategy # "weighted_round_robin"
  <2>1. choice \in LB!PairsOf(list, lb)
    BY <1>3, Zenon DEF LB!Select, LB!selectFromList
  <2> QED
    BY <1>2, <2>1, Zenon
<1>4. CASE lb.strategy = "weighted_round_robin"
  <2> DEFINE b == LB!buildWeightedServices(lb, list)
  <2>1. b \in LB!BalancersOf(Infos) /\ b.strategy = lb.strategy
    BY Zenon DEF LB!buildWeightedServices, LB!BalancersOf
  <2>2. choice \in LB!PairsOf(list, b) \/ choice \in LB!PairsOf(lb.weightedServices, lb)
    BY <1>4, Zenon DEF LB!Select, LB!selectWeightedRoundRobin
  <2> HIDE DEF b
  <2> QED
    BY <1>1, <1>2, <1>4, <2>1, <2>2, Zenon
<1> QED
  BY <1>3, <1>4, Zenon

----------------------------------------------------------------------------
(* The invariant                                                           *)

\* NewServiceDiscovery starts with no call under way.
LEMMA InitIInv == Init => IInv
<1> SUFFICES ASSUME Init PROVE IInv
  BY Zenon
<1> USE RegistryAssumption
<1>1. 1 \in Balancers /\ 1 <= 1
  BY BalancersAssumption DEF Balancers
<1>2. LB!NewLoadBalancer("other") \in LB!BalancersOf(Infos)
  BY Zenon DEF LB!NewLoadBalancer, LB!BalancersOf, LB!Strategies
<1>3. Types /\ UsesMade
  BY <1>1, <1>2, Zenon DEF Init, NewServiceRegistry, Types, UsesMade, PCs
<1>4. Named
  BY Zenon DEF Init, NewServiceRegistry, Named
<1>5. Calls
  BY Zenon DEF Init, Calls, Discovering
<1> QED
  BY <1>3, <1>4, <1>5, Zenon DEF IInv

\* What a call has collected after a step.
LEMMA Collects ==
  ASSUME Observe, NEW c \in Clients
  PROVE  /\ pc[c] = "idle" /\ pc'[c] = "idle" => right'[c] = right[c]
         /\ pc[c] = "idle" /\ pc'[c] # "idle" => right'[c] = Answers(asked[c])'
         /\ pc[c] # "idle" => right'[c] = right[c] \cup Answers(asked[c])'
<1>1. right'[c] = IF pc[c] = "idle" /\ pc'[c] = "idle" THEN right[c]
                  ELSE (IF pc[c] = "idle" THEN {} ELSE right[c]) \cup Answers(asked[c])'
  BY Zenon DEF Observe
<1> QED
  BY <1>1, Zenon

\* What the calls collect are services.
LEMMA CollectsServices ==
  ASSUME IInv, Observe, services' \in [Names -> Infos \cup {None}]
  PROVE  right' \in [Clients -> SUBSET (Infos \cup {None})]
<1>1. ASSUME NEW c \in Clients PROVE Answers(asked[c])' \subseteq Infos \cup {None}
  <2>1. Answers(asked[c])' = AnswersIn(services', nameOf', status', asked'[c])
    BY Zenon DEF Answers, AnswersIn, Matching, Registered
  <2>2. AnswersIn(services', nameOf', status', asked'[c]) \subseteq Infos \cup {None}
    BY RightAnswers, Zenon
  <2> QED
    BY <2>1, <2>2
<1>2. right \in [Clients -> SUBSET (Infos \cup {None})]
  BY Zenon DEF IInv, Types
<1>3. \A c \in Clients : right'[c] \subseteq Infos \cup {None}
  <2> SUFFICES ASSUME NEW c \in Clients PROVE right'[c] \subseteq Infos \cup {None}
    BY Zenon
  <2>1. right'[c] = right[c] \/ right'[c] = Answers(asked[c])' \/ right'[c] = right[c] \cup Answers(asked[c])'
    BY Collects, Zenon
  <2>2. right[c] \subseteq Infos \cup {None}
    BY <1>2, Zenon
  <2> QED
    BY <1>1, <2>1, <2>2, Zenon
<1>4. right' = [c \in Clients |-> right'[c]]
  BY Zenon DEF Observe
<1> QED
  BY <1>3, <1>4, Zenon

\* A step of the registry keeps what a call holds in its hands.
LEMMA RegistryKeepsHand ==
  ASSUME IInv, TableTypes', Named', TableEffect, NEW c \in Clients, NEW i \in Infos, InHand(c, i),
         asked' = asked, Answers(asked[c]) \subseteq right[c],
         right'[c] = right[c] \cup Answers(asked[c])'
  PROVE  InHand(c, i)'
<1> USE RegistryAssumption
<1>1. nameOf[i] \in Names /\ asked[c] \in {None, nameOf[i]} /\ nameOf'[i] = nameOf[i]
  BY Zenon DEF InHand, TableEffect
<1>2. services \in [Names -> Infos \cup {None}] /\ services' \in [Names -> Infos \cup {None}]
  BY Zenon DEF IInv, Types, TableTypes
<1>3. PICK n \in Names : n = nameOf[i]
  BY <1>1, Zenon
<1>4. CASE services[n] = i /\ services'[n] = i
  BY <1>1, <1>3, <1>4, Zenon DEF InHand
<1>5. CASE services[n] = i /\ services'[n] # i
  <2>1. services'[n] = None /\ status'[i] = status[i]
    BY <1>3, <1>5, Zenon DEF TableEffect
  <2>2. status[i] = Healthy => i \in right[c]
    <3>1. services[n] # None /\ nameOf[services[n]] = n /\ asked[c] \in {None, n}
      BY <1>1, <1>3, <1>5, Zenon
    <3>2. status[services[n]] = Healthy => services[n] \in AnswersIn(services, nameOf, status, asked[c])
      BY <1>2, <3>1, RightAnswers, Zenon
    <3> QED
      BY <1>5, <3>2, AnswersAre, Zenon
  <2>3. asked[c] # None => None \in right'[c]
    <3>1. Answers(asked[c])' = AnswersIn(services', nameOf', status', asked[c])
      BY Zenon DEF Answers, AnswersIn, Matching, Registered
    <3>2. \A m \in Names : services'[m] # None => nameOf'[services'[m]] = m
      BY Zenon DEF Named
    <3>3. asked[c] # None => asked[c] = n
      BY <1>1, <1>3, Zenon
    <3>4. asked[c] # None => None \in AnswersIn(services', nameOf', status', asked[c])
      BY <1>2, <2>1, <3>2, <3>3, RightAnswers, Zenon
    <3> QED
      BY <3>1, <3>4, Zenon
  <2> QED
    BY <1>1, <1>3, <2>1, <2>2, <2>3, Zenon DEF InHand
<1>6. CASE services[n] # i
  <2>1. services'[n] # i /\ status'[i] = status[i]
    BY <1>3, <1>6, Zenon DEF TableEffect
  <2>2. (status[i] = Healthy => i \in right[c]) /\ (asked[c] # None => None \in right[c])
    BY <1>3, <1>6, Zenon DEF InHand
  <2> QED
    BY <1>1, <1>3, <2>1, <2>2, Zenon DEF InHand
<1> QED
  BY <1>4, <1>5, <1>6, Zenon

\* So it keeps the promise of every call.
LEMMA RegistryKeepsCalls ==
  ASSUME IInv, RegistryStep, UNCHANGED <<balancing, calls>>, Observe
  PROVE  IInv'
<1>1. TableTypes' /\ Named' /\ TableEffect
  BY RegistryStepEffect, Zenon DEF IInv, Types, TableTypes
<1>2. UNCHANGED <<lbs, current, pc, asked, found, healthy, using, answer>>
  BY Zenon DEF balancing, calls
<1>3. Types' /\ UsesMade'
  <2>1. right' \in [Clients -> SUBSET (Infos \cup {None})]
    BY <1>1, CollectsServices, Zenon DEF TableTypes
  <2> QED
    BY <1>1, <1>2, <2>1, Zenon DEF IInv, Types, TableTypes, UsesMade
<1>4. ASSUME NEW c \in Clients
      PROVE  Discovering(c)'
  <2>1. Discovering(c) /\ found[c] \subseteq Infos
    BY Zenon DEF IInv, Calls, Types
  <2>2. CASE pc[c] = "idle"
    <3>1. right'[c] = right[c] /\ (Weighted(c)' <=> Weighted(c))
      BY <1>2, <2>2, Collects, Zenon DEF Weighted
    <3> QED
      BY <1>2, <2>1, <2>2, <3>1, Zenon DEF Discovering, Promise
  <2>3. CASE pc[c] # "idle"
    <3>1. right'[c] = right[c] \cup Answers(asked[c])' /\ Answers(asked[c]) \subseteq right[c]
      BY <2>1, <2>3, Collects, Zenon DEF Discovering
    <3>2. pc[c] \in {"fetch", "filter"} => Reading(c)'
      <4> SUFFICES ASSUME pc[c] \in {"fetch", "filter"} PROVE Reading(c)'
        BY Zenon
      <4>1. Reading(c)
        BY <2>1, Zenon DEF Discovering
      <4>2. \A i \in found[c] : InHand(c, i)'
        BY <1>1, <1>2, <2>1, <3>1, <4>1, RegistryKeepsHand, Zenon DEF Reading
      <4> QED
        BY <1>2, <3>1, <4>1, <4>2, Zenon DEF Reading
    <3> QED
      BY <1>2, <2>1, <2>3, <3>1, <3>2, Zenon DEF Discovering
  <2> QED
    BY <2>2, <2>3, Zenon
<1> QED
  BY <1>1, <1>3, <1>4, Zenon DEF IInv, Calls

\* The registry unchanged, so are the right answers.
LEMMA SameAnswers ==
  ASSUME UNCHANGED registryVars, NEW c, asked'[c] = asked[c]
  PROVE  Answers(asked[c])' = Answers(asked[c])
<1>1. services' = services /\ nameOf' = nameOf /\ status' = status
  BY Zenon DEF registryVars, table
<1> QED
  BY <1>1, ZenonT(30) DEF Answers, Matching, Registered

\* A call that takes no part in a step keeps its promise.
LEMMA OtherCalls ==
  ASSUME IInv, UNCHANGED registryVars, Observe, NEW c \in Clients,
         pc'[c] = pc[c], asked'[c] = asked[c], found'[c] = found[c], healthy'[c] = healthy[c],
         answer'[c] = answer[c], Weighted(c)' <=> Weighted(c)
  PROVE  Discovering(c)'
<1>1. Discovering(c)
  BY Zenon DEF IInv, Calls
<1>2. Answers(asked[c])' = Answers(asked[c])
  BY SameAnswers, Zenon
<1>3. right'[c] = right[c]
  BY <1>1, <1>2, Collects, Zenon DEF Discovering
<1>4. services' = services /\ nameOf' = nameOf /\ status' = status
  BY Zenon DEF registryVars, table
<1>5. Reading(c) => Reading(c)'
  BY <1>3, <1>4, Zenon DEF Reading, InHand
<1> QED
  BY <1>1, <1>2, <1>3, <1>5, Zenon DEF Discovering, Promise

\* What is left to show of a step of one call: that it keeps its own promise.
LEMMA OneCallKeeps ==
  ASSUME IInv, NEW c \in Clients, UNCHANGED registryVars, Observe, current' = current,
         lbs' \in [Balancers -> LB!BalancersOf(Infos)],
         \A b \in Balancers : lbs'[b].strategy = lbs[b].strategy,
         pc' \in [Clients -> PCs], asked' \in [Clients -> Names \cup {None}],
         found' \in [Clients -> SUBSET Infos], healthy' \in [Clients -> SUBSET Infos],
         using' \in [Clients -> Balancers], answer' \in [Clients -> Infos \cup {None}],
         using'[c] \in {using[c], current},
         \A d \in Clients : d # c =>
           /\ pc'[d] = pc[d] /\ asked'[d] = asked[d] /\ found'[d] = found[d]
           /\ healthy'[d] = healthy[d] /\ using'[d] = using[d] /\ answer'[d] = answer[d],
         Discovering(c)'
  PROVE  IInv'
<1>1. TableTypes' /\ Named'
  BY Zenon DEF IInv, Types, TableTypes, Named, registryVars, table, checking
<1>2. right' \in [Clients -> SUBSET (Infos \cup {None})]
  BY <1>1, CollectsServices, Zenon DEF TableTypes
<1>3. Types'
  BY <1>1, <1>2, Zenon DEF IInv, Types, TableTypes
<1>4. UsesMade'
  <2>1. current <= current
    BY DEF IInv, Types, Balancers
  <2> QED
    BY <2>1, Zenon DEF IInv, UsesMade
<1>5. ASSUME NEW d \in Clients PROVE Discovering(d)'
  <2>1. CASE d # c
    <3>1. using[d] \in Balancers
      BY Zenon DEF IInv, Types
    <3>2. Weighted(d)' <=> Weighted(d)
      BY <2>1, <3>1, Zenon DEF Weighted
    <3> QED
      BY <2>1, <3>2, OtherCalls, Zenon
  <2> QED
    BY <2>1, Zenon
<1> QED
  BY <1>1, <1>3, <1>4, <1>5, Zenon DEF IInv, Calls

\* A call begins: the answers of that moment are right.
LEMMA DiscoverKeeps ==
  ASSUME IInv, NEW c \in Clients, NEW q \in Names \cup {None}, Discover(c, q), Observe
  PROVE  IInv'
<1>1. Types /\ Discovering(c)
  BY Zenon DEF IInv, Calls
<1>2. /\ pc[c] = "idle" /\ pc' = [pc EXCEPT ![c] = "lookup"] /\ asked' = [asked EXCEPT ![c] = q]
      /\ answer' = [answer EXCEPT ![c] = None]
      /\ UNCHANGED <<lbs, current, found, healthy, using>> /\ UNCHANGED registryVars
  BY Zenon DEF Discover, balancing
<1>3. /\ pc' \in [Clients -> PCs] /\ asked' \in [Clients -> Names \cup {None}]
      /\ answer' \in [Clients -> Infos \cup {None}] /\ pc'[c] = "lookup"
      /\ \A d \in Clients : d # c => pc'[d] = pc[d] /\ asked'[d] = asked[d] /\ answer'[d] = answer[d]
  BY <1>1, <1>2, Zenon DEF Types, PCs
<1>4. Discovering(c)'
  <2>1. right'[c] = Answers(asked[c])' /\ healthy'[c] = {}
    BY <1>1, <1>2, <1>3, Collects, Zenon DEF Discovering
  <2> QED
    BY <1>3, <2>1, Zenon DEF Discovering
<1> QED
  BY <1>1, <1>2, <1>3, <1>4, OneCallKeeps, Zenon DEF Types

\* The registry is read: what is found is registered, or None was right.
LEMMA LookupKeeps ==
  ASSUME IInv, NEW c \in Clients, Lookup(c), Observe
  PROVE  IInv'
<1> USE RegistryAssumption
<1>1. Types /\ Discovering(c) /\ Named
  BY Zenon DEF IInv, Calls
<1> DEFINE M == Matching(asked[c])
<1>2. /\ pc[c] = "lookup" /\ found' = [found EXCEPT ![c] = M]
      /\ UNCHANGED <<lbs, current, asked, healthy, using>> /\ UNCHANGED registryVars
      /\ \/ M = {} /\ pc' = [pc EXCEPT ![c] = "idle"] /\ answer' = [answer EXCEPT ![c] = None]
         \/ M # {} /\ pc' = [pc EXCEPT ![c] = "fetch"] /\ answer' = answer
  BY Zenon DEF Lookup, Returns, balancing
<1>3. \A i \in M : i \in Infos /\ nameOf[i] \in Names /\ asked[c] \in {None, nameOf[i]} /\ services[nameOf[i]] = i
  <2> SUFFICES ASSUME NEW i \in M
               PROVE  i \in Infos /\ nameOf[i] \in Names /\ asked[c] \in {None, nameOf[i]} /\ services[nameOf[i]] = i
    BY Zenon
  <2>1. i \in {services[n] : n \in Names} /\ i # None /\ asked[c] \in {None, nameOf[i]}
    BY Zenon DEF Matching, Registered
  <2>2. PICK n \in Names : i = services[n]
    BY <2>1, Zenon
  <2>3. nameOf[i] = n /\ i \in Infos
    BY <1>1, <2>1, <2>2, ZenonT(30) DEF Types, Named
  <2> QED
    BY <2>1, <2>2, <2>3, Zenon
<1>4. M = {} => None \in Answers(asked[c])
  <2>1. M = {} => Answers(asked[c]) = {None}
    BY Zenon DEF Answers
  <2> QED
    BY <2>1, Zenon
<1> HIDE DEF M
<1>5. M \in SUBSET Infos
  BY <1>3, Zenon
<1>6. /\ found' \in [Clients -> SUBSET Infos] /\ found'[c] = M
      /\ \A d \in Clients : d # c => found'[d] = found[d]
  BY <1>1, <1>2, <1>5, Zenon DEF Types
<1>7. /\ pc' \in [Clients -> PCs] /\ answer' \in [Clients -> Infos \cup {None}]
      /\ \A d \in Clients : d # c => pc'[d] = pc[d] /\ answer'[d] = answer[d]
      /\ (M = {} /\ pc'[c] = "idle" /\ answer'[c] = None) \/ (M # {} /\ pc'[c] = "fetch")
  <2>1. CASE M = {}
    BY <1>1, <1>2, <2>1, Zenon DEF Types, PCs
  <2>2. CASE M # {}
    BY <1>1, <1>2, <2>2, Zenon DEF Types, PCs
  <2> QED
    BY <2>1, <2>2, Zenon
<1>8. Discovering(c)'
  <2>1. Answers(asked[c])' = Answers(asked[c])
    BY <1>2, SameAnswers, Zenon
  <2>2. right'[c] = right[c] \cup Answers(asked[c]) /\ healthy'[c] = {}
    BY <1>1, <1>2, <2>1, Collects, Zenon DEF Discovering
  <2>3. M # {} => Reading(c)'
    <3>1. services' = services /\ nameOf' = nameOf /\ asked' = asked
      BY <1>2, Zenon DEF registryVars, table
    <3>2. \A i \in M : InHand(c, i)'
      BY <1>3, <3>1, Zenon DEF InHand
    <3> QED
      BY <1>6, <2>2, <3>2, Zenon DEF Reading
  <2> QED
    BY <1>4, <1>7, <2>1, <2>2, <2>3, Zenon DEF Discovering, Promise
<1>9. \A b \in Balancers : lbs'[b].strategy = lbs[b].strategy
  BY <1>2, Zenon
<1> QED
  BY <1>1, <1>2, <1>6, <1>7, <1>8, <1>9, OneCallKeeps, Zenon DEF Types

\* Fetching the balancer keeps what is in hand.
LEMMA FetchKeeps ==
  ASSUME IInv, NEW c \in Clients, Fetch(c), Observe
  PROVE  IInv'
<1>1. Types /\ Discovering(c)
  BY Zenon DEF IInv, Calls
<1>2. /\ pc[c] = "fetch" /\ pc' = [pc EXCEPT ![c] = "filter"] /\ using' = [using EXCEPT ![c] = current]
      /\ UNCHANGED <<lbs, current, asked, found, healthy, answer>> /\ UNCHANGED registryVars
  BY Zenon DEF Fetch, balancing
<1>3. /\ pc' \in [Clients -> PCs] /\ using' \in [Clients -> Balancers] /\ pc'[c] = "filter" /\ using'[c] = current
      /\ \A d \in Clients : d # c => pc'[d] = pc[d] /\ using'[d] = using[d]
  BY <1>1, <1>2, Zenon DEF Types, PCs
<1>4. Discovering(c)'
  <2>1. Answers(asked[c])' = Answers(asked[c])
    BY <1>2, SameAnswers, Zenon
  <2>2. right'[c] = right[c] /\ Reading(c)
    BY <1>1, <1>2, <2>1, Collects, Zenon DEF Discovering
  <2>3. services' = services /\ nameOf' = nameOf /\ status' = status /\ found' = found /\ healthy' = healthy /\ asked' = asked
    BY <1>2, Zenon DEF registryVars, table
  <2>4. Reading(c)'
    BY <2>2, <2>3, Zenon DEF Reading, InHand
  <2> QED
    BY <1>1, <1>2, <1>3, <2>1, <2>2, <2>4, Zenon DEF Discovering
<1> QED
  BY <1>1, <1>2, <1>3, <1>4, OneCallKeeps, Zenon DEF Types

\* A status is read through the pointer: a healthy service in hand was right then, even if
\* it has left the registry since, and so was None when the one of the name is not healthy.
LEMMA FilterKeeps ==
  ASSUME IInv, NEW c \in Clients, NEW i \in Infos, filterHealthyServices(c, i), Observe
  PROVE  IInv'
<1> USE RegistryAssumption
<1>1. Types /\ Discovering(c) /\ Named
  BY Zenon DEF IInv, Calls
<1>2. /\ pc[c] = "filter" /\ i \in found[c] /\ found' = [found EXCEPT ![c] = @ \ {i}]
      /\ healthy' = [healthy EXCEPT ![c] = Kept(c, i)]
      /\ UNCHANGED <<lbs, current, pc, asked, using, answer>> /\ UNCHANGED registryVars
  BY Zenon DEF filterHealthyServices, balancing
<1>3. Kept(c, i) \in SUBSET Infos
  BY <1>1, Zenon DEF Kept, Types
<1>4. /\ found' \in [Clients -> SUBSET Infos] /\ healthy' \in [Clients -> SUBSET Infos]
      /\ found'[c] = found[c] \ {i} /\ healthy'[c] = Kept(c, i)
      /\ \A d \in Clients : d # c => found'[d] = found[d] /\ healthy'[d] = healthy[d]
  BY <1>1, <1>2, <1>3, Zenon DEF Types
<1>5. Discovering(c)'
  <2>1. Answers(asked[c])' = Answers(asked[c])
    BY <1>2, SameAnswers, Zenon
  <2>2. right'[c] = right[c] /\ Reading(c) /\ InHand(c, i) /\ Answers(asked[c]) \subseteq right[c]
    BY <1>1, <1>2, <2>1, Collects, ZenonT(30) DEF Discovering, Reading
  <2>3. services' = services /\ nameOf' = nameOf /\ status' = status /\ asked' = asked
    BY <1>2, Zenon DEF registryVars, table
  <2>4. services \in [Names -> Infos \cup {None}] /\ \A n \in Names : services[n] # None => nameOf[services[n]] = n
    BY <1>1, Zenon DEF Types, Named
  <2>5. nameOf[i] \in Names /\ asked[c] \in {None, nameOf[i]} /\ i # None
    BY <2>2, Zenon DEF InHand
  <2>6. status[i] = Healthy => i \in right[c]
    <3>1. CASE services[nameOf[i]] = i
      <4>1. PICK n \in Names : n = nameOf[i]
        BY <2>5, Zenon
      <4>2. services[n] # None /\ nameOf[services[n]] = n /\ asked[c] \in {None, n} /\ services[n] = i
        BY <2>5, <3>1, <4>1, Zenon
      <4>3. status[services[n]] = Healthy => services[n] \in AnswersIn(services, nameOf, status, asked[c])
        BY <2>4, <4>2, RightAnswers, Zenon
      <4> QED
        BY <2>2, <4>2, <4>3, AnswersAre, Zenon
    <3>2. CASE services[nameOf[i]] # i
      BY <2>2, <3>2, Zenon DEF InHand
    <3> QED
      BY <3>1, <3>2, Zenon
  <2>7. status[i] # Healthy /\ asked[c] # None => None \in right[c]
    <3>1. CASE services[nameOf[i]] = i
      <4>1. status[i] # Healthy /\ asked[c] # None => None \in AnswersIn(services, nameOf, status, asked[c])
        BY <2>4, <2>5, <3>1, RightAnswers, Zenon
      <4> QED
        BY <2>2, <4>1, AnswersAre, Zenon
    <3>2. CASE services[nameOf[i]] # i
      BY <2>2, <3>2, Zenon DEF InHand
    <3> QED
      BY <3>1, <3>2, Zenon
  <2>8. Kept(c, i) \subseteq right[c] /\ (Kept(c, i) = {} => status[i] # Healthy)
    BY <2>2, <2>6, Zenon DEF Kept, Reading
  <2>9. \A j \in found'[c] : InHand(c, j)'
    BY <1>4, <2>2, <2>3, Zenon DEF Reading, InHand
  <2>10. Reading(c)'
    BY <1>4, <2>2, <2>3, <2>7, <2>8, <2>9, Zenon DEF Reading
  <2> QED
    BY <1>2, <2>1, <2>2, <2>10, Zenon DEF Discovering
<1>6. \A b \in Balancers : lbs'[b].strategy = lbs[b].strategy
  BY <1>2, Zenon
<1> QED
  BY <1>1, <1>2, <1>4, <1>5, <1>6, OneCallKeeps, Zenon DEF Types

\* The balancer chooses from what was healthy, or there was nothing.
LEMMA SelectKeeps ==
  ASSUME IInv, NEW c \in Clients, Select(c), Observe
  PROVE  IInv'
<1>1. Types /\ Discovering(c)
  BY Zenon DEF IInv, Calls
<1>2. /\ pc[c] = "filter" /\ found[c] = {} /\ healthy' = [healthy EXCEPT ![c] = {}]
      /\ UNCHANGED <<current, asked, found, using>> /\ UNCHANGED registryVars
  BY Zenon DEF Select
<1>3. using[c] \in Balancers /\ lbs[using[c]] \in LB!BalancersOf(Infos) /\ healthy[c] \in SUBSET Infos
  BY <1>1, Zenon DEF Types
<1>4. PICK a \in Infos \cup {None} :
        /\ Returns(c, a)
        /\ lbs' \in [Balancers -> LB!BalancersOf(Infos)]
        /\ \A b \in Balancers : lbs'[b].strategy = lbs[b].strategy
        /\ healthy[c] = {} => a = None
        /\ healthy[c] # {} /\ ~Weighted(c) => a \in healthy[c]
  <2>1. CASE healthy[c] = {} /\ Returns(c, None) /\ UNCHANGED lbs
    BY <1>1, <2>1, Zenon DEF Types
  <2>2. ASSUME NEW choice \in LB!Select(lbs[using[c]], healthy[c]), healthy[c] # {}, Returns(c, choice[1]),
               lbs' = [lbs EXCEPT ![using[c]] = choice[2]]
        PROVE  /\ choice[1] \in Infos
               /\ lbs' \in [Balancers -> LB!BalancersOf(Infos)]
               /\ \A b \in Balancers : lbs'[b].strategy = lbs[b].strategy
               /\ ~Weighted(c) => choice[1] \in healthy[c]
    <3>1. /\ choice[2] \in LB!BalancersOf(Infos) /\ choice[2].strategy = lbs[using[c]].strategy
          /\ choice[1] \in Infos
          /\ lbs[using[c]].strategy # "weighted_round_robin" => choice[1] \in healthy[c]
      BY <1>3, <2>2, Selected, Zenon
    <3>2. lbs \in [Balancers -> LB!BalancersOf(Infos)]
      BY <1>1, Zenon DEF Types
    <3>3. lbs' \in [Balancers -> LB!BalancersOf(Infos)]
      BY <2>2, <3>1, <3>2, Zenon
    <3>4. \A b \in Balancers : lbs'[b] = IF b = using[c] THEN choice[2] ELSE lbs[b]
      BY <1>3, <2>2, <3>2, Zenon
    <3>5. \A b \in Balancers : lbs'[b].strategy = lbs[b].strategy
      BY <3>1, <3>4, Zenon
    <3> QED
      BY <3>1, <3>3, <3>5, Zenon DEF Weighted
  <2>3. \/ healthy[c] = {} /\ Returns(c, None) /\ UNCHANGED lbs
        \/ \E choice \in LB!Select(lbs[using[c]], healthy[c]) :
             healthy[c] # {} /\ Returns(c, choice[1]) /\ lbs' = [lbs EXCEPT ![using[c]] = choice[2]]
    BY Zenon DEF Select
  <2> QED
    BY <2>1, <2>2, <2>3, Zenon
<1>5. pc' = [pc EXCEPT ![c] = "idle"] /\ answer' = [answer EXCEPT ![c] = a]
  BY <1>4, Zenon DEF Returns
<1>6. /\ pc' \in [Clients -> PCs] /\ answer' \in [Clients -> Infos \cup {None}] /\ healthy' \in [Clients -> SUBSET Infos]
      /\ pc'[c] = "idle" /\ answer'[c] = a /\ healthy'[c] = {}
      /\ \A d \in Clients : d # c => pc'[d] = pc[d] /\ answer'[d] = answer[d] /\ healthy'[d] = healthy[d]
  BY <1>1, <1>2, <1>5, Zenon DEF Types, PCs
<1>7. Discovering(c)'
  <2>1. Weighted(c)' <=> Weighted(c)
    BY <1>2, <1>3, <1>4, Zenon DEF Weighted
  <2>2. right[c] \subseteq right'[c] /\ Reading(c)
    BY <1>1, <1>2, Collects, Zenon DEF Discovering
  <2>3. ~Weighted(c) => Promise(c)'
    BY <1>2, <1>4, <1>6, <2>2, Zenon DEF Promise, Reading
  <2> QED
    BY <1>6, <2>1, <2>3, Zenon DEF Discovering
<1> QED
  BY <1>1, <1>2, <1>4, <1>6, <1>7, OneCallKeeps, Zenon DEF Types

\* SetLoadBalanceStrategy puts a new balancer in place; calls under way keep theirs.
LEMMA StrategyKeeps ==
  ASSUME IInv, NEW s \in LB!Strategies, SetLoadBalanceStrategy(s), Observe
  PROVE  IInv'
<1> DEFINE new == LB!NewLoadBalancer(s)
<1>1. /\ current < MaxBalancers /\ current' = current + 1
      /\ lbs' = [lbs EXCEPT ![current + 1] = new] /\ UNCHANGED registryVars
      /\ UNCHANGED <<pc, asked, found, healthy, using, answer>>
  BY Zenon DEF SetLoadBalanceStrategy, calls
<1>2. new \in LB!BalancersOf(Infos)
  BY Zenon DEF LB!NewLoadBalancer, LB!BalancersOf
<1> HIDE DEF new
<1>3. Types /\ \A c \in Clients : using[c] \in Balancers /\ using[c] <= current
  BY Zenon DEF IInv, Types, UsesMade
<1>4. /\ current' \in Balancers
      /\ \A c \in Clients : using[c] # current + 1 /\ using[c] <= current'
  BY <1>1, <1>3, BalancersAssumption DEF Types, Balancers
<1>5. /\ lbs' \in [Balancers -> LB!BalancersOf(Infos)]
      /\ \A c \in Clients : lbs'[using[c]] = lbs[using[c]]
  BY <1>1, <1>2, <1>3, <1>4, Zenon DEF Types
<1>6. TableTypes' /\ Named'
  BY <1>1, Zenon DEF IInv, Types, TableTypes, Named, registryVars, table, checking
<1>7. right' \in [Clients -> SUBSET (Infos \cup {None})]
  BY <1>6, CollectsServices, Zenon DEF TableTypes
<1>8. Types' /\ UsesMade'
  BY <1>1, <1>3, <1>4, <1>5, <1>6, <1>7, Zenon DEF Types, TableTypes, UsesMade
<1>9. ASSUME NEW d \in Clients PROVE Discovering(d)'
  <2>1. Weighted(d)' <=> Weighted(d)
    BY <1>1, <1>5, Zenon DEF Weighted
  <2> QED
    BY <1>1, <2>1, OtherCalls, Zenon
<1> QED
  BY <1>6, <1>8, <1>9, Zenon DEF IInv, Calls

\* Every step keeps the inductive invariant.
LEMMA NextIInv == IInv /\ [Next]_vars => IInv'
<1> SUFFICES ASSUME IInv, [Next]_vars PROVE IInv'
  BY Zenon
<1>1. CASE UNCHANGED vars
  <2>1. UNCHANGED <<services, nameOf, status, todo, checked, readStatus, lbs, current, pc, asked, found, healthy, using, answer, right>>
    BY <1>1, Zenon DEF vars, registryVars, table, checking, balancing, calls
  <2>2. Types' /\ Named' /\ UsesMade'
    BY <2>1, Zenon DEF IInv, Types, Named, UsesMade
  <2>3. ASSUME NEW c \in Clients PROVE Discovering(c)'
    <3>1. Discovering(c)
      BY Zenon DEF IInv, Calls
    <3>2. Answers(asked[c])' = Answers(asked[c])
      BY <2>1, ZenonT(30) DEF Answers, Matching, Registered
    <3>3. Reading(c) => Reading(c)'
      BY <2>1, Zenon DEF Reading, InHand
    <3> QED
      BY <2>1, <3>1, <3>2, <3>3, Zenon DEF Discovering, Promise, Weighted
  <2> QED
    BY <2>2, <2>3, Zenon DEF IInv, Calls
<1>2. CASE Next
  <2>1. Step /\ Observe
    BY <1>2, Zenon DEF Next
  <2>2. CASE RegistryStep /\ UNCHANGED <<balancing, calls>>
    BY <2>1, <2>2, RegistryKeepsCalls, Zenon
  <2>3. CASE CallStep
    BY <2>1, <2>3, DiscoverKeeps, LookupKeeps, FetchKeeps, SelectKeeps, FilterKeeps, StrategyKeeps, Zenon DEF CallStep
  <2> QED
    BY <2>1, <2>2, <2>3, Zenon DEF Step
<1> QED
  BY <1>1, <1>2, Zenon

\* DiscoverService answers, for every strategy but the weighted one, what was right at
\* some moment of the call, but for an error in answer to the empty name; for any number
\* of callers, names and registrations.
THEOREM Linearizable == Spec => []DiscoverIsLinearizable
<1>1. IInv => DiscoverIsLinearizable
  BY Zenon DEF IInv, Calls, Discovering, Promise, DiscoverIsLinearizable
<1> QED
  BY <1>1, InitIInv, NextIInv, PTL DEF Spec

----------------------------------------------------------------------------
(* Watchers                                                                *)

\* What the table says of a name.
Says(sv, st, n) == IF sv[n] = None THEN None ELSE st[sv[n]]

\* An event is true of the table: its service is the one registered, or there is none.
Tells(e, nm, sv) == sv[nm[e.info]] = IF e.type = "gone" THEN None ELSE e.info

\* Of the events about n in a channel the last is true.
LastTrue(c, n, nm, sv) ==
  \A k \in 1 .. Len(c) :
    nm[c[k].info] = n /\ (\A j \in k + 1 .. Len(c) : nm[c[j].info] # n) => Tells(c[k], nm, sv)

Silent(c, n, nm) == \A k \in 1 .. Len(c) : nm[c[k].info] # n

\* A picture of n, with the events of the channel to come, is what the table says.
Follows(v, c, n, nm, sv, st) == Silent(c, n, nm) => v[n] = Says(sv, st, n)

WatchTypes ==
  /\ event \in Events \cup {None}
  /\ watch \in [Watchers -> {"new", "watching", "listed", "closed"}]
  /\ chan \in [Watchers -> Seq(Events)]
  /\ lost \in [Watchers -> BOOLEAN]
  /\ view \in [Watchers -> [Names -> Statuses \cup {None}]]
  /\ \A w \in Watchers : Len(chan[w]) <= ChanCap

\* Events are about objects that have a name, and the one about to be sent is true.
EventInv ==
  /\ event # None => nameOf[event.info] \in Names /\ Tells(event, nameOf, services)
  /\ \A w \in Watchers : \A k \in 1 .. Len(chan[w]) : nameOf[chan[w][k].info] # None
  /\ \A w \in Watchers : watch[w] = "new" => chan[w] = << >>

\* The watchers that have lost nothing know all but the event about to be sent.
WatchInv ==
  \A w \in Watchers : watch[w] \in {"watching", "listed"} /\ ~lost[w] =>
    \A n \in Names : event = None \/ nameOf[event.info] # n =>
      /\ LastTrue(chan[w], n, nameOf, services)
      /\ watch[w] = "listed" => Follows(view[w], chan[w], n, nameOf, services, status)

LEMMA InfoOf ==
  ASSUME NEW e \in Events
  PROVE  e.info \in Infos /\ e.type \in {"registered", "gone"} /\ e # None
  BY RegistryAssumption, Zenon DEF Events

LEMMA EventsOf ==
  ASSUME NEW c \in Seq(Events)
  PROVE  Len(c) \in Nat /\ \A k \in 1 .. Len(c) : c[k] \in Events /\ c[k].info \in Infos
  <1>1. Len(c) \in Nat /\ \A k \in 1 .. Len(c) : c[k] \in Events
    OBVIOUS
  <1> QED  BY <1>1, InfoOf, Zenon

\* A channel is taken the same way when the objects of its events keep their names, and n
\* leads where it led.
LEMMA SameEvents ==
  ASSUME NEW c \in Seq(Events), NEW n, NEW nm, NEW nm2, NEW sv, NEW sv2,
         \A k \in 1 .. Len(c) : nm2[c[k].info] = nm[c[k].info], sv2[n] = sv[n]
  PROVE  /\ LastTrue(c, n, nm, sv) => LastTrue(c, n, nm2, sv2)
         /\ Silent(c, n, nm2) => Silent(c, n, nm)
  <1>1. Silent(c, n, nm2) => Silent(c, n, nm)
    BY Zenon DEF Silent
  <1>2. ASSUME LastTrue(c, n, nm, sv), NEW k \in 1 .. Len(c), nm2[c[k].info] = n,
               \A j \in k + 1 .. Len(c) : nm2[c[j].info] # n
        PROVE  Tells(c[k], nm2, sv2)
    <2>1. \A j \in k + 1 .. Len(c) : j \in 1 .. Len(c)
      BY EventsOf
    <2>2. Tells(c[k], nm, sv) /\ nm[c[k].info] = n
      BY <1>2, <2>1, Zenon DEF LastTrue
    <2> QED  BY <1>2, <2>2, Zenon DEF Tells
  <1> QED  BY <1>1, <1>2, Zenon DEF LastTrue

\* An event is put into the channel.
LEMMA Sent ==
  ASSUME NEW c \in Seq(Events), NEW e \in Events, NEW n, NEW nm, NEW sv, Tells(e, nm, sv),
         nm[e.info] # n => LastTrue(c, n, nm, sv)
  PROVE  /\ LastTrue(Append(c, e), n, nm, sv)
         /\ Silent(Append(c, e), n, nm) => Silent(c, n, nm) /\ nm[e.info] # n
  <1> DEFINE d == Append(c, e)
  <1>1. /\ Len(c) \in Nat /\ Len(d) = Len(c) + 1 /\ d[Len(c) + 1] = e
        /\ \A k \in 1 .. Len(c) : d[k] = c[k]
    OBVIOUS
  <1> HIDE DEF d
  <1>2. Silent(d, n, nm) => Silent(c, n, nm) /\ nm[e.info] # n
    <2>1. Len(c) + 1 \in 1 .. Len(d) /\ \A k \in 1 .. Len(c) : k \in 1 .. Len(d)
      BY <1>1
    <2> QED  BY <1>1, <2>1, Zenon DEF Silent
  <1>3. ASSUME NEW k \in 1 .. Len(d), nm[d[k].info] = n, \A j \in k + 1 .. Len(d) : nm[d[j].info] # n
        PROVE  Tells(d[k], nm, sv)
    <2>1. CASE k = Len(c) + 1
      BY <1>1, <2>1, Zenon
    <2>2. CASE k # Len(c) + 1
      <3>1. k \in 1 .. Len(c) /\ Len(c) + 1 \in k + 1 .. Len(d)
        BY <1>1, <2>2
      <3>2. nm[e.info] # n
        BY <1>1, <1>3, <3>1, Zenon
      <3>3. nm[c[k].info] = n /\ \A j \in k + 1 .. Len(c) : nm[c[j].info] # n
        <4>1. \A j \in k + 1 .. Len(c) : j \in 1 .. Len(c) /\ j \in k + 1 .. Len(d)
          BY <1>1, <3>1
        <4> QED  BY <1>1, <1>3, <3>1, <4>1, Zenon
      <3> QED  BY <1>1, <3>1, <3>2, <3>3, Zenon DEF LastTrue
    <2> QED  BY <2>1, <2>2, Zenon
  <1> QED  BY <1>2, <1>3, Zenon DEF LastTrue, d

\* An event is taken out of the channel.
LEMMA Taken ==
  ASSUME NEW c \in Seq(Events), c # << >>, NEW n, NEW nm, NEW sv, LastTrue(c, n, nm, sv)
  PROVE  /\ LastTrue(Tail(c), n, nm, sv)
         /\ Silent(Tail(c), n, nm) => \/ nm[Head(c).info] # n /\ Silent(c, n, nm)
                                      \/ nm[Head(c).info] = n /\ Tells(Head(c), nm, sv)
  <1> DEFINE d == Tail(c)
  <1>1. /\ Len(c) \in Nat \ {0} /\ Len(d) = Len(c) - 1 /\ Head(c) = c[1]
        /\ \A k \in 1 .. Len(c) - 1 : d[k] = c[k + 1]
    OBVIOUS
  <1> HIDE DEF d
  <1>2. \A k \in 2 .. Len(c) : k - 1 \in 1 .. Len(d) /\ d[k - 1] = c[k]
    BY <1>1
  <1>3. LastTrue(d, n, nm, sv)
    <2> SUFFICES ASSUME NEW k \in 1 .. Len(d), nm[d[k].info] = n, \A j \in k + 1 .. Len(d) : nm[d[j].info] # n
                 PROVE  Tells(d[k], nm, sv)
      BY Zenon DEF LastTrue
    <2>1. k + 1 \in 1 .. Len(c) /\ d[k] = c[k + 1]
      BY <1>1
    <2>2. \A j \in (k + 1) + 1 .. Len(c) : j \in 2 .. Len(c) /\ j - 1 \in k + 1 .. Len(d)
      BY <1>1, <2>1
    <2>3. \A j \in (k + 1) + 1 .. Len(c) : nm[c[j].info] # n
      BY <1>2, <2>2, Zenon
    <2> QED  BY <2>1, <2>3, Zenon DEF LastTrue
  <1>4. ASSUME Silent(d, n, nm)
        PROVE  \/ nm[Head(c).info] # n /\ Silent(c, n, nm)
               \/ nm[Head(c).info] = n /\ Tells(Head(c), nm, sv)
    <2>1. \A k \in 2 .. Len(c) : nm[c[k].info] # n
      BY <1>2, <1>4, Zenon DEF Silent
    <2>2. CASE nm[Head(c).info] # n
      <3>1. \A k \in 1 .. Len(c) : k = 1 \/ k \in 2 .. Len(c)
        BY <1>1
      <3> QED  BY <1>1, <2>1, <2>2, <3>1, Zenon DEF Silent
    <2>3. CASE nm[Head(c).info] = n
      <3>1. 1 \in 1 .. Len(c) /\ 1 + 1 = 2
        BY <1>1
      <3> QED  BY <1>1, <2>1, <2>3, <3>1, Zenon DEF LastTrue
    <2> QED  BY <2>2, <2>3, Zenon
  <1> QED  BY <1>3, <1>4, Zenon DEF d

Watched == WatchTypes /\ EventInv /\ WatchInv

\* The table changes under name n, and an event about n is about to be sent.
LEMMA Announced ==
  ASSUME TableTypes, Watched, event = None, UNCHANGED watching, NEW n \in Names,
         \A i \in Infos : nameOf[i] # None => nameOf'[i] = nameOf[i],
         \A m \in Names \ {n} : /\ services'[m] = services[m]
                                /\ Says(services', status', m) = Says(services, status, m),
         event' \in Events, nameOf'[event'.info] = n, Tells(event', nameOf', services')
  PROVE  Watched'
  <1>1. WatchTypes'
    BY Zenon DEF Watched, WatchTypes, watching
  <1>2. ASSUME NEW w \in Watchers
        PROVE  /\ chan[w] \in Seq(Events) /\ chan' = chan
               /\ \A k \in 1 .. Len(chan[w]) : /\ nameOf[chan[w][k].info] # None
                                              /\ nameOf'[chan[w][k].info] = nameOf[chan[w][k].info]
    <2>1. chan[w] \in Seq(Events) /\ chan' = chan
      BY Zenon DEF Watched, WatchTypes, watching
    <2> QED  BY <2>1, EventsOf, Zenon DEF Watched, EventInv
  <1>3. EventInv'
    <2>1. (nameOf[event.info] \in Names /\ Tells(event, nameOf, services))'
      BY Zenon
    <2>2. ASSUME NEW w \in Watchers, NEW k \in 1 .. Len(chan'[w])  PROVE nameOf'[chan'[w][k].info] # None
      BY <1>2, <2>2
    <2>3. ASSUME NEW w \in Watchers, watch'[w] = "new"  PROVE chan'[w] = << >>
      BY <2>3, Zenon DEF Watched, EventInv, watching
    <2> QED  BY <2>1, <2>2, <2>3, Zenon DEF EventInv
  <1>4. ASSUME NEW w \in Watchers, watch'[w] \in {"watching", "listed"}, ~lost'[w],
               NEW m \in Names, event' = None \/ nameOf'[event'.info] # m
        PROVE  /\ LastTrue(chan'[w], m, nameOf', services')
               /\ watch'[w] = "listed" => Follows(view'[w], chan'[w], m, nameOf', services', status')
    <2>1. m \in Names \ {n}
      BY <1>4, InfoOf, Zenon
    <2>2. UNCHANGED <<watch, chan, lost, view>>
      BY Zenon DEF watching
    <2>3. /\ LastTrue(chan[w], m, nameOf, services)
          /\ watch[w] = "listed" => Follows(view[w], chan[w], m, nameOf, services, status)
      BY <1>4, <2>2, Zenon DEF Watched, WatchInv
    <2>4. /\ LastTrue(chan[w], m, nameOf', services')
          /\ Silent(chan[w], m, nameOf') => Silent(chan[w], m, nameOf)
      BY <1>2, <2>1, <2>3, SameEvents, Zenon
    <2> QED  BY <2>1, <2>2, <2>3, <2>4, Zenon DEF Follows
  <1>5. WatchInv'
    BY <1>4, Zenon DEF WatchInv
  <1> QED  BY <1>1, <1>3, <1>5, Zenon DEF Watched

\* Names, events and watchers are left alone, and so is what the table says.
LEMMA Unannounced ==
  ASSUME Watched, UNCHANGED <<services, nameOf, event, watching>>,
         \A m \in Names : Says(services', status', m) = Says(services, status, m)
  PROVE  Watched'
  <1>1. UNCHANGED <<services, nameOf, event, watch, chan, lost, view>>
    BY Zenon DEF watching
  <1>2. WatchTypes' /\ EventInv'
    BY <1>1, Zenon DEF Watched, WatchTypes, EventInv
  <1>3. ASSUME NEW w \in Watchers, watch[w] \in {"watching", "listed"}, ~lost[w],
               NEW n \in Names, event = None \/ nameOf[event.info] # n
        PROVE  /\ LastTrue(chan[w], n, nameOf, services)
               /\ watch[w] = "listed" => Follows(view[w], chan[w], n, nameOf, services, status')
    <2>1. /\ LastTrue(chan[w], n, nameOf, services)
          /\ watch[w] = "listed" => Follows(view[w], chan[w], n, nameOf, services, status)
      BY <1>3, Zenon DEF Watched, WatchInv
    <2> QED  BY <1>1, <2>1, Zenon DEF Follows
  <1>4. WatchInv'
    BY <1>1, <1>3, Zenon DEF WatchInv
  <1> QED  BY <1>2, <1>4, Zenon DEF Watched

LEMMA SetStatusWatched ==
  ASSUME TableTypes, Named, Watched, event = None, NEW n \in Names, services[n] # None, NEW s \in Statuses,
         SetStatus(n, s), UNCHANGED <<services, nameOf, watching>>
  PROVE  Watched'
  <1>1. PICK i \in Infos : services[n] = i
    BY Zenon DEF TableTypes
  <1>2. nameOf[i] = n /\ status' = [status EXCEPT ![i] = s]
    BY <1>1, Zenon DEF Named, SetStatus
  <1>3. CASE s = status[i]
    <2>1. event' = event /\ status' = status
      BY <1>1, <1>2, <1>3, Zenon DEF SetStatus, TableTypes
    <2> QED  BY <2>1, Unannounced, Zenon
  <1>4. CASE s # status[i]
    <2>1. event' = [type |-> "registered", info |-> i]
      BY <1>1, <1>4, Zenon DEF SetStatus
    <2>2. event' \in Events /\ event'.info = i /\ event'.type = "registered"
      BY <2>1, Zenon DEF Events
    <2>3. nameOf'[event'.info] = n /\ Tells(event', nameOf', services')
      BY <1>1, <1>2, <2>2, Zenon DEF Tells
    <2>4. ASSUME NEW m \in Names \ {n}
          PROVE  services'[m] = services[m] /\ Says(services', status', m) = Says(services, status, m)
      <3>1. services[m] # i
        BY <1>2, RegistryAssumption, Zenon DEF Named
      <3> QED  BY <1>2, <3>1, Zenon DEF Says, TableTypes
    <2> QED  BY <2>2, <2>3, <2>4, Announced, Zenon
  <1> QED  BY <1>3, <1>4, Zenon

\* The operations on the table.
LEMMA TableSteps ==
  ASSUME TableTypes, Named, Watched,
         \/ \E n \in Names, i \in Infos : Register(n, i)
         \/ \E n \in Names : Unregister(n) \/ UpdateMetadata(n)
         \/ \E n \in Names, s \in Statuses : UpdateStatus(n, s)
         \/ CheckWrite
  PROVE  Watched'
  <1>1. ASSUME NEW n \in Names, NEW i \in Infos, Register(n, i)  PROVE Watched'
    <2>1. /\ event = None /\ nameOf[i] = None /\ services' = [services EXCEPT ![n] = i]
          /\ nameOf' = [nameOf EXCEPT ![i] = n] /\ event' = [type |-> "registered", info |-> i]
          /\ UNCHANGED <<status, watching>>
      BY <1>1, Zenon DEF Register
    <2>2. event' \in Events /\ event'.info = i /\ event'.type = "registered"
      BY <2>1, Zenon DEF Events
    <2>3. nameOf'[i] = n /\ services'[n] = i
      BY <2>1, Zenon DEF TableTypes
    <2>4. /\ \A j \in Infos : nameOf[j] # None => nameOf'[j] = nameOf[j]
          /\ \A m \in Names \ {n} : services'[m] = services[m] /\ Says(services', status', m) = Says(services, status, m)
      BY <2>1, Zenon DEF TableTypes, Says
    <2>5. nameOf'[event'.info] = n /\ Tells(event', nameOf', services')
      BY <2>2, <2>3, Zenon DEF Tells
    <2> QED  BY <2>1, <2>2, <2>4, <2>5, Announced, Zenon
  <1>2. ASSUME NEW n \in Names, Unregister(n)  PROVE Watched'
    <2>1. PICK i \in Infos : services[n] = i
      BY <1>2, Zenon DEF Unregister, TableTypes
    <2>2. /\ event = None /\ services' = [services EXCEPT ![n] = None] /\ nameOf[i] = n
          /\ event' = [type |-> "gone", info |-> i] /\ UNCHANGED <<nameOf, status, watching>>
      BY <1>2, <2>1, Zenon DEF Unregister, Named
    <2>3. event' \in Events /\ event'.info = i /\ event'.type = "gone"
      BY <2>2, Zenon DEF Events
    <2>4. /\ services'[n] = None
          /\ \A m \in Names \ {n} : services'[m] = services[m] /\ Says(services', status', m) = Says(services, status, m)
      BY <2>2, Zenon DEF TableTypes, Says
    <2>5. nameOf'[event'.info] = n /\ Tells(event', nameOf', services')
      BY <2>2, <2>3, <2>4, Zenon DEF Tells
    <2>6. \A j \in Infos : nameOf[j] # None => nameOf'[j] = nameOf[j]
      BY <2>2, Zenon
    <2> QED  BY <2>2, <2>3, <2>4, <2>5, <2>6, Announced, Zenon
  <1>3. ASSUME NEW n \in Names, UpdateMetadata(n)  PROVE Watched'
    <2>1. PICK i \in Infos : services[n] = i
      BY <1>3, Zenon DEF UpdateMetadata, TableTypes
    <2>2. /\ event = None /\ nameOf[i] = n /\ UNCHANGED <<services, nameOf, status, watching>>
          /\ event' = [type |-> "registered", info |-> i]
      BY <1>3, <2>1, Zenon DEF UpdateMetadata, Named, table
    <2>3. event' \in Events /\ event'.info = i /\ event'.type = "registered"
      BY <2>2, Zenon DEF Events
    <2>4. nameOf'[event'.info] = n /\ Tells(event', nameOf', services')
      BY <2>1, <2>2, <2>3, Zenon DEF Tells
    <2>5. /\ \A j \in Infos : nameOf[j] # None => nameOf'[j] = nameOf[j]
          /\ \A m \in Names \ {n} : services'[m] = services[m] /\ Says(services', status', m) = Says(services, status, m)
      BY <2>2, Zenon
    <2> QED  BY <2>2, <2>3, <2>4, <2>5, Announced, Zenon
  <1>4. ASSUME NEW n \in Names, NEW s \in Statuses, UpdateStatus(n, s)  PROVE Watched'
    BY <1>4, SetStatusWatched, Zenon DEF UpdateStatus
  <1>5. CASE CheckWrite
    <2>1. nameOf[checked] \in Names /\ readStatus \in Statuses /\ event = None
      BY <1>5, RegistryAssumption, Zenon DEF CheckWrite, TableTypes, Named
    <2>2. CASE services[nameOf[checked]] # None
      BY <1>5, <2>1, <2>2, SetStatusWatched, Zenon DEF CheckWrite
    <2>3. CASE services[nameOf[checked]] = None
      <3>1. UNCHANGED <<services, nameOf, status, event, watching>>
        BY <1>5, <2>3, Zenon DEF CheckWrite
      <3> QED  BY <3>1, Unannounced, Zenon
    <2> QED  BY <2>2, <2>3, Zenon
  <1> QED  BY <1>1, <1>2, <1>3, <1>4, <1>5, Zenon

\* The event goes to the watchers: it is the last about its name, and true.
LEMMA NotifyStep ==
  ASSUME TableTypes, Watched, notifyWatchers
  PROVE  Watched'
  <1>1. /\ event \in Events /\ event' = None /\ UNCHANGED <<services, nameOf, status, watch, view>>
        /\ chan' = [w \in Watchers |-> IF w \in Open /\ Len(chan[w]) < ChanCap
                                       THEN Append(chan[w], event) ELSE chan[w]]
        /\ lost' = [w \in Watchers |-> lost[w] \/ (w \in Open /\ Len(chan[w]) >= ChanCap)]
    BY Zenon DEF notifyWatchers, Watched, WatchTypes, table
  <1>2. nameOf[event.info] \in Names /\ Tells(event, nameOf, services) /\ event # None
    BY <1>1, InfoOf, Zenon DEF Watched, EventInv
  <1>3. ASSUME NEW w \in Watchers
        PROVE  /\ chan'[w] \in Seq(Events) /\ Len(chan'[w]) <= ChanCap
               /\ \A k \in 1 .. Len(chan'[w]) : nameOf[chan'[w][k].info] # None
               /\ watch[w] = "new" => chan'[w] = << >>
    <2>1. /\ chan[w] \in Seq(Events) /\ Len(chan[w]) <= ChanCap /\ Len(chan[w]) \in Nat
          /\ \A k \in 1 .. Len(chan[w]) : nameOf[chan[w][k].info] # None
          /\ watch[w] = "new" => chan[w] = << >>
      <3>1. chan \in [Watchers -> Seq(Events)]
        BY Zenon DEF Watched, WatchTypes
      <3>2. chan[w] \in Seq(Events) /\ Len(chan[w]) \in Nat
        BY <3>1
      <3> QED  BY <3>2, Zenon DEF Watched, WatchTypes, EventInv
    <2>2. CASE w \in Open /\ Len(chan[w]) < ChanCap
      <3> DEFINE d == Append(chan[w], event)
      <3>1. /\ d \in Seq(Events) /\ Len(d) = Len(chan[w]) + 1 /\ d[Len(chan[w]) + 1] = event
            /\ \A k \in 1 .. Len(chan[w]) : d[k] = chan[w][k]
        BY <1>1, <2>1
      <3>2. chan'[w] = d /\ watch[w] # "new"
        BY <1>1, <2>2, Zenon DEF Open
      <3> HIDE DEF d
      <3>3. ASSUME NEW k \in 1 .. Len(d)  PROVE nameOf[d[k].info] # None
        <4>1. k = Len(chan[w]) + 1 \/ k \in 1 .. Len(chan[w])
          BY <2>1, <3>1
        <4> QED  BY <1>2, <2>1, <3>1, <4>1, RegistryAssumption
      <3> QED  BY <2>1, <2>2, <3>1, <3>2, <3>3, RegistryAssumption
    <2>3. CASE ~(w \in Open /\ Len(chan[w]) < ChanCap)
      BY <1>1, <2>1, <2>3, Zenon
    <2> QED  BY <2>2, <2>3, Zenon
  <1>4. WatchTypes'
    <2>1. chan' \in [Watchers -> Seq(Events)]
      <3>1. chan' = [w \in Watchers |-> chan'[w]]
        BY <1>1, Zenon
      <3> QED  BY <1>3, <3>1, Zenon
    <2>2. lost' \in [Watchers -> BOOLEAN]
      BY <1>1, Zenon
    <2> QED  BY <1>1, <1>3, <2>1, <2>2, Zenon DEF Watched, WatchTypes
  <1>5. EventInv'
    BY <1>1, <1>3, Zenon DEF EventInv
  <1>6. ASSUME NEW w \in Watchers, watch[w] \in {"watching", "listed"}, ~lost'[w], NEW n \in Names
        PROVE  /\ LastTrue(chan'[w], n, nameOf, services)
               /\ watch[w] = "listed" => Follows(view[w], chan'[w], n, nameOf, services, status)
    <2>1. chan[w] \in Seq(Events) /\ Len(chan[w]) \in Nat /\ w \in Open
      BY <1>6 DEF Watched, WatchTypes, Open
    <2>2. ~lost[w] /\ Len(chan[w]) < ChanCap
      <3>1. lost'[w] <=> lost[w] \/ Len(chan[w]) >= ChanCap
        BY <1>1, <2>1, Zenon
      <3> QED  BY <1>6, <2>1, <3>1, RegistryAssumption
    <2>3. chan'[w] = Append(chan[w], event)
      BY <1>1, <2>1, <2>2, Zenon
    <2>4. nameOf[event.info] # n =>
            /\ LastTrue(chan[w], n, nameOf, services)
            /\ watch[w] = "listed" => Follows(view[w], chan[w], n, nameOf, services, status)
      BY <1>6, <2>2, Zenon DEF Watched, WatchInv
    <2>5. /\ LastTrue(Append(chan[w], event), n, nameOf, services)
          /\ Silent(Append(chan[w], event), n, nameOf) => Silent(chan[w], n, nameOf) /\ nameOf[event.info] # n
      BY <1>1, <1>2, <2>1, <2>4, Sent, Zenon
    <2> QED  BY <2>3, <2>4, <2>5, Zenon DEF Follows
  <1>7. WatchInv'
    BY <1>1, <1>6, Zenon DEF WatchInv
  <1> QED  BY <1>4, <1>5, <1>7, Zenon DEF Watched

\* A watcher receives an event: its picture of that name follows the event.
LEMMA ReceiveStep ==
  ASSUME TableTypes, Watched, NEW w \in Watchers, Receive(w)
  PROVE  Watched'
  <1> DEFINE c == chan[w]
             e == Head(c)
             m == nameOf[e.info]
  <1>1. /\ watch[w] = "listed" /\ c # << >> /\ view' = [view EXCEPT ![w][m] = Told(e)]
        /\ chan' = [chan EXCEPT ![w] = Tail(c)]
        /\ UNCHANGED <<services, nameOf, status, event, watch, lost>>
    BY Zenon DEF Receive, table
  <1>2. /\ c \in Seq(Events) /\ Len(c) <= ChanCap /\ view[w] \in [Names -> Statuses \cup {None}]
        /\ \A k \in 1 .. Len(c) : nameOf[c[k].info] # None
        /\ chan \in [Watchers -> Seq(Events)] /\ view \in [Watchers -> [Names -> Statuses \cup {None}]]
    BY Zenon DEF Watched, WatchTypes, EventInv
  <1>3. /\ Tail(c) \in Seq(Events) /\ Len(Tail(c)) = Len(c) - 1 /\ Len(c) \in Nat \ {0}
        /\ \A k \in 1 .. Len(c) - 1 : Tail(c)[k] = c[k + 1]
        /\ e = c[1] /\ e \in Events
    BY <1>1, <1>2
  <1>4. m \in Names /\ e.info \in Infos
    <2>1. nameOf[c[1].info] # None
      BY <1>2, <1>3
    <2> QED  BY <1>3, <2>1, InfoOf, Zenon DEF TableTypes
  <1>5. Told(e) \in Statuses \cup {None}
    BY <1>4, Zenon DEF Told, TableTypes
  <1> HIDE DEF c, e
  <1>6. /\ view' \in [Watchers -> [Names -> Statuses \cup {None}]] /\ chan' \in [Watchers -> Seq(Events)]
        /\ chan'[w] = Tail(c) /\ (\A v \in Watchers \ {w} : chan'[v] = chan[v] /\ view'[v] = view[v])
        /\ view'[w] = [view[w] EXCEPT ![m] = Told(e)]
    BY <1>1, <1>2, <1>3, <1>4, <1>5, Zenon
  <1>7. WatchTypes'
    <2>1. \A v \in Watchers : Len(chan'[v]) <= ChanCap
      BY <1>2, <1>3, <1>6, RegistryAssumption DEF Watched, WatchTypes
    <2> QED  BY <1>1, <1>6, <2>1, Zenon DEF Watched, WatchTypes
  <1>8. EventInv'
    <2>1. ASSUME NEW k \in 1 .. Len(Tail(c))  PROVE nameOf[Tail(c)[k].info] # None
      <3>1. k + 1 \in 1 .. Len(c) /\ Tail(c)[k] = c[k + 1]
        BY <1>3
      <3> QED  BY <1>2, <3>1, Zenon
    <2>2. ASSUME NEW v \in Watchers, NEW k \in 1 .. Len(chan'[v])  PROVE nameOf[chan'[v][k].info] # None
      <3>1. CASE v = w
        BY <1>6, <2>1, <3>1, Zenon
      <3>2. CASE v # w
        <4>1. chan'[v] = chan[v]
          BY <1>6, <3>2, Zenon
        <4>2. k \in 1 .. Len(chan[v])
          BY <2>2, <4>1, Zenon
        <4> QED  BY <4>1, <4>2, Zenon DEF Watched, EventInv
      <3> QED  BY <3>1, <3>2, Zenon
    <2>3. \A v \in Watchers : watch[v] = "new" => chan'[v] = << >>
      BY <1>1, <1>6, Zenon DEF Watched, EventInv
    <2> QED  BY <1>1, <2>2, <2>3, Zenon DEF Watched, EventInv
  <1>9. ASSUME NEW v \in Watchers, watch[v] \in {"watching", "listed"}, ~lost[v],
               NEW n \in Names, event = None \/ nameOf[event.info] # n
        PROVE  /\ LastTrue(chan'[v], n, nameOf, services)
               /\ watch[v] = "listed" => Follows(view'[v], chan'[v], n, nameOf, services, status)
    <2>1. /\ LastTrue(chan[v], n, nameOf, services)
          /\ watch[v] = "listed" => Follows(view[v], chan[v], n, nameOf, services, status)
      BY <1>9, Zenon DEF Watched, WatchInv
    <2>2. CASE v # w
      BY <1>6, <2>1, <2>2, Zenon
    <2>3. CASE v = w
      <3>1. /\ LastTrue(Tail(c), n, nameOf, services)
            /\ Silent(Tail(c), n, nameOf) => \/ m # n /\ Silent(c, n, nameOf)
                                             \/ m = n /\ Tells(e, nameOf, services)
        BY <1>1, <1>2, <2>1, <2>3, Taken, Zenon DEF c, e
      <3>2. ASSUME Silent(Tail(c), n, nameOf)  PROVE view'[w][n] = Says(services, status, n)
        <4>1. CASE m # n /\ Silent(c, n, nameOf)
          BY <1>1, <1>2, <1>6, <2>1, <2>3, <4>1, Zenon DEF Follows, c
        <4>2. CASE m = n /\ Tells(e, nameOf, services)
          <5>1. view'[w][n] = Told(e)
            BY <1>2, <1>6, <4>2, Zenon
          <5>2. Told(e) = Says(services, status, n)
            BY <1>3, <1>4, <4>2, InfoOf, RegistryAssumption, Zenon DEF Told, Says, Tells
          <5> QED  BY <5>1, <5>2, Zenon
        <4> QED  BY <3>1, <3>2, <4>1, <4>2, Zenon
      <3> QED  BY <1>6, <2>3, <3>1, <3>2, Zenon DEF Follows
    <2> QED  BY <2>2, <2>3, Zenon
  <1>10. WatchInv'
    BY <1>1, <1>9, Zenon DEF WatchInv
  <1> QED  BY <1>7, <1>8, <1>10, Zenon DEF Watched

\* A watch begins, with an empty channel, lists the services, or ends.
LEMMA WatcherSteps ==
  ASSUME TableTypes, Watched, NEW w \in Watchers, Watch(w) \/ List(w) \/ EndWatch(w)
  PROVE  Watched'
  <1> DEFINE Known(v, n) ==
               /\ LastTrue(chan'[v], n, nameOf, services)
               /\ watch'[v] = "listed" => Follows(view'[v], chan'[v], n, nameOf, services, status)
             Due(v, n) == /\ watch'[v] \in {"watching", "listed"} /\ ~lost'[v]
                          /\ event = None \/ nameOf[event.info] # n
             Right == \A n \in Names : Due(w, n) => Known(w, n)
             Emptied == chan'[w] = chan[w] \/ chan'[w] = << >>
  <1>1. /\ UNCHANGED <<services, nameOf, status, event>>
        /\ watch' \in [Watchers -> {"new", "watching", "listed", "closed"}] /\ watch'[w] # "new"
        /\ chan \in [Watchers -> Seq(Events)] /\ lost \in [Watchers -> BOOLEAN]
        /\ view \in [Watchers -> [Names -> Statuses \cup {None}]]
        /\ \A v \in Watchers : Len(chan[v]) <= ChanCap
    BY Zenon DEF Watch, List, EndWatch, table, Watched, WatchTypes
  <1>2. \A v \in Watchers \ {w} : /\ watch'[v] = watch[v] /\ chan'[v] = chan[v]
                                   /\ lost'[v] = lost[v] /\ view'[v] = view[v]
    BY Zenon DEF Watch, List, EndWatch, Watched, WatchTypes
  <1>3. ASSUME NEW v \in Watchers \ {w}, NEW n \in Names, Due(v, n)  PROVE Known(v, n)
    BY <1>2, <1>3, Zenon DEF Watched, WatchInv
  <1>4. \A n : LastTrue(<< >>, n, nameOf, services)
    BY DEF LastTrue
  <1>5. WatchTypes' /\ Emptied /\ Right => Watched'
    <2> SUFFICES ASSUME WatchTypes', Emptied, Right PROVE Watched'
      BY Zenon
    <2>1. ASSUME NEW v \in Watchers, NEW k \in 1 .. Len(chan'[v])  PROVE nameOf[chan'[v][k].info] # None
      <3>1. chan'[v] = chan[v] \/ chan'[v] = << >>
        BY <1>2, Zenon
      <3>2. Len(<< >>) = 0
        BY Zenon
      <3>3. chan'[v] = chan[v]
        BY <2>1, <3>1, <3>2
      <3> QED  BY <2>1, <3>3, Zenon DEF Watched, EventInv
    <2>2. \A v \in Watchers : watch'[v] = "new" => chan'[v] = << >>
      BY <1>1, <1>2, Zenon DEF Watched, EventInv
    <2>3. EventInv'
      BY <1>1, <2>1, <2>2, Zenon DEF Watched, EventInv
    <2>4. ASSUME NEW v \in Watchers, NEW n \in Names, Due(v, n)  PROVE Known(v, n)
      BY <1>3, <2>4, Zenon
    <2>5. WatchInv'
      BY <1>1, <2>4, Zenon DEF WatchInv
    <2> QED  BY <2>3, <2>5, Zenon DEF Watched
  <1>6. CASE Watch(w)
    <2>1. watch[w] = "new" /\ watch'[w] = "watching" /\ UNCHANGED <<chan, lost, view>>
      BY <1>6, Zenon DEF Watch, Watched, WatchTypes
    <2>2. WatchTypes' /\ chan'[w] = << >>
      BY <1>1, <2>1, Zenon DEF Watched, WatchTypes, EventInv
    <2>3. Emptied /\ Right
      BY <1>4, <2>1, <2>2, Zenon
    <2> HIDE DEF Emptied, Right
    <2> QED  BY <1>5, <2>2, <2>3, Zenon
  <1>7. CASE List(w)
    <2>1. /\ watch[w] = "watching" /\ event = None /\ watch'[w] = "listed" /\ UNCHANGED <<chan, lost>>
          /\ view' = [view EXCEPT ![w] = Listing]
      BY <1>7, Zenon DEF List, Watched, WatchTypes
    <2>2. Listing \in [Names -> Statuses \cup {None}] /\ \A n \in Names : Listing[n] = Says(services, status, n)
      BY Zenon DEF Listing, Says, TableTypes
    <2>3. WatchTypes' /\ view'[w] = Listing
      BY <1>1, <2>1, <2>2, Zenon DEF Watched, WatchTypes
    <2>4. ASSUME NEW n \in Names, ~lost'[w]  PROVE Known(w, n)
      <3>1. LastTrue(chan[w], n, nameOf, services)
        BY <2>1, <2>4, Zenon DEF Watched, WatchInv
      <3> QED  BY <2>1, <2>2, <2>3, <3>1, Zenon DEF Follows
    <2>5. Emptied /\ Right
      BY <2>1, <2>4, Zenon
    <2> HIDE DEF Emptied, Right
    <2> QED  BY <1>5, <2>3, <2>5, Zenon
  <1>8. CASE EndWatch(w)
    <2>1. /\ watch' = [watch EXCEPT ![w] = "closed"] /\ chan' = [chan EXCEPT ![w] = << >>]
          /\ lost' = [lost EXCEPT ![w] = FALSE] /\ view' = [view EXCEPT ![w] = [n \in Names |-> None]]
      BY <1>8, Zenon DEF EndWatch
    <2>2. << >> \in Seq(Events) /\ Len(<< >>) = 0 /\ [n \in Names |-> None] \in [Names -> Statuses \cup {None}]
      OBVIOUS
    <2>3. /\ watch'[w] = "closed" /\ chan'[w] = << >> /\ chan' \in [Watchers -> Seq(Events)]
          /\ lost' \in [Watchers -> BOOLEAN] /\ view' \in [Watchers -> [Names -> Statuses \cup {None}]]
      BY <1>1, <2>1, <2>2, Zenon DEF Watched, WatchTypes
    <2>4. ASSUME NEW v \in Watchers  PROVE Len(chan'[v]) <= ChanCap
      <3>1. CASE v = w
        BY <2>2, <2>3, <3>1, RegistryAssumption
      <3>2. CASE v # w
        BY <1>1, <1>2, <3>2, Zenon
      <3> QED  BY <3>1, <3>2, Zenon
    <2>5. WatchTypes'
      BY <1>1, <2>3, <2>4, Zenon DEF Watched, WatchTypes
    <2>6. Emptied /\ Right
      BY <2>3, Zenon
    <2> HIDE DEF Emptied, Right
    <2> QED  BY <1>5, <2>5, <2>6, Zenon
  <1> QED  BY <1>6, <1>7, <1>8, Zenon

LEMMA RegistryStepWatched ==
  ASSUME TableTypes, Named, Watched, RegistryStep
  PROVE  Watched'
  <1>1. CASE performHealthChecks \/ \E i \in Infos : CheckRead(i) \/ CheckSkip(i)
    <2>1. UNCHANGED <<services, nameOf, status, event, watching>>
      BY <1>1, Zenon DEF performHealthChecks, CheckRead, CheckSkip, table
    <2> QED  BY <2>1, Unannounced, Zenon
  <1>2. CASE notifyWatchers
    BY <1>2, NotifyStep, Zenon
  <1>3. ASSUME NEW w \in Watchers, Watch(w) \/ List(w) \/ Receive(w) \/ EndWatch(w)  PROVE Watched'
    BY <1>3, WatcherSteps, ReceiveStep, Zenon
  <1> QED  BY <1>1, <1>2, <1>3, TableSteps, Zenon DEF RegistryStep

LEMMA InitWatched == Init => Watched
  <1> SUFFICES ASSUME Init PROVE Watched
    BY Zenon
  <1>1. << >> \in Seq(Events) /\ Len(<< >>) = 0
    OBVIOUS
  <1>2. WatchTypes
    BY <1>1, RegistryAssumption DEF Init, NewServiceRegistry, WatchTypes
  <1>3. EventInv /\ WatchInv
    BY <1>1 DEF Init, NewServiceRegistry, EventInv, WatchInv
  <1> QED  BY <1>2, <1>3, Zenon DEF Watched

LEMMA NextWatched == IInv /\ Watched /\ [Next]_vars => Watched'
  <1> SUFFICES ASSUME IInv, Watched, [Next]_vars PROVE Watched'
    BY Zenon
  <1>1. TableTypes /\ Named
    BY Zenon DEF IInv, Types, TableTypes
  <1>2. CASE RegistryStep
    BY <1>1, <1>2, RegistryStepWatched, Zenon
  <1>3. CASE UNCHANGED registryVars
    <2>1. UNCHANGED <<services, nameOf, status, event, watching>>
      BY <1>3, Zenon DEF registryVars, table
    <2> QED  BY <2>1, Unannounced, Zenon
  <1>4. RegistryStep \/ UNCHANGED registryVars
    BY Zenon DEF Next, Step, CallStep, Discover, Lookup, Fetch, filterHealthyServices, Select, SetLoadBalanceStrategy, vars
  <1> QED  BY <1>2, <1>3, <1>4, Zenon

\* A watcher of service_registry.go that lists the services once and drops no event has,
\* with the events in its channel, an exact picture of names and statuses whenever r.mu is
\* free: for any number of watchers, names and registrations, and channels of any capacity.
THEOREM PicturesAreExact == Spec => []WatchersUpToDate
  <1>1. IInv /\ Watched => WatchersUpToDate
    <2> SUFFICES ASSUME IInv, Watched, NEW w \in Watchers, watch[w] = "listed", ~lost[w], event = None, NEW n \in Names
                 PROVE  /\ \A k \in 1 .. Len(chan[w]) : Latest(w, n, k) => Told(chan[w][k]) = Listing[n]
                        /\ (\A k \in 1 .. Len(chan[w]) : nameOf[chan[w][k].info] # n) => view[w][n] = Listing[n]
      BY Zenon DEF WatchersUpToDate
    <2>1. chan[w] \in Seq(Events) /\ Listing[n] = Says(services, status, n)
      BY Zenon DEF Watched, WatchTypes, Listing, Says
    <2>2. LastTrue(chan[w], n, nameOf, services) /\ Follows(view[w], chan[w], n, nameOf, services, status)
      BY Zenon DEF Watched, WatchInv
    <2>3. (\A k \in 1 .. Len(chan[w]) : nameOf[chan[w][k].info] # n) => view[w][n] = Listing[n]
      BY <2>1, <2>2, Zenon DEF Follows, Silent
    <2>4. ASSUME NEW k \in 1 .. Len(chan[w]), Latest(w, n, k)  PROVE Told(chan[w][k]) = Listing[n]
      <3>1. Tells(chan[w][k], nameOf, services) /\ nameOf[chan[w][k].info] = n
        BY <2>2, <2>4, Zenon DEF LastTrue, Latest
      <3>2. chan[w][k] \in Events /\ chan[w][k].info \in Infos
        BY <2>1, EventsOf, Zenon
      <3> QED  BY <2>1, <3>1, <3>2, InfoOf, RegistryAssumption, Zenon DEF Told, Says, Tells
    <2> QED  BY <2>3, <2>4, Zenon
  <1> QED  BY <1>1, InitIInv, NextIInv, InitWatched, NextWatched, PTL DEF Spec

\* The registry and the callers of DiscoverService keep their types; no watcher's channel
\* holds more than its capacity, and a name leads to an object of that name.
THEOREM DiscoveryTypeCorrect == Spec => []TypeOK
  <1>1. IInv /\ Watched => TypeOK
    BY Zenon DEF IInv, Types, Named, Watched, WatchTypes, TypeOK
  <1> QED  BY <1>1, InitIInv, NextIInv, InitWatched, NextWatched, PTL DEF Spec
=============================================================================
