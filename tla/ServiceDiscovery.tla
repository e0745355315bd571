-------------------------- MODULE ServiceDiscovery --------------------------
(***************************************************************************)
(* serviceDiscovery of core/service_discovery.go over the registry and the *)
(* load balancer.  DiscoverService looks the name up under the registry's  *)
(* lock, fetches the balancer, reads the statuses of what it found one by  *)
(* one with no lock, and selects under the balancer's lock.  The empty     *)
(* name finds every service.  SetLoadBalanceStrategy replaces the          *)
(* balancer; a caller that has fetched the old one goes on with it.        *)
(* UpdateServiceMetrics changes only which healthy service a strategy      *)
(* prefers, which LoadBalancer leaves open.                                *)
(***************************************************************************)
EXTENDS ServiceRegistry

CONSTANTS
  Clients,     \* callers of DiscoverService
  MaxBalancers \* bound: balancers made in all

ASSUME BalancersAssumption == MaxBalancers \in Nat \ {0}

LB == INSTANCE LoadBalancer

Balancers == 1 .. MaxBalancers

VARIABLES
  lbs,     \* every balancer made so far
  current, \* sd.loadBalancer
  pc,      \* where each client stands
  asked,   \* the name it asked for, None for the empty name
  found,   \* services its lookup returned and whose status it has not read yet
  healthy, \* those of them that were healthy
  using,   \* the balancer it fetched
  answer,  \* what DiscoverService returned, None for an error
  right    \* history: the right answers at the moments of the call

balancing == <<lbs, current>>
calls     == <<pc, asked, found, healthy, using, answer>>
vars      == <<registryVars, balancing, calls, right>>

\* matchesQuery for a query by name.
Matching(q) == {i \in Registered : q \in {None, nameOf[i]}}

\* What DiscoverService may answer now: a matching service that is healthy.
Answers(q) ==
  LET ok == {i \in Matching(q) : status[i] = Healthy}
  IN  IF ok = {} THEN {None} ELSE ok

Init ==
  /\ NewServiceRegistry
  /\ lbs = [b \in Balancers |-> LB!NewLoadBalancer("other")]
  /\ current = 1
  /\ pc = [c \in Clients |-> "idle"]
  /\ asked = [c \in Clients |-> None]
  /\ found = [c \in Clients |-> {}]
  /\ healthy = [c \in Clients |-> {}]
  /\ using = [c \in Clients |-> 1]
  /\ answer = [c \in Clients |-> None]
  /\ right = [c \in Clients |-> {}]

Returns(c, a) ==
  /\ pc' = [pc EXCEPT ![c] = "idle"]
  /\ answer' = [answer EXCEPT ![c] = a]

----------------------------------------------------------------------------
(* DiscoverService                                                         *)

\* The call itself.
Discover(c, q) ==
  /\ pc[c] = "idle"
  /\ pc' = [pc EXCEPT ![c] = "lookup"]
  /\ asked' = [asked EXCEPT ![c] = q]
  /\ answer' = [answer EXCEPT ![c] = None]
  /\ UNCHANGED <<registryVars, balancing, found, healthy, using>>

\* registry.Discover, and the error when it finds nothing.
Lookup(c) ==
  /\ pc[c] = "lookup"
  /\ event = None
  /\ found' = [found EXCEPT ![c] = Matching(asked[c])]
  /\ \/ Matching(asked[c]) = {} /\ Returns(c, None)
     \/ Matching(asked[c]) # {} /\ pc' = [pc EXCEPT ![c] = "fetch"] /\ UNCHANGED answer
  /\ UNCHANGED <<registryVars, balancing, asked, healthy, using>>

\* The balancer is fetched.
Fetch(c) ==
  /\ pc[c] = "fetch"
  /\ pc' = [pc EXCEPT ![c] = "filter"]
  /\ using' = [using EXCEPT ![c] = current]
  /\ UNCHANGED <<registryVars, balancing, asked, found, healthy, answer>>

\* Mutant of Kept: unhealthy services pass.
KeptAll(c, i) == healthy[c] \cup {i}

\* The body of filterHealthyServices for one service.
Kept(c, i) == IF status[i] = Healthy THEN healthy[c] \cup {i} ELSE healthy[c]

filterHealthyServices(c, i) ==
  /\ pc[c] = "filter" /\ i \in found[c]
  /\ found' = [found EXCEPT ![c] = @ \ {i}]
  /\ healthy' = [healthy EXCEPT ![c] = Kept(c, i)]
  /\ UNCHANGED <<registryVars, balancing, pc, asked, using, answer>>

\* The rest of the balancer's Select, when every status has been read.
Select(c) ==
  /\ pc[c] = "filter" /\ found[c] = {}
  /\ \/ healthy[c] = {} /\ Returns(c, None) /\ UNCHANGED lbs
     \/ \E choice \in LB!Select(lbs[using[c]], healthy[c]) :
          healthy[c] # {} /\ Returns(c, choice[1]) /\ lbs' = [lbs EXCEPT ![using[c]] = choice[2]]
  /\ healthy' = [healthy EXCEPT ![c] = {}]
  /\ UNCHANGED <<registryVars, current, asked, found, using>>

----------------------------------------------------------------------------
SetLoadBalanceStrategy(s) ==
  /\ current < MaxBalancers
  /\ current' = current + 1
  /\ lbs' = [lbs EXCEPT ![current + 1] = LB!NewLoadBalancer(s)]
  /\ UNCHANGED <<registryVars, calls>>

CallStep ==
  \/ \E c \in Clients, q \in Names \cup {None} : Discover(c, q)
  \/ \E c \in Clients : Lookup(c) \/ Fetch(c) \/ Select(c)
  \/ \E c \in Clients, i \in Infos : filterHealthyServices(c, i)
  \/ \E s \in LB!Strategies : SetLoadBalanceStrategy(s)

Step == CallStep \/ (RegistryStep /\ UNCHANGED <<balancing, calls>>)

\* History: the right answers of a call are collected from its first state to its last.
Observe ==
  right' = [c \in Clients |->
             IF pc[c] = "idle" /\ pc'[c] = "idle" THEN right[c]
             ELSE (IF pc[c] = "idle" THEN {} ELSE right[c]) \cup Answers(asked[c])']

Next == Step /\ Observe

Spec == Init /\ [][Next]_vars

----------------------------------------------------------------------------
(* Properties                                                              *)

PCs == {"idle", "lookup", "fetch", "filter"}

\* The registry and the callers keep their types: a name in the table leads to an object
\* of that name, and no channel is overfull.
TypeOK ==
  /\ services \in [Names -> Infos \cup {None}]
  /\ nameOf \in [Infos -> Names \cup {None}]
  /\ status \in [Infos -> Statuses]
  /\ \A n \in Names : services[n] # None => nameOf[services[n]] = n
  /\ event \in Events \cup {None}
  /\ watch \in [Watchers -> {"new", "watching", "listed", "closed"}]
  /\ chan \in [Watchers -> Seq(Events)] /\ \A w \in Watchers : Len(chan[w]) <= ChanCap
  /\ lost \in [Watchers -> BOOLEAN]
  /\ view \in [Watchers -> [Names -> Statuses \cup {None}]]
  /\ todo \subseteq Infos /\ checked \in Infos \cup {None} /\ readStatus \in Statuses
  /\ lbs \in [Balancers -> LB!BalancersOf(Infos)] /\ current \in Balancers
  /\ pc \in [Clients -> PCs] /\ asked \in [Clients -> Names \cup {None}]
  /\ found \in [Clients -> SUBSET Infos] /\ healthy \in [Clients -> SUBSET Infos]
  /\ using \in [Clients -> Balancers] /\ answer \in [Clients -> Infos \cup {None}]
  /\ right \in [Clients -> SUBSET (Infos \cup {None})]

Weighted(c) == lbs[using[c]].strategy = "weighted_round_robin"

\* DiscoverService is linearizable: what it returns, an error included, was a right answer
\* at some moment of the call, although it looks up, reads the statuses and selects under
\* different locks while services come, go and change their status.  Two things are
\* excepted: the weighted strategy, which may answer from a stale list, and an error for
\* the empty name, since several statuses are read at different moments and there may
\* have been a healthy service at each of them.
DiscoverIsLinearizable ==
  \A c \in Clients : pc[c] = "idle" /\ right[c] # {} /\ ~Weighted(c) =>
    answer[c] \in right[c] \/ (asked[c] = None /\ answer[c] = None)

\* The event at place k of the channel of w is the last there about n, which decides what
\* the watcher takes n to be once it has received them all.
Latest(w, n, k) ==
  /\ nameOf[chan[w][k].info] = n
  /\ \A j \in k + 1 .. Len(chan[w]) : nameOf[chan[w][j].info] # n

\* A watcher that listed the services once and lost no event has, with the events still
\* in its channel, an exact picture of names and statuses whenever r.mu is free: the last
\* event about a name tells what the table says, and a name without events is pictured as
\* it is.  Watch, List and the events are not synchronised with each other.
WatchersUpToDate ==
  \A w \in Watchers : watch[w] = "listed" /\ ~lost[w] /\ event = None =>
    \A n \in Names :
      /\ \A k \in 1 .. Len(chan[w]) : Latest(w, n, k) => Told(chan[w][k]) = Listing[n]
      /\ (\A k \in 1 .. Len(chan[w]) : nameOf[chan[w][k].info] # n) => view[w][n] = Listing[n]
=============================================================================
