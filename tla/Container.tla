------------------------------ MODULE Container ------------------------------
(***************************************************************************)
(* DefaultContainer and ScopedContainer of bootstrap/container.go.  One    *)
(* mutex guards the maps, and a Resolve holds it while the factory runs.   *)
(* The mutex is not reentrant: a goroutine that locks it again, because    *)
(* its factory uses the container or because a scoped Resolve calls        *)
(* another Resolve, waits for itself, and everybody else for it.  An       *)
(* instance is a number, new among the ones given out for its name.        *)
(***************************************************************************)
EXTENDS Integers, FiniteSets

CONSTANTS
  Users,    \* goroutines that use the container
  Names     \* service names

ASSUME ContainerAssumption == "none" \notin Users

VARIABLES
  isScoped,   \* the container is a ScopedContainer
  factories,  \* the services map: name -> what its factory is like
  instances,  \* name -> instance, 0: none
  scopes,     \* name -> its scope
  holder,     \* who holds the mutex
  use,        \* goroutine -> its step and the name it resolves or registers
  given       \* name -> instances that Resolve returned since it was last removed

containerVars == <<isScoped, factories, instances, scopes, holder, use, given>>

Factories == {"plain", "nested"}   \* a nested factory uses the container it is given
Scopes == {"singleton", "transient", "scoped", "unknown"}   \* unknown: any other number
Instances == 1 .. 3

NewContainer ==
  /\ isScoped \in BOOLEAN
  /\ factories = [n \in Names |-> "none"] /\ scopes = [n \in Names |-> "none"]
  /\ instances = [n \in Names |-> 0] /\ given = [n \in Names |-> {}]
  /\ holder = "none"
  /\ use = [g \in Users |-> [pc |-> "idle", name |-> "none", scope |-> "none"]]

Fresh(n) == CHOOSE i \in Instances : i \notin given[n] \cup {instances[n]}

Return(g) == use' = [use EXCEPT ![g] = [pc |-> "idle", name |-> "none", scope |-> "none"]]

GoesOn(g, pc) == use' = [use EXCEPT ![g].pc = pc]

----------------------------------------------------------------------------

\* A name is registered once.
Register(n, f) ==
  /\ holder = "none" /\ factories[n] = "none"
  /\ factories' = [factories EXCEPT ![n] = f]
  /\ UNCHANGED <<isScoped, instances, scopes, holder, given>>

\* RegisterScoped registers, and takes the mutex again to set the scope.
RegisterScoped(g, n, f, s) ==
  /\ isScoped /\ use[g].pc = "idle"
  /\ Register(n, f)
  /\ use' = [use EXCEPT ![g] = [pc |-> "scope", name |-> n, scope |-> s]]

SetScope(g) ==
  /\ use[g].pc = "scope" /\ holder = "none"
  /\ scopes' = [scopes EXCEPT ![use[g].name] = use[g].scope]
  /\ Return(g)
  /\ UNCHANGED <<isScoped, factories, instances, holder, given>>

RegisterInstance(n) ==
  /\ holder = "none" /\ instances[n] = 0
  /\ instances' = [instances EXCEPT ![n] = Fresh(n)]
  /\ UNCHANGED <<isScoped, factories, scopes, holder, use, given>>

RemoveInstance(n) ==
  /\ holder = "none"
  /\ instances' = [instances EXCEPT ![n] = 0] /\ given' = [given EXCEPT ![n] = {}]
  /\ UNCHANGED <<isScoped, factories, scopes, holder, use>>

\* Clear keeps the scopes.
Clear ==
  /\ holder = "none"
  /\ factories' = [n \in Names |-> "none"] /\ instances' = [n \in Names |-> 0]
  /\ given' = [n \in Names |-> {}]
  /\ UNCHANGED <<isScoped, scopes, holder, use>>

Resolve(g, n) ==
  /\ use[g].pc = "idle"
  /\ use' = [use EXCEPT ![g] = [pc |-> "lock", name |-> n, scope |-> "none"]]
  /\ UNCHANGED <<isScoped, factories, instances, scopes, holder, given>>

Give(n, i) == given' = IF isScoped /\ scopes[n] = "transient" THEN given ELSE [given EXCEPT ![n] = @ \cup {i}]

\* A scoped Resolve of a name with no scope calls the embedded container's Resolve, and of
\* a name with scope "scoped" calls itself; both lock the mutex again.
ResolvesTwice(n) == isScoped /\ scopes[n] \in {"none", "scoped"}

\* There is no factory, or the scope is no scope: an error.
ResolveUnknown(g) == Return(g) /\ UNCHANGED <<holder, given>>

\* The factory runs with the mutex held.
RunFactory(g) == GoesOn(g, "factory") /\ holder' = g /\ UNCHANGED given

\* Resolve has the mutex: the instance, or else the factory.  A transient service is made
\* whether there is an instance or not.
ResolveLocked(g) ==
  LET n == use[g].name
      transient == isScoped /\ scopes[n] = "transient"
      unknown == isScoped /\ scopes[n] = "unknown"
  IN  /\ use[g].pc = "lock" /\ holder = "none"
      /\ \/ ResolvesTwice(n) /\ GoesOn(g, "relock") /\ holder' = g /\ UNCHANGED given
         \/ unknown /\ ResolveUnknown(g)
         \/ ~ResolvesTwice(n) /\ ~unknown /\ ~transient /\ instances[n] # 0
              /\ Return(g) /\ Give(n, instances[n]) /\ UNCHANGED holder
         \/ ~ResolvesTwice(n) /\ ~unknown /\ (transient \/ instances[n] = 0)
              /\ IF factories[n] = "none" THEN ResolveUnknown(g) ELSE RunFactory(g)
      /\ UNCHANGED <<isScoped, factories, instances, scopes>>

\* The factory calls the container, whose every method locks the mutex: Resolve, and also
\* ResolveAs, Has, Names, GetInstance or a registration.
FactoryLocks(g) ==
  /\ use[g].pc = "factory" /\ factories[use[g].name] = "nested"
  /\ GoesOn(g, "relock")
  /\ UNCHANGED <<isScoped, factories, instances, scopes, holder, given>>

FactoryFails(g) ==
  /\ use[g].pc = "factory" /\ factories[use[g].name] # "nested"
  /\ Return(g) /\ holder' = "none"
  /\ UNCHANGED <<isScoped, factories, instances, scopes, given>>

\* Mutant of FactoryReturns: the instance is not cached.
FactoryReturnsUncached(g) ==
  /\ use[g].pc = "factory" /\ factories[use[g].name] # "nested"
  /\ Give(use[g].name, Fresh(use[g].name))
  /\ Return(g) /\ holder' = "none"
  /\ UNCHANGED <<isScoped, factories, instances, scopes>>

FactoryReturns(g) ==
  LET n == use[g].name
  IN  /\ use[g].pc = "factory" /\ factories[n] # "nested"
      /\ instances' = IF isScoped /\ scopes[n] = "transient" THEN instances
                      ELSE [instances EXCEPT ![n] = Fresh(n)]
      /\ Give(n, Fresh(n))
      /\ Return(g) /\ holder' = "none"
      /\ UNCHANGED <<isScoped, factories, scopes>>

ContainerStep(g) == SetScope(g) \/ ResolveLocked(g) \/ FactoryLocks(g) \/ FactoryFails(g) \/ FactoryReturns(g)

ContainerNext ==
  \/ Clear
  \/ \E n \in Names : \/ RegisterInstance(n) \/ RemoveInstance(n)
                      \/ \E f \in Factories : \/ Register(n, f) /\ UNCHANGED use
                                              \/ \E g \in Users, s \in Scopes : RegisterScoped(g, n, f, s)
  \/ \E g \in Users : ContainerStep(g) \/ \E n \in Names : Resolve(g, n)

\* Factories return.
ContainerFairness == \A g \in Users : WF_containerVars(holder = g /\ ContainerStep(g))

ContainerSpec == NewContainer /\ [][ContainerNext]_containerVars /\ ContainerFairness

----------------------------------------------------------------------------

UseRecords ==
  [pc : {"idle", "scope", "lock", "factory", "relock"}, name : Names \cup {"none"}, scope : Scopes \cup {"none"}]

ContainerTypeOK ==
  /\ isScoped \in BOOLEAN /\ holder \in Users \cup {"none"}
  /\ factories \in [Names -> Factories \cup {"none"}] /\ scopes \in [Names -> Scopes \cup {"none"}]
  /\ instances \in [Names -> Instances \cup {0}] /\ given \in [Names -> SUBSET Instances]
  /\ use \in [Users -> UseRecords]
  /\ \A g \in Users : use[g].pc = "factory" => factories[use[g].name] \in Factories

\* Every Resolve of a service that is not transient returns the same instance, whoever
\* calls it and however the calls interleave, until the instance is removed.
OneInstance == \A n \in Names : \A i, j \in given[n] : i = j

\* What docs/stage-07-summary.md shows of factories, one that resolves what it depends on
\* from the container included: a Resolve whose factory runs returns.
ResolveReturns == \A g \in Users : use[g].pc = "factory" ~> use[g].pc = "idle"

=============================================================================
