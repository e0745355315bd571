----------------------------- MODULE MCServices -----------------------------
(***************************************************************************)
(* Six parts that share no state, each checked against every behaviour of  *)
(* what surrounds it: a behaviour exercises one of them, the subject,      *)
(* while the others stay as they were made.                                *)
(***************************************************************************)
EXTENDS RemoteService, ClusterRegistry, LoginServer, MsgServer, Container, ConfigWatcher

VARIABLE subject

vars == <<subject, remoteVars, registryVars, loginVars, msgVars, containerVars, configVars>>

MCContents == {Absent, Garbled,
               [port |-> 0, level |-> "", debug |-> FALSE],
               [port |-> 80, level |-> "warn", debug |-> TRUE],
               [port |-> 70000, level |-> "", debug |-> FALSE]}
MCFallback == [port |-> 0, level |-> "error", debug |-> TRUE]
MCEnvs == {[port |-> 0, level |-> "", debug |-> "", monitor |-> 0],
           [port |-> 81, level |-> "fatal", debug |-> "true", monitor |-> 82],
           [port |-> 70000, level |-> "loud", debug |-> "no", monitor |-> 0]}

Init == /\ subject \in {"remote", "registry", "login", "msg", "container", "config"}
        /\ NewRemoteService /\ NewServiceRegistry /\ NewLoginServer /\ NewMsgServer
        /\ NewContainer /\ ConfigInit
        /\ subject # "container" => ~isScoped
        /\ subject # "config" => file = Absent /\ env.port = 0

Only(s, others) == subject = s /\ UNCHANGED <<subject, others>>

Next ==
  \/ RemoteNext /\ Only("remote", <<registryVars, loginVars, msgVars, containerVars, configVars>>)
  \/ RegistryNext /\ Only("registry", <<remoteVars, loginVars, msgVars, containerVars, configVars>>)
  \/ LoginNext /\ Only("login", <<remoteVars, registryVars, msgVars, containerVars, configVars>>)
  \/ MsgNext /\ Only("msg", <<remoteVars, registryVars, loginVars, containerVars, configVars>>)
  \/ ContainerNext /\ Only("container", <<remoteVars, registryVars, loginVars, msgVars, configVars>>)
  \/ ConfigNext /\ Only("config", <<remoteVars, registryVars, loginVars, msgVars, containerVars>>)

Spec == /\ Init /\ [][Next]_vars
        /\ RemoteFairness /\ RegistryFairness /\ LoginFairness /\ ContainerFairness /\ ConfigFairness
=============================================================================
