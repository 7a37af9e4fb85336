-------------------------------- MODULE Services --------------------------------
(***************************************************************************)
(* The services and stores of the program that keep state for whoever      *)
(* calls them.  They share no state and do not call one another, so a      *)
(* behaviour is one of one service, chosen at the beginning: the states of *)
(* the services add up and do not multiply.                                *)
(***************************************************************************)
EXTENDS ConfigService, ConfigManager, ProviderRegistry, ProviderFanOut, WebhookMonitor,
        PolicyManager, SshSnapshot

VARIABLE service  \* the service at work; never changes

serviceVars == <<configVars, managerVars, registryVars, fanVars, monitorVars, policyVars, sshVars, service>>

\* Where there is a choice, what is not at work does not take part in it.
Init ==
    /\ service \in {"config service", "config manager", "registry", "fan-out", "monitor", "policies",
                   "ssh"}
    /\ ConfigInit
    /\ ManagerInit
    /\ RegistryInit
    /\ FanInit
    /\ MonitorInit
    /\ PolicyInit
    /\ SshInit
    /\ service = "config service" \/ \A p \in Paths : file[p] = "good"
    /\ service = "ssh" \/ snapshot = NoSnapshot

Next ==
    \/ /\ service = "config service"
       /\ ConfigNext
       /\ UNCHANGED <<managerVars, registryVars, fanVars, monitorVars, policyVars, sshVars, service>>
    \/ /\ service = "config manager"
       /\ ManagerNext
       /\ UNCHANGED <<configVars, registryVars, fanVars, monitorVars, policyVars, sshVars, service>>
    \/ /\ service = "registry"
       /\ RegistryNext
       /\ UNCHANGED <<configVars, managerVars, fanVars, monitorVars, policyVars, sshVars, service>>
    \/ /\ service = "fan-out"
       /\ FanNext
       /\ UNCHANGED <<configVars, managerVars, registryVars, monitorVars, policyVars, sshVars, service>>
    \/ /\ service = "monitor"
       /\ MonitorNext
       /\ UNCHANGED <<configVars, managerVars, registryVars, fanVars, policyVars, sshVars, service>>
    \/ /\ service = "policies"
       /\ PolicyNext
       /\ UNCHANGED <<configVars, managerVars, registryVars, fanVars, monitorVars, sshVars, service>>
    \/ /\ service = "ssh"
       /\ SshNext
       /\ UNCHANGED <<configVars, managerVars, registryVars, fanVars, monitorVars, policyVars, service>>

Fairness ==
    /\ ConfigFairness
    /\ ManagerFairness
    /\ FanFairness
    /\ MonitorFairness

Spec == Init /\ [][Next]_serviceVars /\ Fairness

TypeOK ==
    /\ ConfigTypeOK
    /\ ManagerTypeOK
    /\ RegistryTypeOK
    /\ FanTypeOK
    /\ MonitorTypeOK
    /\ PolicyTypeOK
    /\ SshTypeOK

(***************************************************************************)
(* The goroutines the services start end when they should: watch loops     *)
(* and reloaders once cancelled or stopped, however many there are by      *)
(* then, monitor loops after Stop, and the goroutines of a fan-out even if *)
(* its caller has left.                                                    *)
(***************************************************************************)
BackgroundWorkEnds ==
    /\ WatchLoopsEnd
    /\ ReloadersEnd
    /\ FanOutEnds
    /\ MonitorLoopsEnd
================================================================================
