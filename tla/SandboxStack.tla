---------------------------- MODULE SandboxStack ----------------------------
(***************************************************************************)
(* The sandbox as a whole: the three containers over their shared volumes, *)
(* Docker's restart policy and network namespaces, and the snadcat         *)
(* commands that start, restart and remove the stack, run from any number  *)
(* of shells at once.                                                      *)
(*                                                                         *)
(* A command is the list of docker compose invocations it makes, as in     *)
(* the Go source (`for _, args := range steps'); cli[s] is what shell s    *)
(* has still to run.  One compose invocation that starts several services  *)
(* is the list of what compose does for each of them in turn.              *)
(***************************************************************************)
EXTENDS MitmproxyContainer, WgClient, AgentContainer, Sequences

CONSTANTS
  Shells,    (* terminals in which snadcat commands are run              *)
  Commands   (* the commands they run                                    *)

ASSUME CommandsAssumption == Commands \subseteq {"up", "restart", "down"}

VARIABLES
  cli,       (* shell -> steps its command still has to take             *)
  asked,     (* shell -> settings version when its restart was invoked,  *)
             (*          Absent outside a restart                        *)
  failed,    (* shells whose last failure no later restart has repaired  *)
  promised   (* the newest version a restart has reported active         *)

cliVars == <<cli, asked, failed, promised>>
vars == <<volumeVars, proxyVars, wgVars, agentVars, cliVars>>

Service == {"mitmproxy", "wg-client", "agent"}
Verb    == {"restart", "start", "gate", "wait"}
Step    == Verb \X Service

(* Mutant: wg-client depends on mitmproxy being started, not healthy.      *)
UpStepsNoProxyGate ==
  << <<"start", "mitmproxy">>, <<"start", "wg-client">>, <<"gate", "wg-client">>,
     <<"start", "agent">> >>

(* compose up -d: every service is started, if it is not running, once the *)
(* services it depends on are healthy.                                     *)
UpSteps ==
  << <<"start", "mitmproxy">>, <<"gate", "mitmproxy">>,
     <<"start", "wg-client">>, <<"gate", "wg-client">>,
     <<"start", "agent">> >>

(* Mutants of restart: wg-client does not wait for mitmproxy; the agent is *)
(* not restarted; the agent does not wait for wg-client.                   *)
RestartStepsNoProxyWait(agentWasRunning) ==
  << <<"restart", "mitmproxy">>, <<"restart", "wg-client">> >> \o
  IF agentWasRunning
    THEN << <<"start", "wg-client">>, <<"wait", "wg-client">>, <<"restart", "agent">> >>
    ELSE << >>

RestartStepsNoAgent(agentWasRunning) ==
  << <<"restart", "mitmproxy">>,
     <<"start", "mitmproxy">>, <<"wait", "mitmproxy">>,
     <<"restart", "wg-client">> >>

RestartStepsNoWgWait(agentWasRunning) ==
  << <<"restart", "mitmproxy">>,
     <<"start", "mitmproxy">>, <<"wait", "mitmproxy">>,
     <<"restart", "wg-client">> >> \o
  IF agentWasRunning THEN << <<"restart", "agent">> >> ELSE << >>

(* The five compose invocations of snadcat restart, of which the last two  *)
(* are made only if the agent was running.  up -d --wait <service> starts  *)
(* the service and what it depends on, then waits for the service.         *)
RestartSteps(agentWasRunning) ==
  IF agentWasRunning
    THEN << <<"restart", "mitmproxy">>,
            <<"start", "mitmproxy">>, <<"wait", "mitmproxy">>,
            <<"restart", "wg-client">>,
            <<"start", "mitmproxy">>, <<"gate", "mitmproxy">>,
            <<"start", "wg-client">>, <<"wait", "wg-client">>,
            <<"restart", "agent">> >>
    ELSE << <<"restart", "mitmproxy">>,
            <<"start", "mitmproxy">>, <<"wait", "mitmproxy">>,
            <<"restart", "wg-client">> >>

StackTypeOK ==
  /\ cli \in [Shells -> Seq(Step)]
  /\ asked \in [Shells -> FileVersion]
  /\ failed \subseteq Shells
  /\ promised \in Version

TypeOK ==
  VolumesTypeOK /\ ProxyTypeOK /\ WgTypeOK /\ AgentTypeOK /\ StackTypeOK

Init ==
  /\ VolumesInit /\ ProxyInit /\ WgInit /\ AgentInit
  /\ cli = [s \in Shells |-> << >>]
  /\ asked = [s \in Shells |-> Absent]
  /\ failed = {}
  /\ promised = 0

(***************************************************************************)
(* Containers, as Docker sees them                                         *)
(***************************************************************************)

Running(c) ==
  CASE c = "mitmproxy" -> ProxyUp
    [] c = "wg-client" -> WgUp
    [] c = "agent"     -> AgentUp

Health(c) ==
  CASE c = "mitmproxy" -> proxyHealth
    [] c = "wg-client" -> wgHealth
    [] c = "agent"     -> "none"

(* A namespace does not outlive the wg-client it was made for.             *)
NamespaceTornDown ==
  /\ agentNet' = IF agentNet = "live" THEN "dead" ELSE agentNet
  /\ UNCHANGED <<agentPc, agentEnv, agentResolv>>

StartContainer(c) ==
  \/ /\ c = "mitmproxy"
     /\ ProxyStart
     /\ UNCHANGED <<volumeVars, wgVars, agentVars>>
  \/ /\ c = "wg-client"
     /\ WgStart
     /\ NamespaceTornDown
     /\ UNCHANGED <<volumeVars, proxyVars>>
  \/ /\ c = "agent"
     /\ WgUp               \* Docker cannot join a stopped namespace
     /\ AgentStart
     /\ UNCHANGED <<volumeVars, proxyVars, wgVars>>

(***************************************************************************)
(* Commands                                                                *)
(***************************************************************************)

Idle(s) == cli[s] = << >>
Doing(s, verb, c) == ~Idle(s) /\ Head(cli[s]) = <<verb, c>>

Begin(s, steps, version) ==
  /\ cli' = [cli EXCEPT ![s] = steps]
  /\ asked' = [asked EXCEPT ![s] = version]
  /\ UNCHANGED <<failed, promised>>

(* Mutant: what is reported active is what the files hold at the end.      *)
AdvanceReportsNewest(s) ==
  /\ cli' = [cli EXCEPT ![s] = Tail(@)]
  /\ IF Len(cli[s]) = 1 /\ asked[s] # Absent
       THEN /\ asked' = [asked EXCEPT ![s] = Absent]
            /\ failed' = failed \ {s}
            /\ promised' = settings
       ELSE UNCHANGED <<asked, failed, promised>>

(* The step succeeds.  After the last step of a restart the command says   *)
(* "Proxy restarted. New settings are now active."                         *)
Advance(s) ==
  /\ cli' = [cli EXCEPT ![s] = Tail(@)]
  /\ IF Len(cli[s]) = 1 /\ asked[s] # Absent
       THEN /\ asked' = [asked EXCEPT ![s] = Absent]
            /\ failed' = failed \ {s}
            /\ promised' = IF asked[s] > promised THEN asked[s] ELSE promised
       ELSE UNCHANGED <<asked, failed, promised>>

(* The step fails: the command returns the error, the remaining steps are  *)
(* not taken.                                                              *)
Abandon(s) ==
  /\ cli' = [cli EXCEPT ![s] = << >>]
  /\ asked' = [asked EXCEPT ![s] = Absent]
  /\ failed' = failed \cup {s}
  /\ UNCHANGED promised

containerVars == <<volumeVars, proxyVars, wgVars, agentVars>>

(* snadcat compose up -d.                                                  *)
Up(s) ==
  /\ "up" \in Commands
  /\ Idle(s)
  /\ Begin(s, UpSteps, Absent)
  /\ UNCHANGED containerVars

(* Mutant: an agent still in app-init does not count as running.           *)
RestartIgnoresStartingAgent(s) ==
  /\ "restart" \in Commands
  /\ Idle(s)
  /\ Running("mitmproxy")
  /\ Begin(s, RestartSteps(agentPc = "running"), settings)
  /\ UNCHANGED containerVars

(* snadcat restart: with the proxy down it only warns; whether the agent   *)
(* is running is asked once, before anything is restarted.                 *)
Restart(s) ==
  /\ "restart" \in Commands
  /\ Idle(s)
  /\ Running("mitmproxy")
  /\ Begin(s, RestartSteps(Running("agent")), settings)
  /\ UNCHANGED containerVars

(* snadcat compose down, which snadcat run also ends with: the containers  *)
(* are removed, the volumes stay.  (Bound: not while a command is at work.)*)
Down ==
  /\ "down" \in Commands
  /\ \A s \in Shells : Idle(s)
  /\ ProxyStop
  /\ wgPc' = "down" /\ wgHealth' = "none" /\ wgReady' = FALSE
  /\ killSwitch' = FALSE /\ dnsmasqUp' = FALSE
  /\ upstream' = Absent /\ hostsBlock' = Absent
  /\ AgentStop
  /\ UNCHANGED <<volumeVars, cliVars>>

(* compose restart <c>: bypasses depends_on.                               *)
StepRestart(s) ==
  \E c \in Service :
    /\ Doing(s, "restart", c)
    /\ StartContainer(c)
    /\ Advance(s)

(* compose up -d creates what is missing and starts what is not running.   *)
StepStart(s) ==
  \E c \in Service :
    /\ Doing(s, "start", c)
    /\ IF Running(c) THEN UNCHANGED containerVars ELSE StartContainer(c)
    /\ Advance(s)

(* depends_on: condition: service_healthy, and --wait.                     *)
StepHealthy(s) ==
  \E c \in Service, verb \in {"gate", "wait"} :
    /\ Doing(s, verb, c)
    /\ Health(c) = "healthy"
    /\ Advance(s)
    /\ UNCHANGED containerVars

(* A dependency is unhealthy or has exited.                                *)
StepGateFails(s) ==
  \E c \in Service :
    /\ Doing(s, "gate", c)
    /\ Health(c) = "unhealthy" \/ ~Running(c)
    /\ Abandon(s)
    /\ UNCHANGED containerVars

(* Mutant: up --wait without --wait-timeout.                               *)
StepWaitFailsNoTimeout(s) ==
  \E c \in Service :
    /\ Doing(s, "wait", c)
    /\ Health(c) = "unhealthy"
    /\ Abandon(s)
    /\ UNCHANGED containerVars

(* --wait-timeout 60 passes, or the container is unhealthy or has exited;  *)
(* the start period alone may be longer than 60 seconds.                   *)
StepWaitFails(s) ==
  \E c \in Service :
    /\ Doing(s, "wait", c)
    /\ Health(c) # "healthy"
    /\ Abandon(s)
    /\ UNCHANGED containerVars

(* The agent cannot start: there is no namespace to join.                  *)
StepStartFails(s) ==
  \E c \in Service :
    /\ Doing(s, "restart", c) \/ (Doing(s, "start", c) /\ ~Running(c))
    /\ c = "agent" /\ ~WgUp
    /\ Abandon(s)
    /\ UNCHANGED containerVars

(* Ctrl-C: snadcat ignores the signal, the docker child fails the step.    *)
Interrupt(s) ==
  /\ "abort" \in Faults
  /\ ~Idle(s)
  /\ Abandon(s)
  /\ UNCHANGED containerVars

StepDone(s) ==
  \/ StepRestart(s) \/ StepStart(s) \/ StepHealthy(s)
  \/ StepGateFails(s) \/ StepWaitFails(s) \/ StepStartFails(s)

Command(s) == Up(s) \/ Restart(s) \/ Interrupt(s)

(***************************************************************************)
(* Specification                                                           *)
(***************************************************************************)

Edit == EditSettings /\ UNCHANGED <<proxyVars, wgVars, agentVars, cliVars>>

Proxy == ProxyStep /\ UNCHANGED <<wgVars, agentVars, cliVars>>

(* Phases of wg-client that keep its namespace.                            *)
WgWork ==
  \/ WgTunnel(ProxyUp) \/ WgFirewall \/ WgDnsmasq \/ WgResolv
  \/ WgHosts \/ WgTouchReady \/ WgSupervise

WgProbe == WgProbePasses \/ WgProbesFail

(* Steps of wg-client that end its namespace, or begin another: its own    *)
(* `exit 1' after a wait, the restart policy, and faults.                  *)
WgRetry == WgTunnelFails(ProxyUp) \/ WgResolvFails \/ WgPolicyRestart

WgLeave == WgRetry \/ WgFirewallFails \/ WgCrash

Wg ==
  \/ (WgWork \/ DnsmasqCrash \/ WgProbe) /\ UNCHANGED <<proxyVars, agentVars, cliVars>>
  \/ WgLeave /\ NamespaceTornDown /\ UNCHANGED <<proxyVars, cliVars>>

Agent == (AgentWork \/ AgentExit) /\ UNCHANGED <<proxyVars, wgVars, cliVars>>

Next ==
  \/ Edit \/ Proxy \/ Wg \/ Agent \/ Down
  \/ \E s \in Shells : StepDone(s) \/ Command(s)

(* The programs inside the containers, Docker's probes and restart policy, *)
(* and a command once begun go on; users and faults need not.              *)
Fairness ==
  /\ WF_vars(ProxyWork /\ UNCHANGED <<wgVars, agentVars, cliVars>>)
  /\ WF_vars(ProxyProbePasses /\ UNCHANGED <<wgVars, agentVars, cliVars>>)
  /\ WF_vars(WgWork /\ UNCHANGED <<proxyVars, agentVars, cliVars>>)
  /\ WF_vars(WgProbePasses /\ UNCHANGED <<proxyVars, agentVars, cliVars>>)
  /\ WF_vars(WgRetry /\ NamespaceTornDown /\ UNCHANGED <<proxyVars, cliVars>>)
  /\ WF_vars(AgentWork /\ UNCHANGED <<proxyVars, wgVars, cliVars>>)
  /\ \A s \in Shells : WF_vars(StepDone(s))

SafetySpec == Init /\ [][Next]_vars
Spec == SafetySpec /\ Fairness

(***************************************************************************)
(* Properties                                                              *)
(***************************************************************************)

(* No command is half done and every failure has been followed by a        *)
(* successful restart from the same shell.                                 *)
Settled == failed = {} /\ \A s \in Shells : Idle(s)

(* "New settings are now active": in a settled sandbox a healthy wg-client *)
(* forwards DNS to the servers of a version at least as new as the newest  *)
(* one a restart has reported active, and never falls back to the built-in *)
(* defaults because it overtook the addon (simple.go, compose-proxy.yml).  *)
PromisedDns ==
  Settled /\ wgHealth = "healthy" => upstream >= promised

(* The same promise for the agent: once app-init is through, the           *)
(* environment and placeholders are those of the promised version.  (With  *)
(* no settings layer left load() does not rewrite sandcat.env.)            *)
PromisedEnv ==
  Settled /\ agentPc = "running" /\ NoLayers = {} => agentEnv >= promised

(* A restart never leaves a running agent on a namespace that has been     *)
(* torn down (issue 69).                                                   *)
AgentRelinked == Settled => agentNet # "dead"

(* The agent is attached to a namespace only when the kill switch confines *)
(* it: the health gates of up and of restart order the two.                *)
AgentConfined == agentNet = "live" => killSwitch

(* A restart always ends: every wait in it has a time-out.                 *)
RestartEnds ==
  \A s \in Shells : asked[s] # Absent ~> asked[s] = Absent

(* dnsmasq is brought back in place after a crash, so that siblings keep   *)
(* their namespace (supervise_dnsmasq).                                    *)
DnsmasqRecovers ==
  wgPc = "supervise" /\ ~dnsmasqUp ~> dnsmasqUp \/ wgPc # "supervise"

(* "The CA cert is guaranteed to exist" (app-init.sh): an agent that       *)
(* reaches its check in a settled sandbox finds the certificate, although  *)
(* every start of the proxy removes it and publishes it anew.              *)
CaGuaranteed == Settled /\ agentPc = "ca" => caPublic

(***************************************************************************)
(* What restart promises                                                   *)
(***************************************************************************)

Awaits(steps) == \E i \in 1..Len(steps) : steps[i] = <<"wait", "mitmproxy">>

(* How far the restart of shell s is: before its first step, before the    *)
(* wait for the new proxy, after it.                                       *)
RestartPhase(s) ==
  CASE asked[s] = Absent -> "idle"
    [] asked[s] # Absent /\ Doing(s, "restart", "mitmproxy") -> "asked"
    [] OTHER -> IF Awaits(cli[s]) THEN "fresh" ELSE "seen"

RestartPhases == [s \in Shells |-> RestartPhase(s)]

(* What a proxy that Docker calls healthy serves.                          *)
Serving == IF proxyHealth = "healthy" THEN dnsConf ELSE Absent

Contract ==
  INSTANCE RestartContract WITH
    edited <- settings, serving <- Serving, phase <- RestartPhases

(* snadcat restart implements RestartContract: its five compose steps, the *)
(* addon's load() and Docker's health check together deliver what the      *)
(* message at its end says, also while other shells start and restart the  *)
(* containers and the containers crash.                                    *)
RestartHonoured == Contract!Spec
=============================================================================
