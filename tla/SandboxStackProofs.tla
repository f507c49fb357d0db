------------------------- MODULE SandboxStackProofs -------------------------
(***************************************************************************)
(* Theorems about SandboxStack, for any set of shells, any set of faults,  *)
(* any timing of the proxy's background cleanup and any number of edits.   *)
(***************************************************************************)
EXTENDS SandboxStack, TLAPS

(* The tuples of the subscripts and of the UNCHANGED clauses.              *)
USE DEF volumeVars, proxyVars, wgVars, agentVars, cliVars, containerVars

(***************************************************************************)
(* Facts about the commands                                                *)
(***************************************************************************)

(* Both commands are sequences of steps.                                   *)
LEMMA ProgramsAreSteps ==
  /\ UpSteps \in Seq(Step)
  /\ \A b \in BOOLEAN : RestartSteps(b) \in Seq(Step)
<1>1. \A v \in Verb, c \in Service : <<v, c>> \in Step
  BY DEF Step
<1>2. /\ {"restart", "start", "gate", "wait"} \subseteq Verb
      /\ {"mitmproxy", "wg-client", "agent"} \subseteq Service
  BY DEF Verb, Service
<1>3. UpSteps \in Seq(Step)
  BY <1>1, <1>2 DEF UpSteps
<1>4. RestartSteps(TRUE) \in Seq(Step)
  BY <1>1, <1>2 DEF RestartSteps
<1>5. RestartSteps(FALSE) \in Seq(Step)
  BY <1>1, <1>2 DEF RestartSteps
<1> QED BY <1>3, <1>4, <1>5

(* What Begin, Advance and Abandon leave of the command state is typed.    *)
LEMMA BeginType ==
  ASSUME StackTypeOK, NEW s \in Shells, NEW steps \in Seq(Step),
         NEW version \in FileVersion, Begin(s, steps, version)
  PROVE  StackTypeOK'
BY DEF StackTypeOK, Begin

LEMMA AdvanceType ==
  ASSUME StackTypeOK, NEW s \in Shells, ~Idle(s), Advance(s)
  PROVE  StackTypeOK'
<1>1. cli[s] \in Seq(Step) /\ cli[s] # << >>
  BY DEF StackTypeOK, Idle
<1>2. Tail(cli[s]) \in Seq(Step)
  BY <1>1
<1>3. cli' \in [Shells -> Seq(Step)]
  BY <1>2 DEF StackTypeOK, Advance
<1>4. asked[s] # Absent => asked[s] \in Version
  BY DEF StackTypeOK, FileVersion
<1>5. /\ asked' \in [Shells -> FileVersion]
      /\ failed' \subseteq Shells
      /\ promised' \in Version
  BY <1>4 DEF StackTypeOK, Advance, FileVersion
<1> QED BY <1>3, <1>5 DEF StackTypeOK

LEMMA AbandonType ==
  ASSUME StackTypeOK, NEW s \in Shells, Abandon(s)
  PROVE  StackTypeOK'
BY DEF StackTypeOK, Abandon, FileVersion

(***************************************************************************)
(* Type correctness                                                        *)
(***************************************************************************)

ContainersTypeOK == VolumesTypeOK /\ ProxyTypeOK /\ WgTypeOK /\ AgentTypeOK

(* Starting a container, with whatever Docker resets, keeps the types.     *)
LEMMA StartType ==
  ASSUME ContainersTypeOK, NEW c \in Service, StartContainer(c)
  PROVE  ContainersTypeOK'
<1> USE DEF ContainersTypeOK, VolumesTypeOK, ProxyTypeOK, WgTypeOK, AgentTypeOK,
            FileVersion
<1>1. CASE c = "mitmproxy"
  BY <1>1 DEF StartContainer, ProxyStart
<1>2. CASE c = "wg-client"
  BY <1>2 DEF StartContainer, WgStart, NamespaceTornDown
<1>3. CASE c = "agent"
  BY <1>3 DEF StartContainer, AgentStart
<1> QED BY <1>1, <1>2, <1>3 DEF Service

(* A step of the proxy keeps the types.                                    *)
LEMMA ProxyType ==
  ASSUME ContainersTypeOK, Proxy
  PROVE  ContainersTypeOK'
<1> USE DEF VolumesTypeOK, ProxyTypeOK, FileVersion
<1>0. UNCHANGED <<wgVars, agentVars>> /\ ProxyStep
  BY DEF Proxy
<1>1. (WgTypeOK /\ AgentTypeOK)'
  BY <1>0 DEF ContainersTypeOK, WgTypeOK, AgentTypeOK
<1>2. (VolumesTypeOK /\ ProxyTypeOK)'
  <2> USE DEF ContainersTypeOK
  <2>1. CASE BgClean             BY <2>1 DEF BgClean
  <2>2. CASE BgPublishCa         BY <2>2 DEF BgPublishCa
  <2>3. CASE GenerateKeys        BY <2>3 DEF GenerateKeys
  <2>4. CASE AddonRead           BY <2>4 DEF AddonRead
  <2>5. CASE WritePlaceholdersEnv BY <2>5 DEF WritePlaceholdersEnv
  <2>6. CASE WriteDnsConf        BY <2>6 DEF WriteDnsConf, SidecarWrite
  <2>7. CASE WriteExtraHosts     BY <2>7 DEF WriteExtraHosts, SidecarWrite
  <2>8. CASE AddonLoadFails      BY <2>8 DEF AddonLoadFails, ProxyStop
  <2>9. CASE ProxyCrash          BY <2>9 DEF ProxyCrash, ProxyStop
  <2>10. CASE ProxyProbePasses   BY <2>10 DEF ProxyProbePasses
  <2>11. CASE ProxyProbesFail    BY <2>11 DEF ProxyProbesFail
  <2> QED
    BY <1>0, <2>1, <2>2, <2>3, <2>4, <2>5, <2>6, <2>7, <2>8, <2>9, <2>10, <2>11
       DEF ProxyStep, ProxyWork
<1> QED BY <1>1, <1>2 DEF ContainersTypeOK

(* A step of wg-client keeps the types.                                    *)
LEMMA WgType ==
  ASSUME ContainersTypeOK, Wg
  PROVE  ContainersTypeOK'
<1> USE DEF ContainersTypeOK, VolumesTypeOK, WgTypeOK, FileVersion
<1>1. ProxyTypeOK'
  BY DEF Wg, ProxyTypeOK
<1>2. AgentTypeOK'
  BY DEF Wg, AgentTypeOK, NamespaceTornDown
<1>3. (VolumesTypeOK /\ WgTypeOK)'
  <2>1. CASE WgTunnel(ProxyUp)      BY <2>1 DEF WgTunnel
  <2>2. CASE WgFirewall             BY <2>2 DEF WgFirewall
  <2>3. CASE WgDnsmasq              BY <2>3 DEF WgDnsmasq
  <2>4. CASE WgResolv               BY <2>4 DEF WgResolv
  <2>5. CASE WgHosts                BY <2>5 DEF WgHosts
  <2>6. CASE WgTouchReady           BY <2>6 DEF WgTouchReady
  <2>7. CASE WgSupervise            BY <2>7 DEF WgSupervise
  <2>8. CASE DnsmasqCrash
    <3>1. /\ dnsmasqUp' \in BOOLEAN
          /\ UNCHANGED <<wgPc, killSwitch, upstream, hostsBlock, wgReady, wgHealth>>
          /\ UNCHANGED volumeVars
      BY <2>8 DEF DnsmasqCrash
    <3> QED BY <3>1
  <2>9. CASE WgProbe                BY <2>9 DEF WgProbe, WgProbePasses, WgProbesFail
  <2>10. CASE WgTunnelFails(ProxyUp) BY <2>10 DEF WgTunnelFails, WgExit
  <2>11. CASE WgFirewallFails       BY <2>11 DEF WgFirewallFails, WgExit
  <2>12. CASE WgResolvFails         BY <2>12 DEF WgResolvFails, WgExit
  <2>13. CASE WgCrash               BY <2>13 DEF WgCrash, WgExit
  <2>14. CASE WgPolicyRestart       BY <2>14 DEF WgPolicyRestart, WgStart
  <2> QED
    BY <2>1, <2>2, <2>3, <2>4, <2>5, <2>6, <2>7, <2>8, <2>9, <2>10, <2>11,
       <2>12, <2>13, <2>14 DEF Wg, WgWork, WgLeave, WgRetry
<1> QED BY <1>1, <1>2, <1>3

(* A step of the agent keeps the types.                                    *)
LEMMA AgentType ==
  ASSUME ContainersTypeOK, Agent
  PROVE  ContainersTypeOK'
BY DEF ContainersTypeOK, VolumesTypeOK, ProxyTypeOK, WgTypeOK, AgentTypeOK,
       FileVersion, Agent, AgentWork, AgentAdoptResolv, AgentInstallCa,
       AgentCaMissing, AgentSourceEnv, AgentExit, AgentStop

(* Every reachable state is well typed: containers, files and commands.    *)
THEOREM TypeCorrect == SafetySpec => []TypeOK
<1>1. Init => TypeOK
  <2> SUFFICES ASSUME Init PROVE TypeOK
    OBVIOUS
  <2>1. 0 \in Version /\ 0 \in FileVersion /\ Absent \in FileVersion
    BY VersionAssumption DEF Version, FileVersion
  <2>2. VolumesTypeOK /\ ProxyTypeOK
    BY <2>1 DEF Init, VolumesInit, ProxyInit, VolumesTypeOK, ProxyTypeOK
  <2>3. WgTypeOK /\ AgentTypeOK
    BY <2>1 DEF Init, WgInit, AgentInit, WgTypeOK, AgentTypeOK
  <2>4. << >> \in Seq(Step)
    OBVIOUS
  <2>5. StackTypeOK
    BY <2>1, <2>4 DEF Init, StackTypeOK
  <2> QED BY <2>2, <2>3, <2>5 DEF TypeOK
<1>2. TypeOK /\ [Next]_vars => TypeOK'
  <2> SUFFICES ASSUME TypeOK, [Next]_vars PROVE TypeOK'
    OBVIOUS
  <2>0. ContainersTypeOK /\ StackTypeOK
    BY DEF TypeOK, ContainersTypeOK
  <2>a. UNCHANGED containerVars => ContainersTypeOK'
    BY <2>0 DEF ContainersTypeOK, VolumesTypeOK, ProxyTypeOK, WgTypeOK, AgentTypeOK
  <2>b. UNCHANGED cliVars => StackTypeOK'
    BY <2>0 DEF StackTypeOK
  <2>1. CASE Edit
    <3>1. ContainersTypeOK'
      BY <2>0, <2>1, VersionAssumption
         DEF Edit, EditSettings, ContainersTypeOK, VolumesTypeOK, ProxyTypeOK,
             WgTypeOK, AgentTypeOK, Version
    <3> QED BY <2>1, <2>b, <3>1 DEF Edit, TypeOK, ContainersTypeOK
  <2>2. CASE Proxy
    BY <2>0, <2>2, <2>b, ProxyType DEF Proxy, TypeOK, ContainersTypeOK
  <2>3. CASE Wg
    BY <2>0, <2>3, <2>b, WgType DEF Wg, TypeOK, ContainersTypeOK
  <2>4. CASE Agent
    BY <2>0, <2>4, <2>b, AgentType DEF Agent, TypeOK, ContainersTypeOK
  <2>5. CASE Down
    <3>1. ContainersTypeOK'
      BY <2>0, <2>5
         DEF Down, ProxyStop, AgentStop, ContainersTypeOK, VolumesTypeOK,
             ProxyTypeOK, WgTypeOK, AgentTypeOK, FileVersion
    <3> QED BY <2>5, <2>b, <3>1 DEF Down, TypeOK, ContainersTypeOK
  <2>6. ASSUME NEW s \in Shells, StepDone(s) PROVE TypeOK'
    <3>1. CASE StepRestart(s)
      BY <2>0, <3>1, StartType, AdvanceType
         DEF StepRestart, Doing, TypeOK, ContainersTypeOK
    <3>2. CASE StepStart(s)
      <4>1. StackTypeOK'
        BY <2>0, <3>2, AdvanceType DEF StepStart, Doing
      <4>2. ContainersTypeOK'
        BY <2>0, <2>a, <3>2, StartType DEF StepStart
      <4> QED BY <4>1, <4>2 DEF TypeOK, ContainersTypeOK
    <3>3. CASE StepHealthy(s)
      <4>1. StackTypeOK'
        BY <2>0, <3>3, AdvanceType DEF StepHealthy, Doing
      <4>2. ContainersTypeOK'
        BY <2>a, <3>3 DEF StepHealthy
      <4> QED BY <4>1, <4>2 DEF TypeOK, ContainersTypeOK
    <3>4. CASE StepGateFails(s) \/ StepWaitFails(s) \/ StepStartFails(s)
      <4>1. Abandon(s) /\ UNCHANGED containerVars
        BY <3>4 DEF StepGateFails, StepWaitFails, StepStartFails
      <4> QED BY <2>0, <2>a, <4>1, AbandonType DEF TypeOK, ContainersTypeOK
    <3> QED BY <2>6, <3>1, <3>2, <3>3, <3>4 DEF StepDone
  <2>7. ASSUME NEW s \in Shells, Command(s) PROVE TypeOK'
    <3>0. settings \in FileVersion /\ Absent \in FileVersion
      BY <2>0 DEF ContainersTypeOK, VolumesTypeOK, FileVersion
    <3>1. CASE Up(s)
      BY <2>0, <2>a, <3>0, <3>1, ProgramsAreSteps, BeginType
         DEF Up, TypeOK, ContainersTypeOK
    <3>2. CASE Restart(s)
      <4>1. Running("agent") \in BOOLEAN
        BY DEF Running, AgentUp
      <4>2. RestartSteps(Running("agent")) \in Seq(Step)
        BY <4>1, ProgramsAreSteps
      <4>3. StackTypeOK'
        BY <2>0, <3>0, <3>2, <4>2, BeginType DEF Restart
      <4> QED BY <2>a, <3>2, <4>3 DEF Restart, TypeOK, ContainersTypeOK
    <3>3. CASE Interrupt(s)
      BY <2>0, <2>a, <3>3, AbandonType DEF Interrupt, TypeOK, ContainersTypeOK
    <3> QED BY <2>7, <3>1, <3>2, <3>3 DEF Command
  <2>8. CASE UNCHANGED vars
    BY <2>8, <2>a, <2>b DEF vars, TypeOK, ContainersTypeOK
  <2> QED BY <2>1, <2>2, <2>3, <2>4, <2>5, <2>6, <2>7, <2>8 DEF Next
<1> QED BY <1>1, <1>2, PTL DEF SafetySpec

(***************************************************************************)
(* The kill switch is in place before anything uses the namespace          *)
(***************************************************************************)

(* ConfinedBeforeUse, strengthened with the phases of main() that follow   *)
(* the firewall: what makes it inductive is that wgPc, the daemon and the  *)
(* health status are all reset when the namespace is replaced.             *)
ConfinedInv ==
  /\ wgPc \in {"dnsmasq", "resolv", "hosts", "touch", "supervise"} => killSwitch
  /\ ConfinedBeforeUse

LEMMA StartConfined ==
  ASSUME ConfinedInv, NEW c \in Service, StartContainer(c)
  PROVE  ConfinedInv'
<1>1. CASE c = "wg-client"
  BY <1>1 DEF StartContainer, WgStart, ConfinedInv, ConfinedBeforeUse
<1>2. CASE c # "wg-client"
  <2>1. UNCHANGED wgVars
    BY <1>2 DEF StartContainer
  <2> QED BY <2>1 DEF ConfinedInv, ConfinedBeforeUse
<1> QED BY <1>1, <1>2

LEMMA WgConfined ==
  ASSUME ConfinedInv, Wg
  PROVE  ConfinedInv'
<1> USE DEF ConfinedInv, ConfinedBeforeUse
<1>1. CASE WgTunnel(ProxyUp)   BY <1>1 DEF WgTunnel
<1>2. CASE WgFirewall          BY <1>2 DEF WgFirewall
<1>3. CASE WgDnsmasq           BY <1>3 DEF WgDnsmasq
<1>4. CASE WgResolv            BY <1>4 DEF WgResolv
<1>5. CASE WgHosts             BY <1>5 DEF WgHosts
<1>6. CASE WgTouchReady        BY <1>6 DEF WgTouchReady
<1>7. CASE WgSupervise         BY <1>7 DEF WgSupervise
<1>8. CASE DnsmasqCrash
  <2>1. /\ dnsmasqUp' = FALSE
        /\ UNCHANGED <<wgPc, killSwitch, wgHealth>>
    BY <1>8 DEF DnsmasqCrash
  <2> QED BY <2>1
<1>9. CASE WgProbe             BY <1>9 DEF WgProbe, WgProbePasses, WgProbesFail, WgTest
<1>10. CASE WgLeave
  <2>1. CASE WgPolicyRestart   BY <2>1 DEF WgPolicyRestart, WgStart
  <2>2. CASE WgExit            BY <2>2 DEF WgExit
  <2> QED
    BY <1>10, <2>1, <2>2
       DEF WgLeave, WgRetry, WgTunnelFails, WgResolvFails, WgFirewallFails, WgCrash
<1> QED
  BY <1>1, <1>2, <1>3, <1>4, <1>5, <1>6, <1>7, <1>8, <1>9, <1>10 DEF Wg, WgWork

(* Whatever faults, shells and timing: dnsmasq never runs in a namespace   *)
(* without the kill switch, and no such namespace is reported healthy      *)
(* (wg-client-init.sh orders the firewall before the forwarder).           *)
THEOREM Confined == SafetySpec => []ConfinedBeforeUse
<1>1. Init => ConfinedInv
  BY DEF Init, WgInit, ConfinedInv, ConfinedBeforeUse
<1>2. ConfinedInv /\ [Next]_vars => ConfinedInv'
  <2> SUFFICES ASSUME ConfinedInv, [Next]_vars PROVE ConfinedInv'
    OBVIOUS
  <2>0. UNCHANGED wgVars => ConfinedInv'
    BY DEF ConfinedInv, ConfinedBeforeUse
  <2>1. CASE Edit \/ Proxy \/ Agent
    BY <2>0, <2>1 DEF Edit, Proxy, Agent
  <2>2. CASE Wg
    BY <2>2, WgConfined
  <2>3. CASE Down
    BY <2>3 DEF Down, ConfinedInv, ConfinedBeforeUse
  <2>4. ASSUME NEW s \in Shells, StepDone(s) PROVE ConfinedInv'
    <3>1. CASE StepRestart(s)
      BY <3>1, StartConfined DEF StepRestart
    <3>2. CASE StepStart(s)
      BY <2>0, <3>2, StartConfined DEF StepStart
    <3>3. CASE StepHealthy(s) \/ StepGateFails(s) \/ StepWaitFails(s) \/ StepStartFails(s)
      BY <2>0, <3>3 DEF StepHealthy, StepGateFails, StepWaitFails, StepStartFails
    <3> QED BY <2>4, <3>1, <3>2, <3>3 DEF StepDone
  <2>5. ASSUME NEW s \in Shells, Command(s) PROVE ConfinedInv'
    BY <2>0, <2>5 DEF Command, Up, Restart, Interrupt
  <2>6. CASE UNCHANGED vars
    BY <2>0, <2>6 DEF vars
  <2> QED BY <2>1, <2>2, <2>3, <2>4, <2>5, <2>6 DEF Next
<1>3. ConfinedInv => ConfinedBeforeUse
  BY DEF ConfinedInv
<1> QED BY <1>1, <1>2, <1>3, PTL DEF SafetySpec

(***************************************************************************)
(* The agent always resolves names through wg-client's dnsmasq             *)
(***************************************************************************)

(* In a list of steps still to take, the agent is never restarted, and is  *)
(* started only right after a wait for a healthy wg-client.                *)
AgentGated(steps) ==
  \A i \in 1..Len(steps) :
    /\ steps[i] # <<"restart", "agent">>
    /\ steps[i] = <<"start", "agent">> =>
         i > 1 /\ steps[i - 1] = <<"gate", "wg-client">>

(* As long as no wg-client has published its resolv.conf, no agent runs,   *)
(* no wg-client can be reported healthy, and every command in progress     *)
(* waits for a healthy wg-client before it starts the agent.               *)
UnpublishedContainers ==
  /\ ~AgentUp
  /\ ~wgReady
  /\ wgPc \notin {"hosts", "touch", "supervise"}
  /\ wgHealth # "healthy"

UnpublishedInv ==
  ~sharedResolv =>
    UnpublishedContainers /\ \A s \in Shells : AgentGated(cli[s])

LEMMA ProgramsGated ==
  /\ AgentGated(UpSteps)
  /\ AgentGated(RestartSteps(FALSE))
  /\ AgentGated(<< >>)
BY DEF AgentGated, UpSteps, RestartSteps

(* Taking one step off a gated list leaves a gated list, unless that step  *)
(* is the gate on wg-client itself.                                        *)
LEMMA TailGated ==
  ASSUME NEW steps \in Seq(Step), steps # << >>, AgentGated(steps),
         Head(steps) # <<"gate", "wg-client">>
  PROVE  AgentGated(Tail(steps))
<1> SUFFICES ASSUME NEW i \in 1..Len(Tail(steps))
             PROVE  /\ Tail(steps)[i] # <<"restart", "agent">>
                    /\ Tail(steps)[i] = <<"start", "agent">> =>
                         i > 1 /\ Tail(steps)[i - 1] = <<"gate", "wg-client">>
  BY DEF AgentGated
<1>1. i + 1 \in 1..Len(steps) /\ Tail(steps)[i] = steps[i + 1]
  OBVIOUS
<1>2. i > 1 => Tail(steps)[i - 1] = steps[i]
  OBVIOUS
<1>3. i = 1 => steps[i] = Head(steps)
  OBVIOUS
<1>4. /\ steps[i + 1] # <<"restart", "agent">>
      /\ steps[i + 1] = <<"start", "agent">> => steps[i] = <<"gate", "wg-client">>
  BY <1>1 DEF AgentGated
<1> QED BY <1>1, <1>2, <1>3, <1>4

(* Starting a container other than the agent keeps UnpublishedContainers.  *)
LEMMA StartUnpublished ==
  ASSUME NEW c \in Service, StartContainer(c), AgentUsesDnsmasq
  PROVE  /\ AgentUsesDnsmasq'
         /\ sharedResolv' = sharedResolv
         /\ UnpublishedContainers /\ c # "agent" => UnpublishedContainers'
<1>1. CASE c = "mitmproxy"
  BY <1>1 DEF StartContainer, AgentUsesDnsmasq, UnpublishedContainers, AgentUp
<1>2. CASE c = "wg-client"
  BY <1>2 DEF StartContainer, WgStart, NamespaceTornDown, AgentUsesDnsmasq,
              UnpublishedContainers, AgentUp
<1>3. CASE c = "agent"
  BY <1>3 DEF StartContainer, AgentStart, AgentUsesDnsmasq
<1> QED BY <1>1, <1>2, <1>3 DEF Service

(* A step of wg-client reaches the phases after `resolv' only by           *)
(* publishing the resolv.conf.                                             *)
LEMMA WgUnpublished ==
  ASSUME Wg, AgentUsesDnsmasq
  PROVE  /\ AgentUsesDnsmasq'
         /\ sharedResolv => sharedResolv'
         /\ UnpublishedContainers /\ ~sharedResolv' => UnpublishedContainers'
<1> USE DEF UnpublishedContainers, AgentUp
<1>0. AgentUsesDnsmasq' /\ (agentPc' = agentPc)
  BY DEF Wg, NamespaceTornDown, AgentUsesDnsmasq
<1>1. CASE WgTunnel(ProxyUp)   BY <1>0, <1>1 DEF WgTunnel
<1>2. CASE WgFirewall          BY <1>0, <1>2 DEF WgFirewall
<1>3. CASE WgDnsmasq           BY <1>0, <1>3 DEF WgDnsmasq
<1>4. CASE WgResolv            BY <1>0, <1>4 DEF WgResolv
<1>5. CASE WgHosts             BY <1>0, <1>5 DEF WgHosts
<1>6. CASE WgTouchReady        BY <1>0, <1>6 DEF WgTouchReady
<1>7. CASE WgSupervise         BY <1>0, <1>7 DEF WgSupervise
<1>8. CASE DnsmasqCrash        BY <1>0, <1>8 DEF DnsmasqCrash
<1>9. CASE WgProbe
  BY <1>0, <1>9 DEF WgProbe, WgProbePasses, WgProbesFail, WgTest
<1>10. CASE WgLeave
  <2>1. CASE WgPolicyRestart   BY <1>0, <2>1 DEF WgPolicyRestart, WgStart
  <2>2. CASE WgExit /\ UNCHANGED volumeVars
    BY <1>0, <2>2 DEF WgExit
  <2> QED
    BY <1>10, <2>1, <2>2
       DEF WgLeave, WgRetry, WgTunnelFails, WgResolvFails, WgFirewallFails, WgCrash
<1> QED
  BY <1>1, <1>2, <1>3, <1>4, <1>5, <1>6, <1>7, <1>8, <1>9, <1>10 DEF Wg, WgWork

(* A step of a command: the agent starts only behind a healthy wg-client.  *)
LEMMA StepUnpublished ==
  ASSUME TypeOK, UnpublishedInv, AgentUsesDnsmasq, NEW s \in Shells, StepDone(s)
  PROVE  UnpublishedInv' /\ AgentUsesDnsmasq'
<1>0. /\ StackTypeOK
      /\ ~sharedResolv => /\ UnpublishedContainers
                          /\ \A t \in Shells : AgentGated(cli[t])
      /\ (~sharedResolv' => /\ UnpublishedContainers'
                            /\ \A t \in Shells : AgentGated(cli'[t])) => UnpublishedInv'
  BY DEF TypeOK, UnpublishedInv, AgentGated
<1>1. ASSUME ~Idle(s), Advance(s), \A t \in Shells : AgentGated(cli[t]),
             Head(cli[s]) # <<"gate", "wg-client">>
      PROVE  \A t \in Shells : AgentGated(cli'[t])
  <2>1. cli[s] \in Seq(Step) /\ cli[s] # << >>
    BY <1>0, <1>1 DEF StackTypeOK, Idle
  <2>2. AgentGated(Tail(cli[s]))
    BY <1>1, <2>1, TailGated
  <2> QED BY <1>0, <1>1, <2>2 DEF StackTypeOK, Advance
<1>2. ASSUME ~Idle(s), \A t \in Shells : AgentGated(cli[t])
      PROVE  Head(cli[s]) \notin {<<"start", "agent">>, <<"restart", "agent">>}
  <2>1. cli[s] \in Seq(Step) /\ cli[s] # << >>
    BY <1>0, <1>2 DEF StackTypeOK, Idle
  <2>2. 1 \in 1..Len(cli[s]) /\ Head(cli[s]) = cli[s][1]
    BY <2>1
  <2> QED BY <1>2, <2>2 DEF AgentGated
<1>3. UNCHANGED containerVars =>
        /\ AgentUsesDnsmasq'
        /\ sharedResolv' = sharedResolv
        /\ UnpublishedContainers => UnpublishedContainers'
  BY DEF AgentUsesDnsmasq, UnpublishedContainers, AgentUp
<1>4. CASE StepRestart(s) \/ StepStart(s)
  <2>1. PICK c \in Service, verb \in {"restart", "start"} :
          /\ Doing(s, verb, c)
          /\ StartContainer(c) \/ UNCHANGED containerVars
          /\ Advance(s)
    BY <1>4 DEF StepRestart, StepStart
  <2>2. AgentUsesDnsmasq' /\ sharedResolv' = sharedResolv
    BY <1>3, <2>1, StartUnpublished
  <2>3. ASSUME ~sharedResolv
        PROVE  UnpublishedContainers' /\ \A t \in Shells : AgentGated(cli'[t])
    <3>1. UnpublishedContainers /\ \A t \in Shells : AgentGated(cli[t])
      BY <1>0, <2>3
    <3>2. ~Idle(s) /\ Head(cli[s]) = <<verb, c>>
      BY <2>1 DEF Doing
    <3>3. c # "agent" /\ Head(cli[s]) # <<"gate", "wg-client">>
      BY <1>2, <3>1, <3>2
    <3>4. UnpublishedContainers'
      BY <1>3, <2>1, <3>1, <3>3, StartUnpublished
    <3> QED BY <1>1, <2>1, <3>1, <3>2, <3>3, <3>4
  <2> QED BY <1>0, <2>2, <2>3
<1>5. CASE StepHealthy(s)
  <2>1. PICK c \in Service, verb \in {"gate", "wait"} :
          /\ Doing(s, verb, c)
          /\ Health(c) = "healthy"
          /\ Advance(s)
          /\ UNCHANGED containerVars
    BY <1>5 DEF StepHealthy
  <2>2. c = "wg-client" /\ wgHealth # "healthy" => FALSE
    BY <2>1 DEF Health
  <2>3. ASSUME ~sharedResolv PROVE \A t \in Shells : AgentGated(cli'[t])
    <3>1. UnpublishedContainers /\ \A t \in Shells : AgentGated(cli[t])
      BY <1>0, <2>3
    <3>2. c # "wg-client"
      BY <2>2, <3>1 DEF UnpublishedContainers
    <3> QED BY <1>1, <2>1, <3>1, <3>2 DEF Doing
  <2> QED BY <1>0, <1>3, <2>1, <2>3
<1>6. CASE StepGateFails(s) \/ StepWaitFails(s) \/ StepStartFails(s)
  <2>1. Abandon(s) /\ UNCHANGED containerVars
    BY <1>6 DEF StepGateFails, StepWaitFails, StepStartFails
  <2>2. (\A t \in Shells : AgentGated(cli[t])) => \A t \in Shells : AgentGated(cli'[t])
    BY <1>0, <2>1, ProgramsGated DEF StackTypeOK, Abandon
  <2> QED BY <1>0, <1>3, <2>1, <2>2
<1> QED BY <1>4, <1>5, <1>6 DEF StepDone

(* The commands a user types.                                              *)
LEMMA CommandUnpublished ==
  ASSUME TypeOK, UnpublishedInv, AgentUsesDnsmasq, NEW s \in Shells, Command(s)
  PROVE  UnpublishedInv' /\ AgentUsesDnsmasq'
<1>1. UNCHANGED containerVars
  BY DEF Command, Up, Restart, Interrupt
<1>2. AgentUsesDnsmasq' /\ sharedResolv' = sharedResolv
  BY <1>1 DEF AgentUsesDnsmasq
<1>3. ASSUME ~sharedResolv PROVE \A t \in Shells : AgentGated(cli'[t])
  <2>1. ~AgentUp /\ \A t \in Shells : AgentGated(cli[t])
    BY <1>3 DEF UnpublishedInv, UnpublishedContainers
  <2>2. cli \in [Shells -> Seq(Step)]
    BY DEF TypeOK, StackTypeOK
  <2>3. CASE Up(s)
    BY <2>1, <2>2, <2>3, ProgramsGated DEF Up, Begin
  <2>4. CASE Restart(s)
    <3>1. Running("agent") = FALSE
      BY <2>1 DEF Running, AgentUp
    <3> QED BY <2>1, <2>2, <2>4, <3>1, ProgramsGated DEF Restart, Begin
  <2>5. CASE Interrupt(s)
    BY <2>1, <2>2, <2>5, ProgramsGated DEF Interrupt, Abandon
  <2> QED BY <2>3, <2>4, <2>5 DEF Command
<1> QED BY <1>1, <1>2, <1>3 DEF UnpublishedInv, UnpublishedContainers, AgentUp, AgentGated

(* Whatever faults, shells and timing: an agent past the first phase of    *)
(* app-init names wg-client's dnsmasq, although app-init copies the        *)
(* published resolv.conf only `if [ -f ]'.                                 *)
THEOREM AgentResolves == SafetySpec => []AgentUsesDnsmasq
<1>1. Init => UnpublishedInv /\ AgentUsesDnsmasq
  BY ProgramsGated
     DEF Init, WgInit, AgentInit, UnpublishedInv, UnpublishedContainers,
         AgentUsesDnsmasq, AgentUp
<1>2. TypeOK /\ UnpublishedInv /\ AgentUsesDnsmasq /\ [Next]_vars
        => UnpublishedInv' /\ AgentUsesDnsmasq'
  <2> SUFFICES ASSUME TypeOK, UnpublishedInv, AgentUsesDnsmasq, [Next]_vars
               PROVE  UnpublishedInv' /\ AgentUsesDnsmasq'
    OBVIOUS
  <2>0. ASSUME UNCHANGED <<wgVars, agentVars, cliVars>>, sharedResolv' = sharedResolv
        PROVE  UnpublishedInv' /\ AgentUsesDnsmasq'
    BY <2>0
       DEF UnpublishedInv, UnpublishedContainers, AgentUsesDnsmasq, AgentUp, AgentGated
  <2>1. CASE Edit
    BY <2>0, <2>1 DEF Edit, EditSettings
  <2>2. CASE Proxy
    <3>1. sharedResolv' = sharedResolv
      BY <2>2 DEF Proxy, ProxyStep, ProxyWork, BgClean, BgPublishCa, GenerateKeys,
         AddonRead, AddonLoadFails, WritePlaceholdersEnv, WriteDnsConf,
         WriteExtraHosts, ProxyCrash, ProxyProbePasses, ProxyProbesFail
    <3> QED BY <2>0, <2>2, <3>1 DEF Proxy
  <2>3. CASE Wg
    BY <2>3, WgUnpublished
       DEF Wg, UnpublishedInv, UnpublishedContainers, AgentGated
  <2>4. CASE Agent
    BY <2>4
       DEF Agent, AgentWork, AgentAdoptResolv, AgentInstallCa, AgentCaMissing,
           AgentSourceEnv, AgentExit, AgentStop, AgentUp, UnpublishedInv,
           UnpublishedContainers, AgentUsesDnsmasq, AgentGated
  <2>5. CASE Down
    BY <2>5
       DEF Down, AgentStop, UnpublishedInv, UnpublishedContainers, AgentUsesDnsmasq,
           AgentUp, AgentGated
  <2>6. ASSUME NEW s \in Shells, StepDone(s) PROVE UnpublishedInv' /\ AgentUsesDnsmasq'
    BY <2>6, StepUnpublished
  <2>7. ASSUME NEW s \in Shells, Command(s) PROVE UnpublishedInv' /\ AgentUsesDnsmasq'
    BY <2>7, CommandUnpublished
  <2>8. CASE UNCHANGED vars
    BY <2>0, <2>8 DEF vars
  <2> QED BY <2>1, <2>2, <2>3, <2>4, <2>5, <2>6, <2>7, <2>8 DEF Next
<1> QED BY <1>1, <1>2, TypeCorrect, PTL DEF SafetySpec

(***************************************************************************)
(* A healthy proxy has loaded its settings                                 *)
(***************************************************************************)

(* HealthyMeansLoaded, strengthened: until the cleanup is over load() has  *)
(* not begun and no probe has passed; after it, a dns.conf that exists is  *)
(* the one this load() wrote.                                              *)
LoadedInv ==
  /\ HealthyMeansLoaded
  /\ bgPc = "clean" => proxyPc = "boot" /\ proxyHealth # "healthy"
  /\ ProxyUp /\ bgPc # "clean" /\ dnsConf # Absent =>
       dnsConf = addonVersion /\ proxyPc \in {"hosts", "serving"}

LEMMA ProxyLoaded ==
  ASSUME CleanupRaces = FALSE, LoadedInv, Proxy
  PROVE  LoadedInv'
<1> USE DEF LoadedInv, HealthyMeansLoaded, ProxyUp, CleanupDone
<1>1. CASE BgClean             BY <1>1 DEF BgClean
<1>2. CASE BgPublishCa         BY <1>2 DEF BgPublishCa
<1>3. CASE GenerateKeys        BY <1>3 DEF GenerateKeys
<1>4. CASE AddonRead           BY <1>4 DEF AddonRead
<1>5. CASE WritePlaceholdersEnv BY <1>5 DEF WritePlaceholdersEnv
<1>6. CASE WriteDnsConf        BY <1>6 DEF WriteDnsConf, SidecarWrite
<1>7. CASE WriteExtraHosts     BY <1>7 DEF WriteExtraHosts
<1>8. CASE AddonLoadFails      BY <1>8 DEF AddonLoadFails, ProxyStop
<1>9. CASE ProxyCrash          BY <1>9 DEF ProxyCrash, ProxyStop
<1>10. CASE ProxyProbePasses   BY <1>10 DEF ProxyProbePasses, ProxyTest
<1>11. CASE ProxyProbesFail    BY <1>11 DEF ProxyProbesFail
<1> QED
  BY <1>1, <1>2, <1>3, <1>4, <1>5, <1>6, <1>7, <1>8, <1>9, <1>10, <1>11
     DEF Proxy, ProxyStep, ProxyWork

LEMMA LoadedInvariant ==
  ASSUME CleanupRaces = FALSE
  PROVE  SafetySpec => []LoadedInv
<1>1. Init => LoadedInv
  BY DEF Init, VolumesInit, ProxyInit, LoadedInv, HealthyMeansLoaded, ProxyUp
<1>2. LoadedInv /\ [Next]_vars => LoadedInv'
  <2> SUFFICES ASSUME LoadedInv, [Next]_vars PROVE LoadedInv'
    OBVIOUS
  <2>0. ASSUME UNCHANGED <<proxyVars, dnsConf>> PROVE LoadedInv'
    BY <2>0 DEF LoadedInv, HealthyMeansLoaded, ProxyUp
  <2>a. ASSUME NEW c \in Service, StartContainer(c) PROVE LoadedInv'
    <3>1. CASE c = "mitmproxy"
      BY <2>a, <3>1 DEF StartContainer, ProxyStart, LoadedInv, HealthyMeansLoaded
    <3>2. CASE c # "mitmproxy"
      BY <2>0, <2>a, <3>2 DEF StartContainer
    <3> QED BY <3>1, <3>2
  <2>1. CASE Edit
    BY <2>0, <2>1 DEF Edit, EditSettings
  <2>2. CASE Proxy
    BY <2>2, ProxyLoaded
  <2>3. CASE Wg
    <3>1. UNCHANGED dnsConf
      BY <2>3 DEF Wg, WgWork, WgProbe, WgLeave, WgRetry, WgTunnel, WgFirewall, WgDnsmasq,
         WgResolv, WgHosts, WgTouchReady, WgSupervise, DnsmasqCrash, WgProbePasses,
         WgProbesFail, WgTunnelFails, WgResolvFails, WgPolicyRestart,
         WgFirewallFails, WgCrash
    <3> QED BY <2>0, <2>3, <3>1 DEF Wg
  <2>4. CASE Agent
    BY <2>0, <2>4 DEF Agent, AgentWork, AgentAdoptResolv, AgentInstallCa,
       AgentCaMissing, AgentSourceEnv, AgentExit
  <2>5. CASE Down
    BY <2>5 DEF Down, ProxyStop, LoadedInv, HealthyMeansLoaded, ProxyUp
  <2>6. ASSUME NEW s \in Shells, StepDone(s) PROVE LoadedInv'
    <3>1. CASE StepRestart(s) \/ StepStart(s)
      <4>1. UNCHANGED containerVars \/ \E c \in Service : StartContainer(c)
        BY <3>1 DEF StepRestart, StepStart
      <4> QED BY <2>0, <2>a, <4>1
    <3>2. CASE StepHealthy(s) \/ StepGateFails(s) \/ StepWaitFails(s) \/ StepStartFails(s)
      BY <2>0, <3>2 DEF StepHealthy, StepGateFails, StepWaitFails, StepStartFails
    <3> QED BY <2>6, <3>1, <3>2 DEF StepDone
  <2>7. ASSUME NEW s \in Shells, Command(s) PROVE LoadedInv'
    BY <2>0, <2>7 DEF Command, Up, Restart, Interrupt
  <2>8. CASE UNCHANGED vars
    BY <2>0, <2>8 DEF vars
  <2> QED BY <2>1, <2>2, <2>3, <2>4, <2>5, <2>6, <2>7, <2>8 DEF Next
<1> QED BY <1>1, <1>2, PTL DEF SafetySpec

(* If the background `rm' of the entrypoint is over before the addon loads *)
(* and before the first probe, a proxy that Docker calls healthy serves    *)
(* the settings its dns.conf was written from, whatever an earlier start   *)
(* left in the volume, whatever write failed (compose-proxy.yml).          *)
THEOREM HealthyLoaded ==
  ASSUME CleanupRaces = FALSE
  PROVE  SafetySpec => []HealthyMeansLoaded
<1>1. LoadedInv => HealthyMeansLoaded
  BY DEF LoadedInv
<1> QED BY <1>1, LoadedInvariant, PTL
=============================================================================
