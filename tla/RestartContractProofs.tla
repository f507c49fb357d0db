------------------------ MODULE RestartContractProofs ------------------------
(***************************************************************************)
(* snadcat restart implements RestartContract, for any shells, commands    *)
(* and faults, and any number of edits, given that the proxy's background  *)
(* clean-up does not lose its race.                                        *)
(***************************************************************************)
EXTENDS SandboxStackProofs

USE DEF volumeVars, proxyVars, wgVars, agentVars, cliVars, containerVars

RestartProxy == <<"restart", "mitmproxy">>
AwaitProxy   == <<"wait", "mitmproxy">>

(* What is left of a restart's steps: the proxy is restarted first, if it  *)
(* still is to be, then waited for once, and the last step is about        *)
(* another service.                                                        *)
WellFormed(steps) ==
  /\ \A i \in 1..Len(steps) : steps[i] = RestartProxy => i = 1 /\ Awaits(steps)
  /\ \A i, j \in 1..Len(steps) :
       steps[i] = AwaitProxy /\ steps[j] = AwaitProxy => i = j
  /\ steps[Len(steps)][2] # "mitmproxy"

(* Both variants of restart begin well-formed, with the proxy's restart.   *)
LEMMA RestartWellFormed ==
  ASSUME NEW b \in BOOLEAN
  PROVE  /\ RestartSteps(b) # << >>
         /\ Head(RestartSteps(b)) = RestartProxy
         /\ WellFormed(RestartSteps(b))
<1>1. CASE b = TRUE
  <2> DEFINE steps == RestartSteps(b)
  <2>1. /\ Len(steps) = 9
        /\ \A i \in 1..9 : steps[i] = RestartProxy => i = 1
        /\ \A i \in 1..9 : steps[i] = AwaitProxy => i = 3
        /\ steps[3] = AwaitProxy
        /\ steps[9] = <<"restart", "agent">>
        /\ steps[1] = RestartProxy
    BY <1>1 DEF RestartSteps, RestartProxy, AwaitProxy
  <2>2. Awaits(steps)
    BY <2>1 DEF Awaits, AwaitProxy
  <2>3. steps # << >> /\ Head(steps) = RestartProxy
    BY <1>1 DEF RestartSteps, RestartProxy
  <2> QED BY <2>1, <2>2, <2>3 DEF WellFormed
<1>2. CASE b = FALSE
  <2> DEFINE steps == RestartSteps(b)
  <2>1. /\ Len(steps) = 4
        /\ \A i \in 1..4 : steps[i] = RestartProxy => i = 1
        /\ \A i \in 1..4 : steps[i] = AwaitProxy => i = 3
        /\ steps[3] = AwaitProxy
        /\ steps[4] = <<"restart", "wg-client">>
        /\ steps[1] = RestartProxy
    BY <1>2 DEF RestartSteps, RestartProxy, AwaitProxy
  <2>2. Awaits(steps)
    BY <2>1 DEF Awaits, AwaitProxy
  <2>3. steps # << >> /\ Head(steps) = RestartProxy
    BY <1>2 DEF RestartSteps, RestartProxy
  <2> QED BY <2>1, <2>2, <2>3 DEF WellFormed
<1> QED BY <1>1, <1>2

(* Taking the first step off keeps the rest well-formed; the wait for the  *)
(* proxy is in the rest unless it was that step.                           *)
LEMMA TailWellFormed ==
  ASSUME NEW steps \in Seq(Step), steps # << >>, WellFormed(steps)
  PROVE  /\ Len(steps) = 1 => ~Awaits(steps) /\ Head(steps)[2] # "mitmproxy"
         /\ Len(steps) # 1 =>
              /\ Tail(steps) # << >>
              /\ WellFormed(Tail(steps))
              /\ Head(Tail(steps)) # RestartProxy
              /\ Awaits(Tail(steps)) <=> Awaits(steps) /\ Head(steps) # AwaitProxy
         /\ Head(steps) = RestartProxy => Awaits(steps)
<1> DEFINE n    == Len(steps)
           rest == Tail(steps)
<1>1. /\ n \in Nat \ {0}
      /\ rest \in Seq(Step)
      /\ Len(rest) = n - 1
      /\ \A i \in 1..(n - 1) : rest[i] = steps[i + 1]
      /\ Head(steps) = steps[1]
  OBVIOUS
<1>2. Head(steps) = RestartProxy => Awaits(steps)
  BY <1>1 DEF WellFormed
<1>3. ASSUME n = 1
      PROVE  ~Awaits(steps) /\ Head(steps)[2] # "mitmproxy"
  BY <1>1, <1>3 DEF WellFormed, Awaits
<1>4. ASSUME n # 1
      PROVE  /\ rest # << >>
             /\ WellFormed(rest)
             /\ Head(rest) # RestartProxy
             /\ Awaits(rest) <=> Awaits(steps) /\ Head(steps) # AwaitProxy
  <2>1. rest # << >> /\ Head(rest) = rest[1]
    BY <1>1, <1>4
  <2>2. \A i \in 1..(n - 1) : rest[i] # RestartProxy
    BY <1>1 DEF WellFormed
  <2>3. \A i, j \in 1..(n - 1) : rest[i] = AwaitProxy /\ rest[j] = AwaitProxy => i = j
    <3> SUFFICES ASSUME NEW i \in 1..(n - 1), NEW j \in 1..(n - 1),
                        rest[i] = AwaitProxy, rest[j] = AwaitProxy
                 PROVE  i = j
      OBVIOUS
    <3>1. i + 1 = j + 1
      BY <1>1 DEF WellFormed
    <3> QED BY <3>1
  <2>4. rest[Len(rest)] = steps[n]
    BY <1>1, <1>4
  <2>5. WellFormed(rest)
    BY <1>1, <2>2, <2>3, <2>4 DEF WellFormed
  <2>6. ASSUME Awaits(rest) PROVE Awaits(steps) /\ Head(steps) # AwaitProxy
    <3>1. PICK i \in 1..(n - 1) : rest[i] = AwaitProxy
      BY <1>1, <2>6 DEF Awaits, AwaitProxy
    <3>2. i + 1 \in 1..n /\ steps[i + 1] = AwaitProxy /\ i + 1 # 1
      BY <1>1, <3>1
    <3>3. 1 \in 1..n
      BY <1>1
    <3>4. steps[1] # AwaitProxy
      BY <3>2, <3>3 DEF WellFormed
    <3> QED BY <1>1, <3>2, <3>4 DEF Awaits, AwaitProxy
  <2>7. ASSUME Awaits(steps), Head(steps) # AwaitProxy PROVE Awaits(rest)
    <3>1. PICK i \in 1..n : steps[i] = AwaitProxy
      BY <2>7 DEF Awaits, AwaitProxy
    <3>2. i # 1
      BY <1>1, <2>7, <3>1
    <3>3. i - 1 \in 1..(n - 1) /\ rest[i - 1] = AwaitProxy
      BY <1>1, <3>1, <3>2
    <3> QED BY <1>1, <3>3 DEF Awaits, AwaitProxy
  <2> QED BY <1>1, <1>4, <2>1, <2>2, <2>5, <2>6, <2>7
<1> QED BY <1>2, <1>3, <1>4

(***************************************************************************)
(* The invariant                                                           *)
(***************************************************************************)

(* What is left of a restart, and that a proxy which has been restarted    *)
(* for it has read settings that are not older.                            *)
Underway(steps, version) ==
  /\ steps # << >>
  /\ WellFormed(steps)
  /\ version <= settings
  /\ Head(steps) # RestartProxy /\ Awaits(steps) /\ addonVersion # Absent =>
       addonVersion >= version

RestartInv == \A s \in Shells : asked[s] # Absent => Underway(cli[s], asked[s])

(* What any step does to the settings and to what load() has read.         *)
Reads ==
  /\ settings' >= settings
  /\ addonVersion' \in {addonVersion, Absent, settings}

(* No container edits the settings.                                        *)
LEMMA QuietReads ==
  ASSUME Proxy \/ Wg \/ Agent \/ Down
  PROVE  settings' = settings /\ addonVersion' \in {addonVersion, Absent, settings}
<1>1. CASE Proxy
  BY <1>1 DEF Proxy, ProxyStep, ProxyWork, BgClean, BgPublishCa, GenerateKeys,
     AddonRead, WritePlaceholdersEnv, WriteDnsConf, WriteExtraHosts, AddonLoadFails,
     ProxyCrash, ProxyStop, ProxyProbePasses, ProxyProbesFail
<1>2. CASE Wg
  BY <1>2 DEF Wg, WgWork, WgProbe, WgLeave, WgRetry, WgTunnel, WgFirewall, WgDnsmasq,
     WgResolv, WgHosts, WgTouchReady, WgSupervise, DnsmasqCrash, WgProbePasses,
     WgProbesFail, WgTunnelFails, WgResolvFails, WgPolicyRestart,
     WgFirewallFails, WgCrash
<1>3. CASE Agent
  BY <1>3 DEF Agent, AgentWork, AgentAdoptResolv, AgentInstallCa,
     AgentCaMissing, AgentSourceEnv, AgentExit
<1>4. CASE Down
  BY <1>4 DEF Down, ProxyStop
<1> QED BY <1>1, <1>2, <1>3, <1>4

(* A shell whose command takes no step keeps its part of the invariant.    *)
LEMMA OthersUnderway ==
  ASSUME TypeOK, TypeOK', RestartInv, Reads, NEW s \in Shells,
         asked'[s] = asked[s], cli'[s] = cli[s], asked[s] # Absent
  PROVE  Underway(cli[s], asked[s])'
<1>1. Underway(cli[s], asked[s])
  BY DEF RestartInv
<1>2. /\ {settings, settings'} \subseteq Int
      /\ asked[s] \in Int
  BY DEF TypeOK, VolumesTypeOK, StackTypeOK, FileVersion, Version, Absent
<1>3. {addonVersion, addonVersion'} \subseteq Int
  BY DEF TypeOK, ProxyTypeOK, FileVersion, Version, Absent
<1> QED BY <1>1, <1>2, <1>3 DEF Underway, Reads

(* Starting a container: load() begins anew, or goes on undisturbed.       *)
LEMMA StartReads ==
  ASSUME TypeOK, NEW c \in Service, StartContainer(c)
  PROVE  /\ settings' = settings
         /\ addonVersion' \in {addonVersion, Absent}
         /\ c = "mitmproxy" => addonVersion' = Absent /\ proxyHealth' = "starting"
         /\ c # "mitmproxy" => UNCHANGED <<addonVersion, proxyHealth, dnsConf>>
<1>1. CASE c = "mitmproxy"
  BY <1>1 DEF StartContainer, ProxyStart
<1>2. CASE c # "mitmproxy"
  BY <1>2 DEF StartContainer
<1> QED BY <1>1, <1>2

(* A step of a command succeeds, or fails and changes no container.        *)
LEMMA StepReads ==
  ASSUME TypeOK, NEW s \in Shells, StepDone(s)
  PROVE  /\ ~Idle(s)
         /\ settings' = settings
         /\ addonVersion' \in {addonVersion, Absent}
         /\ Advance(s) \/ (Abandon(s) /\ UNCHANGED containerVars)
<1>1. CASE StepRestart(s)
  BY <1>1, StartReads DEF StepRestart, Doing
<1>2. CASE StepStart(s)
  BY <1>2, StartReads DEF StepStart, Doing
<1>3. CASE StepHealthy(s) \/ StepGateFails(s) \/ StepWaitFails(s) \/ StepStartFails(s)
  BY <1>3 DEF StepHealthy, StepGateFails, StepWaitFails, StepStartFails, Doing
<1> QED BY <1>1, <1>2, <1>3 DEF StepDone

(* The first step of a restart takes the proxy down, whatever it served.   *)
LEMMA FirstStep ==
  ASSUME TypeOK, NEW s \in Shells, StepDone(s), Head(cli[s]) = RestartProxy, Advance(s)
  PROVE  addonVersion' = Absent /\ proxyHealth' = "starting"
<1>1. \A verb, c : Doing(s, verb, c) => verb = "restart" /\ c = "mitmproxy"
  BY DEF Doing, RestartProxy
<1>2. CASE StepRestart(s)
  BY <1>1, <1>2, StartReads DEF StepRestart
<1>3. ~(StepStart(s) \/ StepHealthy(s) \/ StepGateFails(s) \/ StepWaitFails(s))
  BY <1>1 DEF StepStart, StepHealthy, StepGateFails, StepWaitFails
<1>4. ~StepStartFails(s)
  BY <1>1 DEF StepStartFails
<1> QED BY <1>2, <1>3, <1>4 DEF StepDone

(* The command that takes a step keeps its own part of the invariant.      *)
LEMMA StepUnderway ==
  ASSUME TypeOK, TypeOK', RestartInv, NEW s \in Shells, StepDone(s), asked'[s] # Absent
  PROVE  Underway(cli[s], asked[s])'
<1>1. /\ cli[s] \in Seq(Step) /\ cli[s] # << >>
      /\ cli \in [Shells -> Seq(Step)] /\ asked \in [Shells -> FileVersion]
  BY StepReads DEF Idle, TypeOK, StackTypeOK
<1>2. Advance(s)
  BY <1>1, StepReads DEF Abandon
<1>3. /\ asked'[s] = asked[s] /\ asked[s] # Absent
      /\ cli'[s] = Tail(cli[s])
      /\ Len(cli[s]) # 1
  BY <1>1, <1>2 DEF Advance
<1>4. Underway(cli[s], asked[s])
  BY <1>3 DEF RestartInv
<1>5. /\ Tail(cli[s]) # << >>
      /\ WellFormed(Tail(cli[s]))
      /\ Awaits(Tail(cli[s])) => Awaits(cli[s])
  BY <1>1, <1>3, <1>4, TailWellFormed DEF Underway
<1>6. settings' = settings /\ addonVersion' \in {addonVersion, Absent}
  BY StepReads
<1>7. ASSUME Awaits(cli'[s]), addonVersion' # Absent PROVE addonVersion' >= asked'[s]
  <2>1. Head(cli[s]) # RestartProxy
    BY <1>2, <1>7, FirstStep
  <2> QED BY <1>3, <1>4, <1>5, <1>6, <1>7, <2>1 DEF Underway
<1> QED BY <1>3, <1>4, <1>5, <1>6, <1>7 DEF Underway

LEMMA RestartInvariant == SafetySpec => []RestartInv
<1>1. Init => RestartInv
  BY DEF Init, RestartInv
<1>2. TypeOK /\ TypeOK' /\ RestartInv /\ [Next]_vars => RestartInv'
  <2> SUFFICES ASSUME TypeOK, TypeOK', RestartInv, [Next]_vars PROVE RestartInv'
    OBVIOUS
  <2>0. ASSUME Reads, UNCHANGED <<cli, asked>> PROVE RestartInv'
    BY <2>0, OthersUnderway DEF RestartInv
  <2>t. settings \in Int /\ settings' \in Int
    BY DEF TypeOK, VolumesTypeOK, Version
  <2>1. CASE Edit
    BY <2>0, <2>1, <2>t DEF Edit, EditSettings, Reads
  <2>2. CASE Proxy \/ Wg \/ Agent \/ Down
    <3>1. UNCHANGED <<cli, asked>>
      BY <2>2 DEF Proxy, Wg, Agent, Down
    <3>2. Reads
      BY <2>2, <2>t, QuietReads DEF Reads
    <3> QED BY <2>0, <3>1, <3>2
  <2>3. ASSUME NEW s \in Shells, StepDone(s) PROVE RestartInv'
    <3>1. Reads
      BY <2>3, <2>t, StepReads DEF Reads
    <3>2. \A r \in Shells \ {s} : asked'[r] = asked[r] /\ cli'[r] = cli[r]
      <4>1. Advance(s) \/ Abandon(s)
        BY <2>3, StepReads
      <4> QED BY <4>1 DEF Advance, Abandon, TypeOK, StackTypeOK
    <3>3. \A r \in Shells \ {s} : asked'[r] # Absent => Underway(cli[r], asked[r])'
      BY <3>1, <3>2, OthersUnderway
    <3>4. asked'[s] # Absent => Underway(cli[s], asked[s])'
      BY <2>3, StepUnderway
    <3> QED BY <3>3, <3>4 DEF RestartInv
  <2>4. ASSUME NEW s \in Shells, Command(s) PROVE RestartInv'
    <3>0. Reads
      BY <2>4, <2>t DEF Command, Up, Restart, Interrupt, Reads
    <3>1. \A r \in Shells \ {s} : asked'[r] = asked[r] /\ cli'[r] = cli[r]
      BY <2>4 DEF Command, Up, Restart, Interrupt, Begin, Abandon, TypeOK, StackTypeOK
    <3>2. \A r \in Shells \ {s} : asked'[r] # Absent => Underway(cli[r], asked[r])'
      BY <3>0, <3>1, OthersUnderway
    <3>3. CASE Up(s) \/ Interrupt(s)
      <4>1. asked'[s] = Absent
        BY <3>3 DEF Up, Interrupt, Begin, Abandon, TypeOK, StackTypeOK
      <4> QED BY <3>2, <4>1 DEF RestartInv
    <3>4. CASE Restart(s)
      <4>1. PICK b \in BOOLEAN : Begin(s, RestartSteps(b), settings)
        BY <3>4 DEF Restart, Running, AgentUp
      <4>2. asked'[s] = settings /\ cli'[s] = RestartSteps(b) /\ settings' = settings
        BY <3>4, <4>1 DEF Begin, Restart, TypeOK, StackTypeOK
      <4>3. Underway(cli[s], asked[s])'
        BY <2>t, <4>2, RestartWellFormed DEF Underway
      <4> QED BY <3>2, <4>3 DEF RestartInv
    <3> QED BY <2>4, <3>3, <3>4 DEF Command
  <2>5. CASE UNCHANGED vars
    BY <2>0, <2>5, <2>t DEF vars, Reads
  <2> QED BY <2>1, <2>2, <2>3, <2>4, <2>5 DEF Next
<1> QED BY <1>1, <1>2, TypeCorrect, PTL DEF SafetySpec

(***************************************************************************)
(* Every step of the stack is a step of the contract                       *)
(***************************************************************************)

(* The phase of a shell is a function of what it has still to do.          *)
LEMMA PhaseKept ==
  ASSUME NEW s \in Shells, cli'[s] = cli[s], asked'[s] = asked[s]
  PROVE  RestartPhase(s)' = RestartPhase(s)
BY DEF RestartPhase, Doing, Idle, Awaits

LEMMA PhasesKept ==
  ASSUME UNCHANGED <<cli, asked>>
  PROVE  UNCHANGED RestartPhases
BY PhaseKept DEF RestartPhases

(* When one shell moves, only its phase changes.                           *)
LEMMA OneMoves ==
  ASSUME NEW s \in Shells,
         \A r \in Shells \ {s} : asked'[r] = asked[r] /\ cli'[r] = cli[r]
  PROVE  RestartPhases' = [RestartPhases EXCEPT ![s] = RestartPhase(s)']
<1>1. \A r \in Shells \ {s} : RestartPhase(r)' = RestartPhase(r)
  BY PhaseKept
<1> QED BY <1>1 DEF RestartPhases

(* A step that touches no command and makes no setting older is the        *)
(* environment's.                                                          *)
LEMMA IsEnvironment ==
  ASSUME TypeOK, TypeOK', settings' >= settings,
         UNCHANGED <<RestartPhases, asked, promised>>
  PROVE  Contract!Environment
<1>1. settings' \in Version /\ Serving' \in Version \cup {Absent}
  BY DEF TypeOK, VolumesTypeOK, FileVersion, Serving
<1> QED BY <1>1 DEF Contract!Environment

(* A command abandoned in the middle of a restart fails it, and otherwise  *)
(* goes unnoticed.                                                         *)
LEMMA AbandonSimulated ==
  ASSUME TypeOK, TypeOK', NEW s \in Shells, Abandon(s), UNCHANGED containerVars
  PROVE  Contract!Environment \/ Contract!Fail(s)
<1>1. /\ \A r \in Shells \ {s} : asked'[r] = asked[r] /\ cli'[r] = cli[r]
      /\ asked'[s] = Absent
      /\ asked' = [asked EXCEPT ![s] = Absent]
      /\ asked \in [Shells -> FileVersion]
  BY DEF Abandon, TypeOK, StackTypeOK
<1>2. RestartPhase(s)' = "idle"
  BY <1>1 DEF RestartPhase
<1>3. RestartPhases' = [RestartPhases EXCEPT ![s] = "idle"]
  BY <1>1, <1>2, OneMoves
<1>4. UNCHANGED <<settings, Serving, promised>>
  BY DEF Abandon, Serving
<1>5. CASE asked[s] = Absent
  <2>1. asked' = asked
    BY <1>1, <1>5
  <2>2. RestartPhases' = RestartPhases
    BY <1>3, <1>5 DEF RestartPhases, RestartPhase
  <2>3. settings' >= settings
    BY <1>4 DEF TypeOK, VolumesTypeOK, Version
  <2> QED BY <1>4, <2>1, <2>2, <2>3, IsEnvironment
<1>6. CASE asked[s] # Absent
  <2>1. RestartPhases[s] \in {"asked", "fresh", "seen"}
    BY <1>6 DEF RestartPhases, RestartPhase
  <2> QED BY <1>1, <1>3, <1>4, <2>1 DEF Contract!Fail, Contract!Move, Contract!Phase
<1> QED BY <1>5, <1>6

(* A step that is not about the proxy leaves alone what it serves.         *)
LEMMA OtherServiceStep ==
  ASSUME NEW s \in Shells, StepDone(s), Advance(s), Head(cli[s])[2] # "mitmproxy"
  PROVE  UNCHANGED <<settings, Serving>>
<1>1. \A verb, c : Doing(s, verb, c) => c # "mitmproxy"
  BY DEF Doing
<1>2. ASSUME UNCHANGED <<settings, proxyHealth, dnsConf>> PROVE UNCHANGED <<settings, Serving>>
  BY <1>2 DEF Serving
<1>3. \A c \in Service : StartContainer(c) /\ c # "mitmproxy" =>
        UNCHANGED <<settings, proxyHealth, dnsConf>>
  BY DEF StartContainer
<1>4. CASE StepRestart(s)
  BY <1>1, <1>2, <1>3, <1>4 DEF StepRestart
<1>5. CASE StepStart(s)
  BY <1>1, <1>2, <1>3, <1>5 DEF StepStart
<1>6. CASE StepHealthy(s)
  BY <1>2, <1>6 DEF StepHealthy
<1>7. CASE StepGateFails(s) \/ StepWaitFails(s) \/ StepStartFails(s)
  BY <1>2, <1>7 DEF StepGateFails, StepWaitFails, StepStartFails
<1> QED BY <1>4, <1>5, <1>6, <1>7 DEF StepDone

(* The wait for the proxy ends when what it serves is not older than what  *)
(* the restart is to activate.                                             *)
LEMMA AwaitedServes ==
  ASSUME TypeOK, LoadedInv, NEW s \in Shells, StepDone(s), Advance(s), cli'[s] # << >>,
         Underway(cli[s], asked[s]), asked[s] # Absent, Head(cli[s]) = AwaitProxy
  PROVE  /\ Serving # Absent /\ Serving >= asked[s]
         /\ UNCHANGED <<settings, Serving>>
<1>1. \A verb, c : Doing(s, verb, c) => verb = "wait" /\ c = "mitmproxy"
  BY DEF Doing, AwaitProxy
<1>2. StepHealthy(s)
  <2>1. ~(StepRestart(s) \/ StepStart(s) \/ StepGateFails(s) \/ StepStartFails(s))
    BY <1>1 DEF StepRestart, StepStart, StepGateFails, StepStartFails
  <2>2. ~StepWaitFails(s)
    BY DEF StepWaitFails, Abandon, TypeOK, StackTypeOK
  <2> QED BY <2>1, <2>2 DEF StepDone
<1>3. proxyHealth = "healthy" /\ UNCHANGED containerVars
  BY <1>1, <1>2 DEF StepHealthy, Health
<1>4. dnsConf = addonVersion /\ addonVersion # Absent
  BY <1>3 DEF LoadedInv, HealthyMeansLoaded
<1>5. cli[s] \in Seq(Step) /\ cli[s] # << >>
  BY DEF TypeOK, StackTypeOK, Underway
<1>6. Awaits(cli[s]) /\ Head(cli[s]) # RestartProxy
  <2>1. Len(cli[s]) \in Nat \ {0} /\ cli[s][1] = AwaitProxy
    BY <1>5
  <2> QED BY <2>1 DEF Awaits, AwaitProxy, RestartProxy
<1>7. addonVersion >= asked[s]
  BY <1>4, <1>6 DEF Underway
<1> QED BY <1>3, <1>4, <1>7 DEF Serving

(* A step that succeeds outside a restart is the environment's.            *)
LEMMA OutsideSimulated ==
  ASSUME TypeOK, TypeOK', NEW s \in Shells, StepDone(s), Advance(s), asked[s] = Absent
  PROVE  Contract!Environment
<1>1. /\ \A r \in Shells \ {s} : asked'[r] = asked[r] /\ cli'[r] = cli[r]
      /\ UNCHANGED <<asked, promised>>
  BY DEF Advance, TypeOK, StackTypeOK
<1>2. RestartPhase(s) = "idle" /\ RestartPhase(s)' = "idle"
  BY <1>1 DEF RestartPhase
<1>3. RestartPhases' = RestartPhases
  BY <1>1, <1>2, OneMoves DEF RestartPhases
<1>4. settings' >= settings
  BY StepReads DEF TypeOK, VolumesTypeOK, Version
<1> QED BY <1>1, <1>3, <1>4, IsEnvironment

(* The first step of a restart refreshes, the wait for the proxy sees, the *)
(* last step reports, and the others are the environment's.                *)
LEMMA AdvanceSimulated ==
  ASSUME TypeOK, TypeOK', RestartInv, LoadedInv, NEW s \in Shells, StepDone(s),
         Advance(s), asked[s] # Absent
  PROVE  \/ Contract!Environment
         \/ Contract!Refresh(s) \/ Contract!See(s) \/ Contract!Report(s)
<1> DEFINE steps == cli[s]
<1>1. /\ steps \in Seq(Step) /\ steps # << >>
      /\ cli \in [Shells -> Seq(Step)] /\ asked \in [Shells -> FileVersion]
  BY StepReads DEF Idle, TypeOK, StackTypeOK
<1>2. Underway(steps, asked[s])
  BY DEF RestartInv
<1>3. \A r \in Shells \ {s} : asked'[r] = asked[r] /\ cli'[r] = cli[r]
  BY <1>1 DEF Advance
<1>4. RestartPhases' = [RestartPhases EXCEPT ![s] = RestartPhase(s)']
  BY <1>3, OneMoves
<1>5. settings' = settings /\ settings' >= settings
  BY StepReads DEF TypeOK, VolumesTypeOK, Version
<1>6. RestartPhases[s] = RestartPhase(s)
  BY DEF RestartPhases
<1>7. \A verb, c : Doing(s, verb, c) <=> Head(steps) = <<verb, c>>
  BY <1>1 DEF Doing, Idle
<1>8. CASE Len(steps) = 1
  <2>1. ~Awaits(steps) /\ Head(steps)[2] # "mitmproxy" /\ Head(steps) # RestartProxy
    BY <1>1, <1>2, <1>8, TailWellFormed DEF Underway
  <2>2. RestartPhase(s) = "seen"
    BY <1>7, <2>1 DEF RestartPhase, RestartProxy
  <2>3. UNCHANGED <<settings, Serving>>
    BY <2>1, OtherServiceStep
  <2>4. /\ asked' = [asked EXCEPT ![s] = Absent]
        /\ promised' = IF asked[s] > promised THEN asked[s] ELSE promised
    BY <1>8 DEF Advance
  <2>5. RestartPhase(s)' = "idle"
    BY <1>1, <2>4 DEF RestartPhase
  <2> QED BY <1>4, <1>6, <2>2, <2>3, <2>4, <2>5 DEF Contract!Report, Contract!Move
<1>9. CASE Len(steps) # 1
  <2>1. UNCHANGED <<asked, promised>> /\ cli'[s] = Tail(steps)
    BY <1>1, <1>9 DEF Advance
  <2>2. /\ Tail(steps) # << >>
        /\ Head(Tail(steps)) # RestartProxy
        /\ Awaits(Tail(steps)) <=> Awaits(steps) /\ Head(steps) # AwaitProxy
        /\ Head(steps) = RestartProxy => Awaits(steps)
    BY <1>1, <1>2, <1>9, TailWellFormed DEF Underway
  <2>3. RestartPhase(s)' = IF Awaits(steps) /\ Head(steps) # AwaitProxy THEN "fresh" ELSE "seen"
    <3>1. asked'[s] # Absent
      BY <2>1
    <3>2. ~Doing(s, "restart", "mitmproxy")'
      BY <2>1, <2>2 DEF Doing, RestartProxy
    <3>3. Awaits(cli[s])' <=> Awaits(steps) /\ Head(steps) # AwaitProxy
      BY <2>1, <2>2 DEF Awaits
    <3> QED BY <3>1, <3>2, <3>3 DEF RestartPhase
  <2>4. CASE Head(steps) = RestartProxy
    <3>1. RestartPhase(s) = "asked" /\ RestartPhase(s)' = "fresh"
      BY <1>7, <2>2, <2>3, <2>4 DEF RestartPhase, RestartProxy, AwaitProxy
    <3>2. Serving' = Absent
      BY <2>4, FirstStep DEF Serving
    <3> QED BY <1>4, <1>5, <1>6, <2>1, <3>1, <3>2 DEF Contract!Refresh, Contract!Move
  <2>5. CASE Head(steps) = AwaitProxy
    <3>0. Awaits(steps) /\ Head(steps) # RestartProxy
      <4>1. Len(steps) \in Nat \ {0} /\ steps[1] = AwaitProxy
        BY <1>1, <2>5
      <4> QED BY <2>5, <4>1 DEF Awaits, AwaitProxy, RestartProxy
    <3>1. RestartPhase(s) = "fresh" /\ RestartPhase(s)' = "seen"
      BY <1>7, <2>3, <2>5, <3>0 DEF RestartPhase, RestartProxy
    <3>2. /\ Serving # Absent /\ Serving >= asked[s]
          /\ UNCHANGED <<settings, Serving>>
      BY <1>2, <2>1, <2>2, <2>5, AwaitedServes
    <3> QED BY <1>4, <1>6, <2>1, <3>1, <3>2 DEF Contract!See, Contract!Move
  <2>6. CASE Head(steps) \notin {RestartProxy, AwaitProxy}
    <3>1. RestartPhase(s)' = RestartPhase(s)
      BY <1>7, <2>3, <2>6 DEF RestartPhase, RestartProxy
    <3>2. RestartPhases' = RestartPhases
      BY <1>4, <3>1 DEF RestartPhases
    <3> QED BY <1>5, <2>1, <3>2, IsEnvironment
  <2> QED BY <2>4, <2>5, <2>6
<1> QED BY <1>8, <1>9

(* Beginning a restart asks; beginning anything else goes unnoticed.       *)
LEMMA CommandSimulated ==
  ASSUME TypeOK, TypeOK', RestartInv, NEW s \in Shells, Command(s)
  PROVE  Contract!Environment \/ Contract!Ask(s) \/ Contract!Fail(s)
<1>0. cli \in [Shells -> Seq(Step)] /\ asked \in [Shells -> FileVersion]
  BY DEF TypeOK, StackTypeOK
<1>1. ASSUME Idle(s) PROVE asked[s] = Absent /\ RestartPhases[s] = "idle"
  <2>1. asked[s] = Absent
    BY <1>1 DEF RestartInv, Underway, Idle
  <2> QED BY <2>1 DEF RestartPhases, RestartPhase
<1>2. CASE Up(s)
  <2>1. /\ \A r \in Shells \ {s} : asked'[r] = asked[r] /\ cli'[r] = cli[r]
        /\ asked'[s] = Absent /\ asked[s] = Absent
        /\ asked' = asked
        /\ UNCHANGED <<settings, promised>>
    BY <1>0, <1>1, <1>2 DEF Up, Begin
  <2>2. RestartPhase(s)' = "idle" /\ RestartPhase(s) = "idle"
    BY <2>1 DEF RestartPhase
  <2>3. RestartPhases' = RestartPhases
    BY <2>1, <2>2, OneMoves DEF RestartPhases
  <2>4. settings' >= settings
    BY <2>1 DEF TypeOK, VolumesTypeOK, Version
  <2> QED BY <2>1, <2>3, <2>4, IsEnvironment
<1>3. CASE Restart(s)
  <2>1. PICK b \in BOOLEAN : Begin(s, RestartSteps(b), settings)
    BY <1>3 DEF Restart, Running, AgentUp
  <2>2. /\ \A r \in Shells \ {s} : asked'[r] = asked[r] /\ cli'[r] = cli[r]
        /\ asked' = [asked EXCEPT ![s] = settings]
        /\ cli'[s] = RestartSteps(b)
        /\ UNCHANGED <<settings, Serving, promised>>
    BY <1>0, <1>3, <2>1 DEF Restart, Begin, Serving
  <2>3. asked'[s] # Absent
    BY <1>0, <2>2 DEF TypeOK, VolumesTypeOK, Version, Absent
  <2>4. Doing(s, "restart", "mitmproxy")'
    BY <2>2, RestartWellFormed DEF Doing, Idle, RestartProxy
  <2>5. RestartPhase(s)' = "asked"
    BY <2>3, <2>4 DEF RestartPhase
  <2>6. RestartPhases' = [RestartPhases EXCEPT ![s] = "asked"]
    BY <2>2, <2>5, OneMoves
  <2>7. RestartPhases[s] = "idle"
    BY <1>1, <1>3 DEF Restart
  <2> QED BY <2>2, <2>6, <2>7 DEF Contract!Ask, Contract!Move
<1>4. CASE Interrupt(s)
  BY <1>4, AbandonSimulated DEF Interrupt
<1> QED BY <1>2, <1>3, <1>4 DEF Command

(* "Proxy restarted. New settings are now active." (simple.go): restart    *)
(* implements its contract, whatever the other shells and the faults do,   *)
(* if the entrypoint's clean-up is over before the addon loads.            *)
THEOREM RestartRefines ==
  ASSUME CleanupRaces = FALSE
  PROVE  SafetySpec => RestartHonoured
<1>1. Init => Contract!Init
  <2> SUFFICES ASSUME Init PROVE Contract!Init
    OBVIOUS
  <2>1. settings = 0 /\ Serving = Absent /\ promised = 0 /\ settings \in Version
    BY VersionAssumption DEF Init, VolumesInit, ProxyInit, Serving, Version
  <2>2. RestartPhases = [s \in Shells |-> "idle"]
    BY DEF Init, RestartPhases, RestartPhase
  <2>3. asked = [s \in Shells |-> Absent]
    BY DEF Init
  <2> QED BY <2>1, <2>2, <2>3 DEF Contract!Init
<1>2. TypeOK /\ TypeOK' /\ RestartInv /\ LoadedInv /\ [Next]_vars
        => [Contract!Next]_Contract!vars
  <2> SUFFICES ASSUME TypeOK, TypeOK', RestartInv, LoadedInv, [Next]_vars
               PROVE  [Contract!Next]_Contract!vars
    OBVIOUS
  <2>0. ASSUME UNCHANGED cliVars, settings' >= settings PROVE Contract!Environment
    BY <2>0, PhasesKept, IsEnvironment
  <2>t. settings >= settings
    BY DEF TypeOK, VolumesTypeOK, Version
  <2>1. CASE Edit
    BY <2>0, <2>1 DEF Edit, EditSettings, Contract!Next, TypeOK, VolumesTypeOK, Version
  <2>2. CASE Proxy \/ Wg \/ Agent \/ Down
    <3>1. UNCHANGED cliVars
      BY <2>2 DEF Proxy, Wg, Agent, Down
    <3>2. UNCHANGED settings
      BY <2>2, QuietReads
    <3> QED BY <2>0, <2>t, <3>1, <3>2 DEF Contract!Next
  <2>3. ASSUME NEW s \in Shells, StepDone(s) PROVE Contract!Next
    <3>1. CASE Abandon(s) /\ UNCHANGED containerVars
      BY <3>1, AbandonSimulated DEF Contract!Next
    <3>2. CASE Advance(s) /\ asked[s] = Absent
      BY <2>3, <3>2, OutsideSimulated DEF Contract!Next
    <3>3. CASE Advance(s) /\ asked[s] # Absent
      BY <2>3, <3>3, AdvanceSimulated DEF Contract!Next
    <3> QED BY <2>3, <3>1, <3>2, <3>3, StepReads
  <2>4. ASSUME NEW s \in Shells, Command(s) PROVE Contract!Next
    BY <2>4, CommandSimulated DEF Contract!Next
  <2>5. CASE UNCHANGED vars
    BY <2>5, <2>0, <2>t DEF vars, Contract!Next
  <2> QED BY <2>1, <2>2, <2>3, <2>4, <2>5 DEF Next
<1> QED
  BY <1>1, <1>2, TypeCorrect, RestartInvariant, LoadedInvariant, PTL
     DEF SafetySpec, RestartHonoured, Contract!Spec

=============================================================================
