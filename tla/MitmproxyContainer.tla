------------------------- MODULE MitmproxyContainer -------------------------
(***************************************************************************)
(* The mitmproxy container: the shell entrypoint of compose-proxy.yml, the *)
(* load() hook of the addon with the order in which it writes its sidecar  *)
(* files, and the container's health check.                                *)
(*                                                                         *)
(* In the entrypoint, `chown && rm && (wait; cp; mv) & exec ...', the `&'  *)
(* puts the WHOLE and-list in the background, the rm included; the list    *)
(* and mitmweb then run concurrently.  CleanupRaces = TRUE is that text.   *)
(* CleanupRaces = FALSE is the timing of an unloaded host: the rm, a few   *)
(* milliseconds after the start, is over before mitmweb has imported the   *)
(* addon and before the first probe, which Docker sends after 2 seconds.   *)
(***************************************************************************)
EXTENDS SandboxVolumes

CONSTANT CleanupRaces  (* may mitmweb and the probes overtake the rm?     *)

ASSUME CleanupAssumption == CleanupRaces \in BOOLEAN

VARIABLES
  proxyPc,       (* main process: mitmweb and the addon's load()         *)
  bgPc,          (* the background list of the entrypoint                *)
  addonVersion,  (* version of the settings this start's load() has read *)
  proxyHealth    (* Docker's health status of the container              *)

proxyVars == <<proxyPc, bgPc, addonVersion, proxyHealth>>

ProxyTypeOK ==
  /\ proxyPc \in {"down", "boot", "env", "dns", "hosts", "serving"}
  /\ bgPc \in {"none", "clean", "waitca"}
  /\ addonVersion \in FileVersion
  /\ proxyHealth \in {"none", "starting", "healthy", "unhealthy"}

ProxyInit ==
  /\ proxyPc = "down"
  /\ bgPc = "none"
  /\ addonVersion = Absent
  /\ proxyHealth = "none"

ProxyUp == proxyPc # "down"

(* Docker starts (or restarts) the container: both halves of the           *)
(* entrypoint begin, the health status is reset.                           *)
ProxyStart ==
  /\ proxyPc' = "boot"
  /\ bgPc' = "clean"
  /\ addonVersion' = Absent
  /\ proxyHealth' = "starting"

(* Mutant: Docker's container STATE is kept where the health belongs.      *)
ProxyStopKeepsState ==
  /\ proxyPc' = "down"
  /\ bgPc' = "none"
  /\ addonVersion' = Absent
  /\ proxyHealth' = "exited"

(* The container stops: every process in it is gone.                       *)
ProxyStop ==
  /\ proxyPc' = "down"
  /\ bgPc' = "none"
  /\ addonVersion' = Absent
  /\ proxyHealth' = "none"

CleanupDone == CleanupRaces \/ bgPc # "clean"

(* Mutant: the entrypoint forgets `rm -f dns.conf'.                        *)
BgCleanKeepsDnsConf ==
  /\ bgPc = "clean"
  /\ bgPc' = "waitca"
  /\ caPublic' = FALSE
  /\ UNCHANGED <<proxyPc, addonVersion, proxyHealth>>
  /\ UNCHANGED <<settings, keys, sandcatEnv, dnsConf, extraHosts, sharedResolv>>

(* Background list, first half: remove the two sentinels an earlier start  *)
(* left in the volumes.                                                    *)
BgClean ==
  /\ bgPc = "clean"
  /\ bgPc' = "waitca"
  /\ dnsConf' = Absent
  /\ caPublic' = FALSE
  /\ UNCHANGED <<proxyPc, addonVersion, proxyHealth>>
  /\ UNCHANGED <<settings, keys, sandcatEnv, extraHosts, sharedResolv>>

(* Background list, second half: poll for the CA in the private volume,    *)
(* copy it beside its public name and rename it into place.                *)
BgPublishCa ==
  /\ bgPc = "waitca"
  /\ keys
  /\ bgPc' = "none"
  /\ caPublic' = TRUE
  /\ UNCHANGED <<proxyPc, addonVersion, proxyHealth>>
  /\ UNCHANGED <<settings, keys, sandcatEnv, dnsConf, extraHosts, sharedResolv>>

(* mitmweb generates its CA and its WireGuard key pairs when the private   *)
(* volume holds none.                                                      *)
GenerateKeys ==
  /\ ProxyUp
  /\ ~keys
  /\ keys' = TRUE
  /\ UNCHANGED proxyVars
  /\ UNCHANGED <<settings, caPublic, sandcatEnv, dnsConf, extraHosts, sharedResolv>>

(* load() reads the settings layers and resolves the secrets.  Without any *)
(* layer it goes straight to dns.conf and leaves sandcat.env as it is.     *)
AddonRead ==
  /\ proxyPc = "boot"
  /\ CleanupDone
  /\ addonVersion' = settings
  /\ proxyPc' = IF settings \in NoLayers THEN "dns" ELSE "env"
  /\ UNCHANGED <<bgPc, proxyHealth>>
  /\ UNCHANGED volumeVars

(* load() raises (a layer that is not JSON, an unknown preset, a full      *)
(* Proton account, a command that times out, a sandcat.env that cannot be  *)
(* written) and mitmweb exits; mitmproxy has no restart policy.            *)
AddonLoadFails ==
  /\ "load" \in Faults
  /\ proxyPc \in {"boot", "env"}
  /\ CleanupDone
  /\ ProxyStop
  /\ UNCHANGED volumeVars

WritePlaceholdersEnv ==
  /\ proxyPc = "env"
  /\ proxyPc' = "dns"
  /\ sandcatEnv' = addonVersion
  /\ UNCHANGED <<bgPc, addonVersion, proxyHealth>>
  /\ UNCHANGED <<settings, keys, caPublic, dnsConf, extraHosts, sharedResolv>>

(* An OSError while a sidecar file is written is caught and logged; the    *)
(* file keeps whatever an earlier writer left, or stays absent.            *)
SidecarWrite(old) ==
  {addonVersion} \cup (IF "disk" \in Faults THEN {old} ELSE {})

WriteDnsConf ==
  /\ proxyPc = "dns"
  /\ proxyPc' = "hosts"
  /\ dnsConf' \in SidecarWrite(dnsConf)
  /\ UNCHANGED <<bgPc, addonVersion, proxyHealth>>
  /\ UNCHANGED <<settings, keys, caPublic, sandcatEnv, extraHosts, sharedResolv>>

WriteExtraHosts ==
  /\ proxyPc = "hosts"
  /\ proxyPc' = "serving"
  /\ extraHosts' \in SidecarWrite(extraHosts)
  /\ UNCHANGED <<bgPc, addonVersion, proxyHealth>>
  /\ UNCHANGED <<settings, keys, caPublic, sandcatEnv, dnsConf, sharedResolv>>

(* The container dies (OOM, SIGKILL).                                      *)
ProxyCrash ==
  /\ "proxy" \in Faults
  /\ ProxyUp
  /\ ProxyStop
  /\ UNCHANGED volumeVars

(* Mutants: the check omits one of its three files.                        *)
ProxyTestNoCa == keys /\ dnsConf # Absent

ProxyTestNoDns == keys /\ caPublic

(* The command of the health check.                                        *)
ProxyTest == keys /\ caPublic /\ dnsConf # Absent

(* Docker runs the check; one success ends the starting phase.             *)
ProxyProbePasses ==
  /\ ProxyUp
  /\ CleanupDone
  /\ ProxyTest
  /\ proxyHealth' = "healthy"
  /\ UNCHANGED <<proxyPc, bgPc, addonVersion>>
  /\ UNCHANGED volumeVars

(* The start period is over and `retries' checks in a row have failed.     *)
ProxyProbesFail ==
  /\ ProxyUp
  /\ CleanupDone
  /\ ~ProxyTest
  /\ proxyHealth' = "unhealthy"
  /\ UNCHANGED <<proxyPc, bgPc, addonVersion>>
  /\ UNCHANGED volumeVars

(* What the container does by itself, faults apart.                        *)
ProxyWork ==
  \/ BgClean
  \/ BgPublishCa
  \/ GenerateKeys
  \/ AddonRead
  \/ WritePlaceholdersEnv
  \/ WriteDnsConf
  \/ WriteExtraHosts

ProxyStep ==
  \/ ProxyWork
  \/ AddonLoadFails
  \/ ProxyCrash
  \/ ProxyProbePasses
  \/ ProxyProbesFail

(***************************************************************************)
(* Properties                                                              *)
(***************************************************************************)

(* dns.conf is the readiness sentinel of the proxy: Docker reports the     *)
(* container healthy only when the dns.conf it sees was written by the     *)
(* load() of THIS start, never on one left by an earlier start             *)
(* (compose-proxy.yml, comments on the entrypoint and on the check).       *)
HealthyMeansLoaded ==
  proxyHealth = "healthy" => dnsConf = addonVersion /\ dnsConf # Absent

=============================================================================
