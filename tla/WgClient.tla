------------------------------ MODULE WgClient ------------------------------
(***************************************************************************)
(* The wg-client container: main() of wg-client-init.sh up to its          *)
(* supervision loop, the dnsmasq daemon, and the container's health check. *)
(* Docker gives the container a new network namespace at every start; the  *)
(* file system, /tmp/wg-ready included, lives as long as the container.    *)
(***************************************************************************)
EXTENDS SandboxVolumes

VARIABLES
  wgPc,        (* next phase of main()                                   *)
  killSwitch,  (* the iptables rules are in the current namespace        *)
  dnsmasqUp,   (* dnsmasq listens on 127.0.0.1:53                        *)
  upstream,    (* version of the dns.conf in dnsmasq's configuration;    *)
               (* Absent stands for the built-in default name servers    *)
  hostsBlock,  (* version of the extra_hosts block in /etc/hosts         *)
  wgReady,     (* /tmp/wg-ready exists                                   *)
  wgHealth     (* Docker's health status of the container                *)

wgVars ==
  <<wgPc, killSwitch, dnsmasqUp, upstream, hostsBlock, wgReady, wgHealth>>

WgTypeOK ==
  /\ wgPc \in {"down", "exited", "tunnel", "firewall", "dnsmasq", "resolv",
               "hosts", "touch", "supervise"}
  /\ killSwitch \in BOOLEAN
  /\ dnsmasqUp \in BOOLEAN
  /\ upstream \in FileVersion
  /\ hostsBlock \in FileVersion
  /\ wgReady \in BOOLEAN
  /\ wgHealth \in {"none", "starting", "healthy", "unhealthy"}

WgInit ==
  /\ wgPc = "down"
  /\ killSwitch = FALSE
  /\ dnsmasqUp = FALSE
  /\ upstream = Absent
  /\ hostsBlock = Absent
  /\ wgReady = FALSE
  /\ wgHealth = "none"

WgUp == wgPc \notin {"down", "exited"}

(* A fresh namespace with no rule and no daemon in it, Docker's own        *)
(* /etc/hosts, and no configuration in use yet; /tmp/wg-ready stays.       *)
WgStart ==
  /\ wgPc' = "tunnel"
  /\ killSwitch' = FALSE
  /\ dnsmasqUp' = FALSE
  /\ upstream' = Absent
  /\ hostsBlock' = Absent
  /\ wgHealth' = "starting"
  /\ UNCHANGED wgReady

(* The container's init process ends.                                      *)
WgExit ==
  /\ wgPc' = "exited"
  /\ killSwitch' = FALSE
  /\ dnsmasqUp' = FALSE
  /\ upstream' = Absent
  /\ hostsBlock' = Absent
  /\ wgHealth' = "none"
  /\ UNCHANGED wgReady

(* Mutant: dnsmasq is started as soon as the tunnel is up.                 *)
WgTunnelThenDnsmasq(proxyUp) ==
  /\ wgPc = "tunnel"
  /\ keys /\ proxyUp
  /\ wgPc' = "dnsmasq"
  /\ UNCHANGED <<killSwitch, dnsmasqUp, upstream, hostsBlock, wgReady, wgHealth>>
  /\ UNCHANGED volumeVars

(* Wait for wireguard.conf, derive the keys, resolve the name mitmproxy,   *)
(* create wg0 and its routes.                                              *)
WgTunnel(proxyUp) ==
  /\ wgPc = "tunnel"
  /\ keys /\ proxyUp
  /\ wgPc' = "firewall"
  /\ UNCHANGED <<killSwitch, dnsmasqUp, upstream, hostsBlock, wgReady, wgHealth>>
  /\ UNCHANGED volumeVars

(* wait_until gives up, or `wg set' cannot resolve its endpoint.           *)
WgTunnelFails(proxyUp) ==
  /\ wgPc = "tunnel"
  /\ ~(keys /\ proxyUp)
  /\ WgExit
  /\ UNCHANGED volumeVars

(* The iptables rules that confine the namespace to the tunnel.            *)
WgFirewall ==
  /\ wgPc = "firewall"
  /\ wgPc' = "dnsmasq"
  /\ killSwitch' = TRUE
  /\ UNCHANGED <<dnsmasqUp, upstream, hostsBlock, wgReady, wgHealth>>
  /\ UNCHANGED volumeVars

(* No IPv4 network or gateway is known for eth0: exit before any rule.     *)
WgFirewallFails ==
  /\ "wg" \in Faults
  /\ wgPc = "firewall"
  /\ WgExit
  /\ UNCHANGED volumeVars

(* Write dnsmasq's configuration from dns.conf (from the defaults when it  *)
(* is missing) and start the daemon.                                       *)
WgDnsmasq ==
  /\ wgPc = "dnsmasq"
  /\ wgPc' = "resolv"
  /\ upstream' = dnsConf
  /\ dnsmasqUp' = TRUE
  /\ UNCHANGED <<killSwitch, hostsBlock, wgReady, wgHealth>>
  /\ UNCHANGED volumeVars

(* Mutant: only /etc/resolv.conf is written, the shared copy is forgotten. *)
WgResolvUnpublished ==
  /\ wgPc = "resolv"
  /\ dnsmasqUp
  /\ wgPc' = "hosts"
  /\ UNCHANGED <<killSwitch, dnsmasqUp, upstream, hostsBlock, wgReady, wgHealth>>
  /\ UNCHANGED volumeVars

(* The daemon answers: point resolv.conf at it, and publish the same file  *)
(* for the agent.                                                          *)
WgResolv ==
  /\ wgPc = "resolv"
  /\ dnsmasqUp
  /\ wgPc' = "hosts"
  /\ sharedResolv' = TRUE
  /\ UNCHANGED <<killSwitch, dnsmasqUp, upstream, hostsBlock, wgReady, wgHealth>>
  /\ UNCHANGED <<settings, keys, caPublic, sandcatEnv, dnsConf, extraHosts>>

(* wait_until gives up on a daemon that died after the fork.               *)
WgResolvFails ==
  /\ wgPc = "resolv"
  /\ ~dnsmasqUp
  /\ WgExit
  /\ UNCHANGED volumeVars

(* Strip the sentinel block of /etc/hosts, append the current one.         *)
WgHosts ==
  /\ wgPc = "hosts"
  /\ wgPc' = "touch"
  /\ hostsBlock' = extraHosts
  /\ UNCHANGED <<killSwitch, dnsmasqUp, upstream, wgReady, wgHealth>>
  /\ UNCHANGED volumeVars

WgTouchReady ==
  /\ wgPc = "touch"
  /\ wgPc' = "supervise"
  /\ wgReady' = TRUE
  /\ UNCHANGED <<killSwitch, dnsmasqUp, upstream, hostsBlock, wgHealth>>
  /\ UNCHANGED volumeVars

(* Mutant: the supervisor waits for Docker to notice first.                *)
WgSuperviseWhenUnhealthy ==
  /\ wgPc = "supervise"
  /\ wgHealth = "unhealthy"
  /\ ~dnsmasqUp
  /\ dnsmasqUp' = TRUE
  /\ UNCHANGED <<wgPc, killSwitch, upstream, hostsBlock, wgReady, wgHealth>>
  /\ UNCHANGED volumeVars

(* supervise_dnsmasq: restart the daemon from the SAME configuration file, *)
(* without leaving the namespace.                                          *)
WgSupervise ==
  /\ wgPc = "supervise"
  /\ ~dnsmasqUp
  /\ dnsmasqUp' = TRUE
  /\ UNCHANGED <<wgPc, killSwitch, upstream, hostsBlock, wgReady, wgHealth>>
  /\ UNCHANGED volumeVars

DnsmasqCrash ==
  /\ "dnsmasq" \in Faults
  /\ dnsmasqUp
  /\ dnsmasqUp' = FALSE
  /\ UNCHANGED <<wgPc, killSwitch, upstream, hostsBlock, wgReady, wgHealth>>
  /\ UNCHANGED volumeVars

(* The init process is killed (OOM, SIGKILL).                              *)
WgCrash ==
  /\ "wg" \in Faults
  /\ WgUp
  /\ WgExit
  /\ UNCHANGED volumeVars

(* restart: unless-stopped.                                                *)
WgPolicyRestart ==
  /\ wgPc = "exited"
  /\ WgStart
  /\ UNCHANGED volumeVars

WgTest == wgReady /\ dnsmasqUp

WgProbePasses ==
  /\ WgUp
  /\ WgTest
  /\ wgHealth' = "healthy"
  /\ UNCHANGED <<wgPc, killSwitch, dnsmasqUp, upstream, hostsBlock, wgReady>>
  /\ UNCHANGED volumeVars

WgProbesFail ==
  /\ WgUp
  /\ ~WgTest
  /\ wgHealth' = "unhealthy"
  /\ UNCHANGED <<wgPc, killSwitch, dnsmasqUp, upstream, hostsBlock, wgReady>>
  /\ UNCHANGED volumeVars

(***************************************************************************)
(* Properties                                                              *)
(***************************************************************************)

(* The kill switch is up before the forwarder is, in every namespace, so   *)
(* there is no window in which dnsmasq could send a query out via eth0     *)
(* (wg-client-init.sh); and Docker never reports a namespace healthy that  *)
(* is not confined, stale /tmp/wg-ready or not.                            *)
ConfinedBeforeUse ==
  /\ dnsmasqUp => killSwitch
  /\ wgHealth = "healthy" => killSwitch

(* /tmp/wg-ready marks the END of main(): a healthy wg-client has spliced  *)
(* its resolver and its hosts block (compose-proxy.yml, comment on the     *)
(* health check; restart's comment on the "ready netns").                  *)
HealthyMeansInitDone ==
  wgHealth = "healthy" => wgPc = "supervise"
=============================================================================
