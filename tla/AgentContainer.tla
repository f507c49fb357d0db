--------------------------- MODULE AgentContainer ---------------------------
(***************************************************************************)
(* The agent container: its network namespace, which is wg-client's and is *)
(* resolved once, when the container starts (network_mode:                 *)
(* service:wg-client), and the part of app-init.sh that reads what the     *)
(* other containers publish.                                               *)
(***************************************************************************)
EXTENDS SandboxVolumes

VARIABLES
  agentPc,    (* next phase of app-init.sh                               *)
  agentNet,   (* the namespace it is bound to: wg-client's current one   *)
              (* ("live") or one that was torn down ("dead")             *)
  agentEnv,   (* version of the sandcat.env its environment comes from   *)
  agentResolv (* which resolver its /etc/resolv.conf names               *)

agentVars == <<agentPc, agentNet, agentEnv, agentResolv>>

AgentTypeOK ==
  /\ agentPc \in {"down", "resolv", "ca", "env", "running"}
  /\ agentNet \in {"none", "live", "dead"}
  /\ agentEnv \in FileVersion
  /\ agentResolv \in {"docker", "dnsmasq"}

AgentInit ==
  /\ agentPc = "down"
  /\ agentNet = "none"
  /\ agentEnv = Absent
  /\ agentResolv = "docker"

AgentUp == agentPc # "down"

(* Docker resolves wg-client's namespace and writes a resolv.conf of its   *)
(* own; the entrypoint starts with a new environment.                      *)
AgentStart ==
  /\ agentPc' = "resolv"
  /\ agentNet' = "live"
  /\ agentEnv' = Absent
  /\ agentResolv' = "docker"

AgentStop ==
  /\ agentPc' = "down"
  /\ agentNet' = "none"
  /\ agentEnv' = Absent
  /\ agentResolv' = "docker"

(* Adopt the resolv.conf wg-client published, if it has published one.     *)
AgentAdoptResolv ==
  /\ agentPc = "resolv"
  /\ agentPc' = "ca"
  /\ agentResolv' = IF sharedResolv THEN "dnsmasq" ELSE agentResolv
  /\ UNCHANGED <<agentNet, agentEnv>>
  /\ UNCHANGED volumeVars

AgentInstallCa ==
  /\ agentPc = "ca"
  /\ caPublic
  /\ agentPc' = "env"
  /\ UNCHANGED <<agentNet, agentEnv, agentResolv>>
  /\ UNCHANGED volumeVars

(* No public CA certificate: app-init exits 1; there is no restart policy. *)
AgentCaMissing ==
  /\ agentPc = "ca"
  /\ ~caPublic
  /\ AgentStop
  /\ UNCHANGED volumeVars

(* Source sandcat.env, if there is one; the rest of app-init touches only  *)
(* the agent's own home, then exec's the command.                          *)
AgentSourceEnv ==
  /\ agentPc = "env"
  /\ agentPc' = "running"
  /\ agentEnv' = sandcatEnv
  /\ UNCHANGED <<agentNet, agentResolv>>
  /\ UNCHANGED volumeVars

(* The agent's command ends, or the container is killed.                   *)
AgentExit ==
  /\ "agent" \in Faults
  /\ AgentUp
  /\ AgentStop
  /\ UNCHANGED volumeVars

AgentWork == AgentAdoptResolv \/ AgentInstallCa \/ AgentCaMissing \/ AgentSourceEnv

(***************************************************************************)
(* Properties                                                              *)
(***************************************************************************)

(* app-init adopts the published resolv.conf only `if [ -f ]'; past that   *)
(* phase the agent nevertheless always names wg-client's dnsmasq, because  *)
(* no agent starts before a wg-client has published one.                   *)
AgentUsesDnsmasq ==
  agentPc \in {"ca", "env", "running"} => agentResolv = "dnsmasq"
=============================================================================
