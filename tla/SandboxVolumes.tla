--------------------------- MODULE SandboxVolumes ---------------------------
(***************************************************************************)
(* The state the containers of a sandbox share: the settings files on the  *)
(* host and the sidecar files in the three named volumes.  A file is       *)
(* modelled by the VERSION of the settings it was derived from; a version  *)
(* is the number of edits the user had made when the settings were read.   *)
(*                                                                         *)
(* Every volume survives a restart of the containers, so a file left by an *)
(* earlier start is visible to the next one until something replaces it.   *)
(***************************************************************************)
EXTENDS Integers

CONSTANTS
  MaxVersion,  (* bound on the edits of the settings files               *)
  NoLayers,    (* versions at which no settings layer is a regular file  *)
  Faults       (* the kinds of fault the environment may inject          *)

ASSUME VersionAssumption ==
  /\ MaxVersion \in Nat
  /\ NoLayers \subseteq 0..MaxVersion

VARIABLES
  settings,      (* version of the settings files on the host            *)
  keys,          (* private volume: wireguard.conf and the CA key pair   *)
  caPublic,      (* public volume: mitmproxy-ca-cert.pem                 *)
  sandcatEnv,    (* public volume: sandcat.env                           *)
  dnsConf,       (* private volume: dns.conf                             *)
  extraHosts,    (* private volume: extra_hosts                          *)
  sharedResolv   (* runtime volume: resolv.conf published by wg-client   *)

volumeVars ==
  <<settings, keys, caPublic, sandcatEnv, dnsConf, extraHosts, sharedResolv>>

Version == 0..MaxVersion

(* A file that does not exist, a value nothing has been read for: older    *)
(* than every version.                                                     *)
Absent == -1

FileVersion == Version \cup {Absent}

VolumesTypeOK ==
  /\ settings \in Version
  /\ keys \in BOOLEAN
  /\ caPublic \in BOOLEAN
  /\ sandcatEnv \in FileVersion
  /\ dnsConf \in FileVersion
  /\ extraHosts \in FileVersion
  /\ sharedResolv \in BOOLEAN

(* Docker creates the named volumes empty.                                 *)
VolumesInit ==
  /\ settings = 0
  /\ keys = FALSE
  /\ caPublic = FALSE
  /\ sandcatEnv = Absent
  /\ dnsConf = Absent
  /\ extraHosts = Absent
  /\ sharedResolv = FALSE

(* The user saves a settings file (snadcat edit user-settings,             *)
(* edit project-settings, or any editor).                                  *)
EditSettings ==
  /\ settings < MaxVersion
  /\ settings' = settings + 1
  /\ UNCHANGED <<keys, caPublic, sandcatEnv, dnsConf, extraHosts, sharedResolv>>
=============================================================================
