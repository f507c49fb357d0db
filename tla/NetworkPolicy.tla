---------------------------- MODULE NetworkPolicy ----------------------------
(***************************************************************************)
(* The network rules of the mitmproxy addon: how the settings layers are   *)
(* merged, how presets are expanded, and how a request is decided.         *)
(*                                                                         *)
(* A glob pattern is the set of the host names it matches, both in the     *)
(* form the addon compares them in (lower case, no trailing dot).          *)
(***************************************************************************)
EXTENDS Integers, SequencesExt

CONSTANTS
  Hosts,    (* host names                                                *)
  Methods,  (* HTTP methods                                              *)
  Presets   (* NETWORK_PRESETS: preset name -> sequence of patterns      *)

ASSUME PolicyAssumption ==
  /\ Methods # {}
  /\ \A name \in DOMAIN Presets : Presets[name] \in Seq(SUBSET Hosts)

(* The method of a DNS query, and of a rule that matches any method.       *)
None == "None"

Rule == [action : {"allow", "deny"}, host : SUBSET Hosts, method : Methods \cup {None}]

(***************************************************************************)
(* Building the rule list                                                  *)
(***************************************************************************)

(* An entry of a "network" array is a rule or a reference to a preset.     *)
IsPreset(entry) == "preset" \in DOMAIN entry

(* A reference that carries other keys, or names no preset: RuntimeError.  *)
BadPreset(entry) ==
  /\ IsPreset(entry)
  /\ DOMAIN entry # {"preset"} \/ entry.preset \notin DOMAIN Presets

AllowRules(patterns) ==
  [i \in DOMAIN patterns |-> [action |-> "allow", host |-> patterns[i], method |-> None]]

(* Mutant: references to presets are left as they are.                     *)
LeaveNetworkPresets(raw) == raw

(* Each preset is expanded in place; order is kept around it.              *)
ExpandNetworkPresets(raw) ==
  FlattenSeq([i \in DOMAIN raw |->
                IF IsPreset(raw[i]) THEN AllowRules(Presets[raw[i].preset]) ELSE <<raw[i]>>])

(* Mutant: the rules are concatenated in the order the layers are read.    *)
MergeNetworkInReadOrder(layers) ==
  FlattenSeq([i \in DOMAIN layers |-> layers[i].network])

(* Layers go from lowest to highest precedence, rules the other way round. *)
MergeNetwork(layers) ==
  FlattenSeq(Reverse([i \in DOMAIN layers |-> layers[i].network]))

(***************************************************************************)
(* Deciding a request                                                      *)
(***************************************************************************)

Matches(rule, method, host) ==
  /\ host \in rule.host
  /\ rule.method = None \/ method = None \/ rule.method = method

(* _find_matching_rule returns rules[i].                                   *)
FirstMatch(rules, method, host, i) ==
  /\ i \in DOMAIN rules
  /\ Matches(rules[i], method, host)
  /\ \A j \in 1..(i - 1) : ~Matches(rules[j], method, host)

(* Mutant: for a DNS query any allowing rule will do, wherever it stands.  *)
DnsIgnoresOrder(rules, method, host) ==
  \E i \in DOMAIN rules :
    /\ Matches(rules[i], method, host) /\ rules[i].action = "allow"
    /\ method = None \/ FirstMatch(rules, method, host, i)

IsRequestAllowed(rules, method, host) ==
  \E i \in DOMAIN rules :
    FirstMatch(rules, method, host, i) /\ rules[i].action = "allow"
=============================================================================
