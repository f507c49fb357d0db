---------------------------- MODULE SandcatAddon ----------------------------
(***************************************************************************)
(* The mitmproxy addon: load(), with the resolution of the secrets, and    *)
(* the handlers request() and dns_request().  mitmproxy calls them one at  *)
(* a time; the loop of _substitute_secrets is one step per secret.         *)
(*                                                                         *)
(* What a request carries is, for each surface the addon looks at, a set   *)
(* of fragments: the placeholder of a secret, its value, or (mixed) its    *)
(* value followed by what was left of a longer placeholder.                *)
(***************************************************************************)
EXTENDS NetworkPolicy

CONSTANTS
  Secrets,     (* names of secrets                                       *)
  Inside,      (* pairs <<a, b>>: a's placeholder occurs within b's      *)
  Cursor,      (* the Cursor variant of the addon                        *)
  LayerStacks, (* the stacks of settings layers the user may write       *)
  MaxCarried   (* bound on the placeholders one request carries          *)

(* A secret entry of a settings file: which of the keys "value", "op" and  *)
(* "pass" it has, and its allowlist.                                       *)
Entry == [name : Secrets, sources : SUBSET {"value", "op", "pass"}, hosts : SUBSET Hosts]

ASSUME AddonAssumption ==
  /\ Inside \subseteq {pair \in Secrets \X Secrets : pair[1] # pair[2]}
  /\ Cursor \in BOOLEAN

(* A layer has a list of rules and references to presets, and secrets.     *)
ASSUME LayersAssumption ==
  \A stack \in LayerStacks :
    /\ stack \in Seq(ToSet(stack))
    /\ \A k \in DOMAIN stack :
         /\ stack[k].network \in Seq(ToSet(stack[k].network))
         /\ \A entry \in ToSet(stack[k].network) : IsPreset(entry) \/ entry \in Rule
         /\ stack[k].secrets \in Seq(Entry)

VARIABLES
  layers,    (* settings layers found at start, lowest precedence first  *)
  addonPc,   (* next phase of load(), then "serving" or "failed"         *)
  session,   (* pass-cli: "none", or logged in with a "pat" or as "full" *)
  pending,   (* merged secret entries _load_secrets has still to resolve *)
  secrets,   (* self.secrets, in order of insertion                      *)
  rules,     (* self.network_rules                                       *)
  flow,      (* the request in progress, NoFlow between requests         *)
  scan,      (* index of the next secret of the loop                     *)
  verdict    (* what becomes of the request                              *)

loadVars == <<layers, addonPc, session, pending, secrets, rules>>
flowVars == <<flow, scan, verdict>>
vars == <<loadVars, flowVars>>

(***************************************************************************)
(* Data                                                                    *)
(***************************************************************************)

(* An entry of self.secrets; ok: its value was resolved, otherwise "".     *)
Loaded == [name : Secrets, sources : SUBSET {"value", "op", "pass"},
           hosts : SUBSET Hosts, ok : BOOLEAN]

Surface == {"url", "names", "headers", "basic", "body"}
Fragment == [kind : {"placeholder", "value", "mixed"}, of : Secrets]

NoFlow == [host |-> None]

(* A request as the client sends it; carried: which placeholders, where.   *)
RequestWith(host, method, streaming, textual, carried) ==
  [host |-> host, method |-> method, streaming |-> streaming, textual |-> textual,
   sent |-> carried,
   parts |-> [p \in Surface |->
                {[kind |-> "placeholder", of |-> n] : n \in {m \in Secrets : <<m, p>> \in carried}}]]

(***************************************************************************)
(* load()                                                                  *)
(***************************************************************************)

Names(dict) == {dict[i].name : i \in DOMAIN dict}

(* Mutant: dict.setdefault, the layer read first wins.                     *)
KeptOrAdded(dict, overlay) ==
  dict \o SelectSeq(overlay, LAMBDA e : e.name \notin Names(dict))

(* Assignment to a key of a Python dict: a key that is there keeps its     *)
(* place.                                                                  *)
Put(dict, e) ==
  IF e.name \in Names(dict)
    THEN [i \in DOMAIN dict |-> IF dict[i].name = e.name THEN e ELSE dict[i]]
    ELSE Append(dict, e)

(* dict.update.                                                            *)
Updated(dict, overlay) ==
  LET put[k \in 0..Len(overlay)] == IF k = 0 THEN dict ELSE Put(put[k - 1], overlay[k])
  IN  put[Len(overlay)]

(* One update after the other, from the lowest layer to the highest.       *)
MergeSecrets ==
  LET merged[k \in 0..Len(layers)] ==
        IF k = 0 THEN << >> ELSE Updated(merged[k - 1], layers[k].secrets)
  IN  merged[Len(layers)]

Init ==
  /\ layers \in LayerStacks
  /\ addonPc = "merge"
  /\ session = "none"
  /\ pending = << >>
  /\ secrets = << >>
  /\ rules = << >>
  /\ flow = NoFlow
  /\ scan = 1
  /\ verdict = "none"

(* Without any layer load() returns early, with no rule and no secret.     *)
MergeSettings ==
  /\ addonPc = "merge"
  /\ addonPc' = IF layers = << >> THEN "serving" ELSE "login"
  /\ pending' = MergeSecrets
  /\ UNCHANGED <<layers, session, secrets, rules, flowVars>>

HasPassSecrets == \E i \in DOMAIN pending : "pass" \in pending[i].sources

PassCliNotNeeded ==
  /\ addonPc = "login"
  /\ ~HasPassSecrets
  /\ addonPc' = "secrets"
  /\ UNCHANGED <<layers, session, pending, secrets, rules, flowVars>>

(* No token, no pass-cli, or the login is refused: go on without it.       *)
PassCliLoginFails ==
  /\ addonPc = "login"
  /\ HasPassSecrets
  /\ addonPc' = "secrets"
  /\ UNCHANGED <<layers, session, pending, secrets, rules, flowVars>>

PassCliLogin ==
  /\ addonPc = "login"
  /\ HasPassSecrets
  /\ session' \in {"pat", "full"}
  /\ addonPc' = "verify"
  /\ UNCHANGED <<layers, pending, secrets, rules, flowVars>>

(* Mutant: the kind of the session is not looked at.                       *)
VerifyNothing ==
  /\ addonPc = "verify"
  /\ addonPc' = "secrets"
  /\ UNCHANGED <<layers, session, pending, secrets, rules, flowVars>>

VerifyPatAuth ==
  /\ addonPc = "verify"
  /\ session = "pat"
  /\ addonPc' = "secrets"
  /\ UNCHANGED <<layers, session, pending, secrets, rules, flowVars>>

(* Not a personal access token, or `pass-cli info' fails: log out, raise.  *)
VerifyPatAuthOrDie ==
  /\ addonPc = "verify"
  /\ addonPc' = "failed"
  /\ session' = "none"
  /\ UNCHANGED <<layers, pending, secrets, rules, flowVars>>

(* May the secret resolve?  Exactly one source, and pass-cli only with a   *)
(* session; an op or a pass read may also fail.                            *)
Resolutions(entry) ==
  CASE entry.sources = {"value"} -> {TRUE}
    [] entry.sources = {"op"}    -> BOOLEAN
    [] entry.sources = {"pass"}  -> {FALSE} \cup (IF session = "none" THEN {} ELSE {TRUE})
    [] OTHER                     -> {FALSE}

(* Mutant: a secret that cannot be resolved is dropped.                    *)
LoadSecretOrDropIt ==
  /\ addonPc = "secrets"
  /\ pending # << >>
  /\ \E ok \in Resolutions(Head(pending)) :
       secrets' = IF ok THEN Append(secrets, [name    |-> Head(pending).name,
                                              sources |-> Head(pending).sources,
                                              hosts   |-> Head(pending).hosts,
                                              ok      |-> ok])
                        ELSE secrets
  /\ pending' = Tail(pending)
  /\ UNCHANGED <<layers, addonPc, session, rules, flowVars>>

(* An iteration of _load_secrets: a secret that cannot be resolved is kept *)
(* with the empty value.                                                   *)
LoadSecret ==
  /\ addonPc = "secrets"
  /\ pending # << >>
  /\ \E ok \in Resolutions(Head(pending)) :
       secrets' = Append(secrets, [name    |-> Head(pending).name,
                                   sources |-> Head(pending).sources,
                                   hosts   |-> Head(pending).hosts,
                                   ok      |-> ok])
  /\ pending' = Tail(pending)
  /\ UNCHANGED <<layers, addonPc, session, rules, flowVars>>

RawRules == MergeNetwork(layers)

LoadNetworkRules ==
  /\ addonPc = "secrets"
  /\ pending = << >>
  /\ \A i \in DOMAIN RawRules : ~BadPreset(RawRules[i])
  /\ rules' = ExpandNetworkPresets(RawRules)
  /\ addonPc' = "serving"
  /\ UNCHANGED <<layers, session, pending, secrets, flowVars>>

(* A bad preset entry is an error of the whole list.                       *)
BadPresetRaises ==
  /\ addonPc = "secrets"
  /\ pending = << >>
  /\ \E i \in DOMAIN RawRules : BadPreset(RawRules[i])
  /\ addonPc' = "failed"
  /\ UNCHANGED <<layers, session, pending, secrets, rules, flowVars>>

(* TimeoutExpired is caught nowhere: a pass-cli or op command that hangs   *)
(* ends load(), whatever else was resolved.                                *)
CommandTimesOut ==
  /\ \/ addonPc = "login" /\ HasPassSecrets
     \/ addonPc = "verify"
     \/ /\ addonPc = "secrets" /\ pending # << >>
        /\ \/ Head(pending).sources = {"op"}
           \/ Head(pending).sources = {"pass"} /\ session # "none"
  /\ addonPc' = "failed"
  /\ UNCHANGED <<layers, session, pending, secrets, rules, flowVars>>

Load ==
  \/ MergeSettings \/ PassCliNotNeeded \/ PassCliLoginFails \/ PassCliLogin
  \/ VerifyPatAuth \/ VerifyPatAuthOrDie \/ LoadSecret
  \/ LoadNetworkRules \/ BadPresetRaises \/ CommandTimesOut

(***************************************************************************)
(* request() and dns_request()                                             *)
(***************************************************************************)

IsStreaming == Cursor /\ flow.streaming

IsTextual == Cursor => flow.textual

Scanned == {"url", "names", "headers", "basic"} \cup (IF IsStreaming THEN {} ELSE {"body"})

(* Header names are looked at, as part of str(headers), but not rewritten. *)
Rewritten ==
  (Scanned \ {"names"}) \ (IF IsTextual THEN {} ELSE {"body"})

(* `placeholder in s': also when it is a part of a longer placeholder.     *)
Holds(fragment, name) ==
  /\ fragment.kind = "placeholder"
  /\ fragment.of = name \/ <<name, fragment.of>> \in Inside

(* Mutant: the decoded credentials of Basic Auth are forgotten.            *)
PresentOutsideBasic(name) ==
  \E p \in Scanned \ {"basic"} : \E fragment \in flow.parts[p] : Holds(fragment, name)

Present(name) ==
  \E p \in Scanned : \E fragment \in flow.parts[p] : Holds(fragment, name)

(* s.replace(placeholder, value).                                          *)
Replaced(part, name) ==
  {IF Holds(fragment, name)
     THEN [kind |-> IF fragment.of = name THEN "value" ELSE "mixed", of |-> name]
     ELSE fragment : fragment \in part}

ClientRequest(request) ==
  /\ addonPc = "serving"
  /\ flow = NoFlow
  /\ flow' = request
  /\ scan' = 1
  /\ verdict' = IF IsRequestAllowed(rules, request.method, request.host)
                  THEN "scanning" ELSE "denied"
  /\ UNCHANGED loadVars

(* The iterations of _substitute_secrets: the placeholder is absent; it is *)
(* on its way to a host its secret does not list; or it is replaced.       *)
SkipSecret ==
  /\ verdict = "scanning"
  /\ scan \in DOMAIN secrets
  /\ ~Present(secrets[scan].name)
  /\ scan' = scan + 1
  /\ UNCHANGED <<flow, verdict, loadVars>>

(* Mutant: a secret without an allowlist may go anywhere.                  *)
HostAllowedByDefault(hosts) == hosts = {} \/ flow.host \in hosts

HostAllowed(hosts) == flow.host \in hosts

BlockLeak ==
  /\ verdict = "scanning"
  /\ scan \in DOMAIN secrets
  /\ Present(secrets[scan].name)
  /\ ~HostAllowed(secrets[scan].hosts)
  /\ verdict' = "leak"
  /\ UNCHANGED <<flow, scan, loadVars>>

WithSecret(name) ==
  [flow EXCEPT !.parts = [p \in Surface |-> IF p \in Rewritten THEN Replaced(@[p], name)
                                                               ELSE @[p]]]

(* Mutant: one secret per request.                                         *)
SubstituteAndStop ==
  /\ verdict = "scanning"
  /\ scan \in DOMAIN secrets
  /\ Present(secrets[scan].name)
  /\ HostAllowed(secrets[scan].hosts)
  /\ flow' = WithSecret(secrets[scan].name)
  /\ scan' = Len(secrets) + 1
  /\ UNCHANGED <<verdict, loadVars>>

SubstituteSecret ==
  /\ verdict = "scanning"
  /\ scan \in DOMAIN secrets
  /\ Present(secrets[scan].name)
  /\ HostAllowed(secrets[scan].hosts)
  /\ flow' = WithSecret(secrets[scan].name)
  /\ scan' = scan + 1
  /\ UNCHANGED <<verdict, loadVars>>

Forward ==
  /\ verdict = "scanning"
  /\ scan \notin DOMAIN secrets
  /\ verdict' = "forwarded"
  /\ UNCHANGED <<flow, scan, loadVars>>

(* A query is decided as a request without a method.                       *)
DnsRequest(host) ==
  /\ addonPc = "serving"
  /\ flow = NoFlow
  /\ flow' = RequestWith(host, None, FALSE, TRUE, {})
  /\ scan' = 1
  /\ verdict' = IF IsRequestAllowed(rules, None, host) THEN "resolved" ELSE "refused"
  /\ UNCHANGED loadVars

FlowDone ==
  /\ verdict \in {"denied", "leak", "forwarded", "resolved", "refused"}
  /\ flow' = NoFlow
  /\ scan' = 1
  /\ verdict' = "none"
  /\ UNCHANGED loadVars

Next ==
  \/ Load
  \/ \E host \in Hosts : DnsRequest(host)
  \/ \E host \in Hosts, method \in Methods, streaming, textual \in BOOLEAN,
        carried \in UNION {kSubset(k, Secrets \X Surface) : k \in 0..MaxCarried} :
       ClientRequest(RequestWith(host, method, streaming, textual, carried))
  \/ SkipSecret \/ BlockLeak \/ SubstituteSecret \/ Forward \/ FlowDone

Spec == Init /\ [][Next]_vars

(***************************************************************************)
(* Properties                                                              *)
(***************************************************************************)

Request == [host : Hosts, method : Methods \cup {None}, streaming : BOOLEAN,
            textual : BOOLEAN, sent : SUBSET (Secrets \X Surface),
            parts : [Surface -> SUBSET Fragment]]

TypeOK ==
  /\ addonPc \in {"merge", "login", "verify", "secrets", "serving", "failed"}
  /\ session \in {"none", "pat", "full"}
  /\ pending \in Seq(Entry)
  /\ secrets \in Seq(Loaded)
  /\ rules \in Seq(Rule)
  /\ flow = NoFlow \/ flow \in Request
  /\ scan \in 1..(Len(secrets) + 1)
  /\ verdict \in {"none", "denied", "scanning", "leak", "forwarded", "resolved", "refused"}

(* "Local rules take priority over project rules, which take priority over *)
(* user rules" (settings.md): after concatenation and the expansion of the *)
(* presets, a request is decided by the highest layer that has any rule    *)
(* for it, as if that layer were alone.                                    *)
LayerRules(k) == ExpandNetworkPresets(layers[k].network)

LayersDecide ==
  addonPc = "serving" /\ flow = NoFlow =>
    \A host \in Hosts, method \in Methods \cup {None} :
      IsRequestAllowed(rules, method, host) <=>
        \E k \in DOMAIN layers :
          /\ IsRequestAllowed(LayerRules(k), method, host)
          /\ \A j \in DOMAIN layers : j > k =>
               ~\E i \in DOMAIN LayerRules(j) : Matches(LayerRules(j)[i], method, host)

(* A secret has the allowlist and the source of the highest layer that     *)
(* defines it, never a mixture with a lower layer's entry (settings.md).   *)
TopLayerDefines ==
  \A i \in DOMAIN secrets :
    \E k \in DOMAIN layers :
      /\ \E e \in ToSet(layers[k].secrets) :
           /\ e.name = secrets[i].name
           /\ e.hosts = secrets[i].hosts
           /\ e.sources = secrets[i].sources
      /\ \A j \in DOMAIN layers : j > k => secrets[i].name \notin Names(layers[j].secrets)

(* DNS answers only for hosts the agent can make some request to: a query  *)
(* tells nothing of a host all of whose requests are denied                *)
(* (network-rules.md, DNS filtering).                                      *)
ResolvesReachable ==
  verdict = "resolved" =>
    \E method \in Methods : IsRequestAllowed(rules, method, flow.host)

(* No Proton Pass secret is resolved with a full-account session, in any   *)
(* order of logins, failures and time-outs (_verify_pat_auth_or_die).      *)
OnlyPatSecrets ==
  \A i \in DOMAIN secrets :
    secrets[i].ok /\ "pass" \in secrets[i].sources => session = "pat"

(* The value of a secret is put only into requests to a host of its own    *)
(* allowlist, also when one placeholder is a part of another.              *)
SecretsStayHome ==
  flow # NoFlow =>
    \A p \in Surface : \A fragment \in flow.parts[p] :
      fragment.kind # "placeholder" =>
        \E i \in DOMAIN secrets :
          secrets[i].name = fragment.of /\ flow.host \in secrets[i].hosts

(* A forwarded request carries no placeholder of a configured secret on a  *)
(* surface the addon rewrites, even if the secret could not be resolved.   *)
NothingLeftBehind ==
  verdict = "forwarded" =>
    \A p \in Rewritten : \A fragment \in flow.parts[p] :
      fragment.kind = "placeholder" => fragment.of \notin Names(MergeSecrets)

(* Every secret the request carries is configured, and may go to the host. *)
Welcome ==
  \A carried \in flow.sent : \E i \in DOMAIN secrets :
    secrets[i].name = carried[1] /\ flow.host \in secrets[i].hosts

(* No placeholder in the request contains the placeholder of another one.  *)
Apart == \A carried \in flow.sent : \A n \in Secrets : <<n, carried[1]>> \notin Inside

(* "If a placeholder appears in a request to a host not in the allowlist,  *)
(* mitmproxy blocks the request" (secrets.md), on whichever surface that   *)
(* is scanned it appears (not in a body that is streamed), and whatever    *)
(* other secrets the request carries to hosts of their own.                *)
LeaksBlocked ==
  verdict = "forwarded" /\ Apart =>
    \A carried \in flow.sent, i \in DOMAIN secrets :
      secrets[i].name = carried[1] /\ carried[2] \in Scanned =>
        flow.host \in secrets[i].hosts

(* "When a request containing that placeholder reaches mitmproxy, it's     *)
(* replaced with the real key" if the host is on the allowlist             *)
(* (secrets.md): the request is not blocked, and every placeholder in it   *)
(* is replaced by the value of its own secret.                             *)
HonouredAlways ==
  verdict \in {"leak", "forwarded"} /\ Welcome =>
    /\ verdict = "forwarded"
    /\ \A carried \in flow.sent :
         carried[2] \in Rewritten =>
           [kind |-> "value", of |-> carried[1]] \in flow.parts[carried[2]]

(* The same, for requests in which no placeholder contains another.        *)
Honoured == verdict \in {"leak", "forwarded"} /\ Apart => HonouredAlways
=============================================================================
