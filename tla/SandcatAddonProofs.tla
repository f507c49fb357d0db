------------------------- MODULE SandcatAddonProofs -------------------------
(***************************************************************************)
(* Theorems about NetworkPolicy and SandcatAddon, for any hosts, methods,  *)
(* presets, secrets, placeholders and settings layers.                     *)
(***************************************************************************)
EXTENDS SandcatAddon, TLAPS

(***************************************************************************)
(* Rule lists                                                              *)
(***************************************************************************)

(* A host whose name DNS resolves is one to which some request is allowed: *)
(* the first rule that names the host decides the query, and it is also    *)
(* the first match of a request with that rule's method                    *)
(* (_find_matching_rule with method None).                                 *)
THEOREM DnsNeverWider ==
  ASSUME NEW list \in Seq(Rule), NEW host \in Hosts,
         IsRequestAllowed(list, None, host)
  PROVE  \E method \in Methods : IsRequestAllowed(list, method, host)
<1>1. PICK i \in DOMAIN list : /\ FirstMatch(list, None, host, i)
                               /\ list[i].action = "allow"
  BY DEF IsRequestAllowed
<1>2. list[i] \in Rule /\ host \in list[i].host
  BY <1>1 DEF FirstMatch, Matches
<1>3. PICK method \in Methods : list[i].method = None \/ list[i].method = method
  BY <1>2, PolicyAssumption DEF Rule
<1>4. Matches(list[i], method, host)
  BY <1>2, <1>3 DEF Matches
<1>5. \A j \in 1..(i - 1) : ~Matches(list[j], method, host)
  BY <1>1 DEF FirstMatch, Matches
<1>6. FirstMatch(list, method, host, i)
  BY <1>4, <1>5 DEF FirstMatch
<1> QED BY <1>1, <1>6 DEF IsRequestAllowed

SomeMatch(list, method, host) ==
  \E i \in DOMAIN list : Matches(list[i], method, host)

(* Of two rule lists one after the other the first decides, unless it has  *)
(* no rule for the request at all: the step by which the concatenation of  *)
(* the layers gives the higher layer priority (_merge_settings).           *)
THEOREM ConcatDecides ==
  ASSUME NEW upper \in Seq(Rule), NEW lower \in Seq(Rule), NEW method, NEW host
  PROVE  IsRequestAllowed(upper \o lower, method, host) <=>
           IF SomeMatch(upper, method, host)
             THEN IsRequestAllowed(upper, method, host)
             ELSE IsRequestAllowed(lower, method, host)
<1> DEFINE both == upper \o lower
           M(rule) == Matches(rule, method, host)
<1>1. /\ both \in Seq(Rule)
      /\ Len(both) = Len(upper) + Len(lower)
      /\ \A i \in 1..Len(upper) : both[i] = upper[i]
      /\ \A i \in 1..Len(lower) : both[i + Len(upper)] = lower[i]
  OBVIOUS
<1>2. /\ DOMAIN upper = 1..Len(upper) /\ Len(upper) \in Nat
      /\ DOMAIN lower = 1..Len(lower) /\ Len(lower) \in Nat
      /\ DOMAIN both = 1..(Len(upper) + Len(lower))
  BY <1>1
<1> HIDE DEF both, M
<1>3. CASE SomeMatch(upper, method, host)
  <2>1. PICK k \in 1..Len(upper) : M(upper[k])
    BY <1>2, <1>3 DEF SomeMatch, M
  <2>2. ASSUME NEW i \in DOMAIN both, FirstMatch(both, method, host, i)
        PROVE  i <= k
    <3>1. M(both[k])
      BY <1>1, <2>1
    <3>2. k \notin 1..(i - 1)
      BY <2>2, <3>1 DEF FirstMatch, M
    <3> QED BY <1>2, <3>2
  <2>3. \A i \in 1..Len(upper) :
          FirstMatch(both, method, host, i) <=> FirstMatch(upper, method, host, i)
    BY <1>1, <1>2 DEF FirstMatch
  <2>4. IsRequestAllowed(both, method, host) <=> IsRequestAllowed(upper, method, host)
    <3>1. \A i \in DOMAIN both : FirstMatch(both, method, host, i) => i \in 1..Len(upper)
      BY <1>1, <1>2, <2>1, <2>2
    <3>2. DOMAIN upper = 1..Len(upper) /\ DOMAIN upper \subseteq DOMAIN both
      BY <1>1, <1>2
    <3>3. \A i \in DOMAIN upper : both[i] = upper[i]
      BY <1>1, <3>2
    <3> QED BY <2>3, <3>1, <3>2, <3>3 DEF IsRequestAllowed, FirstMatch
  <2> QED BY <1>3, <2>4 DEF both
<1>4. CASE ~SomeMatch(upper, method, host)
  <2>1. \A i \in 1..Len(upper) : ~M(both[i])
    BY <1>1, <1>2, <1>4 DEF SomeMatch, M
  <2>2. ASSUME NEW i \in 1..Len(lower)
        PROVE  FirstMatch(both, method, host, i + Len(upper))
                 <=> FirstMatch(lower, method, host, i)
    <3>1. ASSUME FirstMatch(both, method, host, i + Len(upper))
          PROVE  FirstMatch(lower, method, host, i)
      BY <1>1, <1>2, <3>1 DEF FirstMatch
    <3>2. ASSUME FirstMatch(lower, method, host, i),
                 NEW j \in 1..((i + Len(upper)) - 1)
          PROVE  ~M(both[j])
      <4>1. CASE j <= Len(upper)
        BY <1>2, <2>1, <4>1
      <4>2. CASE j > Len(upper)
        <5>1. j - Len(upper) \in 1..(i - 1)
          BY <1>2, <4>2
        <5>2. /\ j - Len(upper) \in 1..Len(lower)
              /\ (j - Len(upper)) + Len(upper) = j
          BY <1>2, <4>2
        <5>3. both[j] = lower[j - Len(upper)]
          BY <1>1, <5>2
        <5> QED BY <3>2, <5>1, <5>3 DEF FirstMatch, M
      <4> QED BY <1>2, <4>1, <4>2
    <3> QED BY <1>1, <1>2, <3>1, <3>2 DEF FirstMatch, M
  <2>3. ASSUME NEW i \in DOMAIN both, M(both[i])
        PROVE  i - Len(upper) \in 1..Len(lower)
    BY <1>2, <2>1, <2>3
  <2>4. ASSUME IsRequestAllowed(both, method, host)
        PROVE  IsRequestAllowed(lower, method, host)
    <3>1. PICK i \in DOMAIN both : /\ FirstMatch(both, method, host, i)
                                   /\ both[i].action = "allow"
      BY <2>4 DEF IsRequestAllowed
    <3>2. PICK n \in 1..Len(lower) : i = n + Len(upper)
      BY <1>2, <2>3, <3>1 DEF FirstMatch, M
    <3>3. both[i] = lower[n] /\ FirstMatch(lower, method, host, n)
      BY <1>1, <2>2, <3>1, <3>2
    <3> QED BY <1>2, <3>1, <3>3 DEF IsRequestAllowed
  <2>5. ASSUME IsRequestAllowed(lower, method, host)
        PROVE  IsRequestAllowed(both, method, host)
    <3>1. PICK n \in 1..Len(lower) : /\ FirstMatch(lower, method, host, n)
                                     /\ lower[n].action = "allow"
      BY <1>2, <2>5 DEF IsRequestAllowed
    <3>2. n + Len(upper) \in DOMAIN both
      BY <1>2
    <3>3. both[n + Len(upper)] = lower[n]
      BY <1>1
    <3>4. FirstMatch(both, method, host, n + Len(upper))
      BY <2>2, <3>1
    <3> QED BY <3>1, <3>2, <3>3, <3>4 DEF IsRequestAllowed
  <2> QED BY <1>4, <2>4, <2>5 DEF both
<1> QED BY <1>3, <1>4

(***************************************************************************)
(* Secrets stay on their hosts                                             *)
(***************************************************************************)

(* A request the client sends carries placeholders only.                   *)
Untouched(request) ==
  /\ {"host", "parts"} \subseteq DOMAIN request
  /\ \A p \in Surface : \A fragment \in request.parts[p] : fragment.kind = "placeholder"

LEMMA RequestUntouched ==
  ASSUME NEW host, NEW method, NEW streaming, NEW textual, NEW carried
  PROVE  Untouched(RequestWith(host, method, streaming, textual, carried))
<1> DEFINE request == RequestWith(host, method, streaming, textual, carried)
<1>1. DOMAIN request = {"host", "method", "streaming", "textual", "sent", "parts"}
  BY DEF RequestWith
<1>2. ASSUME NEW p \in Surface
      PROVE  request.parts[p] = {[kind |-> "placeholder", of |-> n] :
                                   n \in {m \in Secrets : <<m, p>> \in carried}}
  BY DEF RequestWith
<1>3. \A p \in Surface : \A fragment \in request.parts[p] : fragment.kind = "placeholder"
  <2> SUFFICES ASSUME NEW p \in Surface, NEW fragment \in request.parts[p]
               PROVE  fragment.kind = "placeholder"
    OBVIOUS
  <2>1. PICK n : fragment = [kind |-> "placeholder", of |-> n]
    BY <1>2
  <2> QED BY <2>1
<1> HIDE DEF request
<1>4. Untouched(request)
  BY <1>1, <1>3 DEF Untouched
<1> QED BY <1>4 DEF request

LEMMA NoFlowHasNoParts == "parts" \notin DOMAIN NoFlow
BY DEF NoFlow

(* While a request is in progress load() is over, so self.secrets does not *)
(* change under the loop of _substitute_secrets.                           *)
FlowInv ==
  /\ verdict = "scanning" => flow # NoFlow
  /\ flow # NoFlow => addonPc = "serving" /\ {"host", "parts"} \subseteq DOMAIN flow

HomeInv == FlowInv /\ SecretsStayHome

(* Putting the value of a secret into a request to one of its hosts.       *)
LEMMA SubstituteStaysHome ==
  ASSUME HomeInv, SubstituteSecret
  PROVE  HomeInv'
<1> DEFINE name == secrets[scan].name
           Step(p) == IF p \in Rewritten THEN Replaced(flow.parts[p], name)
                                         ELSE flow.parts[p]
<1>1. /\ flow # NoFlow /\ addonPc = "serving"
      /\ {"host", "parts"} \subseteq DOMAIN flow
      /\ scan \in DOMAIN secrets /\ flow.host \in secrets[scan].hosts
      /\ UNCHANGED <<verdict, loadVars>>
      /\ flow' = WithSecret(name)
  BY DEF HomeInv, FlowInv, SubstituteSecret, HostAllowed
<1>2. /\ DOMAIN flow' = DOMAIN flow
      /\ flow'.host = flow.host
      /\ \A p \in Surface : flow'.parts[p] = Step(p)
  BY <1>1 DEF WithSecret
<1>3. FlowInv'
  <2>1. flow' # NoFlow /\ addonPc' = "serving"
    BY <1>1, <1>2, NoFlowHasNoParts DEF loadVars
  <2> QED BY <1>1, <1>2, <2>1 DEF FlowInv
<1>4. ASSUME NEW p \in Surface, NEW fragment \in Step(p)
      PROVE  fragment.of = name \/ fragment \in flow.parts[p]
  BY <1>4 DEF Replaced
<1>5. ASSUME NEW p \in Surface, NEW fragment \in flow'.parts[p],
             fragment.kind # "placeholder"
      PROVE  \E i \in DOMAIN secrets :
               secrets[i].name = fragment.of /\ flow'.host \in secrets[i].hosts
  <2>1. CASE fragment.of = name
    BY <1>1, <1>2, <2>1
  <2>2. CASE fragment \in flow.parts[p]
    BY <1>1, <1>2, <1>5, <2>2 DEF HomeInv, SecretsStayHome
  <2> QED BY <1>2, <1>4, <2>1, <2>2
<1>6. SecretsStayHome'
  BY <1>1, <1>5 DEF SecretsStayHome, loadVars
<1> QED BY <1>3, <1>6 DEF HomeInv

(* Whatever the settings layers, the outcome of every read, the variant of *)
(* the addon and the placeholders that overlap: the value of a secret is   *)
(* put only into requests to the hosts it lists (_substitute_secrets).     *)
THEOREM StayHome == Spec => []SecretsStayHome
<1>1. Init => HomeInv
  BY DEF Init, HomeInv, FlowInv, SecretsStayHome
<1>2. HomeInv /\ [Next]_vars => HomeInv'
  <2> SUFFICES ASSUME HomeInv, [Next]_vars PROVE HomeInv'
    OBVIOUS
  <2>1. CASE Load
    <3>1. addonPc # "serving" /\ UNCHANGED flowVars
      BY <2>1 DEF Load, MergeSettings, PassCliNotNeeded, PassCliLoginFails, PassCliLogin,
         VerifyPatAuth, VerifyPatAuthOrDie, LoadSecret, LoadNetworkRules,
         BadPresetRaises, CommandTimesOut
    <3>2. flow = NoFlow /\ flow' = NoFlow /\ verdict' = verdict
      BY <3>1 DEF HomeInv, FlowInv, flowVars
    <3> QED BY <3>2 DEF HomeInv, FlowInv, SecretsStayHome
  <2>2. ASSUME NEW request, Untouched(request), flow' = request,
               addonPc = "serving", UNCHANGED loadVars
        PROVE  HomeInv'
    <3>1. flow' # NoFlow /\ {"host", "parts"} \subseteq DOMAIN flow'
      BY <2>2, NoFlowHasNoParts DEF Untouched
    <3>2. addonPc' = "serving"
      BY <2>2 DEF loadVars
    <3>3. SecretsStayHome'
      BY <2>2 DEF Untouched, SecretsStayHome
    <3> QED BY <3>1, <3>2, <3>3 DEF HomeInv, FlowInv
  <2>3. ASSUME NEW host \in Hosts, DnsRequest(host) PROVE HomeInv'
    BY <2>2, <2>3, RequestUntouched DEF DnsRequest
  <2>4. ASSUME NEW host, NEW method, NEW streaming, NEW textual, NEW carried,
               ClientRequest(RequestWith(host, method, streaming, textual, carried))
        PROVE  HomeInv'
    BY <2>2, <2>4, RequestUntouched DEF ClientRequest
  <2>5. CASE SubstituteSecret
    BY <2>5, SubstituteStaysHome
  <2>6. CASE SkipSecret \/ BlockLeak \/ Forward
    <3>1. UNCHANGED <<flow, loadVars>> /\ (verdict' = "scanning" => verdict = "scanning")
      BY <2>6 DEF SkipSecret, BlockLeak, Forward
    <3> QED BY <3>1 DEF HomeInv, FlowInv, SecretsStayHome, loadVars
  <2>7. CASE FlowDone
    BY <2>7 DEF FlowDone, HomeInv, FlowInv, SecretsStayHome
  <2>8. CASE UNCHANGED vars
    BY <2>8 DEF vars, loadVars, flowVars, HomeInv, FlowInv, SecretsStayHome
  <2> QED BY <2>1, <2>3, <2>4, <2>5, <2>6, <2>7, <2>8 DEF Next
<1>3. HomeInv => SecretsStayHome
  BY DEF HomeInv
<1> QED BY <1>1, <1>2, <1>3, PTL DEF Spec

(***************************************************************************)
(* Proton Pass sessions                                                    *)
(***************************************************************************)

(* OnlyPatSecrets, strengthened: the loop of _load_secrets begins with no  *)
(* secret, and never with a full-account session.                          *)
PatInv ==
  /\ OnlyPatSecrets
  /\ \E S : secrets \in Seq(S)
  /\ addonPc \in {"merge", "login", "verify"} => secrets = << >>
  /\ addonPc \in {"merge", "login"} => session = "none"
  /\ addonPc = "secrets" => session # "full"
  /\ session \in {"none", "pat", "full"}

LEMMA LoadSecretPat ==
  ASSUME PatInv, LoadSecret
  PROVE  PatInv'
<1> DEFINE entry == Head(pending)
<1>1. PICK ok \in Resolutions(entry) :
        secrets' = Append(secrets, [name    |-> entry.name,
                                    sources |-> entry.sources,
                                    hosts   |-> entry.hosts,
                                    ok      |-> ok])
  BY DEF LoadSecret
<1> DEFINE new == [name |-> entry.name, sources |-> entry.sources,
                   hosts |-> entry.hosts, ok |-> ok]
<1>2. addonPc = "secrets" /\ UNCHANGED <<addonPc, session>> /\ session \in {"none", "pat"}
  BY DEF LoadSecret, PatInv
<1>3. ok /\ "pass" \in entry.sources => session = "pat"
  <2> SUFFICES ASSUME ok, "pass" \in entry.sources PROVE session # "none"
    BY <1>2
  <2>1. entry.sources # {"value"} /\ entry.sources # {"op"}
    OBVIOUS
  <2>2. CASE entry.sources = {"pass"}
    BY <1>1, <2>1, <2>2 DEF Resolutions
  <2>3. CASE entry.sources # {"pass"}
    BY <1>1, <2>1, <2>3 DEF Resolutions
  <2> QED BY <2>2, <2>3
<1>4. PICK S : secrets \in Seq(S)
  BY DEF PatInv
<1>5. secrets \in Seq(S \cup {new})
  BY <1>4
<1>6. /\ secrets' \in Seq(S \cup {new})
      /\ \A i \in DOMAIN secrets' : \/ i \in DOMAIN secrets /\ secrets'[i] = secrets[i]
                                    \/ secrets'[i] = new
  <2>1. secrets' = Append(secrets, new)
    BY <1>1
  <2> HIDE DEF new
  <2> QED BY <1>5, <2>1
<1>7. ASSUME NEW i \in DOMAIN secrets', secrets'[i].ok, "pass" \in secrets'[i].sources
      PROVE  session' = "pat"
  <2>1. CASE i \in DOMAIN secrets /\ secrets'[i] = secrets[i]
    BY <1>2, <1>7, <2>1 DEF PatInv, OnlyPatSecrets
  <2>2. CASE secrets'[i] = new
    BY <1>2, <1>3, <1>7, <2>2
  <2> QED BY <1>6, <2>1, <2>2
<1> QED BY <1>2, <1>6, <1>7 DEF PatInv, OnlyPatSecrets

(* Whatever logins fail, hang or are refused, and in whatever order: no    *)
(* pass:// secret is resolved but with a personal access token, because    *)
(* load() does not reach _load_secrets with any other session.             *)
THEOREM OnlyPat == Spec => []OnlyPatSecrets
<1>1. Init => PatInv
  BY DEF Init, PatInv, OnlyPatSecrets
<1>2. PatInv /\ [Next]_vars => PatInv'
  <2> SUFFICES ASSUME PatInv, [Next]_vars PROVE PatInv'
    OBVIOUS
  <2>1. ASSUME UNCHANGED <<session, secrets>>,
               addonPc' \in {"merge", "login", "verify"} => secrets = << >>,
               addonPc' \in {"merge", "login"} => session = "none",
               addonPc' = "secrets" => session # "full"
        PROVE  PatInv'
    BY <2>1 DEF PatInv, OnlyPatSecrets
  <2>2. CASE Load
    <3>1. CASE MergeSettings
      BY <2>1, <3>1 DEF MergeSettings, PatInv
    <3>2. CASE PassCliNotNeeded \/ PassCliLoginFails
      <4>1. /\ secrets = << >> /\ secrets' = << >> /\ addonPc' = "secrets"
            /\ session = "none" /\ session' = session
        BY <3>2 DEF PassCliNotNeeded, PassCliLoginFails, PatInv
      <4> QED BY <2>1, <4>1
    <3>3. CASE PassCliLogin \/ VerifyPatAuthOrDie
      <4>1. secrets = << >> /\ secrets' = << >> /\ addonPc' \in {"verify", "failed"}
        BY <3>3 DEF PassCliLogin, VerifyPatAuthOrDie, PatInv
      <4>2. session' \in {"none", "pat", "full"}
        BY <3>3 DEF PassCliLogin, VerifyPatAuthOrDie
      <4> QED BY <4>1, <4>2 DEF PatInv, OnlyPatSecrets
    <3>4. CASE VerifyPatAuth
      BY <2>1, <3>4 DEF VerifyPatAuth, PatInv
    <3>5. CASE LoadSecret
      BY <3>5, LoadSecretPat
    <3>6. CASE LoadNetworkRules \/ BadPresetRaises \/ CommandTimesOut
      BY <2>1, <3>6 DEF LoadNetworkRules, BadPresetRaises, CommandTimesOut, PatInv
    <3> QED BY <2>2, <3>1, <3>2, <3>3, <3>4, <3>5, <3>6 DEF Load
  <2>3. CASE UNCHANGED loadVars
    BY <2>1, <2>3 DEF loadVars, PatInv
  <2>4. ASSUME NEW request, ClientRequest(request) PROVE UNCHANGED loadVars
    BY <2>4 DEF ClientRequest
  <2>5. ASSUME NEW host, DnsRequest(host) PROVE UNCHANGED loadVars
    BY <2>5 DEF DnsRequest
  <2>6. CASE SkipSecret \/ BlockLeak \/ SubstituteSecret \/ Forward \/ FlowDone
    BY <2>3, <2>6 DEF SkipSecret, BlockLeak, SubstituteSecret, Forward, FlowDone, loadVars
  <2>7. CASE UNCHANGED vars
    BY <2>3, <2>7 DEF vars
  <2> QED BY <2>2, <2>3, <2>4, <2>5, <2>6, <2>7 DEF Next
<1>3. PatInv => OnlyPatSecrets
  BY DEF PatInv
<1> QED BY <1>1, <1>2, <1>3, PTL DEF Spec
=============================================================================
