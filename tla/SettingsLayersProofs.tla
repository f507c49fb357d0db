-------------------------- MODULE SettingsLayersProofs --------------------------
(***************************************************************************)
(* Theorems about what load() makes of the settings layers, and about the  *)
(* loop of _substitute_secrets over the secrets it has loaded, for any     *)
(* stack of layers of any length.                                          *)
(***************************************************************************)
EXTENDS SandcatAddonProofs, Iterations

(***************************************************************************)
(* Rules from several layers                                               *)
(***************************************************************************)

(* Some element is in M; the first element that is in M is in A (if A is a *)
(* part of M).                                                             *)
Some(s, M) == \E i \in DOMAIN s : s[i] \in M

Decides(s, M, A) == \E i \in DOMAIN s : s[i] \in A /\ \A j \in 1..(i - 1) : s[j] \notin M

LEMMA DecidesConcat ==
  ASSUME NEW S, NEW s \in Seq(S), NEW t \in Seq(S), NEW M, NEW A
  PROVE  /\ Some(s \o t, M) <=> Some(s, M) \/ Some(t, M)
         /\ Decides(s \o t, M, A) <=> Decides(s, M, A) \/ (~Some(s, M) /\ Decides(t, M, A))
<1> DEFINE both == s \o t
<1>1. /\ Len(s) \in Nat /\ DOMAIN s = 1..Len(s)
      /\ Len(t) \in Nat /\ DOMAIN t = 1..Len(t)
      /\ DOMAIN both = 1..(Len(s) + Len(t))
      /\ \A i \in 1..Len(s) : both[i] = s[i]
      /\ \A i \in 1..Len(t) : both[i + Len(s)] = t[i]
  OBVIOUS
<1> HIDE DEF both
<1>2. ASSUME NEW i \in DOMAIN both
      PROVE  i \in 1..Len(s) \/ \E k \in 1..Len(t) : i = k + Len(s)
  <2>1. i \notin 1..Len(s) => i - Len(s) \in 1..Len(t) /\ i = (i - Len(s)) + Len(s)
    BY <1>1, <1>2
  <2> QED BY <2>1
<1>3. /\ \A i \in 1..Len(s) : i \in DOMAIN both
      /\ \A i \in 1..Len(t) : i + Len(s) \in DOMAIN both
  BY <1>1
<1>4. Some(both, M) <=> Some(s, M) \/ Some(t, M)
  <2>1. Some(both, M) => Some(s, M) \/ Some(t, M)
    BY <1>1, <1>2 DEF Some
  <2>2. Some(s, M) \/ Some(t, M) => Some(both, M)
    BY <1>1, <1>3 DEF Some
  <2> QED BY <2>1, <2>2
<1>5. ASSUME Decides(both, M, A)
      PROVE  Decides(s, M, A) \/ (~Some(s, M) /\ Decides(t, M, A))
  <2>1. PICK i \in DOMAIN both : both[i] \in A /\ \A j \in 1..(i - 1) : both[j] \notin M
    BY <1>5 DEF Decides
  <2>2. CASE i \in 1..Len(s)
    <3>1. \A j \in 1..(i - 1) : j \in 1..Len(s)
      BY <1>1, <2>2
    <3> QED BY <1>1, <2>1, <2>2, <3>1 DEF Decides
  <2>3. ASSUME NEW k \in 1..Len(t), i = k + Len(s)
        PROVE  ~Some(s, M) /\ Decides(t, M, A)
    <3>1. \A j \in 1..Len(s) : j \in 1..(i - 1)
      BY <1>1, <2>3
    <3>2. \A j \in 1..(k - 1) : j + Len(s) \in 1..(i - 1) /\ j \in 1..Len(t)
      BY <1>1, <2>3
    <3> QED BY <1>1, <2>1, <2>3, <3>1, <3>2 DEF Some, Decides
  <2> QED BY <1>2, <2>2, <2>3
<1>6. ASSUME Decides(s, M, A)
      PROVE  Decides(both, M, A)
  <2>1. PICK i \in 1..Len(s) : s[i] \in A /\ \A j \in 1..(i - 1) : s[j] \notin M
    BY <1>1, <1>6 DEF Decides
  <2>2. \A j \in 1..(i - 1) : j \in 1..Len(s)
    BY <1>1
  <2> QED BY <1>1, <1>3, <2>1, <2>2 DEF Decides
<1>7. ASSUME ~Some(s, M), Decides(t, M, A)
      PROVE  Decides(both, M, A)
  <2>1. PICK k \in 1..Len(t) : t[k] \in A /\ \A j \in 1..(k - 1) : t[j] \notin M
    BY <1>1, <1>7 DEF Decides
  <2>2. ASSUME NEW j \in 1..((k + Len(s)) - 1)
        PROVE  both[j] \notin M
    <3>1. CASE j \in 1..Len(s)
      BY <1>1, <1>7, <3>1 DEF Some
    <3>2. CASE j \notin 1..Len(s)
      <4>1. j - Len(s) \in 1..(k - 1) /\ j - Len(s) \in 1..Len(t) /\ (j - Len(s)) + Len(s) = j
        BY <1>1, <3>2
      <4>2. both[j] = t[j - Len(s)]
        BY <1>1, <4>1
      <4> QED BY <2>1, <4>1, <4>2
    <3> QED BY <3>1, <3>2
  <2> QED BY <1>1, <1>3, <2>1, <2>2 DEF Decides
<1> QED BY <1>4, <1>5, <1>6, <1>7 DEF both

(* The first sequence with an element in M decides for all of them.        *)
LEMMA DecidesFlatten ==
  ASSUME NEW S, NEW ss \in Seq(Seq(S)), NEW M, NEW A
  PROVE  /\ FlattenSeq(ss) \in Seq(S)
         /\ Some(FlattenSeq(ss), M) <=> \E k \in DOMAIN ss : Some(ss[k], M)
         /\ Decides(FlattenSeq(ss), M, A) <=>
              \E k \in DOMAIN ss : /\ Decides(ss[k], M, A)
                                   /\ \A j \in 1..(k - 1) : ~Some(ss[j], M)
<1> DEFINE n == Len(ss)
<1>1. n \in Nat /\ n = Len(ss) /\ DOMAIN ss = 1..n /\ \A k \in 1..n : ss[k] \in Seq(S)
  OBVIOUS
<1> HIDE DEF n
<1>2. PICK f \in [0..n -> Seq(S)] : /\ f[0] = << >>
                                    /\ \A k \in 1..n : f[k] = f[k - 1] \o ss[k]
                                    /\ FlattenSeq(ss) = f[n]
  BY <1>1, Flattened
<1> DEFINE SomeOf(m) == \E k \in 1..m : Some(ss[k], M)
           DecidesOf(m) == \E k \in 1..m : /\ Decides(ss[k], M, A)
                                           /\ \A j \in 1..(k - 1) : ~Some(ss[j], M)
           good == {m \in 0..n : /\ Some(f[m], M) <=> SomeOf(m)
                                 /\ Decides(f[m], M, A) <=> DecidesOf(m)}
<1>3. 0 \in good /\ n \in 0..n
  <2>1. ~Some(f[0], M) /\ ~Decides(f[0], M, A)
    BY <1>2 DEF Some, Decides
  <2>2. ~SomeOf(0) /\ ~DecidesOf(0) /\ 0 \in 0..n /\ n \in 0..n
    BY <1>1
  <2> QED BY <2>1, <2>2
<1>4. ASSUME NEW m \in 0..(n - 1), m \in good
      PROVE  m + 1 \in good
  <2>1. m + 1 \in 1..n /\ m + 1 \in 0..n /\ m \in 0..n /\ (m + 1) - 1 = m
    BY <1>1
  <2>2. f[m + 1] = f[m] \o ss[m + 1] /\ f[m] \in Seq(S) /\ ss[m + 1] \in Seq(S)
    BY <1>1, <1>2, <2>1
  <2>3. /\ Some(f[m + 1], M) <=> Some(f[m], M) \/ Some(ss[m + 1], M)
        /\ Decides(f[m + 1], M, A) <=>
             Decides(f[m], M, A) \/ (~Some(f[m], M) /\ Decides(ss[m + 1], M, A))
    <3> DEFINE s == f[m]
               t == ss[m + 1]
    <3>1. s \in Seq(S) /\ t \in Seq(S) /\ f[m + 1] = s \o t
      BY <2>2
    <3> HIDE DEF s, t
    <3>2. /\ Some(s \o t, M) <=> Some(s, M) \/ Some(t, M)
          /\ Decides(s \o t, M, A) <=> Decides(s, M, A) \/ (~Some(s, M) /\ Decides(t, M, A))
      BY <3>1, DecidesConcat
    <3> QED BY <3>1, <3>2 DEF s, t
  <2>4. (Some(f[m], M) <=> SomeOf(m)) /\ (Decides(f[m], M, A) <=> DecidesOf(m))
    BY <1>4
  <2>5. 1..(m + 1) = (1..m) \cup {m + 1}
    BY <1>1
  <2>6. SomeOf(m + 1) <=> SomeOf(m) \/ Some(ss[m + 1], M)
    BY <2>5
  <2>7. DecidesOf(m + 1) <=> DecidesOf(m) \/ (Decides(ss[m + 1], M, A) /\ ~SomeOf(m))
    BY <2>1, <2>5
  <2> QED BY <2>1, <2>3, <2>4, <2>6, <2>7
<1>5. n \in good
  <2> HIDE DEF good
  <2> QED BY <1>1, <1>3, <1>4, UpTo
<1>6. (Some(f[n], M) <=> SomeOf(n)) /\ (Decides(f[n], M, A) <=> DecidesOf(n))
  BY <1>5
<1>7. /\ SomeOf(n) <=> \E k \in DOMAIN ss : Some(ss[k], M)
      /\ DecidesOf(n) <=> \E k \in DOMAIN ss : /\ Decides(ss[k], M, A)
                                              /\ \A j \in 1..(k - 1) : ~Some(ss[j], M)
  BY <1>1
<1> HIDE DEF good, SomeOf, DecidesOf
<1>8. FlattenSeq(ss) = f[n] /\ FlattenSeq(ss) \in Seq(S)
  BY <1>1, <1>2
<1> QED BY <1>6, <1>7, <1>8

(***************************************************************************)
(* The rules of the layers                                                 *)
(***************************************************************************)

(* Rules that apply to a request, and those of them that allow it.         *)
Applying(method, host) == {rule \in Rule : Matches(rule, method, host)}
Allowing(method, host) == {rule \in Applying(method, host) : rule.action = "allow"}

LEMMA AllowedDecides ==
  ASSUME NEW list \in Seq(Rule), NEW method, NEW host
  PROVE  /\ SomeMatch(list, method, host) <=> Some(list, Applying(method, host))
         /\ IsRequestAllowed(list, method, host) <=>
              Decides(list, Applying(method, host), Allowing(method, host))
<1>1. DOMAIN list = 1..Len(list) /\ Len(list) \in Nat /\ \A i \in DOMAIN list : list[i] \in Rule
  OBVIOUS
<1>2. \A i \in DOMAIN list : \A j \in 1..(i - 1) : j \in DOMAIN list
  BY <1>1
<1>3. \A i \in DOMAIN list : list[i] \in Applying(method, host) <=> Matches(list[i], method, host)
  BY <1>1 DEF Applying
<1>4. SomeMatch(list, method, host) <=> Some(list, Applying(method, host))
  BY <1>3 DEF SomeMatch, Some
<1>5. \A i \in DOMAIN list :
        FirstMatch(list, method, host, i) /\ list[i].action = "allow" <=>
          /\ list[i] \in Allowing(method, host)
          /\ \A j \in 1..(i - 1) : list[j] \notin Applying(method, host)
  BY <1>2, <1>3 DEF FirstMatch, Allowing
<1>6. IsRequestAllowed(list, method, host) <=>
        Decides(list, Applying(method, host), Allowing(method, host))
  BY <1>5 DEF IsRequestAllowed, Decides
<1> QED BY <1>4, <1>6

(* What takes the place of an entry of a "network" array.                  *)
Expansion(entry) == IF IsPreset(entry) THEN AllowRules(Presets[entry.preset]) ELSE <<entry>>

LEMMA ExpansionRules ==
  ASSUME NEW entry, entry \in Rule \/ IsPreset(entry), ~BadPreset(entry)
  PROVE  Expansion(entry) \in Seq(Rule)
<1>1. CASE IsPreset(entry)
  <2> DEFINE patterns == Presets[entry.preset]
  <2>1. patterns \in Seq(SUBSET Hosts)
    BY <1>1, PolicyAssumption DEF BadPreset
  <2> HIDE DEF patterns
  <2>2. \A i \in DOMAIN patterns :
          [action |-> "allow", host |-> patterns[i], method |-> None] \in Rule
    BY <2>1 DEF Rule
  <2>3. AllowRules(patterns) \in Seq(Rule)
    BY <2>1, <2>2 DEF AllowRules
  <2> QED BY <1>1, <2>3 DEF Expansion, patterns
<1>2. CASE ~IsPreset(entry)
  BY <1>2 DEF Expansion
<1> QED BY <1>1, <1>2

(* Entries whose expansion has a rule for the request, or decides it.      *)
ApplyingEntries(E, method, host) == {entry \in E : SomeMatch(Expansion(entry), method, host)}
AllowingEntries(E, method, host) == {entry \in E : IsRequestAllowed(Expansion(entry), method, host)}

(* A list is decided by its first entry that has a rule for the request,   *)
(* a preset's rules standing where the reference stood.                    *)
LEMMA ExpandDecides ==
  ASSUME NEW E, \A entry \in E : Expansion(entry) \in Seq(Rule),
         NEW raw \in Seq(E), NEW method, NEW host
  PROVE  /\ ExpandNetworkPresets(raw) \in Seq(Rule)
         /\ SomeMatch(ExpandNetworkPresets(raw), method, host)
              <=> Some(raw, ApplyingEntries(E, method, host))
         /\ IsRequestAllowed(ExpandNetworkPresets(raw), method, host)
              <=> Decides(raw, ApplyingEntries(E, method, host), AllowingEntries(E, method, host))
<1> DEFINE ss == [i \in DOMAIN raw |-> Expansion(raw[i])]
           M == Applying(method, host)
           A == Allowing(method, host)
<1>1. DOMAIN raw = 1..Len(raw) /\ Len(raw) \in Nat /\ \A i \in DOMAIN raw : raw[i] \in E
  OBVIOUS
<1>2. ss \in Seq(Seq(Rule)) /\ DOMAIN ss = DOMAIN raw /\ \A i \in DOMAIN raw : ss[i] = Expansion(raw[i])
  BY <1>1
<1>3. ExpandNetworkPresets(raw) = FlattenSeq(ss)
  BY DEF ExpandNetworkPresets, Expansion
<1> HIDE DEF ss, M, A
<1>4. /\ FlattenSeq(ss) \in Seq(Rule)
      /\ Some(FlattenSeq(ss), M) <=> \E k \in DOMAIN ss : Some(ss[k], M)
      /\ Decides(FlattenSeq(ss), M, A) <=>
           \E k \in DOMAIN ss : /\ Decides(ss[k], M, A)
                                /\ \A j \in 1..(k - 1) : ~Some(ss[j], M)
  BY <1>2, DecidesFlatten
<1>5. \A k \in DOMAIN raw :
        /\ Some(ss[k], M) <=> raw[k] \in ApplyingEntries(E, method, host)
        /\ Decides(ss[k], M, A) <=> raw[k] \in AllowingEntries(E, method, host)
  BY <1>1, <1>2, AllowedDecides DEF M, A, ApplyingEntries, AllowingEntries
<1>6. \A k \in DOMAIN raw : \A j \in 1..(k - 1) : j \in DOMAIN raw
  BY <1>1
<1>7. /\ SomeMatch(FlattenSeq(ss), method, host) <=> Some(FlattenSeq(ss), M)
      /\ IsRequestAllowed(FlattenSeq(ss), method, host) <=> Decides(FlattenSeq(ss), M, A)
  BY <1>4, AllowedDecides DEF M, A
<1>8. Some(FlattenSeq(ss), M) <=> Some(raw, ApplyingEntries(E, method, host))
  BY <1>2, <1>4, <1>5 DEF Some
<1>9. Decides(FlattenSeq(ss), M, A) <=>
        Decides(raw, ApplyingEntries(E, method, host), AllowingEntries(E, method, host))
  <2>1. Decides(raw, ApplyingEntries(E, method, host), AllowingEntries(E, method, host)) <=>
          \E k \in DOMAIN raw : /\ raw[k] \in AllowingEntries(E, method, host)
                                /\ \A j \in 1..(k - 1) : raw[j] \notin ApplyingEntries(E, method, host)
    BY DEF Decides
  <2> QED BY <1>2, <1>4, <1>5, <1>6, <2>1
<1> QED BY <1>3, <1>4, <1>7, <1>8, <1>9

(* The entries of a merged list are those of the layers, and the highest   *)
(* layer with an element in M decides.                                     *)
LEMMA MergeDecides ==
  ASSUME NEW E, NEW stack, stack \in Seq(ToSet(stack)),
         \A k \in DOMAIN stack : stack[k].network \in Seq(E), NEW M, NEW A
  PROVE  /\ MergeNetwork(stack) \in Seq(E)
         /\ Some(MergeNetwork(stack), M) <=> \E k \in DOMAIN stack : Some(stack[k].network, M)
         /\ Decides(MergeNetwork(stack), M, A) <=>
              \E k \in DOMAIN stack :
                /\ Decides(stack[k].network, M, A)
                /\ \A j \in DOMAIN stack : j > k => ~Some(stack[j].network, M)
<1> DEFINE nets == [i \in DOMAIN stack |-> stack[i].network]
           ss == Reverse(nets)
           n == Len(stack)
           back(k) == (n - k) + 1
<1>1. n \in Nat /\ DOMAIN stack = 1..n
  OBVIOUS
<1> HIDE DEF n
<1>2. DOMAIN nets = 1..n /\ nets \in Seq(Seq(E)) /\ Len(nets) = n
      /\ \A k \in 1..n : nets[k] = stack[k].network
  BY <1>1
<1> HIDE DEF nets
<1>3. \A k \in 1..n : back(k) \in 1..n /\ back(back(k)) = k
  BY <1>1
<1>4. /\ DOMAIN ss = 1..n
      /\ \A k \in 1..n : ss[k] = stack[back(k)].network
  BY <1>2, <1>3 DEF Reverse
<1>5. ss \in Seq(Seq(E))
  <2>1. \A k \in 1..n : ss[k] \in Seq(E)
    BY <1>1, <1>3, <1>4
  <2>2. ss = [k \in 1..n |-> ss[k]]
    BY <1>2 DEF Reverse
  <2> HIDE DEF ss
  <2> QED BY <1>1, <2>1, <2>2
<1>6. MergeNetwork(stack) = FlattenSeq(ss)
  BY DEF MergeNetwork, nets
<1> HIDE DEF ss
<1>7. /\ FlattenSeq(ss) \in Seq(E)
      /\ Some(FlattenSeq(ss), M) <=> \E k \in 1..n : Some(ss[k], M)
      /\ Decides(FlattenSeq(ss), M, A) <=>
           \E k \in 1..n : Decides(ss[k], M, A) /\ \A j \in 1..(k - 1) : ~Some(ss[j], M)
  BY <1>4, <1>5, DecidesFlatten
<1>8. (\E k \in 1..n : Some(ss[k], M)) <=> \E k \in 1..n : Some(stack[k].network, M)
  <2>1. ASSUME NEW k \in 1..n PROVE Some(ss[k], M) <=> Some(stack[back(k)].network, M)
    BY <1>4
  <2>2. ASSUME NEW k \in 1..n PROVE Some(stack[k].network, M) <=> Some(ss[back(k)], M)
    BY <1>3, <1>4
  <2> HIDE DEF back
  <2> QED BY <1>3, <2>1, <2>2
<1>9. ASSUME NEW k \in 1..n
      PROVE  (\A j \in 1..(k - 1) : ~Some(ss[j], M)) <=>
               \A j \in 1..n : j > back(k) => ~Some(stack[j].network, M)
  <2>1. \A j \in 1..(k - 1) : j \in 1..n /\ back(j) \in 1..n /\ back(j) > back(k)
    BY <1>1
  <2>2. \A j \in 1..n : j > back(k) => back(j) \in 1..(k - 1)
    BY <1>1
  <2>3. ASSUME \A j \in 1..(k - 1) : ~Some(ss[j], M), NEW j \in 1..n, j > back(k)
        PROVE  ~Some(stack[j].network, M)
    <3>1. back(j) \in 1..(k - 1) /\ ss[back(j)] = stack[back(back(j))].network /\ back(back(j)) = j
      BY <1>3, <1>4, <2>2, <2>3
    <3> QED BY <2>3, <3>1
  <2>4. ASSUME \A j \in 1..n : j > back(k) => ~Some(stack[j].network, M), NEW j \in 1..(k - 1)
        PROVE  ~Some(ss[j], M)
    BY <1>4, <2>1, <2>4
  <2> QED BY <2>3, <2>4
<1>10. (\E k \in 1..n : Decides(ss[k], M, A) /\ \A j \in 1..(k - 1) : ~Some(ss[j], M)) <=>
         \E k \in 1..n : /\ Decides(stack[k].network, M, A)
                         /\ \A j \in 1..n : j > k => ~Some(stack[j].network, M)
  <2>1. ASSUME NEW k \in 1..n, Decides(ss[k], M, A), \A j \in 1..(k - 1) : ~Some(ss[j], M)
        PROVE  /\ Decides(stack[back(k)].network, M, A) /\ back(k) \in 1..n
               /\ \A j \in 1..n : j > back(k) => ~Some(stack[j].network, M)
    BY <1>3, <1>4, <1>9, <2>1
  <2>2. ASSUME NEW k \in 1..n, Decides(stack[k].network, M, A),
               \A j \in 1..n : j > k => ~Some(stack[j].network, M)
        PROVE  /\ Decides(ss[back(k)], M, A) /\ back(k) \in 1..n
               /\ \A j \in 1..(back(k) - 1) : ~Some(ss[j], M)
    <3>1. back(k) \in 1..n /\ back(back(k)) = k
      BY <1>3
    <3> HIDE DEF back
    <3> QED BY <1>4, <1>9, <2>2, <3>1
  <2> HIDE DEF back
  <2> QED BY <2>1, <2>2
<1> QED BY <1>1, <1>6, <1>7, <1>8, <1>10

(* A list of layers none of which has a bad reference to a preset.         *)
LEMMA StackDecides ==
  ASSUME NEW stack \in LayerStacks,
         \A i \in DOMAIN MergeNetwork(stack) : ~BadPreset(MergeNetwork(stack)[i]),
         NEW method, NEW host
  PROVE  /\ ExpandNetworkPresets(MergeNetwork(stack)) \in Seq(Rule)
         /\ IsRequestAllowed(ExpandNetworkPresets(MergeNetwork(stack)), method, host) <=>
              \E k \in DOMAIN stack :
                /\ IsRequestAllowed(ExpandNetworkPresets(stack[k].network), method, host)
                /\ \A j \in DOMAIN stack : j > k =>
                     ~SomeMatch(ExpandNetworkPresets(stack[j].network), method, host)
<1> DEFINE raw == MergeNetwork(stack)
           E == UNION {ToSet(stack[k].network) : k \in DOMAIN stack}
           M == ApplyingEntries(E, method, host)
           A == AllowingEntries(E, method, host)
<1>1. stack \in Seq(ToSet(stack)) /\ \A k \in DOMAIN stack : stack[k].network \in Seq(E)
  <2>1. ASSUME NEW k \in DOMAIN stack PROVE stack[k].network \in Seq(E)
    <3>1. stack[k].network \in Seq(ToSet(stack[k].network)) /\ ToSet(stack[k].network) \subseteq E
      BY LayersAssumption
    <3> QED BY <3>1
  <2> QED BY <2>1, LayersAssumption
<1>2. \A entry \in E : entry \in Rule \/ IsPreset(entry)
  BY LayersAssumption
<1> HIDE DEF raw, E, M, A
<1>3. /\ raw \in Seq(E)
      /\ \A X : Some(raw, X) <=> \E k \in DOMAIN stack : Some(stack[k].network, X)
      /\ Decides(raw, M, A) <=>
           \E k \in DOMAIN stack : /\ Decides(stack[k].network, M, A)
                                   /\ \A j \in DOMAIN stack : j > k => ~Some(stack[j].network, M)
  BY <1>1, MergeDecides DEF raw
<1>4. \A entry \in E : ~BadPreset(entry)
  <2> SUFFICES ASSUME NEW entry \in E PROVE ~BadPreset(entry)
    OBVIOUS
  <2>1. PICK k \in DOMAIN stack : entry \in ToSet(stack[k].network)
    BY DEF E
  <2>2. Some(stack[k].network, {entry})
    BY <2>1 DEF Some, ToSet
  <2>3. Some(raw, {entry})
    BY <1>3, <2>2
  <2> QED BY <2>3 DEF Some, raw
<1>5. \A entry \in E : Expansion(entry) \in Seq(Rule)
  BY <1>2, <1>4, ExpansionRules
<1>6. \A list \in Seq(E) :
        /\ ExpandNetworkPresets(list) \in Seq(Rule)
        /\ SomeMatch(ExpandNetworkPresets(list), method, host) <=> Some(list, M)
        /\ IsRequestAllowed(ExpandNetworkPresets(list), method, host) <=> Decides(list, M, A)
  BY <1>5, ExpandDecides DEF M, A
<1> QED BY <1>1, <1>3, <1>6 DEF raw

(***************************************************************************)
(* The secrets of the layers                                               *)
(***************************************************************************)

(* The keys of a dict are different.                                       *)
Unique(dict) == \A i, j \in DOMAIN dict : dict[i].name = dict[j].name => i = j

LEMMA PutDict ==
  ASSUME NEW dict \in Seq(Entry), NEW e \in Entry
  PROVE  /\ Put(dict, e) \in Seq(Entry)
         /\ \A x \in ToSet(Put(dict, e)) : x = e \/ (x \in ToSet(dict) /\ x.name # e.name)
         /\ Names(Put(dict, e)) = Names(dict) \cup {e.name}
         /\ Unique(dict) => Unique(Put(dict, e))
<1> DEFINE new == Put(dict, e)
<1>1. DOMAIN dict = 1..Len(dict) /\ Len(dict) \in Nat /\ \A i \in DOMAIN dict : dict[i] \in Entry
  OBVIOUS
<1>2. CASE e.name \in Names(dict)
  <2>1. new = [i \in DOMAIN dict |-> IF dict[i].name = e.name THEN e ELSE dict[i]]
    BY <1>2 DEF Put
  <2>2. /\ DOMAIN new = DOMAIN dict
        /\ \A i \in DOMAIN dict : new[i] = IF dict[i].name = e.name THEN e ELSE dict[i]
    BY <2>1
  <2>3. new \in Seq(Entry)
    <3>1. \A i \in 1..Len(dict) : (IF dict[i].name = e.name THEN e ELSE dict[i]) \in Entry
      BY <1>1
    <3> QED BY <1>1, <2>1, <3>1
  <2> HIDE DEF new
  <2>4. \A i \in DOMAIN dict : new[i].name = dict[i].name
    BY <2>2
  <2>5. \A x \in ToSet(new) : x = e \/ (x \in ToSet(dict) /\ x.name # e.name)
    BY <2>2 DEF ToSet
  <2>6. Names(new) = Names(dict) \cup {e.name}
    BY <1>2, <2>2, <2>4 DEF Names
  <2>7. Unique(dict) => Unique(new)
    BY <2>2, <2>4 DEF Unique
  <2> QED BY <2>3, <2>5, <2>6, <2>7 DEF new
<1>3. CASE e.name \notin Names(dict)
  <2>1. new = Append(dict, e)
    BY <1>3 DEF Put
  <2>2. /\ new \in Seq(Entry) /\ DOMAIN new = 1..(Len(dict) + 1)
        /\ \A i \in DOMAIN dict : new[i] = dict[i]
        /\ new[Len(dict) + 1] = e
    BY <1>1, <2>1
  <2> HIDE DEF new
  <2>3. \A i \in DOMAIN new : i \in DOMAIN dict \/ i = Len(dict) + 1
    BY <1>1, <2>2
  <2>4. \A i \in DOMAIN dict : i \in DOMAIN new /\ dict[i].name # e.name /\ i # Len(dict) + 1
    BY <1>1, <1>3, <2>2 DEF Names
  <2>5. \A x \in ToSet(new) : x = e \/ (x \in ToSet(dict) /\ x.name # e.name)
    BY <2>2, <2>3, <2>4 DEF ToSet
  <2>6. Names(new) = Names(dict) \cup {e.name}
    <3>1. Len(dict) + 1 \in DOMAIN new
      BY <1>1, <2>2
    <3> QED BY <2>2, <2>3, <2>4, <3>1 DEF Names
  <2>7. Unique(dict) => Unique(new)
    BY <2>2, <2>3, <2>4 DEF Unique
  <2> QED BY <2>2, <2>5, <2>6, <2>7 DEF new
<1> QED BY <1>2, <1>3

LEMMA UpdatedDict ==
  ASSUME NEW dict \in Seq(Entry), NEW overlay \in Seq(Entry)
  PROVE  /\ Updated(dict, overlay) \in Seq(Entry)
         /\ \A x \in ToSet(Updated(dict, overlay)) :
              x \in ToSet(overlay) \/ (x \in ToSet(dict) /\ x.name \notin Names(overlay))
         /\ Names(Updated(dict, overlay)) = Names(dict) \cup Names(overlay)
         /\ Unique(dict) => Unique(Updated(dict, overlay))
<1> DEFINE n == Len(overlay)
           put == CHOOSE f : f = [k \in 0..n |-> IF k = 0 THEN dict ELSE Put(f[k - 1], overlay[k])]
           next == [x \in Seq(Entry) \X (1..n) |-> Put(x[1], overlay[x[2]])]
<1>1. n \in Nat /\ n = Len(overlay) /\ DOMAIN overlay = 1..n /\ \A k \in 1..n : overlay[k] \in Entry
  OBVIOUS
<1>2. Updated(dict, overlay) = put[n]
  BY DEF Updated
<1>3. put = [k \in 0..n |-> IF k = 0 THEN dict ELSE Put(put[k - 1], overlay[k])]
  <2>1. next \in [Seq(Entry) \X (1..n) -> Seq(Entry)]
    BY <1>1, PutDict
  <2>2. \A x \in Seq(Entry), k \in 1..n : next[<<x, k>>] = Put(x, overlay[k])
    OBVIOUS
  <2> HIDE DEF n, next
  <2>3. PICK f : Iterates(f, Seq(Entry), n, dict, next)
    BY <1>1, <2>1, Iteration
  <2>4. ASSUME NEW k \in 0..n
        PROVE  f[k] = IF k = 0 THEN dict ELSE Put(f[k - 1], overlay[k])
    <3>1. CASE k = 0
      BY <2>3, <3>1 DEF Iterates
    <3>2. CASE k # 0
      <4>1. k \in 1..n /\ k - 1 \in 0..n
        BY <1>1, <3>2
      <4> QED BY <2>2, <2>3, <3>2, <4>1 DEF Iterates
    <3> QED BY <3>1, <3>2
  <2>5. f = [k \in 0..n |-> IF k = 0 THEN dict ELSE Put(f[k - 1], overlay[k])]
    <3>1. f = [k \in 0..n |-> f[k]]
      BY <2>3 DEF Iterates
    <3> QED BY <2>4, <3>1
  <2> QED BY <2>5
<1> HIDE DEF n, put
<1>4. put[0] = dict /\ \A k \in 1..n : put[k] = Put(put[k - 1], overlay[k])
  <2>1. \A k \in 1..n : k \in 0..n /\ k # 0
    BY <1>1
  <2> QED BY <1>1, <1>3, <2>1
<1> DEFINE Over(m) == {overlay[j] : j \in 1..m}
           OverNames(m) == {overlay[j].name : j \in 1..m}
           good == {m \in 0..n : /\ put[m] \in Seq(Entry)
                                 /\ \A x \in ToSet(put[m]) :
                                      x \in Over(m) \/ (x \in ToSet(dict) /\ x.name \notin OverNames(m))
                                 /\ Names(put[m]) = Names(dict) \cup OverNames(m)
                                 /\ Unique(dict) => Unique(put[m])}
<1>5. 0 \in good
  <2>1. Over(0) = {} /\ OverNames(0) = {} /\ 0 \in 0..n
    BY <1>1
  <2> HIDE DEF Over, OverNames
  <2> QED BY <1>4, <2>1
<1>6. ASSUME NEW m \in 0..(n - 1), m \in good
      PROVE  m + 1 \in good
  <2> DEFINE e == overlay[m + 1]
  <2>1. m + 1 \in 1..n /\ m + 1 \in 0..n /\ (m + 1) - 1 = m /\ e \in Entry
    BY <1>1
  <2>2. Over(m + 1) = Over(m) \cup {e} /\ OverNames(m + 1) = OverNames(m) \cup {e.name}
    <3>1. 1..(m + 1) = (1..m) \cup {m + 1}
      BY <1>1
    <3> QED BY <3>1
  <2>3. put[m + 1] = Put(put[m], e) /\ put[m] \in Seq(Entry)
    BY <1>4, <1>6, <2>1
  <2>4. /\ \A x \in ToSet(put[m]) :
             x \in Over(m) \/ (x \in ToSet(dict) /\ x.name \notin OverNames(m))
        /\ Names(put[m]) = Names(dict) \cup OverNames(m)
        /\ Unique(dict) => Unique(put[m])
    BY <1>6
  <2> HIDE DEF e, Over, OverNames
  <2>5. /\ Put(put[m], e) \in Seq(Entry)
        /\ \A x \in ToSet(Put(put[m], e)) : x = e \/ (x \in ToSet(put[m]) /\ x.name # e.name)
        /\ Names(Put(put[m], e)) = Names(put[m]) \cup {e.name}
        /\ Unique(put[m]) => Unique(Put(put[m], e))
    BY <2>1, <2>3, PutDict
  <2>6. \A x \in ToSet(put[m + 1]) :
          x \in Over(m + 1) \/ (x \in ToSet(dict) /\ x.name \notin OverNames(m + 1))
    BY <2>2, <2>3, <2>4, <2>5
  <2>7. Names(put[m + 1]) = Names(dict) \cup OverNames(m + 1)
    BY <2>2, <2>3, <2>4, <2>5
  <2> QED BY <2>1, <2>3, <2>4, <2>5, <2>6, <2>7
<1>7. n \in good
  <2>1. n \in 0..n
    BY <1>1
  <2> HIDE DEF good
  <2> QED BY <1>1, <1>5, <1>6, <2>1, UpTo
<1>8. Over(n) = ToSet(overlay) /\ OverNames(n) = Names(overlay)
  BY <1>1 DEF ToSet, Names
<1> HIDE DEF Over, OverNames
<1> QED BY <1>2, <1>7, <1>8

(* The merged entry for a name is that of the highest layer that has one.  *)
TopEntry(entry, upTo) ==
  \E l \in 1..upTo :
    /\ entry \in ToSet(layers[l].secrets)
    /\ \A j \in 1..upTo : j > l => entry.name \notin Names(layers[j].secrets)

LEMMA MergedDict ==
  ASSUME layers \in LayerStacks
  PROVE  /\ MergeSecrets \in Seq(Entry)
         /\ Unique(MergeSecrets)
         /\ layers = << >> => MergeSecrets = << >>
         /\ \A x \in ToSet(MergeSecrets) : TopEntry(x, Len(layers))
<1> DEFINE n == Len(layers)
           merged == CHOOSE f : f = [k \in 0..n |-> IF k = 0 THEN << >>
                                                   ELSE Updated(f[k - 1], layers[k].secrets)]
           next == [x \in Seq(Entry) \X (1..n) |-> Updated(x[1], layers[x[2]].secrets)]
<1>1. /\ n \in Nat /\ n = Len(layers) /\ DOMAIN layers = 1..n
      /\ \A k \in 1..n : layers[k].secrets \in Seq(Entry)
  <2>1. layers \in Seq(ToSet(layers))
    BY LayersAssumption
  <2>2. n \in Nat /\ n = Len(layers) /\ DOMAIN layers = 1..n
    BY <2>1
  <2> QED BY <2>2, LayersAssumption
<1>2. MergeSecrets = merged[n]
  BY DEF MergeSecrets
<1>3. merged = [k \in 0..n |-> IF k = 0 THEN << >> ELSE Updated(merged[k - 1], layers[k].secrets)]
  <2>1. next \in [Seq(Entry) \X (1..n) -> Seq(Entry)]
    BY <1>1, UpdatedDict
  <2>2. \A x \in Seq(Entry), k \in 1..n : next[<<x, k>>] = Updated(x, layers[k].secrets)
    OBVIOUS
  <2> HIDE DEF n, next
  <2>3. PICK f : Iterates(f, Seq(Entry), n, << >>, next)
    <3>1. << >> \in Seq(Entry)
      OBVIOUS
    <3> QED BY <1>1, <2>1, <3>1, Iteration
  <2>4. ASSUME NEW k \in 0..n
        PROVE  f[k] = IF k = 0 THEN << >> ELSE Updated(f[k - 1], layers[k].secrets)
    <3>1. CASE k = 0
      BY <2>3, <3>1 DEF Iterates
    <3>2. CASE k # 0
      <4>1. k \in 1..n /\ k - 1 \in 0..n
        BY <1>1, <3>2
      <4> QED BY <2>2, <2>3, <3>2, <4>1 DEF Iterates
    <3> QED BY <3>1, <3>2
  <2>5. f = [k \in 0..n |-> IF k = 0 THEN << >> ELSE Updated(f[k - 1], layers[k].secrets)]
    <3>1. f = [k \in 0..n |-> f[k]]
      BY <2>3 DEF Iterates
    <3> QED BY <2>4, <3>1
  <2> QED BY <2>5
<1> HIDE DEF n, merged
<1>4. merged[0] = << >> /\ \A k \in 1..n : merged[k] = Updated(merged[k - 1], layers[k].secrets)
  <2>1. \A k \in 1..n : k \in 0..n /\ k # 0
    BY <1>1
  <2> QED BY <1>1, <1>3, <2>1
<1> DEFINE good == {m \in 0..n : /\ merged[m] \in Seq(Entry)
                                 /\ Unique(merged[m])
                                 /\ \A x \in ToSet(merged[m]) : TopEntry(x, m)}
<1>5. 0 \in good
  <2>1. 0 \in 0..n
    BY <1>1
  <2>2. << >> \in Seq(Entry) /\ DOMAIN << >> = {}
    OBVIOUS
  <2>3. Unique(<< >>) /\ ToSet(<< >>) = {}
    BY <2>2 DEF Unique, ToSet
  <2> QED BY <1>4, <2>1, <2>2, <2>3
<1>6. ASSUME NEW m \in 0..(n - 1), m \in good
      PROVE  m + 1 \in good
  <2> DEFINE overlay == layers[m + 1].secrets
  <2>1. m + 1 \in 1..n /\ m + 1 \in 0..n /\ (m + 1) - 1 = m /\ overlay \in Seq(Entry)
    BY <1>1
  <2>2. merged[m + 1] = Updated(merged[m], overlay) /\ merged[m] \in Seq(Entry)
    BY <1>4, <1>6, <2>1
  <2>3. Unique(merged[m]) /\ \A x \in ToSet(merged[m]) : TopEntry(x, m)
    BY <1>6
  <2>4. 1..(m + 1) = (1..m) \cup {m + 1} /\ \A l \in 1..m : ~(l > m + 1) /\ ~(m + 1 > m + 1)
    BY <1>1
  <2> HIDE DEF overlay
  <2>5. /\ Updated(merged[m], overlay) \in Seq(Entry)
        /\ \A x \in ToSet(Updated(merged[m], overlay)) :
             x \in ToSet(overlay) \/ (x \in ToSet(merged[m]) /\ x.name \notin Names(overlay))
        /\ Unique(merged[m]) => Unique(Updated(merged[m], overlay))
    BY <2>1, <2>2, UpdatedDict
  <2>6. ASSUME NEW x \in ToSet(overlay) PROVE TopEntry(x, m + 1)
    <3>1. \A j \in 1..(m + 1) : ~(j > m + 1)
      BY <1>1
    <3> QED BY <2>1, <2>4, <2>6, <3>1 DEF TopEntry, overlay
  <2>7. ASSUME NEW x \in ToSet(merged[m]), x.name \notin Names(overlay)
        PROVE  TopEntry(x, m + 1)
    BY <2>3, <2>4, <2>7 DEF TopEntry, overlay
  <2>8. \A x \in ToSet(merged[m + 1]) : TopEntry(x, m + 1)
    BY <2>2, <2>5, <2>6, <2>7
  <2> QED BY <2>1, <2>2, <2>3, <2>5, <2>8
<1>7. n \in good
  <2>1. n \in 0..n
    BY <1>1
  <2> HIDE DEF good
  <2> QED BY <1>1, <1>5, <1>6, <2>1, UpTo
<1>8. layers = << >> => n = 0
  BY <1>1
<1> QED BY <1>1, <1>2, <1>4, <1>7, <1>8

(***************************************************************************)
(* The addon's state                                                       *)
(***************************************************************************)

(* What load() has resolved and has still to resolve are the merged        *)
(* secrets; each keeps its source and its allowlist.                       *)
From(loaded, entry) ==
  loaded.name = entry.name /\ loaded.sources = entry.sources /\ loaded.hosts = entry.hosts

SecretsInv ==
  /\ layers \in LayerStacks
  /\ pending \in Seq(Entry) /\ secrets \in Seq(Loaded)
  /\ addonPc \in {"merge", "login", "verify"} => secrets = << >>
  /\ addonPc = "merge" => pending = << >>
  /\ addonPc = "serving" => pending = << >>
  /\ addonPc # "merge" => Len(secrets) + Len(pending) = Len(MergeSecrets)
  /\ \A i \in DOMAIN secrets : i \in DOMAIN MergeSecrets /\ From(secrets[i], MergeSecrets[i])
  /\ \A i \in DOMAIN pending : pending[i] = MergeSecrets[Len(secrets) + i]

LEMMA LoadSecretResolves ==
  ASSUME SecretsInv, LoadSecret
  PROVE  SecretsInv'
<1> DEFINE entry == Head(pending)
<1>1. PICK ok \in Resolutions(entry) :
        secrets' = Append(secrets, [name    |-> entry.name,
                                    sources |-> entry.sources,
                                    hosts   |-> entry.hosts,
                                    ok      |-> ok])
  BY DEF LoadSecret
<1> DEFINE new == [name |-> entry.name, sources |-> entry.sources,
                   hosts |-> entry.hosts, ok |-> ok]
<1>2. /\ addonPc = "secrets" /\ UNCHANGED <<layers, addonPc>>
      /\ pending # << >> /\ pending' = Tail(pending) /\ secrets' = Append(secrets, new)
      /\ pending \in Seq(Entry) /\ secrets \in Seq(Loaded)
  BY <1>1 DEF LoadSecret, SecretsInv
<1>3. MergeSecrets' = MergeSecrets
  BY <1>2 DEF MergeSecrets
<1>4. entry \in Entry /\ entry = pending[1] /\ 1 \in DOMAIN pending
  BY <1>2
<1>5. ok \in BOOLEAN
  BY <1>1 DEF Resolutions
<1>6. new \in Loaded /\ From(new, entry)
  BY <1>4, <1>5 DEF Loaded, Entry, From
<1> HIDE DEF entry, new
<1>7. /\ secrets' \in Seq(Loaded) /\ Len(secrets') = Len(secrets) + 1
      /\ \A i \in DOMAIN secrets : secrets'[i] = secrets[i]
      /\ secrets'[Len(secrets) + 1] = new
      /\ \A i \in DOMAIN secrets' : i \in DOMAIN secrets \/ i = Len(secrets) + 1
  BY <1>2, <1>6
<1>8. /\ pending' \in Seq(Entry) /\ Len(pending') + 1 = Len(pending)
      /\ \A i \in DOMAIN pending' : pending'[i] = pending[i + 1] /\ i + 1 \in DOMAIN pending
  BY <1>2
<1>9. Len(secrets') + Len(pending') = Len(MergeSecrets)
  BY <1>2, <1>7, <1>8 DEF SecretsInv
<1>10. Len(secrets) + 1 \in DOMAIN MergeSecrets /\ MergeSecrets[Len(secrets) + 1] = entry
  <2>1. MergeSecrets \in Seq(Entry)
    BY MergedDict DEF SecretsInv
  <2>2. MergeSecrets[Len(secrets) + 1] = entry
    BY <1>4 DEF SecretsInv
  <2>3. Len(secrets) \in Nat /\ Len(pending) \in Nat /\ Len(pending) >= 1
    BY <1>2, <1>4
  <2>4. Len(secrets) + Len(pending) = Len(MergeSecrets)
    BY <1>2 DEF SecretsInv
  <2>5. Len(secrets) + 1 \in 1..Len(MergeSecrets)
    BY <2>3, <2>4
  <2> QED BY <2>1, <2>2, <2>5
<1>11. \A i \in DOMAIN secrets' : i \in DOMAIN MergeSecrets /\ From(secrets'[i], MergeSecrets[i])
  BY <1>6, <1>7, <1>10 DEF SecretsInv
<1>12. \A i \in DOMAIN pending' : pending'[i] = MergeSecrets[Len(secrets') + i]
  <2> SUFFICES ASSUME NEW i \in DOMAIN pending'
               PROVE  pending'[i] = MergeSecrets[Len(secrets') + i]
    OBVIOUS
  <2>1. i \in Nat /\ Len(secrets) \in Nat
    BY <1>2, <1>8
  <2>2. pending'[i] = MergeSecrets[Len(secrets) + (i + 1)]
    BY <1>8 DEF SecretsInv
  <2>3. Len(secrets) + (i + 1) = Len(secrets') + i
    BY <1>7, <2>1
  <2> QED BY <2>2, <2>3
<1> QED BY <1>2, <1>3, <1>7, <1>8, <1>9, <1>11, <1>12 DEF SecretsInv

(* A request is handled while load() is over.                              *)
LEMMA RequestsKeepLoaded ==
  ASSUME Next, ~Load
  PROVE  UNCHANGED loadVars
BY DEF Next, DnsRequest, ClientRequest, SkipSecret, BlockLeak, SubstituteSecret, Forward, FlowDone

LEMMA SecretsInvariant == Spec => []SecretsInv
<1>1. Init => SecretsInv
  <2> SUFFICES ASSUME Init PROVE SecretsInv
    OBVIOUS
  <2>1. << >> \in Seq(Entry) /\ << >> \in Seq(Loaded) /\ DOMAIN << >> = {}
    OBVIOUS
  <2> QED BY <2>1 DEF Init, SecretsInv
<1>2. SecretsInv /\ [Next]_vars => SecretsInv'
  <2> SUFFICES ASSUME SecretsInv, [Next]_vars PROVE SecretsInv'
    OBVIOUS
  <2>1. UNCHANGED layers => MergeSecrets' = MergeSecrets
    BY DEF MergeSecrets
  <2>2. CASE UNCHANGED <<layers, pending, secrets>> /\ addonPc # "merge"
             /\ (addonPc' \in {"merge", "login", "verify"} => secrets = << >>)
             /\ addonPc' # "merge" /\ (addonPc' = "serving" => pending = << >>)
    BY <2>1, <2>2 DEF SecretsInv
  <2>3. CASE Load
    <3>1. CASE MergeSettings
      <4>1. /\ MergeSecrets' = MergeSecrets /\ MergeSecrets \in Seq(Entry)
            /\ pending' = MergeSecrets /\ secrets' = << >> /\ layers' = layers
            /\ secrets \in Seq(Loaded) /\ secrets' \in Seq(Loaded)
            /\ addonPc' # "merge" /\ (addonPc' = "serving" => pending' = << >>)
        BY <2>1, <3>1, MergedDict DEF MergeSettings, SecretsInv
      <4>2. Len(secrets') = 0 /\ DOMAIN secrets' = {} /\ Len(pending') \in Nat
        BY <4>1
      <4>3. \A i \in DOMAIN pending' : 0 + i = i
        BY <4>1
      <4> QED BY <4>1, <4>2, <4>3 DEF SecretsInv
    <3>2. CASE PassCliNotNeeded \/ PassCliLoginFails \/ PassCliLogin \/ VerifyPatAuth
      BY <2>2, <3>2 DEF PassCliNotNeeded, PassCliLoginFails, PassCliLogin, VerifyPatAuth, SecretsInv
    <3>3. CASE VerifyPatAuthOrDie \/ BadPresetRaises \/ CommandTimesOut \/ LoadNetworkRules
      BY <2>2, <3>3 DEF VerifyPatAuthOrDie, BadPresetRaises, CommandTimesOut, LoadNetworkRules
    <3>4. CASE LoadSecret
      BY <3>4, LoadSecretResolves
    <3> QED BY <2>3, <3>1, <3>2, <3>3, <3>4 DEF Load
  <2>4. CASE UNCHANGED loadVars
    BY <2>1, <2>4 DEF loadVars, SecretsInv
  <2> QED BY <2>3, <2>4, RequestsKeepLoaded DEF vars
<1> QED BY <1>1, <1>2, PTL DEF Spec

(* The loaded secrets are the merged ones, and different.                  *)
LEMMA LoadedSecrets ==
  ASSUME SecretsInv
  PROVE  /\ Unique(secrets)
         /\ addonPc = "serving" => Names(secrets) = Names(MergeSecrets)
<1>1. MergeSecrets \in Seq(Entry) /\ Unique(MergeSecrets)
  BY MergedDict DEF SecretsInv
<1>2. Unique(secrets)
  BY <1>1 DEF Unique, SecretsInv, From
<1>3. ASSUME addonPc = "serving" PROVE Names(secrets) = Names(MergeSecrets)
  <2>1. Len(pending) = 0
    BY <1>3 DEF SecretsInv
  <2>2. DOMAIN secrets = DOMAIN MergeSecrets
    BY <1>1, <1>3, <2>1 DEF SecretsInv
  <2> QED BY <2>2 DEF Names, SecretsInv, From
<1> QED BY <1>2, <1>3

(* Of several layers that define a secret, the highest gives its source    *)
(* and its allowlist; neither comes from another layer's entry, however    *)
(* many layers there are and in whatever order they list their secrets     *)
(* (_merge_settings, _load_secrets).                                       *)
THEOREM TopLayerWins == Spec => []TopLayerDefines
<1>1. SecretsInv => TopLayerDefines
  <2> SUFFICES ASSUME SecretsInv, NEW i \in DOMAIN secrets
               PROVE  \E k \in DOMAIN layers :
                        /\ \E e \in ToSet(layers[k].secrets) : From(secrets[i], e)
                        /\ \A j \in DOMAIN layers : j > k =>
                             secrets[i].name \notin Names(layers[j].secrets)
    BY DEF TopLayerDefines, From
  <2>1. MergeSecrets[i] \in ToSet(MergeSecrets) /\ From(secrets[i], MergeSecrets[i])
    BY DEF SecretsInv, ToSet
  <2>2. TopEntry(MergeSecrets[i], Len(layers))
    BY <2>1, MergedDict DEF SecretsInv
  <2>3. DOMAIN layers = 1..Len(layers)
    BY LayersAssumption DEF SecretsInv
  <2> QED BY <2>1, <2>2, <2>3 DEF TopEntry, From
<1> QED BY <1>1, SecretsInvariant, PTL

(* The rules in force are made of all the layers, once load() is over.     *)
RulesInv ==
  /\ layers \in LayerStacks
  /\ rules \in Seq(Rule)
  /\ addonPc # "serving" => verdict = "none"
  /\ addonPc = "serving" =>
       \/ layers = << >> /\ rules = << >>
       \/ /\ rules = ExpandNetworkPresets(RawRules)
          /\ \A i \in DOMAIN RawRules : ~BadPreset(RawRules[i])
  /\ addonPc # "serving" => rules = << >>
  /\ verdict = "resolved" => flow.host \in Hosts /\ IsRequestAllowed(rules, None, flow.host)

LEMMA RulesInvariant == Spec => []RulesInv
<1>1. Init => RulesInv
  <2> SUFFICES ASSUME Init PROVE RulesInv
    OBVIOUS
  <2>1. << >> \in Seq(Rule)
    OBVIOUS
  <2> QED BY <2>1 DEF Init, RulesInv
<1>2. RulesInv /\ [Next]_vars => RulesInv'
  <2> SUFFICES ASSUME RulesInv, [Next]_vars PROVE RulesInv'
    OBVIOUS
  <2>1. UNCHANGED layers => RawRules' = RawRules
    BY DEF RawRules
  <2>2. CASE Load
    <3>1. /\ addonPc # "serving" /\ verdict = "none" /\ verdict' = "none"
          /\ layers' = layers /\ rules = << >> /\ RawRules' = RawRules
      BY <2>1, <2>2 DEF Load, MergeSettings, PassCliNotNeeded, PassCliLoginFails, PassCliLogin,
         VerifyPatAuth, VerifyPatAuthOrDie, LoadSecret, LoadNetworkRules,
         BadPresetRaises, CommandTimesOut, RulesInv, flowVars
    <3>2. CASE LoadNetworkRules
      <4>1. /\ addonPc' = "serving" /\ rules' = ExpandNetworkPresets(RawRules)
            /\ \A i \in DOMAIN RawRules : ~BadPreset(RawRules[i])
        BY <3>2 DEF LoadNetworkRules
      <4>2. rules' \in Seq(Rule)
        <5>1. layers \in LayerStacks /\ RawRules = MergeNetwork(layers)
          BY DEF RulesInv, RawRules
        <5> QED BY <4>1, <5>1, StackDecides
      <4> QED BY <3>1, <4>1, <4>2 DEF RulesInv
    <3>3. CASE MergeSettings
      <4>1. rules' = rules /\ (addonPc' = "serving" => layers = << >>)
        BY <3>3 DEF MergeSettings
      <4> QED BY <3>1, <4>1 DEF RulesInv
    <3>4. CASE ~LoadNetworkRules /\ ~MergeSettings
      <4>1. rules' = rules /\ addonPc' # "serving"
        BY <2>2, <3>4, <3>1 DEF Load, PassCliNotNeeded, PassCliLoginFails, PassCliLogin,
           VerifyPatAuth, VerifyPatAuthOrDie, LoadSecret, BadPresetRaises, CommandTimesOut
      <4> QED BY <3>1, <4>1 DEF RulesInv
    <3> QED BY <3>2, <3>3, <3>4
  <2>3. ASSUME UNCHANGED loadVars, addonPc # "serving" => verdict' = "none",
               verdict' = "resolved" =>
                 flow'.host \in Hosts /\ IsRequestAllowed(rules, None, flow'.host)
        PROVE  RulesInv'
    BY <2>1, <2>3 DEF RulesInv, loadVars
  <2>4. ASSUME NEW host \in Hosts, DnsRequest(host) PROVE RulesInv'
    <3>1. flow'.host = host
      BY <2>4 DEF DnsRequest, RequestWith
    <3> QED BY <2>3, <2>4, <3>1 DEF DnsRequest
  <2>5. ASSUME NEW request, ClientRequest(request) PROVE RulesInv'
    BY <2>3, <2>5 DEF ClientRequest
  <2>6. CASE SkipSecret \/ BlockLeak \/ SubstituteSecret \/ Forward \/ FlowDone
    <3>1. UNCHANGED loadVars /\ verdict' # "resolved" /\ (verdict = "none" => verdict' = "none")
      BY <2>6 DEF SkipSecret, BlockLeak, SubstituteSecret, Forward, FlowDone
    <3> QED BY <2>3, <3>1 DEF RulesInv
  <2>7. CASE UNCHANGED vars
    BY <2>1, <2>7 DEF vars, loadVars, flowVars, RulesInv
  <2> QED BY <2>2, <2>4, <2>5, <2>6, <2>7 DEF Next
<1> QED BY <1>1, <1>2, PTL DEF Spec

(* Concatenating the layers from the highest to the lowest and expanding   *)
(* the presets in place leaves every request to the highest layer that has *)
(* a rule for it, for any number of layers, rules and presets              *)
(* (_merge_settings, _expand_network_presets, _find_matching_rule).        *)
THEOREM HigherLayersDecide == Spec => []LayersDecide
<1>1. RulesInv => LayersDecide
  <2> SUFFICES ASSUME RulesInv, addonPc = "serving",
                      NEW host \in Hosts, NEW method \in Methods \cup {None}
               PROVE  IsRequestAllowed(rules, method, host) <=>
                        \E k \in DOMAIN layers :
                          /\ IsRequestAllowed(LayerRules(k), method, host)
                          /\ \A j \in DOMAIN layers : j > k =>
                               ~\E i \in DOMAIN LayerRules(j) :
                                  Matches(LayerRules(j)[i], method, host)
    BY DEF LayersDecide
  <2>1. CASE layers = << >> /\ rules = << >>
    <3>1. DOMAIN layers = {} /\ DOMAIN rules = {}
      BY <2>1
    <3> QED BY <3>1 DEF IsRequestAllowed
  <2>2. CASE /\ rules = ExpandNetworkPresets(RawRules)
             /\ \A i \in DOMAIN RawRules : ~BadPreset(RawRules[i])
    <3>1. layers \in LayerStacks
      BY DEF RulesInv
    <3>2. IsRequestAllowed(rules, method, host) <=>
            \E k \in DOMAIN layers :
              /\ IsRequestAllowed(ExpandNetworkPresets(layers[k].network), method, host)
              /\ \A j \in DOMAIN layers : j > k =>
                   ~SomeMatch(ExpandNetworkPresets(layers[j].network), method, host)
      BY <2>2, <3>1, StackDecides DEF RawRules
    <3> QED BY <3>2 DEF LayerRules, SomeMatch
  <2> QED BY <2>1, <2>2 DEF RulesInv
<1> QED BY <1>1, RulesInvariant, PTL

(* Whatever rules are in force, a DNS query is answered only for a host to *)
(* which some request is allowed (dns_request).                            *)
THEOREM AnswersReachable == Spec => []ResolvesReachable
<1>1. RulesInv => ResolvesReachable
  BY DnsNeverWider DEF RulesInv, ResolvesReachable
<1> QED BY <1>1, RulesInvariant, PTL

(***************************************************************************)
(* The loop over the secrets                                               *)
(***************************************************************************)

Placeholder(n) == [kind |-> "placeholder", of |-> n]
Value(n)       == [kind |-> "value", of |-> n]

(* A placeholder that is still in the request was sent where it is.        *)
Sent ==
  \A p \in Surface : \A fragment \in flow.parts[p] :
    fragment.kind = "placeholder" => <<fragment.of, p>> \in flow.sent

(* Nothing is left of the placeholders of the secrets gone through.        *)
Cleared ==
  \A i \in DOMAIN secrets, p \in Rewritten : i < scan =>
    \A fragment \in flow.parts[p] : ~Holds(fragment, secrets[i].name)

(* The placeholder of a secret not gone through is where it was.           *)
Waiting ==
  \A n \in Secrets, p \in Surface :
    <<n, p>> \in flow.sent /\ (\A i \in DOMAIN secrets : secrets[i].name = n => i >= scan)
      => Placeholder(n) \in flow.parts[p]

(* A secret gone through was going to a host it lists, and is in place.    *)
Passed ==
  \A i \in DOMAIN secrets, p \in Surface :
    i < scan /\ <<secrets[i].name, p>> \in flow.sent =>
      /\ p \in Scanned => flow.host \in secrets[i].hosts
      /\ p \in Rewritten => Value(secrets[i].name) \in flow.parts[p]

Fields == {"host", "streaming", "textual", "sent", "parts"}

ScanInv ==
  /\ verdict \in {"scanning", "leak", "forwarded"} =>
       /\ addonPc = "serving"
       /\ Fields \subseteq DOMAIN flow
       /\ flow.sent \subseteq Secrets \X Surface
       /\ scan \in 1..(Len(secrets) + 1)
       /\ Sent
       /\ Cleared
       /\ Apart => Waiting /\ Passed
  /\ verdict = "forwarded" => scan = Len(secrets) + 1
  /\ verdict = "leak" /\ Apart => ~Welcome

(* The next secret is not in the request.                                  *)
LEMMA SkipScans ==
  ASSUME SecretsInv, ScanInv, SkipSecret
  PROVE  ScanInv'
<1> DEFINE name == secrets[scan].name
<1>1. /\ verdict = "scanning" /\ verdict' = "scanning" /\ UNCHANGED <<flow, addonPc, secrets>>
      /\ scan \in DOMAIN secrets /\ scan' = scan + 1 /\ ~Present(name)
      /\ secrets \in Seq(Loaded) /\ Unique(secrets)
  BY LoadedSecrets DEF SkipSecret, loadVars, SecretsInv
<1>2. /\ addonPc = "serving" /\ Fields \subseteq DOMAIN flow
      /\ flow.sent \subseteq Secrets \X Surface
      /\ Sent /\ Cleared /\ (Apart => Waiting /\ Passed)
  BY <1>1 DEF ScanInv
<1>3. /\ Rewritten' = Rewritten /\ Scanned' = Scanned /\ Rewritten \subseteq Scanned
      /\ Scanned \subseteq Surface
  BY <1>1 DEF Rewritten, Scanned, IsStreaming, IsTextual, Surface
<1>4. \A i \in DOMAIN secrets : i < scan' <=> i < scan \/ i = scan
  BY <1>1
<1>5. scan' \in 1..(Len(secrets') + 1) /\ name \in Secrets
  <2>1. scan' \in 1..(Len(secrets') + 1)
    BY <1>1
  <2>2. secrets[scan] \in Loaded
    BY <1>1
  <2> QED BY <2>1, <2>2 DEF Loaded
<1>6. \A p \in Scanned : \A fragment \in flow.parts[p] : ~Holds(fragment, name)
  BY <1>1 DEF Present
<1> HIDE DEF name
<1>7. Sent'
  BY <1>1, <1>2 DEF Sent
<1>8. Cleared'
  BY <1>1, <1>2, <1>3, <1>4, <1>6 DEF Cleared, name
<1>9. ASSUME Apart PROVE Waiting' /\ Passed'
  <2>1. Waiting'
    <3>1. \A n \in Secrets : (\A i \in DOMAIN secrets : secrets[i].name = n => i >= scan')
                               => \A i \in DOMAIN secrets : secrets[i].name = n => i >= scan
      BY <1>1
    <3> QED BY <1>1, <1>2, <1>9, <3>1 DEF Waiting
  <2>2. ASSUME NEW p \in Surface, <<name, p>> \in flow.sent
        PROVE  p \notin Scanned
    <3>1. \A i \in DOMAIN secrets : secrets[i].name = name => i >= scan
      BY <1>1 DEF Unique, name
    <3>2. Placeholder(name) \in flow.parts[p]
      BY <1>2, <1>5, <1>9, <2>2, <3>1 DEF Waiting
    <3>3. Holds(Placeholder(name), name)
      BY DEF Holds, Placeholder
    <3> QED BY <1>6, <3>2, <3>3
  <2>3. Passed'
    BY <1>1, <1>2, <1>3, <1>4, <1>9, <2>2 DEF Passed, name
  <2> QED BY <2>1, <2>3
<1>10. Apart' => Apart
  BY <1>1 DEF Apart
<1> QED BY <1>1, <1>2, <1>5, <1>7, <1>8, <1>9, <1>10 DEF ScanInv

(* The next secret is put in the place of its placeholder.                 *)
LEMMA SubstituteScans ==
  ASSUME SecretsInv, ScanInv, SubstituteSecret
  PROVE  ScanInv'
<1> DEFINE name == secrets[scan].name
<1>1. /\ verdict = "scanning" /\ verdict' = "scanning" /\ UNCHANGED <<addonPc, secrets>>
      /\ scan \in DOMAIN secrets /\ scan' = scan + 1
      /\ flow.host \in secrets[scan].hosts /\ flow' = WithSecret(name)
      /\ secrets \in Seq(Loaded) /\ Unique(secrets)
  BY LoadedSecrets DEF SubstituteSecret, HostAllowed, loadVars, SecretsInv
<1>2. /\ addonPc = "serving" /\ Fields \subseteq DOMAIN flow
      /\ flow.sent \subseteq Secrets \X Surface
      /\ Sent /\ Cleared /\ (Apart => Waiting /\ Passed)
  BY <1>1 DEF ScanInv
<1>3. /\ DOMAIN flow' = DOMAIN flow
      /\ flow'.host = flow.host /\ flow'.streaming = flow.streaming
      /\ flow'.textual = flow.textual /\ flow'.sent = flow.sent
      /\ \A p \in Surface :
           flow'.parts[p] = IF p \in Rewritten THEN Replaced(flow.parts[p], name) ELSE flow.parts[p]
  BY <1>1, <1>2 DEF WithSecret, Fields
<1>4. /\ Rewritten' = Rewritten /\ Scanned' = Scanned /\ Rewritten \subseteq Surface
      /\ Scanned \subseteq Surface
  BY <1>3 DEF Rewritten, Scanned, IsStreaming, IsTextual, Surface
<1>5. \A i \in DOMAIN secrets : i < scan' <=> i < scan \/ i = scan
  BY <1>1
<1>6. scan' \in 1..(Len(secrets') + 1) /\ name \in Secrets
  <2>1. scan' \in 1..(Len(secrets') + 1)
    BY <1>1
  <2>2. secrets[scan] \in Loaded
    BY <1>1
  <2> QED BY <2>1, <2>2 DEF Loaded
<1> HIDE DEF name
<1>7. ASSUME NEW p \in Surface, NEW fragment \in flow'.parts[p], fragment.kind = "placeholder"
      PROVE  fragment \in flow.parts[p] /\ (p \in Rewritten => ~Holds(fragment, name))
  <2>1. CASE p \notin Rewritten
    BY <1>3, <1>7, <2>1
  <2>2. CASE p \in Rewritten
    <3>1. fragment \in Replaced(flow.parts[p], name)
      BY <1>3, <1>7, <2>2
    <3>2. PICK old \in flow.parts[p] :
            fragment = IF Holds(old, name)
                         THEN [kind |-> IF old.of = name THEN "value" ELSE "mixed", of |-> name]
                         ELSE old
      BY <3>1 DEF Replaced
    <3>3. ~Holds(old, name)
      <4>1. Holds(old, name) => fragment.kind # "placeholder"
        BY <3>2
      <4> QED BY <1>7, <4>1
    <3> QED BY <3>2, <3>3
  <2> QED BY <2>1, <2>2
<1>8. ASSUME NEW p \in Surface, NEW fragment \in flow.parts[p], ~Holds(fragment, name)
      PROVE  fragment \in flow'.parts[p]
  BY <1>3, <1>8 DEF Replaced
<1>9. Sent'
  BY <1>3, <1>7, <1>2 DEF Sent
<1>10. Cleared'
  <2> SUFFICES ASSUME NEW i \in DOMAIN secrets, NEW p \in Rewritten, i < scan',
                      NEW fragment \in flow'.parts[p], Holds(fragment, secrets[i].name)
               PROVE  FALSE
    BY <1>1, <1>4 DEF Cleared, Holds
  <2>1. fragment.kind = "placeholder" /\ p \in Surface
    BY <1>4 DEF Holds
  <2>2. fragment \in flow.parts[p] /\ ~Holds(fragment, name)
    BY <1>7, <2>1
  <2> QED BY <1>2, <1>5, <2>2 DEF Cleared, name
<1>11. ASSUME Apart PROVE Waiting' /\ Passed'
  <2>1. ASSUME NEW n \in Secrets, NEW p \in Surface, <<n, p>> \in flow.sent, n # name
        PROVE  ~Holds(Placeholder(n), name)
    <3>1. <<name, n>> \notin Inside
      BY <1>6, <1>11, <2>1 DEF Apart
    <3> QED BY <2>1, <3>1 DEF Holds, Placeholder
  <2>2. Waiting'
    <3> SUFFICES ASSUME NEW n \in Secrets, NEW p \in Surface, <<n, p>> \in flow.sent,
                        \A i \in DOMAIN secrets : secrets[i].name = n => i >= scan'
                 PROVE  Placeholder(n) \in flow'.parts[p]
      BY <1>1, <1>3 DEF Waiting
    <3>1. n # name /\ \A i \in DOMAIN secrets : secrets[i].name = n => i >= scan
      BY <1>1 DEF name
    <3>2. Placeholder(n) \in flow.parts[p]
      BY <1>2, <1>11, <3>1 DEF Waiting
    <3> QED BY <1>8, <2>1, <3>1, <3>2
  <2>3. ASSUME NEW i \in DOMAIN secrets, NEW p \in Surface, i < scan',
               <<secrets[i].name, p>> \in flow.sent
        PROVE  /\ p \in Scanned => flow.host \in secrets[i].hosts
               /\ p \in Rewritten => Value(secrets[i].name) \in flow'.parts[p]
    <3>1. CASE i < scan
      <4>1. /\ p \in Scanned => flow.host \in secrets[i].hosts
            /\ p \in Rewritten => Value(secrets[i].name) \in flow.parts[p]
        BY <1>2, <1>11, <2>3, <3>1 DEF Passed
      <4>2. ~Holds(Value(secrets[i].name), name)
        BY DEF Holds, Value
      <4> QED BY <1>8, <4>1, <4>2
    <3>2. CASE i = scan
      <4>1. \A j \in DOMAIN secrets : secrets[j].name = name => j >= scan
        BY <1>1 DEF Unique, name
      <4>2. Placeholder(name) \in flow.parts[p]
        BY <1>2, <1>6, <1>11, <2>3, <3>2, <4>1 DEF Waiting, name
      <4>3. p \in Rewritten => Value(name) \in Replaced(flow.parts[p], name)
        <5>1. Holds(Placeholder(name), name) /\ Placeholder(name).of = name
          BY DEF Holds, Placeholder
        <5> QED BY <4>2, <5>1 DEF Replaced, Value
      <4> QED BY <1>1, <1>3, <3>2, <4>3 DEF name
    <3> QED BY <1>5, <2>3, <3>1, <3>2
  <2>4. Passed'
    BY <1>1, <1>3, <1>4, <2>3 DEF Passed
  <2> QED BY <2>2, <2>4
<1>12. Apart' => Apart
  BY <1>3 DEF Apart
<1>13. Fields' = Fields
  BY DEF Fields
<1> QED BY <1>1, <1>2, <1>3, <1>6, <1>9, <1>10, <1>11, <1>12, <1>13 DEF ScanInv

(* A request is blocked only for a placeholder that was sent.              *)
LEMMA BlockScans ==
  ASSUME SecretsInv, ScanInv, BlockLeak
  PROVE  ScanInv'
<1> DEFINE name == secrets[scan].name
<1>1. /\ verdict = "scanning" /\ verdict' = "leak" /\ UNCHANGED <<flow, scan, addonPc, secrets>>
      /\ scan \in DOMAIN secrets /\ Present(name) /\ flow.host \notin secrets[scan].hosts
      /\ Unique(secrets) /\ secrets \in Seq(Loaded)
  BY LoadedSecrets DEF BlockLeak, HostAllowed, loadVars, SecretsInv
<1>2. Sent
  BY <1>1 DEF ScanInv
<1>3. ASSUME Apart, Welcome PROVE FALSE
  <2>1. PICK p \in Scanned : \E fragment \in flow.parts[p] : Holds(fragment, name)
    BY <1>1 DEF Present
  <2>2. PICK fragment \in flow.parts[p] : Holds(fragment, name)
    BY <2>1
  <2>3. p \in Surface
    BY DEF Scanned, Surface
  <2>4. <<fragment.of, p>> \in flow.sent
    BY <1>2, <2>2, <2>3 DEF Sent, Holds
  <2>5. name \in Secrets
    <3>1. secrets[scan] \in Loaded
      BY <1>1
    <3> QED BY <3>1 DEF Loaded
  <2>6. <<name, fragment.of>> \notin Inside
    BY <1>3, <2>4, <2>5 DEF Apart
  <2>7. fragment.of = name
    BY <2>2, <2>6 DEF Holds
  <2>8. PICK i \in DOMAIN secrets : secrets[i].name = name /\ flow.host \in secrets[i].hosts
    BY <1>3, <2>4, <2>7 DEF Welcome
  <2> QED BY <1>1, <2>8 DEF Unique
<1>4. (Apart /\ Welcome)' => Apart /\ Welcome
  BY <1>1 DEF Apart, Welcome
<1>5. /\ Sent' <=> Sent
      /\ Cleared' <=> Cleared
      /\ Waiting' <=> Waiting
      /\ Passed' <=> Passed
      /\ Apart' <=> Apart
  BY <1>1 DEF Sent, Cleared, Waiting, Passed, Apart, Rewritten, Scanned, IsStreaming, IsTextual
<1> QED BY <1>1, <1>3, <1>4, <1>5 DEF ScanInv, Fields

(* The request as the client sends it.                                     *)
LEMMA RequestScans ==
  ASSUME SecretsInv, NEW host \in Hosts, NEW method, NEW streaming, NEW textual,
         NEW carried, carried \subseteq Secrets \X Surface,
         ClientRequest(RequestWith(host, method, streaming, textual, carried))
  PROVE  ScanInv'
<1>1. /\ addonPc' = "serving" /\ verdict' \in {"scanning", "denied"} /\ scan' = 1
      /\ flow' = RequestWith(host, method, streaming, textual, carried)
      /\ secrets' = secrets /\ secrets \in Seq(Loaded)
  BY DEF ClientRequest, loadVars, SecretsInv
<1>2. /\ Fields \subseteq DOMAIN flow' /\ flow'.sent = carried
      /\ \A p \in Surface : flow'.parts[p] = {Placeholder(n) : n \in {m \in Secrets : <<m, p>> \in carried}}
  BY <1>1 DEF RequestWith, Fields, Placeholder
<1>3. scan' \in 1..(Len(secrets') + 1) /\ \A i \in DOMAIN secrets' : ~(i < scan')
  BY <1>1
<1>4. Sent'
  <2> SUFFICES ASSUME NEW p \in Surface, NEW fragment \in flow'.parts[p]
               PROVE  <<fragment.of, p>> \in flow'.sent
    BY DEF Sent
  <2>1. PICK n \in Secrets : fragment = Placeholder(n) /\ <<n, p>> \in carried
    BY <1>2
  <2> QED BY <1>2, <2>1 DEF Placeholder
<1>5. Cleared' /\ Passed'
  BY <1>3 DEF Cleared, Passed
<1>6. Waiting'
  BY <1>2 DEF Waiting
<1>7. Fields' = Fields
  BY DEF Fields
<1> QED BY <1>1, <1>2, <1>3, <1>4, <1>5, <1>6, <1>7 DEF ScanInv

LEMMA ScanInvariant == Spec => [](SecretsInv /\ ScanInv)
<1>1. Init => ScanInv
  BY DEF Init, ScanInv
<1>2. SecretsInv /\ ScanInv /\ [Next]_vars => ScanInv'
  <2> SUFFICES ASSUME SecretsInv, ScanInv, [Next]_vars PROVE ScanInv'
    OBVIOUS
  <2>1. ASSUME verdict' \notin {"scanning", "leak", "forwarded"} PROVE ScanInv'
    BY <2>1 DEF ScanInv
  <2>2. ASSUME UNCHANGED <<flow, scan, addonPc, secrets>>
        PROVE  /\ Sent' <=> Sent
               /\ Cleared' <=> Cleared
               /\ Waiting' <=> Waiting
               /\ Passed' <=> Passed
               /\ Apart' <=> Apart
               /\ Welcome' <=> Welcome
    BY <2>2 DEF Sent, Cleared, Waiting, Passed, Apart, Welcome, Rewritten, Scanned,
       IsStreaming, IsTextual
  <2>3. CASE Load
    <3>1. addonPc # "serving" /\ verdict' = verdict
      BY <2>3 DEF Load, MergeSettings, PassCliNotNeeded, PassCliLoginFails, PassCliLogin,
         VerifyPatAuth, VerifyPatAuthOrDie, LoadSecret, LoadNetworkRules,
         BadPresetRaises, CommandTimesOut, flowVars
    <3> QED BY <2>1, <3>1 DEF ScanInv
  <2>4. ASSUME NEW host \in Hosts, DnsRequest(host) PROVE ScanInv'
    BY <2>1, <2>4 DEF DnsRequest
  <2>5. ASSUME NEW host \in Hosts, NEW method \in Methods, NEW streaming \in BOOLEAN,
               NEW textual \in BOOLEAN,
               NEW carried \in UNION {kSubset(k, Secrets \X Surface) : k \in 0..MaxCarried},
               ClientRequest(RequestWith(host, method, streaming, textual, carried))
        PROVE  ScanInv'
    <3>1. carried \subseteq Secrets \X Surface
      BY DEF kSubset
    <3> QED BY <2>5, <3>1, RequestScans
  <2>6. CASE SkipSecret
    BY <2>6, SkipScans
  <2>7. CASE BlockLeak
    BY <2>7, BlockScans
  <2>8. CASE SubstituteSecret
    BY <2>8, SubstituteScans
  <2>9. CASE Forward
    <3>1. /\ verdict = "scanning" /\ verdict' = "forwarded"
          /\ UNCHANGED <<flow, scan, addonPc, secrets>>
          /\ scan \notin DOMAIN secrets /\ secrets \in Seq(Loaded)
      BY <2>9 DEF Forward, loadVars, SecretsInv
    <3>2. scan \in 1..(Len(secrets) + 1)
      BY <3>1 DEF ScanInv
    <3>3. scan' = Len(secrets') + 1
      BY <3>1, <3>2
    <3> QED BY <2>2, <3>1, <3>3 DEF ScanInv, Fields
  <2>10. CASE FlowDone
    BY <2>1, <2>10 DEF FlowDone
  <2>11. CASE UNCHANGED vars
    <3>1. UNCHANGED <<flow, scan, addonPc, secrets, verdict>>
      BY <2>11 DEF vars, loadVars, flowVars
    <3> QED BY <2>2, <3>1 DEF ScanInv, Fields
  <2> QED BY <2>3, <2>4, <2>5, <2>6, <2>7, <2>8, <2>9, <2>10, <2>11 DEF Next
<1> QED BY <1>1, <1>2, SecretsInvariant, PTL DEF Spec

(* For any number of secrets, in any order, resolved or not, and any       *)
(* placeholders that overlap: after the loop no placeholder of a merged    *)
(* secret is left where _substitute_secrets rewrites.                      *)
THEOREM EveryPlaceholderGoes == Spec => []NothingLeftBehind
<1>1. SecretsInv /\ ScanInv => NothingLeftBehind
  <2> SUFFICES ASSUME SecretsInv, ScanInv, verdict = "forwarded",
                      NEW p \in Rewritten, NEW fragment \in flow.parts[p],
                      fragment.kind = "placeholder", fragment.of \in Names(MergeSecrets)
               PROVE  FALSE
    BY DEF NothingLeftBehind
  <2>1. /\ addonPc = "serving" /\ Cleared /\ scan = Len(secrets) + 1 /\ secrets \in Seq(Loaded)
    BY DEF ScanInv, SecretsInv
  <2>2. PICK i \in DOMAIN secrets : secrets[i].name = fragment.of
    BY <2>1, LoadedSecrets DEF Names
  <2>3. i < scan
    BY <2>1
  <2> QED BY <2>1, <2>2, <2>3 DEF Cleared, Holds
<1> QED BY <1>1, ScanInvariant, PTL

(* A request with apart placeholders that is forwarded goes to a host of   *)
(* the allowlist of every configured secret it carries where the addon     *)
(* looks, whatever else it carries (_substitute_secrets blocks it at the   *)
(* first that is not).                                                     *)
THEOREM EveryLeakBlocked == Spec => []LeaksBlocked
<1>1. SecretsInv /\ ScanInv => LeaksBlocked
  <2> SUFFICES ASSUME SecretsInv, ScanInv, verdict = "forwarded", Apart,
                      NEW carried \in flow.sent, NEW i \in DOMAIN secrets,
                      secrets[i].name = carried[1], carried[2] \in Scanned
               PROVE  flow.host \in secrets[i].hosts
    BY DEF LeaksBlocked
  <2>1. /\ Passed /\ scan = Len(secrets) + 1 /\ secrets \in Seq(Loaded)
        /\ flow.sent \subseteq Secrets \X Surface
    BY DEF ScanInv, SecretsInv
  <2>2. i < scan /\ carried[2] \in Surface /\ carried = <<secrets[i].name, carried[2]>>
    BY <2>1
  <2> QED BY <2>1, <2>2 DEF Passed
<1> QED BY <1>1, ScanInvariant, PTL

(* A request with apart placeholders, all of configured secrets that may   *)
(* go to its host, is not blocked, and each of them is replaced by the     *)
(* value of its own secret.                                                *)
THEOREM EverySecretHonoured == Spec => []Honoured
<1>1. SecretsInv /\ ScanInv => Honoured
  <2> SUFFICES ASSUME SecretsInv, ScanInv, verdict \in {"leak", "forwarded"}, Apart, Welcome
               PROVE  /\ verdict = "forwarded"
                      /\ \A carried \in flow.sent :
                           carried[2] \in Rewritten =>
                             [kind |-> "value", of |-> carried[1]] \in flow.parts[carried[2]]
    BY DEF Honoured, HonouredAlways
  <2>1. verdict = "forwarded"
    BY DEF ScanInv
  <2>2. /\ Passed /\ scan = Len(secrets) + 1 /\ secrets \in Seq(Loaded)
        /\ flow.sent \subseteq Secrets \X Surface
    BY <2>1 DEF ScanInv, SecretsInv
  <2>3. ASSUME NEW carried \in flow.sent, carried[2] \in Rewritten
        PROVE  Value(carried[1]) \in flow.parts[carried[2]]
    <3>1. PICK i \in DOMAIN secrets : secrets[i].name = carried[1]
      BY DEF Welcome
    <3>2. i < scan /\ carried[2] \in Surface /\ carried = <<secrets[i].name, carried[2]>>
      BY <2>2, <3>1
    <3> QED BY <2>2, <2>3, <3>1, <3>2 DEF Passed
  <2> QED BY <2>1, <2>3 DEF Value
<1> QED BY <1>1, ScanInvariant, PTL

(***************************************************************************)
(* Types                                                                   *)
(***************************************************************************)

LEMMA RequestTyped ==
  ASSUME NEW host \in Hosts, NEW method \in Methods \cup {None},
         NEW streaming \in BOOLEAN, NEW textual \in BOOLEAN,
         NEW carried, carried \subseteq Secrets \X Surface
  PROVE  RequestWith(host, method, streaming, textual, carried) \in Request
<1> DEFINE parts == [p \in Surface |-> {[kind |-> "placeholder", of |-> n] :
                                          n \in {m \in Secrets : <<m, p>> \in carried}}]
<1>1. \A n \in Secrets : [kind |-> "placeholder", of |-> n] \in Fragment
  BY DEF Fragment
<1>2. parts \in [Surface -> SUBSET Fragment]
  BY <1>1
<1>3. RequestWith(host, method, streaming, textual, carried) =
        [host |-> host, method |-> method, streaming |-> streaming, textual |-> textual,
         sent |-> carried, parts |-> parts]
  BY DEF RequestWith
<1> HIDE DEF parts
<1> QED BY <1>2, <1>3 DEF Request

LEMMA WithSecretTyped ==
  ASSUME flow \in Request, NEW name \in Secrets
  PROVE  WithSecret(name) \in Request
<1> DEFINE parts == [p \in Surface |-> IF p \in Rewritten THEN Replaced(flow.parts[p], name)
                                                       ELSE flow.parts[p]]
<1>1. flow.parts \in [Surface -> SUBSET Fragment]
  BY DEF Request
<1>2. ASSUME NEW p \in Surface PROVE Replaced(flow.parts[p], name) \subseteq Fragment
  <2> SUFFICES ASSUME NEW new \in Replaced(flow.parts[p], name) PROVE new \in Fragment
    OBVIOUS
  <2>1. PICK old \in flow.parts[p] :
          new = IF Holds(old, name)
                  THEN [kind |-> IF old.of = name THEN "value" ELSE "mixed", of |-> name]
                  ELSE old
    BY DEF Replaced
  <2>2. old \in Fragment
    BY <1>1
  <2> QED BY <2>1, <2>2 DEF Fragment
<1>3. parts \in [Surface -> SUBSET Fragment]
  BY <1>1, <1>2
<1>4. WithSecret(name) = [flow EXCEPT !.parts = parts]
  BY DEF WithSecret
<1> HIDE DEF parts
<1> QED BY <1>3, <1>4 DEF Request

(* Every step of load() and of the handlers keeps the variables in their   *)
(* types: in particular the loop never goes past the end of self.secrets,  *)
(* and load() leaves rules only where the presets left references.         *)
THEOREM AddonTyped == Spec => []TypeOK
<1> DEFINE Known == SecretsInv /\ ScanInv /\ RulesInv
           Types == /\ addonPc \in {"merge", "login", "verify", "secrets", "serving", "failed"}
                    /\ session \in {"none", "pat", "full"}
                    /\ flow = NoFlow \/ flow \in Request
                    /\ scan \in 1..(Len(secrets) + 1)
                    /\ verdict \in {"none", "denied", "scanning", "leak", "forwarded",
                                    "resolved", "refused"}
<1>1. Init => Types
  BY DEF Init
<1>2. Known /\ Known' /\ Types /\ [Next]_vars => Types'
  <2> SUFFICES ASSUME Known, Known', Types, [Next]_vars PROVE Types'
    OBVIOUS
  <2>1. Len(secrets) \in Nat /\ Len(secrets') \in Nat
    BY DEF SecretsInv
  <2>2. CASE Load
    <3>1. addonPc' \in {"merge", "login", "verify", "secrets", "serving", "failed"}
      BY <2>2 DEF Load, MergeSettings, PassCliNotNeeded, PassCliLoginFails, PassCliLogin,
         VerifyPatAuth, VerifyPatAuthOrDie, LoadSecret, LoadNetworkRules,
         BadPresetRaises, CommandTimesOut
    <3>2. session' \in {"none", "pat", "full"} /\ UNCHANGED flowVars
      BY <2>2 DEF Load, MergeSettings, PassCliNotNeeded, PassCliLoginFails, PassCliLogin,
         VerifyPatAuth, VerifyPatAuthOrDie, LoadSecret, LoadNetworkRules,
         BadPresetRaises, CommandTimesOut
    <3>3. CASE LoadSecret
      <4>1. \E new : secrets' = Append(secrets, new)
        BY <3>3 DEF LoadSecret
      <4>2. Len(secrets') = Len(secrets) + 1
        BY <4>1 DEF SecretsInv
      <4> QED BY <2>1, <3>1, <3>2, <4>2 DEF flowVars
    <3>4. CASE ~LoadSecret
      <4>1. secrets' = secrets
        BY <2>2, <3>4 DEF Load, MergeSettings, PassCliNotNeeded, PassCliLoginFails,
           PassCliLogin, VerifyPatAuth, VerifyPatAuthOrDie, LoadNetworkRules,
           BadPresetRaises, CommandTimesOut
      <4> QED BY <3>1, <3>2, <4>1 DEF flowVars
    <3> QED BY <3>3, <3>4
  <2>3. ASSUME UNCHANGED loadVars, flow' = NoFlow \/ flow' \in Request,
               scan' \in 1..(Len(secrets) + 1),
               verdict' \in {"none", "denied", "scanning", "leak", "forwarded",
                             "resolved", "refused"}
        PROVE  Types'
    BY <2>3 DEF loadVars
  <2>4. ASSUME NEW host \in Hosts, DnsRequest(host) PROVE Types'
    <3>1. flow' \in Request
      BY <2>4, RequestTyped DEF DnsRequest
    <3>2. UNCHANGED loadVars /\ scan' = 1 /\ verdict' \in {"resolved", "refused"}
      BY <2>4 DEF DnsRequest
    <3> QED BY <2>1, <2>3, <3>1, <3>2
  <2>5. ASSUME NEW host \in Hosts, NEW method \in Methods, NEW streaming \in BOOLEAN,
               NEW textual \in BOOLEAN,
               NEW carried \in UNION {kSubset(k, Secrets \X Surface) : k \in 0..MaxCarried},
               ClientRequest(RequestWith(host, method, streaming, textual, carried))
        PROVE  Types'
    <3>1. carried \subseteq Secrets \X Surface
      BY DEF kSubset
    <3>2. flow' \in Request
      BY <2>5, <3>1, RequestTyped DEF ClientRequest
    <3> QED BY <2>1, <2>3, <2>5, <3>2 DEF ClientRequest
  <2>6. CASE SkipSecret \/ BlockLeak \/ Forward
    <3>1. UNCHANGED <<loadVars, flow>> /\ verdict' \in {"scanning", "leak", "forwarded"}
      BY <2>6 DEF SkipSecret, BlockLeak, Forward
    <3>2. scan' = scan \/ (scan \in DOMAIN secrets /\ scan' = scan + 1)
      BY <2>6 DEF SkipSecret, BlockLeak, Forward
    <3>3. scan' \in 1..(Len(secrets) + 1)
      BY <3>2 DEF SecretsInv
    <3> QED BY <2>3, <3>1, <3>3
  <2>7. CASE SubstituteSecret
    <3>1. /\ UNCHANGED <<loadVars, verdict>> /\ scan \in DOMAIN secrets /\ scan' = scan + 1
          /\ verdict = "scanning" /\ flow' = WithSecret(secrets[scan].name)
      BY <2>7 DEF SubstituteSecret
    <3>2. scan' \in 1..(Len(secrets) + 1) /\ secrets[scan].name \in Secrets
      <4>1. secrets \in Seq(Loaded)
        BY DEF SecretsInv
      <4>2. secrets[scan] \in Loaded
        BY <3>1, <4>1
      <4> QED BY <3>1, <4>1, <4>2 DEF Loaded
    <3>3. flow \in Request
      <4>1. "parts" \in DOMAIN flow
        BY <3>1 DEF ScanInv, Fields
      <4> QED BY <4>1, NoFlowHasNoParts
    <3> QED BY <2>3, <3>1, <3>2, <3>3, WithSecretTyped
  <2>8. CASE FlowDone
    BY <2>1, <2>3, <2>8 DEF FlowDone
  <2>9. CASE UNCHANGED vars
    BY <2>9 DEF vars, loadVars, flowVars
  <2> QED BY <2>2, <2>4, <2>5, <2>6, <2>7, <2>8, <2>9 DEF Next
<1>3. Known /\ Types => TypeOK
  BY DEF TypeOK, SecretsInv, RulesInv
<1> HIDE DEF Types
<1> QED BY <1>1, <1>2, <1>3, ScanInvariant, RulesInvariant, PTL DEF Spec
=============================================================================
