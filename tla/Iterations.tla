------------------------------- MODULE Iterations -------------------------------
(***************************************************************************)
(* Lemmas about loops over a sequence: what a recursive function over      *)
(* 0..n computes.                                                          *)
(*                                                                         *)
(* An induction is stated with the set of the numbers a fact holds for.    *)
(***************************************************************************)
EXTENDS Lists, NaturalsInduction, SequenceTheorems,
        WellFoundedInduction, TLAPS

(***************************************************************************)
(* Induction and iteration                                                 *)
(***************************************************************************)

LEMMA UpTo ==
  ASSUME NEW n \in Nat, NEW good, 0 \in good,
         \A m \in 0..(n - 1) : m \in good => m + 1 \in good
  PROVE  \A m \in 0..n : m \in good
<1> DEFINE bad == {m \in 0..n : m \notin good}
<1> SUFFICES ASSUME bad # {} PROVE FALSE
  OBVIOUS
<1>1. bad \subseteq Nat
  OBVIOUS
<1>2. PICK m \in bad : \A k \in bad : ~(<<k, m>> \in OpToRel(<, Nat))
  BY <1>1, NatLessThanWellFounded, WFMin
<1>3. m \in 0..n /\ m # 0 /\ m \notin good
  OBVIOUS
<1>4. m - 1 \in 0..(n - 1) /\ (m - 1) + 1 = m
  BY <1>3
<1>5. m - 1 \in bad
  BY <1>3, <1>4
<1>6. <<m - 1, m>> \notin {ss \in Nat \X Nat : ss[1] < ss[2]}
  BY <1>2, <1>5 DEF OpToRel
<1>7. m - 1 \in Nat /\ m \in Nat /\ m - 1 < m
  BY <1>3, <1>4
<1> QED BY <1>6, <1>7

(* A function whose value at each number is made from the one before.      *)
Iterates(f, S, n, first, next) ==
  /\ f \in [0..n -> S]
  /\ f[0] = first
  /\ \A k \in 1..n : f[k] = next[<<f[k - 1], k>>]

LEMMA Iteration ==
  ASSUME NEW S, NEW n \in Nat, NEW first \in S, NEW next \in [S \X (1..n) -> S]
  PROVE  \E f : Iterates(f, S, n, first, next)
<1> DEFINE Made(f, m) == f[0] = first /\ \A k \in 1..m : f[k] = next[<<f[k - 1], k>>]
           good == {m \in 0..n : \E f \in [0..m -> S] : Made(f, m)}
<1>1. 0 \in good
  <2> DEFINE f == [k \in 0..0 |-> first]
  <2>1. f \in [0..0 -> S] /\ Made(f, 0)
    OBVIOUS
  <2> HIDE DEF f, Made
  <2>2. \E x \in [0..0 -> S] : Made(x, 0)
    BY <2>1
  <2> QED BY <2>2
<1>2. ASSUME NEW m \in 0..(n - 1), m \in good
      PROVE  m + 1 \in good
  <2>1. PICK f \in [0..m -> S] : Made(f, m)
    BY <1>2
  <2> DEFINE h == [k \in 0..(m + 1) |-> IF k = m + 1 THEN next[<<f[m], m + 1>>] ELSE f[k]]
  <2>2. m \in Nat /\ m + 1 \in 1..n /\ f[m] \in S
    OBVIOUS
  <2>3. next[<<f[m], m + 1>>] \in S
    BY <2>2
  <2>4. h \in [0..(m + 1) -> S]
    BY <2>2, <2>3
  <2>5. h[0] = first
    BY <2>1, <2>2
  <2>6. ASSUME NEW k \in 1..(m + 1)
        PROVE  h[k] = next[<<h[k - 1], k>>]
    <3>1. CASE k = m + 1
      <4>1. k - 1 = m /\ k \in 0..(m + 1) /\ m \in 0..(m + 1) /\ m # m + 1
        BY <2>2, <3>1
      <4>2. h[k] = next[<<f[m], m + 1>>] /\ h[k - 1] = f[m]
        BY <3>1, <4>1
      <4> QED BY <3>1, <4>2
    <3>2. CASE k # m + 1
      BY <2>1, <2>2, <3>2
    <3> QED BY <3>1, <3>2
  <2> HIDE DEF h
  <2>7. m + 1 \in 0..n /\ Made(h, m + 1)
    BY <2>2, <2>5, <2>6
  <2> HIDE DEF Made
  <2>8. \E x \in [0..(m + 1) -> S] : Made(x, m + 1)
    BY <2>4, <2>7
  <2> QED BY <2>7, <2>8
<1>3. n \in good
  <2> HIDE DEF good
  <2>1. n \in 0..n
    OBVIOUS
  <2> QED BY <1>1, <1>2, <2>1, UpTo
<1> QED BY <1>3 DEF Iterates

(***************************************************************************)
(* Sequences of sequences                                                  *)
(***************************************************************************)

(* FlattenSeq appends one sequence after the other.                        *)
LEMMA Flattened ==
  ASSUME NEW S, NEW ss \in Seq(Seq(S))
  PROVE  \E f \in [0..Len(ss) -> Seq(S)] :
           /\ f[0] = << >>
           /\ \A k \in 1..Len(ss) : f[k] = f[k - 1] \o ss[k]
           /\ FlattenSeq(ss) = f[Len(ss)]
<1> DEFINE n == Len(ss)
<1> DEFINE next == [x \in Seq(S) \X (1..n) |-> x[1] \o ss[x[2]]]
<1>1. n \in Nat /\ n = Len(ss) /\ << >> \in Seq(S) /\ \A k \in 1..n : ss[k] \in Seq(S)
  OBVIOUS
<1>2. next \in [Seq(S) \X (1..n) -> Seq(S)]
  BY <1>1
<1>3. \A x \in Seq(S), k \in 1..n : next[<<x, k>>] = x \o ss[k]
  OBVIOUS
<1> HIDE DEF n, next
<1>4. PICK f : Iterates(f, Seq(S), n, << >>, next)
  BY <1>1, <1>2, Iteration
<1>5. f[0] = << >> /\ \A k \in 1..n : f[k] = f[k - 1] \o ss[k]
  <2>1. \A k \in 1..n : k - 1 \in 0..n
    BY <1>1
  <2> QED BY <1>3, <1>4, <2>1 DEF Iterates
<1>6. CASE n = 0
  <2>1. ss = << >>
    BY <1>1, <1>6, EmptySeq
  <2>2. FlattenSeq(ss) = ss
    BY <1>1, <1>6 DEF FlattenSeq
  <2> QED BY <1>1, <1>4, <1>5, <1>6, <2>1, <2>2 DEF Iterates
<1>7. CASE n # 0
  <2> DEFINE flat == CHOOSE g : g = [i \in 1..n |-> IF i = 1 THEN ss[i] ELSE g[i - 1] \o ss[i]]
  <2>1. FlattenSeq(ss) = flat[n]
    BY <1>1, <1>7 DEF FlattenSeq
  <2>2. flat = [i \in 1..n |-> IF i = 1 THEN ss[i] ELSE flat[i - 1] \o ss[i]]
    <3> DEFINE g == [i \in 1..n |-> f[i]]
    <3>1. ASSUME NEW i \in 1..n
          PROVE  g[i] = IF i = 1 THEN ss[i] ELSE g[i - 1] \o ss[i]
      <4>1. g[i] = f[i - 1] \o ss[i]
        BY <1>5
      <4>2. CASE i = 1
        <5>1. << >> \o ss[i] = ss[i]
          BY <1>1
        <5>2. f[i - 1] = << >>
          BY <1>5, <4>2
        <5> QED BY <4>1, <4>2, <5>1, <5>2
      <4>3. CASE i # 1
        <5>1. i - 1 \in 1..n
          BY <1>1, <4>3
        <5> QED BY <4>1, <4>3, <5>1
      <4> QED BY <4>2, <4>3
    <3>2. g = [i \in 1..n |-> IF i = 1 THEN ss[i] ELSE g[i - 1] \o ss[i]]
      BY <3>1
    <3> QED BY <3>2
  <2> HIDE DEF flat
  <2> DEFINE good == {m \in 0..n : m = 0 \/ flat[m] = f[m]}
  <2>3. 0 \in good /\ n \in 0..n
    BY <1>1
  <2>4. ASSUME NEW m \in 0..(n - 1), m \in good
        PROVE  m + 1 \in good
    <3>1. m + 1 \in 1..n /\ (m + 1) - 1 = m
      BY <1>1
    <3>2. flat[m + 1] = IF m + 1 = 1 THEN ss[m + 1] ELSE flat[(m + 1) - 1] \o ss[m + 1]
      BY <2>2, <3>1
    <3>3. f[m + 1] = f[m] \o ss[m + 1]
      BY <1>5, <3>1
    <3>4. CASE m = 0
      <4>1. << >> \o ss[m + 1] = ss[m + 1]
        BY <1>1, <3>1
      <4>2. f[m + 1] = ss[m + 1] /\ flat[m + 1] = ss[m + 1]
        <5>1. f[m] = << >> /\ m + 1 = 1
          BY <1>5, <3>4
        <5> QED BY <3>2, <3>3, <4>1, <5>1
      <4> QED BY <1>1, <3>1, <4>2
    <3>5. CASE m # 0
      <4>1. flat[m] = f[m] /\ m + 1 # 1
        BY <1>1, <2>4, <3>5
      <4>2. flat[m + 1] = f[m + 1]
        BY <3>1, <3>2, <3>3, <4>1
      <4> QED BY <1>1, <3>1, <4>2
    <3> QED BY <3>4, <3>5
  <2> HIDE DEF good
  <2>5. n \in good
    BY <1>1, <2>3, <2>4, UpTo
  <2>6. flat[n] = f[n]
    BY <1>7, <2>5 DEF good
  <2> QED BY <1>1, <1>4, <1>5, <2>1, <2>6 DEF Iterates
<1> QED BY <1>6, <1>7

LEMMA FlattenedElements ==
  ASSUME NEW S, NEW ss \in Seq(Seq(S))
  PROVE  /\ FlattenSeq(ss) \in Seq(S)
         /\ Range(FlattenSeq(ss)) = UNION {Range(ss[i]) : i \in DOMAIN ss}
<1> DEFINE n == Len(ss)
<1>1. PICK f \in [0..n -> Seq(S)] :
        /\ f[0] = << >>
        /\ \A k \in 1..n : f[k] = f[k - 1] \o ss[k]
        /\ FlattenSeq(ss) = f[n]
  BY Flattened
<1>2. n \in Nat /\ DOMAIN ss = 1..n /\ \A k \in 1..n : ss[k] \in Seq(S)
  OBVIOUS
<1> HIDE DEF n
<1> DEFINE good == {m \in 0..n : \A x : x \in Range(f[m]) <=> \E i \in 1..m : x \in Range(ss[i])}
<1>3. 0 \in good
  <2>1. Range(f[0]) = {} /\ 1..0 = {} /\ 0 \in 0..n
    BY <1>1, <1>2 DEF Range
  <2> QED BY <2>1
<1>4. ASSUME NEW m \in 0..(n - 1), m \in good
      PROVE  m + 1 \in good
  <2>1. /\ m \in 0..n /\ m + 1 \in 1..n /\ m + 1 \in 0..n /\ (m + 1) - 1 = m
        /\ 1..(m + 1) = 1..m \cup {m + 1}
    BY <1>2
  <2>2. f[m] \in Seq(S) /\ ss[m + 1] \in Seq(S)
    BY <1>1, <1>2, <2>1
  <2>3. f[m + 1] = f[m] \o ss[m + 1]
    BY <1>1, <2>1
  <2>4. Range(f[m] \o ss[m + 1]) = Range(f[m]) \cup Range(ss[m + 1])
    BY <2>2, RangeConcatenation
  <2>5. ASSUME NEW x
        PROVE  x \in Range(f[m + 1]) <=> \E i \in 1..(m + 1) : x \in Range(ss[i])
    <3>1. x \in Range(f[m + 1]) <=> x \in Range(f[m]) \/ x \in Range(ss[m + 1])
      BY <2>3, <2>4
    <3>2. x \in Range(f[m]) <=> \E i \in 1..m : x \in Range(ss[i])
      BY <1>4
    <3> QED BY <2>1, <3>1, <3>2
  <2> QED BY <2>1, <2>5
<1>5. n \in 0..n
  BY <1>2
<1>6. n \in good
  <2> HIDE DEF good
  <2> QED BY <1>2, <1>3, <1>4, <1>5, UpTo
<1>7. f[n] \in Seq(S)
  BY <1>1, <1>5
<1>8. Range(FlattenSeq(ss)) = UNION {Range(ss[i]) : i \in DOMAIN ss}
  <2> DEFINE flat == FlattenSeq(ss)
             all  == UNION {Range(ss[i]) : i \in DOMAIN ss}
  <2>1. \A x : x \in Range(flat) <=> \E i \in 1..n : x \in Range(ss[i])
    BY <1>1, <1>6
  <2>2. \A x : x \in all <=> \E i \in 1..n : x \in Range(ss[i])
    BY <1>2
  <2> HIDE DEF flat, all
  <2>3. Range(flat) = all
    BY <2>1, <2>2
  <2> QED BY <2>3 DEF flat, all
<1> QED BY <1>1, <1>7, <1>8

LEMMA FlattenedAppend ==
  ASSUME NEW S, NEW ss \in Seq(Seq(S)), NEW x \in Seq(S)
  PROVE  FlattenSeq(Append(ss, x)) = FlattenSeq(ss) \o x
<1> DEFINE n  == Len(ss)
           tt == Append(ss, x)
<1>1. PICK f \in [0..n -> Seq(S)] :
        /\ f[0] = << >>
        /\ \A k \in 1..n : f[k] = f[k - 1] \o ss[k]
        /\ FlattenSeq(ss) = f[n]
  BY Flattened
<1>2. tt \in Seq(Seq(S)) /\ Len(tt) = n + 1 /\ n \in Nat
  OBVIOUS
<1>3. (\A k \in 1..n : tt[k] = ss[k]) /\ tt[n + 1] = x
  OBVIOUS
<1> HIDE DEF tt, n
<1>4. PICK g \in [0..Len(tt) -> Seq(S)] :
        /\ g[0] = << >>
        /\ \A k \in 1..Len(tt) : g[k] = g[k - 1] \o tt[k]
        /\ FlattenSeq(tt) = g[Len(tt)]
  BY <1>2, Flattened
<1> DEFINE good == {m \in 0..n : f[m] = g[m]}
<1>5. 0 \in good /\ n \in 0..n
  BY <1>1, <1>2, <1>4
<1>6. ASSUME NEW m \in 0..(n - 1), m \in good
      PROVE  m + 1 \in good
  <2>1. m + 1 \in 0..n /\ m + 1 \in 1..n /\ m + 1 \in 1..Len(tt) /\ (m + 1) - 1 = m
    BY <1>2
  <2>2. f[m + 1] = f[m] \o ss[m + 1] /\ g[m + 1] = g[m] \o tt[m + 1]
    BY <1>1, <1>4, <2>1
  <2> QED BY <1>3, <1>6, <2>1, <2>2
<1>7. n \in good
  <2> HIDE DEF good
  <2> QED BY <1>2, <1>5, <1>6, UpTo
<1>8. g[n + 1] = g[n] \o x
  <2>1. n + 1 \in 1..Len(tt) /\ (n + 1) - 1 = n
    BY <1>2
  <2> QED BY <1>3, <1>4, <2>1
<1> QED BY <1>1, <1>2, <1>4, <1>7, <1>8 DEF tt

LEMMA WithoutElements ==
  ASSUME NEW S, NEW seq \in Seq(S), NEW set
  PROVE  Without(seq, set) \in Seq(S) /\ Range(Without(seq, set)) = Range(seq) \ set
<1> DEFINE ss == [i \in DOMAIN seq |-> IF seq[i] \in set THEN << >> ELSE <<seq[i]>>]
<1>1. DOMAIN seq = 1..Len(seq) /\ Len(seq) \in Nat /\ \A i \in DOMAIN seq : seq[i] \in S
  OBVIOUS
<1>2. \A i \in DOMAIN seq : ss[i] \in Seq(S)
  BY <1>1
<1>3. ss \in [1..Len(seq) -> Seq(S)]
  BY <1>1, <1>2
<1>4. ss \in Seq(Seq(S)) /\ DOMAIN ss = DOMAIN seq
  BY <1>1, <1>3
<1>5. \A i \in DOMAIN seq : Range(ss[i]) = {seq[i]} \ set
  BY DEF Range
<1> HIDE DEF ss
<1>6. UNION {Range(ss[i]) : i \in DOMAIN ss} = Range(seq) \ set
  BY <1>4, <1>5 DEF Range
<1>7. FlattenSeq(ss) \in Seq(S) /\ Range(FlattenSeq(ss)) = UNION {Range(ss[i]) : i \in DOMAIN ss}
  BY <1>4, FlattenedElements
<1>8. Without(seq, set) = FlattenSeq(ss)
  BY DEF Without, ss
<1> QED BY <1>6, <1>7, <1>8

LEMMA WithoutAppend ==
  ASSUME NEW S, NEW seq \in Seq(S), NEW v \in S, NEW set
  PROVE  Without(Append(seq, v), set) =
           IF v \in set THEN Without(seq, set) ELSE Append(Without(seq, set), v)
<1> DEFINE piece(w) == IF w \in set THEN << >> ELSE <<w>>
           longer == Append(seq, v)
           ss == [i \in DOMAIN seq |-> piece(seq[i])]
           tt == [i \in DOMAIN longer |-> piece(longer[i])]
<1>1. \A w \in S : piece(w) \in Seq(S)
  OBVIOUS
<1>2. ss \in Seq(Seq(S)) /\ Len(ss) = Len(seq)
  <2>1. ss \in [1..Len(seq) -> Seq(S)]
    BY <1>1
  <2> HIDE DEF ss
  <2> QED BY <2>1
<1>3. Without(seq, set) = FlattenSeq(ss) /\ Without(longer, set) = FlattenSeq(tt)
  BY DEF Without
<1>4. tt = Append(ss, piece(v))
  <2>1. longer \in Seq(S) /\ Len(longer) = Len(seq) + 1 /\ longer[Len(seq) + 1] = v
    OBVIOUS
  <2>2. \A i \in 1..Len(seq) : longer[i] = seq[i]
    OBVIOUS
  <2> HIDE DEF longer, piece
  <2>3. Append(ss, piece(v)) = [i \in 1..(Len(seq) + 1) |-> IF i = Len(seq) + 1 THEN piece(v) ELSE ss[i]]
    BY <1>2
  <2>4. \A i \in 1..(Len(seq) + 1) :
          piece(longer[i]) = IF i = Len(seq) + 1 THEN piece(v) ELSE ss[i]
    BY <2>1, <2>2
  <2>5. tt = [i \in 1..(Len(seq) + 1) |-> piece(longer[i])]
    BY <2>1
  <2> HIDE DEF tt, ss
  <2> QED BY <2>3, <2>4, <2>5
<1> DEFINE p == piece(v)
<1>5. p \in Seq(S)
  BY <1>1
<1>6. Without(seq, set) \in Seq(S)
  BY WithoutElements
<1> HIDE DEF ss, tt, longer, piece
<1>7. FlattenSeq(tt) = FlattenSeq(ss) \o p
  BY <1>2, <1>4, <1>5, FlattenedAppend
<1>8. Without(longer, set) = Without(seq, set) \o p
  BY <1>3, <1>7
<1> DEFINE w == Without(seq, set)
<1>9. p = IF v \in set THEN << >> ELSE <<v>>
  BY DEF piece
<1> HIDE DEF w, p
<1>10. w \o << >> = w /\ w \o <<v>> = Append(w, v)
  <2>1. w \in Seq(S)
    BY <1>6 DEF w
  <2> QED BY <2>1, ConcatEmptySeq, AppendIsConcat
<1> QED BY <1>8, <1>9, <1>10 DEF w, longer

LEMMA FirstSeenElements ==
  ASSUME NEW S, NEW seq \in Seq(S)
  PROVE  FirstSeen(seq) \in Seq(S) /\ Range(FirstSeen(seq)) = Range(seq)
<1> DEFINE n == Len(seq)
           more(out, v) == IF Contains(out, v) THEN out ELSE Append(out, v)
           next == [x \in Seq(S) \X (1..n) |-> more(x[1], seq[x[2]])]
           made == CHOOSE g : g = [k \in 0..n |->
                     IF k = 0 THEN << >>
                     ELSE IF Contains(g[k - 1], seq[k]) THEN g[k - 1] ELSE Append(g[k - 1], seq[k])]
<1>1. /\ n \in Nat /\ n = Len(seq) /\ DOMAIN seq = 1..n
      /\ << >> \in Seq(S) /\ \A k \in 1..n : seq[k] \in S
  OBVIOUS
<1>2. \A out \in Seq(S), v \in S : more(out, v) \in Seq(S)
  OBVIOUS
<1>3. FirstSeen(seq) = made[n]
  BY DEF FirstSeen
<1>4. \A out \in Seq(S), v \in S : Range(more(out, v)) = Range(out) \cup {v}
  <2> TAKE out \in Seq(S), v \in S
  <2>1. Range(Append(out, v)) = Range(out) \cup {v}
    BY AppendProperties DEF Range
  <2>2. Contains(out, v) <=> v \in Range(out)
    BY DEF Contains, Range
  <2> QED BY <2>1, <2>2
<1>5. \A x \in Seq(S), k \in 1..n : next[<<x, k>>] = more(x, seq[k])
  OBVIOUS
<1>6. next \in [Seq(S) \X (1..n) -> Seq(S)]
  BY <1>1, <1>2
<1> HIDE DEF n, next
<1>7. PICK f : Iterates(f, Seq(S), n, << >>, next)
  BY <1>1, <1>6, Iteration
<1>8. /\ f[0] = << >>
      /\ \A k \in 0..n : f[k] \in Seq(S)
      /\ \A k \in 1..n : f[k] = more(f[k - 1], seq[k])
  <2>1. \A k \in 1..n : k - 1 \in 0..n
    BY <1>1
  <2> QED BY <1>5, <1>7, <2>1 DEF Iterates
<1> HIDE DEF more
<1>9. f = [k \in 0..n |-> IF k = 0 THEN << >> ELSE more(f[k - 1], seq[k])]
  BY <1>1, <1>7, <1>8 DEF Iterates
<1>10. made = [k \in 0..n |-> IF k = 0 THEN << >> ELSE more(made[k - 1], seq[k])]
  BY <1>9 DEF more
<1> HIDE DEF made
<1> DEFINE good == {m \in 0..n : made[m] = f[m] /\ \A v : v \in Range(f[m]) <=> \E i \in 1..m : v = seq[i]}
<1>11. 0 \in good /\ n \in 0..n
  <2>1. 0 \in 0..n /\ n \in 0..n /\ 1..0 = {}
    BY <1>1
  <2>2. made[0] = f[0] /\ Range(f[0]) = {}
    BY <1>8, <1>10, <2>1 DEF Range
  <2> QED BY <2>1, <2>2
<1>12. ASSUME NEW m \in 0..(n - 1), m \in good
       PROVE  m + 1 \in good
  <2>1. m \in 0..n /\ m + 1 \in 1..n /\ m + 1 \in 0..n /\ (m + 1) - 1 = m /\ m + 1 # 0
    BY <1>1
  <2>2. f[m + 1] = more(f[m], seq[m + 1]) /\ made[m + 1] = more(made[m], seq[m + 1])
    BY <1>8, <1>10, <2>1
  <2>3. Range(f[m + 1]) = Range(f[m]) \cup {seq[m + 1]}
    BY <1>1, <1>4, <1>8, <2>1, <2>2
  <2>4. ASSUME NEW v
        PROVE  v \in Range(f[m + 1]) <=> \E i \in 1..(m + 1) : v = seq[i]
    <3>1. v \in Range(f[m + 1]) <=> v \in Range(f[m]) \/ v = seq[m + 1]
      BY <2>3
    <3>2. v \in Range(f[m]) <=> \E i \in 1..m : v = seq[i]
      BY <1>12
    <3> QED BY <2>1, <3>1, <3>2
  <2>5. made[m] = f[m]
    BY <1>12
  <2> QED BY <2>1, <2>2, <2>4, <2>5
<1>13. n \in good
  <2> HIDE DEF good
  <2> QED BY <1>1, <1>11, <1>12, UpTo
<1>14. made[n] = f[n] /\ f[n] \in Seq(S) /\ \A v : v \in Range(f[n]) <=> \E i \in 1..n : v = seq[i]
  BY <1>8, <1>11, <1>13
<1>15. Range(f[n]) = Range(seq)
  <2>1. \A v : v \in Range(seq) <=> \E i \in 1..n : v = seq[i]
    BY <1>1 DEF Range
  <2> QED BY <1>14, <2>1
<1> QED BY <1>3, <1>14, <1>15
=============================================================================
