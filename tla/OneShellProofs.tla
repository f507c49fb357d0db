--------------------------- MODULE OneShellProofs ---------------------------
(***************************************************************************)
(* Theorems about SandboxStack for commands that are given one after the   *)
(* other, from a single shell, for any number of edits.  Each says which   *)
(* faults it excludes and whether it needs the proxy's clean-up to win its *)
(* race.                                                                   *)
(***************************************************************************)
EXTENDS SandboxStackProofs

USE DEF volumeVars, proxyVars, wgVars, agentVars, cliVars, containerVars

(***************************************************************************)
(* The steps that remain of a command                                      *)
(***************************************************************************)

RestartProxy == <<"restart", "mitmproxy">>
AwaitProxy   == <<"wait", "mitmproxy">>
ProxySteps   == {<<"start", "mitmproxy">>, RestartProxy}
ProxyGates   == {<<"gate", "mitmproxy">>, AwaitProxy}
StartWg      == <<"start", "wg-client">>
RestartWg    == <<"restart", "wg-client">>
WgGates      == {<<"gate", "wg-client">>, <<"wait", "wg-client">>}
StartAgent   == <<"start", "agent">>
RestartAgent == <<"restart", "agent">>
AgentSteps   == {StartAgent, RestartAgent}

Left(steps, S) == \E i \in 1..Len(steps) : steps[i] \in S

After(steps, i, S) == \E j \in 1..Len(steps) : i < j /\ steps[j] \in S

(* The order of the steps in both commands: the agent comes last, behind a *)
(* wait for wg-client; whoever starts the proxy waits for it; the proxy's  *)
(* restart and the wait for it come before the restart of wg-client, which *)
(* only the agent's restart follows in the end; and all waits for the      *)
(* proxy come before a start of wg-client.                                 *)
PlannedAt(steps, i) ==
  /\ steps[i] \in AgentSteps => i = Len(steps) /\ (i > 1 => steps[i - 1] \in WgGates)
  /\ steps[i] \in ProxySteps => After(steps, i, ProxyGates)
  /\ steps[i] = RestartProxy => After(steps, i, {AwaitProxy})
  /\ steps[i] \in {RestartProxy, AwaitProxy} => After(steps, i, {RestartWg})
  /\ steps[i] = RestartWg => i = Len(steps) \/ After(steps, i, {RestartAgent})
  /\ steps[i] = StartWg => ~After(steps, i, ProxyGates)

Planned(steps) == \A i \in 1..Len(steps) : PlannedAt(steps, i)


(* A later step that is a witness of After.                                *)
LEMMA LeftAfter ==
  \A steps, i, S : \A j \in 1..Len(steps) :
    steps[j] \in S => Left(steps, S) /\ (i < j => After(steps, i, S))
BY DEF Left, After

LEMMA UpPlanned ==
  /\ Planned(UpSteps)
  /\ UpSteps \in Seq(Step) /\ Len(UpSteps) # 1 /\ UpSteps # << >>
  /\ Left(UpSteps, ProxyGates)
  /\ ~Left(UpSteps, {RestartWg, RestartAgent})
<1> DEFINE steps == UpSteps
<1>1. /\ steps \in Seq(Step) /\ Len(steps) = 5 /\ steps # << >>
      /\ steps[1] = <<"start", "mitmproxy">> /\ steps[2] = <<"gate", "mitmproxy">>
      /\ steps[3] = <<"start", "wg-client">> /\ steps[4] = <<"gate", "wg-client">>
      /\ steps[5] = <<"start", "agent">>
  BY ProgramsAreSteps DEF UpSteps
<1> HIDE DEF steps
<1> USE DEF RestartProxy, AwaitProxy, ProxySteps, ProxyGates, StartWg, RestartWg, WgGates,
            StartAgent, RestartAgent, AgentSteps
<1>2. steps[2] \in ProxyGates /\ 2 \in 1..Len(steps)
  BY <1>1
<1>3. Left(steps, ProxyGates) /\ After(steps, 1, ProxyGates)
  <2>1. 1 < 2
    OBVIOUS
  <2> HIDE DEF ProxyGates
  <2> QED BY ONLY <1>2, <2>1, LeftAfter
<1>4. ~After(steps, 3, ProxyGates)
  <2> SUFFICES ASSUME NEW j \in 1..5, 3 < j PROVE steps[j] \notin ProxyGates
    BY <1>1 DEF After
  <2>1. j = 4 \/ j = 5
    OBVIOUS
  <2> QED BY <1>1, <2>1
<1>5. ~Left(steps, {RestartWg, RestartAgent})
  <2> SUFFICES ASSUME NEW j \in 1..5 PROVE steps[j] \notin {RestartWg, RestartAgent}
    BY <1>1 DEF Left
  <2>1. j = 1 \/ j = 2 \/ j = 3 \/ j = 4 \/ j = 5
    OBVIOUS
  <2> QED BY <1>1, <2>1
<1>6. Planned(steps)
  <2> SUFFICES ASSUME NEW i \in 1..5 PROVE PlannedAt(steps, i)
    BY <1>1 DEF Planned
  <2>1. CASE i = 1 BY <1>1, <1>3, <2>1 DEF PlannedAt
  <2>2. CASE i = 2 BY <1>1, <2>2 DEF PlannedAt
  <2>3. CASE i = 3 BY <1>1, <1>4, <2>3 DEF PlannedAt
  <2>4. CASE i = 4 BY <1>1, <2>4 DEF PlannedAt
  <2>5. CASE i = 5 BY <1>1, <2>5 DEF PlannedAt
  <2> QED BY <2>1, <2>2, <2>3, <2>4, <2>5
<1> QED BY <1>1, <1>3, <1>5, <1>6 DEF steps

LEMMA RestartPlanned ==
  ASSUME NEW b \in BOOLEAN
  PROVE  /\ Planned(RestartSteps(b))
         /\ RestartSteps(b) \in Seq(Step) /\ Len(RestartSteps(b)) # 1 /\ RestartSteps(b) # << >>
         /\ Left(RestartSteps(b), {RestartProxy})
         /\ Left(RestartSteps(b), {AwaitProxy})
         /\ Left(RestartSteps(b), {RestartWg})
         /\ Left(RestartSteps(b), {RestartAgent}) <=> b
<1> DEFINE steps == RestartSteps(b)
<1> USE DEF RestartProxy, AwaitProxy, ProxySteps, ProxyGates, StartWg, RestartWg, WgGates,
            StartAgent, RestartAgent, AgentSteps
<1>0. steps \in Seq(Step)
  BY ProgramsAreSteps
<1>1. /\ 4 \in 1..Len(steps) /\ Len(steps) # 1 /\ steps # << >>
      /\ steps[1] = <<"restart", "mitmproxy">>
      /\ steps[2] = <<"start", "mitmproxy">> /\ steps[3] = <<"wait", "mitmproxy">>
      /\ steps[4] = <<"restart", "wg-client">>
  BY DEF RestartSteps
<1>2. b => /\ Len(steps) = 9
           /\ steps[5] = <<"start", "mitmproxy">> /\ steps[6] = <<"gate", "mitmproxy">>
           /\ steps[7] = <<"start", "wg-client">> /\ steps[8] = <<"wait", "wg-client">>
           /\ steps[9] = <<"restart", "agent">>
  BY DEF RestartSteps
<1>3. ~b => Len(steps) = 4
  BY DEF RestartSteps
<1> HIDE DEF steps
<1>4. /\ 1 \in 1..Len(steps) /\ steps[1] \in {RestartProxy}
      /\ 3 \in 1..Len(steps) /\ steps[3] \in ProxyGates /\ steps[3] \in {AwaitProxy}
      /\ 4 \in 1..Len(steps) /\ steps[4] \in {RestartWg}
  BY <1>1
<1>5. b => /\ 6 \in 1..Len(steps) /\ steps[6] \in ProxyGates
           /\ 9 \in 1..Len(steps) /\ steps[9] \in {RestartAgent}
  <2>0. b => Len(steps) = 9
    BY <1>2
  <2>1. b => 6 \in 1..Len(steps) /\ 9 \in 1..Len(steps)
    <3>1. 6 \in 1..9 /\ 9 \in 1..9
      OBVIOUS
    <3>2. CASE b
      <4>1. Len(steps) = 9
        BY <2>0, <3>2
      <4> QED BY <3>1, <4>1
    <3> QED BY <3>2
  <2> QED BY <1>2, <2>1
<1>6. /\ Left(steps, {RestartProxy}) /\ Left(steps, {AwaitProxy}) /\ Left(steps, {RestartWg})
      /\ \A i \in {1, 2} : After(steps, i, ProxyGates)
      /\ After(steps, 1, {AwaitProxy})
      /\ \A i \in {1, 3} : After(steps, i, {RestartWg})
  <2>1. 1 < 3 /\ 2 < 3 /\ 1 < 4 /\ 3 < 4
    OBVIOUS
  <2> HIDE DEF ProxyGates, RestartProxy, AwaitProxy, RestartWg
  <2> QED BY ONLY <1>4, <2>1, LeftAfter
<1>7. b => /\ Left(steps, {RestartAgent})
           /\ After(steps, 5, ProxyGates) /\ After(steps, 4, {RestartAgent})
  <2>1. 5 < 6 /\ 4 < 9
    OBVIOUS
  <2> HIDE DEF ProxyGates, RestartAgent
  <2> QED BY ONLY <1>5, <2>1, LeftAfter
<1>8. b => ~After(steps, 7, ProxyGates)
  <2> SUFFICES ASSUME b, NEW j \in 1..9, 7 < j PROVE steps[j] \notin ProxyGates
    BY <1>2 DEF After
  <2>1. j = 8 \/ j = 9
    OBVIOUS
  <2> QED BY <1>2, <2>1
<1>9. ~b => ~Left(steps, {RestartAgent})
  <2> SUFFICES ASSUME ~b, NEW j \in 1..4 PROVE steps[j] \notin {RestartAgent}
    BY <1>3 DEF Left
  <2>1. j = 1 \/ j = 2 \/ j = 3 \/ j = 4
    OBVIOUS
  <2> QED BY <1>1, <2>1
<1>10. Planned(steps)
  <2> SUFFICES ASSUME NEW i \in 1..Len(steps) PROVE PlannedAt(steps, i)
    BY DEF Planned
  <2>0. i \in 1..4 \/ (b /\ i \in 5..9)
    <3>1. CASE b
      <4>1. Len(steps) = 9
        BY <1>2, <3>1
      <4> QED BY <3>1, <4>1
    <3>2. CASE ~b
      <4>1. Len(steps) = 4
        BY <1>3, <3>2
      <4> QED BY <4>1
    <3> QED BY <3>1, <3>2
  <2>1. CASE i = 1 BY <1>1, <1>6, <2>1 DEF PlannedAt
  <2>2. CASE i = 2 BY <1>1, <1>6, <2>2 DEF PlannedAt
  <2>3. CASE i = 3 BY <1>1, <1>6, <2>3 DEF PlannedAt
  <2>4. CASE i = 4 BY <1>1, <1>3, <1>7, <2>4 DEF PlannedAt
  <2>5. CASE b /\ i = 5 BY <1>2, <1>7, <2>5 DEF PlannedAt
  <2>6. CASE b /\ i = 6 BY <1>2, <2>6 DEF PlannedAt
  <2>7. CASE b /\ i = 7 BY <1>2, <1>8, <2>7 DEF PlannedAt
  <2>8. CASE b /\ i = 8 BY <1>2, <2>8 DEF PlannedAt
  <2>9. CASE b /\ i = 9 BY <1>2, <2>9 DEF PlannedAt
  <2>10. /\ i \in 1..4 => i = 1 \/ i = 2 \/ i = 3 \/ i = 4
         /\ i \in 5..9 => i = 5 \/ i = 6 \/ i = 7 \/ i = 8 \/ i = 9
    OBVIOUS
  <2> QED BY <2>0, <2>1, <2>2, <2>3, <2>4, <2>5, <2>6, <2>7, <2>8, <2>9, <2>10
<1> QED BY <1>0, <1>1, <1>6, <1>7, <1>9, <1>10 DEF steps

(* What a step leaves of a plan.                                           *)
LEMMA PlanGoesOn ==
  ASSUME NEW steps \in Seq(Step), steps # << >>, Planned(steps)
  PROVE  /\ Tail(steps) \in Seq(Step)
         /\ Planned(Tail(steps))
         /\ Len(steps) = 1 <=> Tail(steps) = << >>
         /\ \A S : Left(steps, S) <=> Head(steps) \in S \/ Left(Tail(steps), S)
         /\ Head(steps) \in AgentSteps => Tail(steps) = << >>
         /\ Head(steps) \in ProxySteps => Left(Tail(steps), ProxyGates)
         /\ Head(steps) = RestartProxy => Left(Tail(steps), {AwaitProxy})
         /\ Left(steps, {RestartProxy, AwaitProxy}) => Left(Tail(steps), {RestartWg})
         /\ Head(steps) = RestartWg /\ Tail(steps) # << >> => Left(Tail(steps), {RestartAgent})
         /\ Head(steps) = StartWg => ~Left(Tail(steps), ProxyGates)
         /\ Left(Tail(steps), AgentSteps) /\ Len(Tail(steps)) = 1 => Head(steps) \in WgGates
<1> DEFINE n == Len(steps)
           rest == Tail(steps)
<1>1. /\ n \in Nat \ {0} /\ n = Len(steps)
      /\ rest \in Seq(Step) /\ Len(rest) = n - 1 /\ (n = 1 <=> rest = << >>)
      /\ \A i \in 1..(n - 1) : rest[i] = steps[i + 1] /\ i + 1 \in 1..n
      /\ \A i \in 1..n : i = 1 \/ (i - 1 \in 1..(n - 1) /\ rest[i - 1] = steps[i])
      /\ Head(steps) = steps[1] /\ 1 \in 1..n
  <2>1. n \in Nat \ {0} /\ rest \in Seq(Step) /\ Len(rest) = n - 1
    OBVIOUS
  <2>2. n = 1 <=> rest = << >>
    <3>1. rest = << >> <=> Len(rest) = 0
      <4> HIDE DEF rest
      <4> QED BY <2>1
    <3>2. n = 1 <=> n - 1 = 0
      <4> HIDE DEF n
      <4> QED BY <2>1
    <3> QED BY <2>1, <3>1, <3>2
  <2>3. \A i \in 1..(n - 1) : rest[i] = steps[i + 1] /\ i + 1 \in 1..n
    OBVIOUS
  <2>4. \A i \in 1..n : i = 1 \/ (i - 1 \in 1..(n - 1) /\ rest[i - 1] = steps[i])
    <3> SUFFICES ASSUME NEW i \in 1..n, i # 1
                 PROVE  i - 1 \in 1..(n - 1) /\ rest[i - 1] = steps[i]
      OBVIOUS
    <3>1. i - 1 \in 1..(n - 1) /\ (i - 1) + 1 = i
      BY <2>1
    <3>2. rest[i - 1] = steps[(i - 1) + 1]
      BY <2>3, <3>1
    <3> QED BY <3>1, <3>2
  <2>5. Head(steps) = steps[1] /\ 1 \in 1..n
    OBVIOUS
  <2> HIDE DEF rest
  <2> QED BY <2>1, <2>2, <2>3, <2>4, <2>5
<1> HIDE DEF n, rest
<1>2. ASSUME NEW S PROVE Left(steps, S) <=> Head(steps) \in S \/ Left(rest, S)
  BY <1>1 DEF Left
<1>3. ASSUME NEW S, NEW i \in 1..n
      PROVE  After(steps, i, S) => Left(rest, S)
  <2>1. \A j \in 1..n : i < j => j # 1
    BY <1>1
  <2> QED BY <1>1, <2>1 DEF After, Left
<1>4. ASSUME NEW S PROVE Left(rest, S) => After(steps, 1, S)
  <2>1. \A i \in 1..(n - 1) : 1 < i + 1
    BY <1>1
  <2> QED BY <1>1, <2>1 DEF After, Left
<1>5. ASSUME NEW S, NEW i \in 1..(n - 1)
      PROVE  After(rest, i, S) <=> After(steps, i + 1, S)
  <2>1. ASSUME NEW j \in 1..(n - 1), i < j, rest[j] \in S PROVE After(steps, i + 1, S)
    <3>1. i + 1 < j + 1
      BY <1>1, <2>1
    <3> QED BY <1>1, <2>1, <3>1 DEF After
  <2>2. ASSUME NEW j \in 1..n, i + 1 < j, steps[j] \in S PROVE After(rest, i, S)
    <3>1. j # 1 /\ i < j - 1
      BY <1>1, <2>2
    <3> QED BY <1>1, <2>2, <3>1 DEF After
  <2> QED BY <1>1, <2>1, <2>2 DEF After
<1>6. \A i \in 1..n :
        /\ steps[i] \in AgentSteps => i = n /\ (i > 1 => steps[i - 1] \in WgGates)
        /\ steps[i] \in ProxySteps => After(steps, i, ProxyGates)
        /\ steps[i] = RestartProxy => After(steps, i, {AwaitProxy})
        /\ steps[i] \in {RestartProxy, AwaitProxy} => After(steps, i, {RestartWg})
        /\ steps[i] = RestartWg => i = n \/ After(steps, i, {RestartAgent})
        /\ steps[i] = StartWg => ~After(steps, i, ProxyGates)
  BY <1>1 DEF Planned, PlannedAt
<1>7. Planned(rest)
  <2> SUFFICES ASSUME NEW i \in 1..(n - 1) PROVE PlannedAt(rest, i)
    BY <1>1 DEF Planned
  <2>1. rest[i] = steps[i + 1] /\ i + 1 \in 1..n
    BY <1>1
  <2>2. i + 1 = n => i = n - 1
    BY <1>1
  <2>3. i > 1 => i - 1 \in 1..(n - 1) /\ rest[i - 1] = steps[i] /\ (i + 1) - 1 = i /\ i + 1 > 1
    <3>1. i \in 1..n /\ (i > 1 => i # 1)
      BY <1>1
    <3> QED BY <1>1, <3>1
  <2>4. /\ rest[i] \in AgentSteps => i = n - 1 /\ (i > 1 => rest[i - 1] \in WgGates)
        /\ rest[i] \in ProxySteps => After(rest, i, ProxyGates)
        /\ rest[i] = RestartProxy => After(rest, i, {AwaitProxy})
        /\ rest[i] \in {RestartProxy, AwaitProxy} => After(rest, i, {RestartWg})
        /\ rest[i] = RestartWg => i = n - 1 \/ After(rest, i, {RestartAgent})
        /\ rest[i] = StartWg => ~After(rest, i, ProxyGates)
    BY <1>5, <1>6, <2>1, <2>2, <2>3
  <2> QED BY <1>1, <2>4 DEF PlannedAt
<1>8. Head(steps) \in AgentSteps => rest = << >>
  BY <1>1, <1>6
<1>9. /\ Head(steps) \in ProxySteps => Left(rest, ProxyGates)
      /\ Head(steps) = RestartProxy => Left(rest, {AwaitProxy})
  BY <1>1, <1>3, <1>6
<1>10. Left(steps, {RestartProxy, AwaitProxy}) => Left(rest, {RestartWg})
  BY <1>1, <1>3, <1>6 DEF Left
<1>11. Head(steps) = RestartWg /\ rest # << >> => Left(rest, {RestartAgent})
  BY <1>1, <1>3, <1>6
<1>12. Head(steps) = StartWg => ~Left(rest, ProxyGates)
  BY <1>1, <1>4, <1>6
<1>13. Left(rest, AgentSteps) /\ Len(rest) = 1 => Head(steps) \in WgGates
  <2> SUFFICES ASSUME Left(rest, AgentSteps), Len(rest) = 1 PROVE steps[1] \in WgGates
    BY <1>1
  <2>1. n = 2 /\ rest[1] \in AgentSteps
    <3>1. PICK i \in 1..Len(rest) : rest[i] \in AgentSteps
      BY DEF Left
    <3>2. i = 1
      OBVIOUS
    <3>3. n = 2
      <4>1. n \in Nat /\ Len(rest) = n - 1
        BY <1>1
      <4>2. \A k \in Nat : k - 1 = 1 => k = 2
        OBVIOUS
      <4> QED BY <4>1, <4>2
    <3> QED BY <3>1, <3>2, <3>3
  <2>2. 2 \in 1..n /\ steps[2] \in AgentSteps /\ 2 - 1 = 1
    BY <1>1, <2>1
  <2> QED BY <1>6, <2>2
<1> QED BY <1>1, <1>2, <1>7, <1>8, <1>9, <1>10, <1>11, <1>12, <1>13 DEF n, rest

(***************************************************************************)
(* The moves of a single shell                                             *)
(***************************************************************************)

GivesUp(s) ==
  /\ cli'[s] = << >> /\ asked'[s] = Absent /\ failed' # {}
  /\ UNCHANGED <<promised, containerVars>>

Begins(s, steps, version) ==
  /\ cli[s] = << >> /\ cli'[s] = steps /\ asked'[s] = version
  /\ UNCHANGED <<failed, promised, containerVars>>

(* The first of the remaining steps succeeds; the last one of a restart    *)
(* repairs earlier failures and makes the promise.                         *)
Takes(s, S) ==
  /\ cli[s] \in Seq(Step) /\ cli[s] # << >>
  /\ Head(cli[s]) \in S
  /\ cli'[s] = Tail(cli[s])
  /\ cli'[s] = << >> /\ asked[s] # Absent =>
       /\ asked'[s] = Absent /\ failed' = {}
       /\ promised' = IF asked[s] > promised THEN asked[s] ELSE promised
  /\ ~(cli'[s] = << >> /\ asked[s] # Absent) =>
       /\ asked'[s] = asked[s] /\ failed' = failed /\ promised' = promised

TakesProxyStart(s) ==
  /\ Takes(s, ProxySteps)
  /\ Head(cli[s]) # RestartProxy => ~ProxyUp
  /\ ProxyStart
  /\ UNCHANGED <<volumeVars, wgVars, agentVars>>

TakesWgStart(s) ==
  /\ Takes(s, {StartWg, RestartWg})
  /\ Head(cli[s]) = StartWg => ~WgUp
  /\ WgStart /\ NamespaceTornDown
  /\ UNCHANGED <<volumeVars, proxyVars>>

TakesAgentStart(s) ==
  /\ Takes(s, AgentSteps)
  /\ WgUp /\ AgentStart
  /\ UNCHANGED <<volumeVars, proxyVars, wgVars>>

(* compose up finds the container running.                                 *)
TakesNothing(s) ==
  /\ Takes(s, {<<"start", "mitmproxy">>, StartWg, StartAgent})
  /\ Head(cli[s]) = StartAgent => AgentUp
  /\ Head(cli[s]) = <<"start", "mitmproxy">> => ProxyUp
  /\ UNCHANGED containerVars

TakesProxyGate(s) ==
  Takes(s, ProxyGates) /\ proxyHealth = "healthy" /\ UNCHANGED containerVars

TakesWgGate(s) ==
  Takes(s, WgGates) /\ wgHealth = "healthy" /\ UNCHANGED containerVars

LEMMA AbandonMoves ==
  ASSUME StackTypeOK, NEW s \in Shells, Abandon(s), UNCHANGED containerVars
  PROVE  GivesUp(s)
BY DEF StackTypeOK, Abandon, GivesUp

LEMMA BeginMoves ==
  ASSUME StackTypeOK, NEW s \in Shells, NEW steps, NEW version,
         Idle(s), Begin(s, steps, version), UNCHANGED containerVars
  PROVE  Begins(s, steps, version)
BY DEF StackTypeOK, Begin, Begins, Idle

LEMMA EmptySteps == \A q \in Seq(Step) : q = << >> <=> Len(q) = 0
OBVIOUS

LEMMA AdvanceMoves ==
  ASSUME StackTypeOK, NEW s, Shells = {s}, NEW verb, NEW c, Doing(s, verb, c), Advance(s),
         NEW S, <<verb, c>> \in S
  PROVE  Takes(s, S)
<1>1. cli[s] \in Seq(Step) /\ cli[s] # << >> /\ Head(cli[s]) \in S /\ s \in Shells
  BY DEF StackTypeOK, Doing, Idle
<1>2. cli'[s] = Tail(cli[s])
  BY <1>1 DEF StackTypeOK, Advance
<1>3. cli'[s] = << >> <=> Len(cli[s]) = 1
  <2>1. Len(Tail(cli[s])) = Len(cli[s]) - 1 /\ Tail(cli[s]) \in Seq(Step) /\ Len(cli[s]) \in Nat
    BY <1>1
  <2>2. Tail(cli[s]) = << >> <=> Len(Tail(cli[s])) = 0
    BY <2>1, EmptySteps
  <2>3. \A k \in Nat : k - 1 = 0 <=> k = 1
    OBVIOUS
  <2> QED BY <1>2, <2>1, <2>2, <2>3
<1>4. ASSUME cli'[s] = << >>, asked[s] # Absent
      PROVE  /\ asked'[s] = Absent /\ failed' = {}
             /\ promised' = IF asked[s] > promised THEN asked[s] ELSE promised
  BY <1>1, <1>3, <1>4 DEF StackTypeOK, Advance
<1>5. ASSUME ~(cli'[s] = << >> /\ asked[s] # Absent)
      PROVE  asked'[s] = asked[s] /\ failed' = failed /\ promised' = promised
  BY <1>1, <1>3, <1>5 DEF StackTypeOK, Advance
<1> QED BY <1>1, <1>2, <1>4, <1>5 DEF Takes

Moves(s) ==
  \/ GivesUp(s)
  \/ Begins(s, UpSteps, Absent)
  \/ Begins(s, RestartSteps(AgentUp), settings)
  \/ TakesProxyStart(s) \/ TakesWgStart(s) \/ TakesAgentStart(s)
  \/ TakesNothing(s) \/ TakesProxyGate(s) \/ TakesWgGate(s)

LEMMA StepMoves ==
  ASSUME StackTypeOK, NEW s, Shells = {s}, StepDone(s)
  PROVE  Moves(s)
<1>0. s \in Shells
  OBVIOUS
<1>1. CASE StepGateFails(s) \/ StepWaitFails(s) \/ StepStartFails(s)
  <2>1. Abandon(s) /\ UNCHANGED containerVars
    BY <1>1 DEF StepGateFails, StepWaitFails, StepStartFails
  <2> QED BY <1>0, <2>1, AbandonMoves DEF Moves
<1>2. CASE StepHealthy(s)
  <2>1. PICK c \in Service, verb \in {"gate", "wait"} :
          /\ Doing(s, verb, c) /\ Health(c) = "healthy" /\ Advance(s) /\ UNCHANGED containerVars
    BY <1>2 DEF StepHealthy
  <2>2. CASE c = "mitmproxy"
    <3>1. <<verb, c>> \in ProxyGates
      BY <2>2 DEF ProxyGates, AwaitProxy
    <3>2. Takes(s, ProxyGates)
      BY <2>1, <3>1, AdvanceMoves
    <3> QED BY <2>1, <2>2, <3>2 DEF Moves, TakesProxyGate, Health
  <2>3. CASE c = "wg-client"
    <3>1. <<verb, c>> \in WgGates
      BY <2>3 DEF WgGates
    <3>2. Takes(s, WgGates)
      BY <2>1, <3>1, AdvanceMoves
    <3> QED BY <2>1, <2>3, <3>2 DEF Moves, TakesWgGate, Health
  <2>4. CASE c = "agent"
    BY <2>1, <2>4 DEF Health
  <2> QED BY <2>2, <2>3, <2>4 DEF Service
<1>3. ASSUME NEW c \in Service, NEW verb \in {"restart", "start"}, Doing(s, verb, c),
             verb = "start" => ~Running(c), StartContainer(c), Advance(s)
      PROVE  Moves(s)
  <2>1. Head(cli[s]) = <<verb, c>>
    BY <1>3 DEF Doing
  <2>2. CASE c = "mitmproxy"
    <3>1. <<verb, c>> \in ProxySteps /\ (<<verb, c>> # RestartProxy => verb = "start")
      BY <2>2 DEF ProxySteps, RestartProxy
    <3>2. Takes(s, ProxySteps)
      BY <1>3, <3>1, AdvanceMoves
    <3>3. ProxyStart /\ UNCHANGED <<volumeVars, wgVars, agentVars>>
      BY <1>3, <2>2 DEF StartContainer
    <3> QED BY <1>3, <2>1, <2>2, <3>1, <3>2, <3>3 DEF Moves, TakesProxyStart, Running
  <2>3. CASE c = "wg-client"
    <3>1. <<verb, c>> \in {StartWg, RestartWg} /\ (<<verb, c>> = StartWg => verb = "start")
      BY <2>3 DEF StartWg, RestartWg
    <3>2. Takes(s, {StartWg, RestartWg})
      BY <1>3, <3>1, AdvanceMoves
    <3>3. WgStart /\ NamespaceTornDown /\ UNCHANGED <<volumeVars, proxyVars>>
      BY <1>3, <2>3 DEF StartContainer
    <3> QED BY <1>3, <2>1, <2>3, <3>1, <3>2, <3>3 DEF Moves, TakesWgStart, Running
  <2>4. CASE c = "agent"
    <3>1. <<verb, c>> \in AgentSteps
      BY <2>4 DEF AgentSteps, StartAgent, RestartAgent
    <3>2. Takes(s, AgentSteps)
      BY <1>3, <3>1, AdvanceMoves
    <3>3. WgUp /\ AgentStart /\ UNCHANGED <<volumeVars, proxyVars, wgVars>>
      BY <1>3, <2>4 DEF StartContainer
    <3> QED BY <3>2, <3>3 DEF Moves, TakesAgentStart
  <2> QED BY <2>2, <2>3, <2>4 DEF Service
<1>4. CASE StepRestart(s)
  BY <1>3, <1>4 DEF StepRestart
<1>5. CASE StepStart(s)
  <2>1. PICK c \in Service :
          /\ Doing(s, "start", c)
          /\ IF Running(c) THEN UNCHANGED containerVars ELSE StartContainer(c)
          /\ Advance(s)
    BY <1>5 DEF StepStart
  <2>2. CASE ~Running(c)
    BY <1>3, <2>1, <2>2
  <2>3. CASE Running(c)
    <3>1. <<"start", c>> \in {<<"start", "mitmproxy">>, StartWg, StartAgent}
      BY DEF Service, StartWg, StartAgent
    <3>2. Takes(s, {<<"start", "mitmproxy">>, StartWg, StartAgent})
      BY <2>1, <3>1, AdvanceMoves
    <3>3. Head(cli[s]) = <<"start", c>>
      BY <2>1 DEF Doing
    <3>4. /\ Head(cli[s]) = StartAgent => AgentUp
          /\ Head(cli[s]) = <<"start", "mitmproxy">> => ProxyUp
      <4>1. CASE c = "mitmproxy" BY <2>3, <3>3, <4>1 DEF StartAgent, Running
      <4>2. CASE c = "wg-client" BY <3>3, <4>2 DEF StartAgent
      <4>3. CASE c = "agent"     BY <2>3, <3>3, <4>3 DEF Running
      <4> QED BY <4>1, <4>2, <4>3 DEF Service
    <3> QED BY <2>1, <2>3, <3>2, <3>4 DEF Moves, TakesNothing
  <2> QED BY <2>2, <2>3
<1> QED BY <1>1, <1>2, <1>4, <1>5 DEF StepDone

(* Every step of the sandbox with one shell.                               *)
LEMMA OneShellMoves ==
  ASSUME StackTypeOK, NEW s, Shells = {s}, [Next]_vars
  PROVE  \/ Edit \/ Proxy \/ Wg \/ Agent
         \/ Down /\ cli[s] = << >>
         \/ Moves(s)
         \/ UNCHANGED vars
<1>1. ASSUME StepDone(s) PROVE Moves(s)
  BY <1>1, StepMoves
<1>2. ASSUME Command(s) PROVE Moves(s)
  <2>1. s \in Shells
    OBVIOUS
  <2>2. CASE Up(s)
    <3>1. Begins(s, UpSteps, Absent)
      BY <2>1, <2>2, BeginMoves DEF Up
    <3> QED BY <3>1 DEF Moves
  <2>3. CASE Restart(s)
    <3>1. Running("agent") = AgentUp
      BY DEF Running
    <3>2. Begins(s, RestartSteps(AgentUp), settings)
      BY <2>1, <2>3, <3>1, BeginMoves DEF Restart
    <3> QED BY <3>2 DEF Moves
  <2>4. CASE Interrupt(s)
    BY <2>1, <2>4, AbandonMoves DEF Interrupt, Moves
  <2> QED BY <1>2, <2>2, <2>3, <2>4 DEF Command
<1>3. CASE Down
  BY <1>3 DEF Down, Idle
<1> QED BY <1>1, <1>2, <1>3 DEF Next

(***************************************************************************)
(* A command in progress                                                   *)
(***************************************************************************)

(* A restart is under way as long as one of these steps is to come; in one *)
(* that will not restart the agent there is no agent.                      *)
PlanInv(s) ==
  /\ Planned(cli[s])
  /\ asked[s] # Absent <=> Left(cli[s], {RestartWg, RestartAgent})
  /\ asked[s] # Absent => agentPc = "down" \/ Left(cli[s], {RestartAgent})

LEMMA LeftSets ==
  ASSUME NEW steps
  PROVE  /\ Left(steps, {RestartWg, RestartAgent}) <=>
              Left(steps, {RestartWg}) \/ Left(steps, {RestartAgent})
         /\ Left(steps, {RestartProxy, AwaitProxy}) <=>
              Left(steps, {RestartProxy}) \/ Left(steps, {AwaitProxy})
         /\ Left(steps, {AwaitProxy}) => Left(steps, ProxyGates)
         /\ Left(steps, {RestartAgent}) => Left(steps, AgentSteps)
BY DEF Left, ProxyGates, AgentSteps

LEMMA NothingLeft ==
  /\ \A S : ~Left(<< >>, S)
  /\ Planned(<< >>)
<1>1. 1..Len(<< >>) = {}
  OBVIOUS
<1> QED BY <1>1 DEF Left, Planned

(* What a step that is taken leaves.                                       *)
LEMMA TakesOn ==
  ASSUME NEW s, NEW S, Takes(s, S), Planned(cli[s])
  PROVE  /\ Planned(cli'[s])
         /\ Len(cli[s]) = 1 <=> cli'[s] = << >>
         /\ \A T : Left(cli[s], T) <=> Head(cli[s]) \in T \/ Left(cli'[s], T)
         /\ Head(cli[s]) \in AgentSteps => cli'[s] = << >>
         /\ Head(cli[s]) \in ProxySteps => Left(cli'[s], ProxyGates)
         /\ Head(cli[s]) = RestartProxy => Left(cli'[s], {AwaitProxy})
         /\ Left(cli[s], {RestartProxy, AwaitProxy}) => Left(cli'[s], {RestartWg})
         /\ Head(cli[s]) = RestartWg /\ cli'[s] # << >> => Left(cli'[s], {RestartAgent})
         /\ Head(cli[s]) = StartWg => ~Left(cli'[s], ProxyGates)
         /\ Left(cli'[s], AgentSteps) /\ Len(cli'[s]) = 1 => Head(cli[s]) \in WgGates
<1>1. cli[s] \in Seq(Step) /\ cli[s] # << >> /\ Planned(cli[s]) /\ cli'[s] = Tail(cli[s])
  BY DEF Takes
<1> DEFINE steps == cli[s]
           rest == cli'[s]
<1>2. steps \in Seq(Step) /\ steps # << >> /\ Planned(steps) /\ rest = Tail(steps)
  BY <1>1
<1> HIDE DEF steps, rest
<1>3. /\ Planned(rest)
      /\ Len(steps) = 1 <=> rest = << >>
      /\ Head(steps) \in AgentSteps => rest = << >>
      /\ Head(steps) \in ProxySteps => Left(rest, ProxyGates)
      /\ Head(steps) = RestartProxy => Left(rest, {AwaitProxy})
      /\ Left(steps, {RestartProxy, AwaitProxy}) => Left(rest, {RestartWg})
      /\ Head(steps) = RestartWg /\ rest # << >> => Left(rest, {RestartAgent})
      /\ Head(steps) = StartWg => ~Left(rest, ProxyGates)
      /\ Left(rest, AgentSteps) /\ Len(rest) = 1 => Head(steps) \in WgGates
  BY <1>2, PlanGoesOn
<1>4. \A T : Left(steps, T) <=> Head(steps) \in T \/ Left(rest, T)
  BY <1>2, PlanGoesOn
<1> QED BY <1>3, <1>4 DEF steps, rest

LEMMA PlanTaken ==
  ASSUME NEW s, NEW S, Takes(s, S), PlanInv(s),
         agentPc = "down" => agentPc' = "down" \/ cli'[s] = << >>
  PROVE  PlanInv(s)'
<1>0. /\ Planned(cli[s]) /\ Planned(cli'[s])
      /\ asked[s] # Absent <=> Left(cli[s], {RestartWg}) \/ Left(cli[s], {RestartAgent})
      /\ asked[s] # Absent => agentPc = "down" \/ Left(cli[s], {RestartAgent})
  BY TakesOn, LeftSets DEF PlanInv
<1>1. /\ Left(cli[s], {RestartWg}) <=> Head(cli[s]) = RestartWg \/ Left(cli'[s], {RestartWg})
      /\ Left(cli[s], {RestartAgent}) <=> Head(cli[s]) = RestartAgent \/ Left(cli'[s], {RestartAgent})
      /\ Head(cli[s]) = RestartAgent => cli'[s] = << >>
      /\ Head(cli[s]) = RestartWg /\ cli'[s] # << >> => Left(cli'[s], {RestartAgent})
  BY <1>0, TakesOn DEF AgentSteps
<1>2. CASE cli'[s] = << >>
  <2>1. ~Left(cli'[s], {RestartWg, RestartAgent})
    BY <1>2, NothingLeft
  <2>2. asked'[s] = Absent
    BY <1>2 DEF Takes
  <2> QED BY <1>0, <2>1, <2>2 DEF PlanInv
<1>3. CASE cli'[s] # << >>
  <2>1. asked'[s] = asked[s]
    BY <1>3 DEF Takes
  <2>2. Left(cli'[s], {RestartWg, RestartAgent}) <=>
          Left(cli'[s], {RestartWg}) \/ Left(cli'[s], {RestartAgent})
    BY LeftSets
  <2> QED BY <1>0, <1>1, <1>3, <2>1, <2>2 DEF PlanInv
<1> QED BY <1>2, <1>3

LEMMA AgentKeptDown ==
  ASSUME Agent, agentPc = "down"
  PROVE  UNCHANGED agentVars /\ FALSE
BY DEF Agent, AgentWork, AgentAdoptResolv, AgentInstallCa, AgentCaMissing,
       AgentSourceEnv, AgentExit, AgentUp

LEMMA PlanStep ==
  ASSUME StackTypeOK, settings \in Version, NEW s, Shells = {s}, PlanInv(s), [Next]_vars
  PROVE  PlanInv(s)'
<1>a. ASSUME cli' = cli, asked' = asked, agentPc = "down" => agentPc' = "down"
      PROVE  PlanInv(s)'
  BY <1>a DEF PlanInv
<1>b. ASSUME agentPc' = agentPc \/ agentPc' = "down" PROVE agentPc = "down" => agentPc' = "down"
  BY <1>b
<1>1. CASE Edit \/ Proxy
  BY <1>1, <1>a DEF Edit, Proxy
<1>2. CASE Wg
  <2>1. agentPc' = agentPc
    BY <1>2 DEF Wg, NamespaceTornDown
  <2> QED BY <1>2, <1>a, <2>1 DEF Wg
<1>3. CASE Agent
  BY <1>3, <1>a, AgentKeptDown DEF Agent
<1>4. CASE Down
  BY <1>4, <1>a DEF Down, AgentStop
<1>5. CASE UNCHANGED vars
  BY <1>5, <1>a DEF vars
<1>6. CASE GivesUp(s)
  BY <1>6, NothingLeft DEF GivesUp, PlanInv
<1>7. CASE Begins(s, UpSteps, Absent)
  BY <1>7, UpPlanned DEF Begins, PlanInv
<1>8. CASE Begins(s, RestartSteps(AgentUp), settings)
  <2>1. AgentUp \in BOOLEAN /\ settings # Absent
    BY VersionAssumption DEF AgentUp, Version, Absent
  <2>2. /\ cli'[s] = RestartSteps(AgentUp) /\ asked'[s] = settings /\ agentPc' = agentPc
    BY <1>8 DEF Begins
  <2>3. /\ Planned(cli'[s]) /\ Left(cli'[s], {RestartWg})
        /\ Left(cli'[s], {RestartAgent}) <=> AgentUp
    BY <2>1, <2>2, RestartPlanned
  <2>4. Left(cli'[s], {RestartWg, RestartAgent})
    BY <2>3, LeftSets
  <2> QED BY <2>1, <2>2, <2>3, <2>4 DEF PlanInv, AgentUp
<1>9. CASE TakesProxyStart(s)
  BY <1>9, PlanTaken DEF TakesProxyStart
<1>10. CASE TakesWgStart(s)
  <2>1. agentPc' = agentPc
    BY <1>10 DEF TakesWgStart, NamespaceTornDown
  <2> QED BY <1>10, <2>1, PlanTaken DEF TakesWgStart
<1>11. CASE TakesAgentStart(s)
  <2>1. cli'[s] = << >> /\ Takes(s, AgentSteps)
    BY <1>11, TakesOn DEF TakesAgentStart, Takes, PlanInv
  <2> QED BY <2>1, PlanTaken
<1>12. CASE TakesNothing(s) \/ TakesProxyGate(s) \/ TakesWgGate(s)
  BY <1>12, PlanTaken DEF TakesNothing, TakesProxyGate, TakesWgGate
<1> QED
  BY <1>1, <1>2, <1>3, <1>4, <1>5, <1>6, <1>7, <1>8, <1>9, <1>10, <1>11, <1>12,
     OneShellMoves DEF Moves

(* PlanInv along every behaviour of one shell.                             *)
LEMMA PlanInvariant ==
  ASSUME NEW s, Shells = {s}
  PROVE  SafetySpec => []PlanInv(s)
<1>1. Init => PlanInv(s)
  <2> SUFFICES ASSUME Init PROVE PlanInv(s)
    OBVIOUS
  <2>1. cli[s] = << >> /\ asked[s] = Absent
    BY DEF Init
  <2> QED BY <2>1, NothingLeft DEF PlanInv
<1>2. TypeOK /\ PlanInv(s) /\ [Next]_vars => PlanInv(s)'
  BY PlanStep DEF TypeOK, VolumesTypeOK
<1> QED BY <1>1, <1>2, TypeCorrect, PTL DEF SafetySpec

(***************************************************************************)
(* The agent's namespace                                                   *)
(***************************************************************************)

(* wg-client stays in its confined namespace until a command restarts it:  *)
(* its own `exit 1' comes before the firewall or after dnsmasq has died.   *)
(* The agent joins no other namespace, for it is started last, behind a    *)
(* wait for a healthy wg-client; and while it is on one that was torn      *)
(* down, its own restart is still to come, or a command has failed.        *)
LinkInv(s) ==
  /\ wgPc \in {"resolv", "hosts", "touch", "supervise"} => dnsmasqUp
  /\ killSwitch => wgPc \in {"dnsmasq", "resolv", "hosts", "touch", "supervise"}
  /\ AgentConfined
  /\ agentNet = "none" <=> agentPc = "down"
  /\ Left(cli[s], AgentSteps) /\ Len(cli[s]) = 1 => killSwitch
  /\ agentNet = "dead" => failed # {} \/ Left(cli[s], {RestartAgent})

(* A step of wg-client by itself: it leaves no namespace an agent is in.   *)
LEMMA WgKeepsNamespace ==
  ASSUME "wg" \notin Faults, "dnsmasq" \notin Faults, NEW s, WgTypeOK, LinkInv(s), Wg
  PROVE  /\ UNCHANGED <<agentNet, agentPc>>
         /\ killSwitch => killSwitch'
         /\ wgPc' \in {"resolv", "hosts", "touch", "supervise"} => dnsmasqUp'
         /\ killSwitch' => wgPc' \in {"dnsmasq", "resolv", "hosts", "touch", "supervise"}
<1>0. /\ wgPc \in {"resolv", "hosts", "touch", "supervise"} => dnsmasqUp
      /\ killSwitch => wgPc \in {"dnsmasq", "resolv", "hosts", "touch", "supervise"}
      /\ agentNet = "live" => killSwitch
  BY DEF LinkInv, AgentConfined
<1>1. CASE (WgWork \/ DnsmasqCrash \/ WgProbe) /\ UNCHANGED <<proxyVars, agentVars, cliVars>>
  <2>0. UNCHANGED <<agentNet, agentPc>>
    BY <1>1
  <2>1. CASE WgTunnel(ProxyUp)   BY <1>0, <2>0, <2>1 DEF WgTunnel
  <2>2. CASE WgFirewall          BY <1>0, <2>0, <2>2 DEF WgFirewall
  <2>3. CASE WgDnsmasq           BY <1>0, <2>0, <2>3 DEF WgDnsmasq
  <2>4. CASE WgResolv            BY <1>0, <2>0, <2>4 DEF WgResolv
  <2>5. CASE WgHosts             BY <1>0, <2>0, <2>5 DEF WgHosts
  <2>6. CASE WgTouchReady        BY <1>0, <2>0, <2>6 DEF WgTouchReady
  <2>7. CASE WgSupervise         BY <1>0, <2>0, <2>7 DEF WgSupervise
  <2>8. CASE DnsmasqCrash        BY <2>8 DEF DnsmasqCrash
  <2>9. CASE WgProbe             BY <1>0, <2>0, <2>9 DEF WgProbe, WgProbePasses, WgProbesFail
  <2> QED BY <1>1, <2>1, <2>2, <2>3, <2>4, <2>5, <2>6, <2>7, <2>8, <2>9 DEF WgWork
<1>2. CASE WgLeave /\ NamespaceTornDown
  <2>1. ~WgFirewallFails /\ ~WgCrash
    BY DEF WgFirewallFails, WgCrash
  <2>2. ~WgResolvFails
    BY <1>0 DEF WgResolvFails
  <2>3. WgTunnelFails(ProxyUp) \/ WgPolicyRestart
    BY <1>2, <2>1, <2>2 DEF WgLeave, WgRetry
  <2>4. ~killSwitch
    BY <1>0, <2>3 DEF WgTunnelFails, WgPolicyRestart
  <2>5. UNCHANGED <<agentNet, agentPc>>
    BY <1>0, <1>2, <2>4 DEF NamespaceTornDown
  <2>6. killSwitch' = FALSE /\ wgPc' \in {"exited", "tunnel"}
    BY <2>3 DEF WgTunnelFails, WgExit, WgPolicyRestart, WgStart
  <2> QED BY <2>4, <2>5, <2>6
<1> QED BY <1>1, <1>2 DEF Wg

(* What a step of the command that does not start the agent leaves of the  *)
(* last two conjuncts, when it starts no wg-client.                        *)
LEMMA LinkTaken ==
  ASSUME NEW s, NEW S, Takes(s, S), PlanInv(s), LinkInv(s),
         Head(cli[s]) \in WgGates => killSwitch',
         agentNet' = "dead" => agentNet = "dead" \/ Left(cli'[s], {RestartAgent}),
         RestartAgent \notin S
  PROVE  /\ Left(cli'[s], AgentSteps) /\ Len(cli'[s]) = 1 => killSwitch'
         /\ agentNet' = "dead" => failed' # {} \/ Left(cli'[s], {RestartAgent})
<1>0. Planned(cli[s]) /\ Head(cli[s]) \in S
  BY DEF PlanInv, Takes
<1>1. Left(cli'[s], AgentSteps) /\ Len(cli'[s]) = 1 => killSwitch'
  BY <1>0, TakesOn
<1>2. SUFFICES ASSUME agentNet' = "dead", ~Left(cli'[s], {RestartAgent}) PROVE failed' # {}
  BY <1>1
<1>3. agentNet = "dead" /\ Head(cli[s]) # RestartAgent
  BY <1>0, <1>2
<1>4. ~Left(cli[s], {RestartAgent})
  BY <1>0, <1>2, <1>3, TakesOn
<1>5. failed # {} /\ agentPc # "down"
  BY <1>3, <1>4 DEF LinkInv
<1>6. asked[s] = Absent
  BY <1>4, <1>5 DEF PlanInv
<1> QED BY <1>5, <1>6 DEF Takes

LEMMA LinkStep ==
  ASSUME "wg" \notin Faults, "dnsmasq" \notin Faults, NEW s, Shells = {s},
         TypeOK, ConfinedBeforeUse, PlanInv(s), LinkInv(s), [Next]_vars
  PROVE  LinkInv(s)'
<1>0. WgTypeOK /\ StackTypeOK
  BY DEF TypeOK
<1>a. ASSUME UNCHANGED <<wgVars, cli, failed>>,
             \/ agentNet' = agentNet /\ (agentPc = "down" <=> agentPc' = "down")
             \/ agentNet' = "none" /\ agentPc' = "down"
      PROVE  LinkInv(s)'
  BY <1>a DEF LinkInv, AgentConfined
<1>b. UNCHANGED containerVars => UNCHANGED <<wgVars, agentVars>>
  OBVIOUS
<1>1. CASE Edit \/ Proxy
  BY <1>1, <1>a DEF Edit, Proxy
<1>2. CASE Wg
  BY <1>0, <1>2, WgKeepsNamespace DEF Wg, LinkInv, AgentConfined
<1>3. CASE Agent
  <2>1. \/ agentNet' = agentNet /\ (agentPc = "down" <=> agentPc' = "down")
        \/ agentNet' = "none" /\ agentPc' = "down"
    BY <1>3 DEF Agent, AgentWork, AgentAdoptResolv, AgentInstallCa, AgentCaMissing,
       AgentSourceEnv, AgentExit, AgentStop
  <2> QED BY <1>3, <1>a, <2>1 DEF Agent
<1>4. CASE Down /\ cli[s] = << >>
  BY <1>4, NothingLeft DEF Down, AgentStop, LinkInv, AgentConfined
<1>5. CASE UNCHANGED vars
  BY <1>5, <1>a DEF vars
<1>6. CASE GivesUp(s)
  BY <1>6, NothingLeft DEF GivesUp, LinkInv, AgentConfined
<1>c. ASSUME NEW steps, NEW version, Begins(s, steps, version), Len(steps) # 1
      PROVE  LinkInv(s)'
  <2>1. cli[s] = << >> /\ cli'[s] = steps /\ failed' = failed /\ UNCHANGED <<wgVars, agentVars>>
    BY <1>c DEF Begins
  <2>2. ~Left(cli[s], {RestartAgent})
    BY <2>1, NothingLeft
  <2> QED BY <1>c, <2>1, <2>2 DEF LinkInv, AgentConfined
<1>7. CASE Begins(s, UpSteps, Absent)
  BY <1>7, <1>c, UpPlanned
<1>8. CASE Begins(s, RestartSteps(AgentUp), settings)
  <2>1. AgentUp \in BOOLEAN
    BY DEF AgentUp
  <2>2. Len(RestartSteps(AgentUp)) # 1
    BY <2>1, RestartPlanned
  <2> QED BY <1>8, <1>c, <2>2
<1> USE DEF ProxySteps, ProxyGates, AgentSteps, WgGates, StartWg, RestartWg, StartAgent,
            RestartAgent, RestartProxy, AwaitProxy
<1>d. ASSUME NEW S, Takes(s, S), RestartAgent \notin S, UNCHANGED <<wgVars, agentVars>>,
             Head(cli[s]) \in WgGates => killSwitch
      PROVE  LinkInv(s)'
  <2>1. killSwitch' = killSwitch /\ agentNet' = agentNet
    BY <1>d
  <2>2. /\ Left(cli'[s], AgentSteps) /\ Len(cli'[s]) = 1 => killSwitch'
        /\ agentNet' = "dead" => failed' # {} \/ Left(cli'[s], {RestartAgent})
    BY <1>d, <2>1, LinkTaken
  <2> QED BY <1>d, <2>2 DEF LinkInv, AgentConfined
<1>9. CASE TakesProxyStart(s)
  <2>1. /\ Takes(s, ProxySteps) /\ Head(cli[s]) \in ProxySteps
        /\ UNCHANGED <<wgVars, agentVars>>
    BY <1>9 DEF TakesProxyStart, Takes
  <2>2. RestartAgent \notin ProxySteps /\ Head(cli[s]) \notin WgGates
    BY <2>1
  <2> QED BY <1>d, <2>1, <2>2
<1>10. CASE TakesProxyGate(s)
  <2>1. /\ Takes(s, ProxyGates) /\ Head(cli[s]) \in ProxyGates
        /\ UNCHANGED <<wgVars, agentVars>>
    BY <1>10 DEF TakesProxyGate, Takes
  <2>2. RestartAgent \notin ProxyGates /\ Head(cli[s]) \notin WgGates
    BY <2>1
  <2> QED BY <1>d, <2>1, <2>2
<1>11. CASE TakesWgGate(s)
  BY <1>11, <1>d DEF TakesWgGate, Takes, ConfinedBeforeUse
<1>12. CASE TakesNothing(s)
  <2> DEFINE S == {<<"start", "mitmproxy">>, StartWg, StartAgent}
  <2>1. Takes(s, S) /\ Head(cli[s]) \in S /\ UNCHANGED <<wgVars, agentVars>>
    BY <1>12 DEF TakesNothing, Takes
  <2>2. RestartAgent \notin S /\ Head(cli[s]) \notin WgGates
    BY <2>1
  <2> QED BY <1>d, <2>1, <2>2
<1>13. CASE TakesWgStart(s)
  <2> USE <1>13 DEF TakesWgStart
  <2>0. Takes(s, {StartWg, RestartWg}) /\ Planned(cli[s])
    BY DEF PlanInv
  <2>1. /\ agentPc' = agentPc
        /\ agentNet' = IF agentNet = "live" THEN "dead" ELSE agentNet
        /\ wgPc' = "tunnel" /\ killSwitch' = FALSE
    BY DEF NamespaceTornDown, WgStart
  <2>2. ASSUME Head(cli[s]) = StartWg PROVE agentNet' = "dead" => agentNet = "dead"
    <3>1. ~killSwitch
      BY <2>2 DEF WgUp, LinkInv
    <3> QED BY <2>1, <3>1 DEF LinkInv, AgentConfined
  <2>3. ASSUME Head(cli[s]) = RestartWg
        PROVE  agentNet' = "dead" => agentNet = "dead" \/ Left(cli'[s], {RestartAgent})
    <3>1. Left(cli[s], {RestartWg, RestartAgent})
      BY <2>0, <2>3, TakesOn
    <3>2. agentPc = "down" \/ Left(cli[s], {RestartAgent})
      BY <3>1 DEF PlanInv
    <3>3. agentPc = "down" \/ Left(cli'[s], {RestartAgent})
      BY <2>0, <2>3, <3>2, TakesOn
    <3> QED BY <2>1, <3>3 DEF LinkInv
  <2>4. agentNet' = "dead" => agentNet = "dead" \/ Left(cli'[s], {RestartAgent})
    BY <2>0, <2>2, <2>3 DEF Takes
  <2>5. Head(cli[s]) \notin WgGates /\ RestartAgent \notin {StartWg, RestartWg}
    BY <2>0 DEF Takes
  <2>6. /\ Left(cli'[s], AgentSteps) /\ Len(cli'[s]) = 1 => killSwitch'
        /\ agentNet' = "dead" => failed' # {} \/ Left(cli'[s], {RestartAgent})
    BY <2>0, <2>4, <2>5, LinkTaken
  <2> QED BY <2>1, <2>6 DEF LinkInv, AgentConfined
<1>14. CASE TakesAgentStart(s)
  <2>0. Takes(s, AgentSteps) /\ Planned(cli[s]) /\ Head(cli[s]) \in AgentSteps
    BY <1>14 DEF TakesAgentStart, Takes, PlanInv
  <2>1. cli'[s] = << >> /\ Len(cli[s]) = 1 /\ Left(cli[s], AgentSteps)
    BY <2>0, TakesOn
  <2>2. killSwitch
    BY <2>1 DEF LinkInv
  <2>3. agentPc' = "resolv" /\ agentNet' = "live" /\ UNCHANGED wgVars
    BY <1>14 DEF TakesAgentStart, AgentStart
  <2>4. ~Left(cli'[s], AgentSteps)
    BY <2>1, NothingLeft
  <2> QED BY <2>2, <2>3, <2>4 DEF LinkInv, AgentConfined
<1> QED
  BY <1>1, <1>2, <1>3, <1>4, <1>5, <1>6, <1>7, <1>8, <1>9, <1>10, <1>11, <1>12, <1>13,
     <1>14, <1>0, OneShellMoves DEF Moves

(* While neither wg-client nor dnsmasq is killed, an agent is attached to  *)
(* a namespace only when the kill switch confines it, whatever happens to  *)
(* the proxy and to the commands: depends_on and --wait put the agent's    *)
(* start behind a wg-client that Docker calls healthy.                     *)
THEOREM AgentStaysConfined ==
  ASSUME NEW s, Shells = {s}, "wg" \notin Faults, "dnsmasq" \notin Faults
  PROVE  SafetySpec => []AgentConfined
<1>1. Init => LinkInv(s)
  <2> SUFFICES ASSUME Init PROVE LinkInv(s)
    OBVIOUS
  <2>1. cli[s] = << >>
    BY DEF Init
  <2>2. ~Left(cli[s], AgentSteps)
    BY <2>1, NothingLeft
  <2> QED BY <2>2 DEF Init, WgInit, AgentInit, LinkInv, AgentConfined
<1>2. /\ TypeOK /\ ConfinedBeforeUse /\ PlanInv(s) /\ LinkInv(s) /\ [Next]_vars
      => LinkInv(s)'
  BY LinkStep
<1>3. LinkInv(s) => AgentConfined
  BY DEF LinkInv
<1> QED BY <1>1, <1>2, <1>3, TypeCorrect, Confined, PlanInvariant, PTL DEF SafetySpec

(* Issue 69: with the same exclusions, a restart that has said "New        *)
(* settings are now active" leaves no running agent on the namespace of    *)
(* the wg-client it replaced.                                              *)
THEOREM AgentStaysLinked ==
  ASSUME NEW s, Shells = {s}, "wg" \notin Faults, "dnsmasq" \notin Faults
  PROVE  SafetySpec => []AgentRelinked
<1>1. Init => LinkInv(s)
  <2> SUFFICES ASSUME Init PROVE LinkInv(s)
    OBVIOUS
  <2>1. cli[s] = << >>
    BY DEF Init
  <2>2. ~Left(cli[s], AgentSteps)
    BY <2>1, NothingLeft
  <2> QED BY <2>2 DEF Init, WgInit, AgentInit, LinkInv, AgentConfined
<1>2. /\ TypeOK /\ ConfinedBeforeUse /\ PlanInv(s) /\ LinkInv(s) /\ [Next]_vars
      => LinkInv(s)'
  BY LinkStep
<1>3. LinkInv(s) => AgentRelinked
  <2> SUFFICES ASSUME LinkInv(s), Settled, agentNet = "dead" PROVE FALSE
    BY DEF AgentRelinked
  <2>1. cli[s] = << >> /\ failed = {}
    BY DEF Settled, Idle
  <2> QED BY <2>1, NothingLeft DEF LinkInv
<1> QED BY <1>1, <1>2, <1>3, TypeCorrect, Confined, PlanInvariant, PTL DEF SafetySpec

(***************************************************************************)
(* The certificate                                                         *)
(***************************************************************************)

(* The clean-up of the running proxy is over and has been made good.       *)
CaSafe == caPublic /\ bgPc # "clean"

(* Whoever starts the proxy waits for it before anything else starts, and  *)
(* no proxy is healthy before its certificate is published again.          *)
CaInv(s) ==
  /\ proxyHealth = "healthy" => CaSafe
  /\ cli[s] # << >> \/ (failed = {} /\ AgentUp) => CaSafe \/ Left(cli[s], ProxyGates)

LEMMA ProxyKeepsCa ==
  ASSUME CleanupRaces = FALSE, NEW s, CaInv(s), Proxy
  PROVE  CaInv(s)'
<1>0. /\ UNCHANGED <<cli, failed, agentPc>>
      /\ proxyHealth = "healthy" => CaSafe
  BY DEF Proxy, CaInv
<1>1. SUFFICES /\ proxyHealth' = "healthy" => CaSafe'
               /\ CaSafe => CaSafe'
  BY <1>0 DEF CaInv, AgentUp
<1> USE DEF CaSafe, CleanupDone
<1>2. CASE BgClean             BY <1>0, <1>2 DEF BgClean
<1>3. CASE BgPublishCa         BY <1>0, <1>3 DEF BgPublishCa
<1>4. CASE GenerateKeys        BY <1>0, <1>4 DEF GenerateKeys
<1>5. CASE AddonRead           BY <1>0, <1>5 DEF AddonRead
<1>6. CASE WritePlaceholdersEnv BY <1>0, <1>6 DEF WritePlaceholdersEnv
<1>7. CASE WriteDnsConf        BY <1>0, <1>7 DEF WriteDnsConf
<1>8. CASE WriteExtraHosts     BY <1>0, <1>8 DEF WriteExtraHosts
<1>9. CASE AddonLoadFails      BY <1>0, <1>9 DEF AddonLoadFails, ProxyStop
<1>10. CASE ProxyCrash         BY <1>0, <1>10 DEF ProxyCrash, ProxyStop
<1>11. CASE ProxyProbePasses   BY <1>0, <1>11 DEF ProxyProbePasses, ProxyTest
<1>12. CASE ProxyProbesFail    BY <1>0, <1>12 DEF ProxyProbesFail
<1> QED
  BY <1>2, <1>3, <1>4, <1>5, <1>6, <1>7, <1>8, <1>9, <1>10, <1>11, <1>12
     DEF Proxy, ProxyStep, ProxyWork

(* Outside the proxy's own steps, only the public resolv.conf is written.  *)
LEMMA WgWrites ==
  ASSUME Wg
  PROVE  UNCHANGED <<settings, keys, caPublic, sandcatEnv, dnsConf, extraHosts>>
BY DEF Wg, WgWork, WgProbe, WgLeave, WgRetry, WgTunnel, WgFirewall, WgDnsmasq,
   WgResolv, WgHosts, WgTouchReady, WgSupervise, DnsmasqCrash, WgProbePasses,
   WgProbesFail, WgTunnelFails, WgResolvFails, WgPolicyRestart, WgFirewallFails, WgCrash

LEMMA AgentWrites ==
  ASSUME Agent
  PROVE  UNCHANGED volumeVars /\ (AgentUp' => AgentUp)
BY DEF Agent, AgentWork, AgentAdoptResolv, AgentInstallCa, AgentCaMissing,
       AgentSourceEnv, AgentExit, AgentUp

LEMMA CaStep ==
  ASSUME CleanupRaces = FALSE, NEW s, Shells = {s}, TypeOK, PlanInv(s), CaInv(s), [Next]_vars
  PROVE  CaInv(s)'
<1>0. StackTypeOK
  BY DEF TypeOK
<1>a. ASSUME UNCHANGED <<proxyHealth, bgPc, caPublic, cli, failed>>, AgentUp' => AgentUp
      PROVE  CaInv(s)'
  BY <1>a DEF CaInv, CaSafe
<1>1. CASE Edit
  BY <1>1, <1>a DEF Edit, EditSettings, AgentUp
<1>2. CASE Proxy
  BY <1>2, ProxyKeepsCa
<1>3. CASE Wg
  BY <1>3, <1>a, WgWrites DEF Wg, NamespaceTornDown, AgentUp
<1>4. CASE Agent
  BY <1>4, <1>a, AgentWrites DEF Agent
<1>5. CASE Down /\ cli[s] = << >>
  BY <1>5 DEF Down, ProxyStop, AgentStop, AgentUp, CaInv
<1>6. CASE UNCHANGED vars
  BY <1>6, <1>a DEF vars, AgentUp
<1>7. CASE GivesUp(s)
  BY <1>7 DEF GivesUp, CaInv, CaSafe
<1>b. ASSUME NEW steps, NEW version, Begins(s, steps, version), Left(steps, ProxyGates)
      PROVE  CaInv(s)'
  BY <1>b DEF Begins, CaInv, CaSafe
<1>8. CASE Begins(s, UpSteps, Absent)
  BY <1>8, <1>b, UpPlanned
<1>9. CASE Begins(s, RestartSteps(AgentUp), settings)
  <2>1. AgentUp \in BOOLEAN
    BY DEF AgentUp
  <2>2. Left(RestartSteps(AgentUp), ProxyGates)
    BY <2>1, RestartPlanned, LeftSets
  <2> QED BY <1>9, <1>b, <2>2
<1>c. ASSUME NEW S, Takes(s, S), S \cap ProxyGates = {},
             UNCHANGED <<proxyHealth, bgPc, caPublic>>
      PROVE  CaInv(s)'
  <2>1. CaSafe \/ Left(cli[s], ProxyGates)
    BY <1>c DEF Takes, CaInv
  <2>2. Head(cli[s]) \notin ProxyGates
    BY <1>c DEF Takes
  <2>3. Left(cli[s], ProxyGates) => Left(cli'[s], ProxyGates)
    BY <1>c, <2>2, TakesOn DEF PlanInv
  <2> QED BY <1>c, <2>1, <2>3 DEF CaInv, CaSafe
<1> USE DEF ProxySteps, ProxyGates, AgentSteps, WgGates, StartWg, RestartWg, StartAgent,
            RestartAgent, RestartProxy, AwaitProxy
<1>10. CASE TakesProxyStart(s)
  <2>1. Left(cli'[s], ProxyGates)
    BY <1>10, TakesOn DEF TakesProxyStart, Takes, PlanInv
  <2> QED BY <1>10, <2>1 DEF TakesProxyStart, ProxyStart, CaInv
<1>11. CASE TakesWgStart(s)
  BY <1>11, <1>c DEF TakesWgStart
<1>12. CASE TakesAgentStart(s)
  BY <1>12, <1>c DEF TakesAgentStart
<1>13. CASE TakesNothing(s)
  BY <1>13, <1>c DEF TakesNothing
<1>14. CASE TakesWgGate(s)
  BY <1>14, <1>c DEF TakesWgGate
<1>15. CASE TakesProxyGate(s)
  BY <1>15 DEF TakesProxyGate, CaInv, CaSafe
<1> QED
  BY <1>1, <1>2, <1>3, <1>4, <1>5, <1>6, <1>7, <1>8, <1>9, <1>10, <1>11, <1>12, <1>13,
     <1>14, <1>15, <1>0, OneShellMoves DEF Moves

(* "The CA cert is guaranteed to exist" (app-init.sh), whatever faults, if *)
(* the clean-up of each start of the proxy is over before its first probe. *)
THEOREM CertificateThere ==
  ASSUME NEW s, Shells = {s}, CleanupRaces = FALSE
  PROVE  SafetySpec => []CaGuaranteed
<1>1. Init => CaInv(s)
  BY DEF Init, ProxyInit, AgentInit, CaInv, AgentUp
<1>2. TypeOK /\ PlanInv(s) /\ CaInv(s) /\ [Next]_vars => CaInv(s)'
  BY CaStep
<1>3. CaInv(s) => CaGuaranteed
  <2> SUFFICES ASSUME CaInv(s), Settled, agentPc = "ca" PROVE caPublic
    BY DEF CaGuaranteed
  <2>1. cli[s] = << >> /\ failed = {}
    BY DEF Settled, Idle
  <2>2. ~Left(cli[s], ProxyGates)
    BY <2>1, NothingLeft
  <2> QED BY <2>1, <2>2 DEF CaInv, CaSafe, AgentUp
<1> QED BY <1>1, <1>2, <1>3, TypeCorrect, PlanInvariant, PTL DEF SafetySpec

(***************************************************************************)
(* The versions load() has read                                            *)
(***************************************************************************)

(* What load() has read is never older than the promise; and once the      *)
(* proxy has been restarted for a command, not older than what the command *)
(* asked for.                                                              *)
VersionInv(s) ==
  /\ promised <= settings /\ asked[s] <= settings /\ addonVersion <= settings
  /\ addonVersion = Absent <=> proxyPc \in {"down", "boot"}
  /\ proxyPc = "down" => proxyHealth = "none"
  /\ addonVersion = Absent \/ addonVersion >= promised
  /\ asked[s] # Absent /\ ~Left(cli[s], {RestartProxy}) =>
       addonVersion = Absent \/ addonVersion >= asked[s]

(* A completed step that is not the last of a restart changes no promise.  *)
LEMMA NotLast ==
  ASSUME NEW s, NEW S, Takes(s, S), PlanInv(s), RestartWg \notin S, RestartAgent \notin S
  PROVE  asked'[s] = asked[s] /\ failed' = failed /\ promised' = promised
<1>1. SUFFICES ASSUME cli'[s] = << >>, asked[s] # Absent PROVE FALSE
  BY DEF Takes
<1>2. Left(cli[s], {RestartWg}) \/ Left(cli[s], {RestartAgent})
  BY <1>1, LeftSets DEF PlanInv
<1>3. ~Left(cli'[s], {RestartWg}) /\ ~Left(cli'[s], {RestartAgent})
  BY <1>1, NothingLeft
<1>4. Head(cli[s]) \in S
  BY DEF Takes
<1> QED BY <1>2, <1>3, <1>4, TakesOn DEF PlanInv

(* The last step of a restart follows all its steps about the proxy.       *)
LEMMA LastIsLate ==
  ASSUME NEW s, NEW S, Takes(s, S), PlanInv(s), cli'[s] = << >>
  PROVE  ~Left(cli[s], {RestartProxy, AwaitProxy}) /\ ~Left(cli[s], {RestartProxy})
<1>1. ~Left(cli'[s], {RestartWg})
  BY NothingLeft
<1>2. ~Left(cli[s], {RestartProxy, AwaitProxy})
  BY <1>1, TakesOn DEF PlanInv
<1> QED BY <1>2, LeftSets

LEMMA TypeFacts ==
  ASSUME TypeOK, NEW s \in Shells
  PROVE  /\ settings \in Int /\ promised \in Int /\ asked[s] \in Int /\ addonVersion \in Int
         /\ sandcatEnv \in Int /\ upstream \in Int /\ agentEnv \in Int /\ dnsConf \in Int
         /\ settings >= 0 /\ promised >= 0 /\ Absent = -1
         /\ asked[s] >= -1 /\ addonVersion >= -1 /\ sandcatEnv >= -1
BY VersionAssumption
   DEF TypeOK, StackTypeOK, VolumesTypeOK, ProxyTypeOK, WgTypeOK, AgentTypeOK, FileVersion,
       Version, Absent

LEMMA ProxyKeepsVersion ==
  ASSUME NEW s, Shells = {s}, TypeOK, VersionInv(s), Proxy
  PROVE  VersionInv(s)'
<1>0. /\ UNCHANGED <<cli, asked, promised>> /\ ProxyStep
      /\ settings \in Int /\ promised \in Int /\ asked[s] \in Int /\ addonVersion \in Int
      /\ settings # Absent
  BY TypeFacts DEF Proxy
<1>1. SUFFICES /\ settings' = settings
               /\ addonVersion' \in {addonVersion, settings, Absent}
               /\ addonVersion' = Absent <=> proxyPc' \in {"down", "boot"}
               /\ proxyPc' = "down" => proxyHealth' = "none"
  <2>0. /\ cli'[s] = cli[s] /\ asked'[s] = asked[s] /\ promised' = promised
        /\ settings' = settings
    BY <1>0, <1>1
  <2>1. /\ promised <= settings /\ asked[s] <= settings /\ addonVersion <= settings
        /\ addonVersion = Absent \/ addonVersion >= promised
        /\ asked[s] # Absent /\ ~Left(cli[s], {RestartProxy}) =>
             addonVersion = Absent \/ addonVersion >= asked[s]
    BY DEF VersionInv
  <2>2. CASE addonVersion' = addonVersion
    BY <1>1, <2>0, <2>1, <2>2 DEF VersionInv
  <2>3. CASE addonVersion' = settings
    BY <1>0, <1>1, <2>0, <2>1, <2>3 DEF VersionInv
  <2>4. CASE addonVersion' = Absent
    <3>1. Absent <= settings
      BY TypeFacts
    <3> QED BY <1>1, <2>0, <2>1, <2>4, <3>1 DEF VersionInv
  <2> QED BY <1>1, <2>2, <2>3, <2>4
<1>2. /\ addonVersion = Absent <=> proxyPc \in {"down", "boot"}
      /\ proxyPc = "down" => proxyHealth = "none"
  BY DEF VersionInv
<1>3. CASE BgClean \/ BgPublishCa \/ GenerateKeys
  BY <1>2, <1>3 DEF BgClean, BgPublishCa, GenerateKeys
<1>4. CASE AddonRead
  BY <1>0, <1>2, <1>4 DEF AddonRead
<1>5. CASE WritePlaceholdersEnv \/ WriteDnsConf \/ WriteExtraHosts
  BY <1>2, <1>5 DEF WritePlaceholdersEnv, WriteDnsConf, WriteExtraHosts
<1>6. CASE AddonLoadFails \/ ProxyCrash
  BY <1>6 DEF AddonLoadFails, ProxyCrash, ProxyStop
<1>7. CASE ProxyProbePasses \/ ProxyProbesFail
  BY <1>2, <1>7 DEF ProxyProbePasses, ProxyProbesFail, ProxyUp
<1> QED BY <1>0, <1>3, <1>4, <1>5, <1>6, <1>7 DEF ProxyStep, ProxyWork

LEMMA VersionStep ==
  ASSUME NEW s, Shells = {s}, TypeOK, PlanInv(s), VersionInv(s), [Next]_vars
  PROVE  VersionInv(s)'
<1>0. StackTypeOK
  BY DEF TypeOK
<1>n. /\ settings \in Int /\ promised \in Int /\ asked[s] \in Int /\ addonVersion \in Int
      /\ settings >= 0
  BY TypeFacts
<1>a. ASSUME UNCHANGED <<settings, addonVersion, proxyPc, proxyHealth, cli, asked, promised>>
      PROVE  VersionInv(s)'
  BY <1>a DEF VersionInv
<1>1. CASE Edit
  <2>1. /\ settings' = settings + 1 \/ settings' = settings
        /\ UNCHANGED <<addonVersion, proxyPc, proxyHealth, cli, asked, promised>>
    BY <1>1 DEF Edit, EditSettings
  <2> QED BY <1>n, <2>1 DEF VersionInv
<1>2. CASE Proxy
  BY <1>2, ProxyKeepsVersion
<1>3. CASE Wg
  BY <1>3, <1>a, WgWrites DEF Wg
<1>4. CASE Agent
  BY <1>4, <1>a, AgentWrites DEF Agent
<1>5. CASE Down
  <2>1. /\ UNCHANGED <<settings, cli, asked, promised>>
        /\ proxyPc' = "down" /\ addonVersion' = Absent /\ proxyHealth' = "none"
        /\ Absent <= settings
    BY <1>5, TypeFacts DEF Down, ProxyStop
  <2> QED BY <2>1 DEF VersionInv
<1>6. CASE UNCHANGED vars
  BY <1>6, <1>a DEF vars
<1>7. CASE GivesUp(s)
  <2>1. /\ UNCHANGED <<settings, addonVersion, proxyPc, proxyHealth, promised>>
        /\ asked'[s] = Absent /\ Absent <= settings
    BY <1>7, <1>n DEF GivesUp, Absent
  <2> QED BY <2>1 DEF VersionInv
<1>8. CASE Begins(s, UpSteps, Absent)
  <2>1. /\ UNCHANGED <<settings, addonVersion, proxyPc, proxyHealth, promised>>
        /\ asked'[s] = Absent /\ Absent <= settings
    BY <1>8, <1>n DEF Begins, Absent
  <2> QED BY <2>1 DEF VersionInv
<1>9. CASE Begins(s, RestartSteps(AgentUp), settings)
  <2>1. AgentUp \in BOOLEAN
    BY DEF AgentUp
  <2>2. /\ UNCHANGED <<settings, addonVersion, proxyPc, proxyHealth, promised>>
        /\ asked'[s] = settings /\ cli'[s] = RestartSteps(AgentUp)
    BY <1>9 DEF Begins
  <2>3. Left(cli'[s], {RestartProxy})
    BY <2>1, <2>2, RestartPlanned
  <2> QED BY <1>n, <2>2, <2>3 DEF VersionInv
<1>b. ASSUME NEW S, Takes(s, S), Head(cli[s]) # RestartProxy,
             UNCHANGED <<settings, addonVersion, proxyPc, proxyHealth>>
      PROVE  VersionInv(s)'
  <2>1. Left(cli[s], {RestartProxy}) <=> Left(cli'[s], {RestartProxy})
    BY <1>b, TakesOn DEF PlanInv
  <2>2. CASE cli'[s] = << >> /\ asked[s] # Absent
    <3>0. Absent <= settings
      BY TypeFacts
    <3>1. /\ asked'[s] = Absent /\ Absent <= settings
          /\ promised' = IF asked[s] > promised THEN asked[s] ELSE promised
      <4>1. Takes(s, S)
        BY <1>b
      <4> QED BY <2>2, <3>0, <4>1 DEF Takes
    <3>2. addonVersion = Absent \/ addonVersion >= asked[s]
      BY <1>b, <2>2, LastIsLate DEF VersionInv
    <3> QED BY <1>b, <1>n, <3>1, <3>2 DEF VersionInv
  <2>3. CASE ~(cli'[s] = << >> /\ asked[s] # Absent)
    BY <1>b, <2>1, <2>3 DEF Takes, VersionInv
  <2> QED BY <2>2, <2>3
<1> USE DEF ProxySteps, ProxyGates, AgentSteps, WgGates, StartWg, RestartWg, StartAgent,
            RestartAgent, RestartProxy, AwaitProxy
<1>10. CASE TakesProxyStart(s)
  <2>1. asked'[s] = asked[s] /\ promised' = promised
    <3>1. Takes(s, ProxySteps) /\ RestartWg \notin ProxySteps /\ RestartAgent \notin ProxySteps
      BY <1>10 DEF TakesProxyStart
    <3> QED BY <3>1, NotLast
  <2>2. addonVersion' = Absent /\ proxyPc' = "boot" /\ settings' = settings
    BY <1>10 DEF TakesProxyStart, ProxyStart
  <2>3. Absent <= settings
    BY <1>n DEF Absent
  <2> QED BY <2>1, <2>2, <2>3 DEF VersionInv
<1>11. CASE TakesWgStart(s)
  BY <1>11, <1>b DEF TakesWgStart, Takes
<1>12. CASE TakesAgentStart(s)
  BY <1>12, <1>b DEF TakesAgentStart, Takes
<1>13. CASE TakesNothing(s)
  BY <1>13, <1>b DEF TakesNothing, Takes
<1>14. CASE TakesWgGate(s)
  BY <1>14, <1>b DEF TakesWgGate, Takes
<1>15. CASE TakesProxyGate(s)
  BY <1>15, <1>b DEF TakesProxyGate, Takes
<1> QED
  BY <1>1, <1>2, <1>3, <1>4, <1>5, <1>6, <1>7, <1>8, <1>9, <1>10, <1>11, <1>12, <1>13,
     <1>14, <1>15, <1>0, OneShellMoves DEF Moves

LEMMA VersionInvariant ==
  ASSUME NEW s, Shells = {s}
  PROVE  SafetySpec => []VersionInv(s)
<1>1. Init => VersionInv(s)
  <2> SUFFICES ASSUME Init PROVE VersionInv(s)
    OBVIOUS
  <2>1. /\ settings = 0 /\ promised = 0 /\ asked[s] = Absent /\ addonVersion = Absent
        /\ proxyPc = "down" /\ proxyHealth = "none" /\ Absent = -1
    BY DEF Init, VolumesInit, ProxyInit, Absent
  <2> QED BY <2>1 DEF VersionInv
<1>2. TypeOK /\ PlanInv(s) /\ VersionInv(s) /\ [Next]_vars => VersionInv(s)'
  BY VersionStep
<1> QED BY <1>1, <1>2, TypeCorrect, PlanInvariant, PTL DEF SafetySpec

(***************************************************************************)
(* The environment of the agent                                            *)
(***************************************************************************)

(* sandcat.env is what load() has read as soon as load() has written it,   *)
(* and before that no newer; so the wait for a healthy proxy, which the    *)
(* agent's start is behind, sees what the restart asked for in the file.   *)
EnvInv(s) ==
  /\ sandcatEnv <= settings
  /\ addonVersion # Absent => sandcatEnv <= addonVersion
  /\ proxyPc \in {"dns", "hosts", "serving"} => sandcatEnv = addonVersion
  /\ asked[s] # Absent /\ ~Left(cli[s], {RestartProxy, AwaitProxy}) => sandcatEnv >= asked[s]
  /\ promised > 0 => sandcatEnv >= promised
  /\ cli[s] # << >> => sandcatEnv # Absent \/ Left(cli[s], ProxyGates)
  /\ AgentUp => sandcatEnv # Absent
  /\ agentPc = "running" => agentEnv >= promised

(* A healthy proxy is through load().                                      *)
LEMMA HealthyThrough ==
  ASSUME NEW s, LoadedInv, VersionInv(s), proxyHealth = "healthy"
  PROVE  /\ proxyPc \in {"hosts", "serving"} /\ bgPc # "clean"
         /\ dnsConf # Absent /\ addonVersion # Absent
BY DEF LoadedInv, HealthyMeansLoaded, VersionInv, ProxyUp

LEMMA ProxyKeepsEnv ==
  ASSUME NoLayers = {}, NEW s, Shells = {s}, TypeOK, VersionInv(s), EnvInv(s), Proxy
  PROVE  EnvInv(s)'
<1>0. /\ UNCHANGED <<cli, asked, promised, agentPc, agentEnv>> /\ ProxyStep
      /\ cli'[s] = cli[s] /\ asked'[s] = asked[s] /\ (AgentUp' <=> AgentUp)
  BY DEF Proxy, AgentUp
<1>n. /\ settings \in Int /\ promised \in Int /\ asked[s] \in Int /\ addonVersion \in Int
      /\ sandcatEnv \in Int /\ promised >= 0 /\ sandcatEnv >= -1 /\ Absent = -1
  BY TypeFacts
<1>a. ASSUME UNCHANGED <<settings, sandcatEnv>>,
             addonVersion' # Absent => sandcatEnv <= addonVersion',
             proxyPc' \in {"dns", "hosts", "serving"} => sandcatEnv = addonVersion'
      PROVE  EnvInv(s)'
  BY <1>0, <1>a DEF EnvInv
<1>3. CASE BgClean \/ BgPublishCa \/ GenerateKeys \/ ProxyProbePasses \/ ProxyProbesFail
  <2>1. UNCHANGED <<settings, sandcatEnv, proxyPc, addonVersion>>
    BY <1>3 DEF BgClean, BgPublishCa, GenerateKeys, ProxyProbePasses, ProxyProbesFail
  <2> QED BY <1>a, <2>1 DEF EnvInv
<1>4. CASE AddonRead
  BY <1>a, <1>4 DEF AddonRead, EnvInv
<1>5. CASE WriteDnsConf \/ WriteExtraHosts
  <2>1. /\ UNCHANGED <<settings, sandcatEnv, addonVersion>>
        /\ proxyPc \in {"dns", "hosts"}
    BY <1>5 DEF WriteDnsConf, WriteExtraHosts
  <2> QED BY <1>a, <2>1 DEF EnvInv
<1>6. CASE AddonLoadFails \/ ProxyCrash
  BY <1>a, <1>6 DEF AddonLoadFails, ProxyCrash, ProxyStop
<1>7. CASE WritePlaceholdersEnv
  <2>1. /\ proxyPc = "env" /\ sandcatEnv' = addonVersion
        /\ UNCHANGED <<settings, addonVersion>>
    BY <1>7 DEF WritePlaceholdersEnv
  <2>2. /\ addonVersion # Absent /\ addonVersion <= settings /\ addonVersion >= promised
        /\ asked[s] # Absent /\ ~Left(cli[s], {RestartProxy}) => addonVersion >= asked[s]
    BY <2>1 DEF VersionInv
  <2>3. Left(cli[s], {RestartProxy}) => Left(cli[s], {RestartProxy, AwaitProxy})
    BY LeftSets
  <2> QED BY <1>0, <1>n, <2>1, <2>2, <2>3 DEF EnvInv
<1> QED BY <1>0, <1>3, <1>4, <1>5, <1>6, <1>7 DEF ProxyStep, ProxyWork

LEMMA EnvStep ==
  ASSUME NoLayers = {}, NEW s, Shells = {s}, TypeOK, LoadedInv, PlanInv(s), VersionInv(s),
         EnvInv(s), [Next]_vars
  PROVE  EnvInv(s)'
<1>0. StackTypeOK
  BY DEF TypeOK
<1>n. /\ settings \in Int /\ promised \in Int /\ asked[s] \in Int /\ addonVersion \in Int
      /\ sandcatEnv \in Int /\ agentEnv \in Int /\ promised >= 0 /\ sandcatEnv >= -1
      /\ asked[s] >= -1 /\ Absent = -1
  BY TypeFacts
<1>1. CASE Edit
  <2>1. /\ settings' >= settings /\ settings' \in Int
        /\ UNCHANGED <<sandcatEnv, addonVersion, proxyPc, cli, asked, promised, agentPc, agentEnv>>
    BY <1>1, <1>n DEF Edit, EditSettings
  <2> QED BY <1>n, <2>1 DEF EnvInv, AgentUp
<1>2. CASE Proxy
  BY <1>2, ProxyKeepsEnv
<1>3. CASE Wg
  <2>1. /\ UNCHANGED <<settings, sandcatEnv, addonVersion, proxyPc, cli, asked, promised>>
        /\ UNCHANGED <<agentPc, agentEnv>>
    BY <1>3, WgWrites DEF Wg, NamespaceTornDown
  <2> QED BY <2>1 DEF EnvInv, AgentUp
<1>4. CASE Agent
  <2>1. /\ UNCHANGED <<settings, sandcatEnv, addonVersion, proxyPc, cli, asked, promised>>
        /\ AgentUp' => AgentUp
    BY <1>4, AgentWrites DEF Agent
  <2>2. agentPc' = "running" => agentEnv' = sandcatEnv \/ UNCHANGED <<agentPc, agentEnv>>
    BY <1>4 DEF Agent, AgentWork, AgentAdoptResolv, AgentInstallCa, AgentCaMissing,
       AgentSourceEnv, AgentExit, AgentStop
  <2>3. AgentUp => sandcatEnv >= promised
    BY <1>n DEF EnvInv
  <2>4. agentPc' = "running" => AgentUp'
    BY DEF AgentUp
  <2> QED BY <2>1, <2>2, <2>3, <2>4 DEF EnvInv
<1>5. CASE Down
  <2>1. /\ UNCHANGED <<settings, sandcatEnv, cli, asked, promised>>
        /\ proxyPc' = "down" /\ addonVersion' = Absent /\ agentPc' = "down"
    BY <1>5 DEF Down, ProxyStop, AgentStop
  <2> QED BY <2>1 DEF EnvInv, AgentUp
<1>6. CASE UNCHANGED vars
  BY <1>6 DEF vars, EnvInv, AgentUp
<1>a. ASSUME UNCHANGED <<containerVars, promised>>, asked'[s] = Absent,
             cli'[s] # << >> => Left(cli'[s], ProxyGates)
      PROVE  EnvInv(s)'
  BY <1>a DEF EnvInv, AgentUp
<1>7. CASE GivesUp(s)
  BY <1>7, <1>a DEF GivesUp
<1>8. CASE Begins(s, UpSteps, Absent)
  BY <1>8, <1>a, UpPlanned DEF Begins
<1>9. CASE Begins(s, RestartSteps(AgentUp), settings)
  <2>1. AgentUp \in BOOLEAN
    BY DEF AgentUp
  <2>2. UNCHANGED <<containerVars, promised>> /\ cli'[s] = RestartSteps(AgentUp)
    BY <1>9 DEF Begins
  <2>3. Left(cli'[s], {RestartProxy, AwaitProxy}) /\ Left(cli'[s], ProxyGates)
    BY <2>1, <2>2, RestartPlanned, LeftSets
  <2> QED BY <2>2, <2>3 DEF EnvInv, AgentUp
(* The last step of a restart: the agent is started anew, or there is none. *)
<1>b. ASSUME NEW S, Takes(s, S), cli'[s] = << >>, asked[s] # Absent,
             agentPc' = "running" => agentPc = "running" /\ Head(cli[s]) # RestartAgent
      PROVE  agentPc' # "running"
  <2>1. ~Left(cli'[s], {RestartAgent})
    BY <1>b, NothingLeft
  <2>2. agentPc = "down" \/ Head(cli[s]) = RestartAgent
    BY <1>b, <2>1, TakesOn DEF PlanInv
  <2> QED BY <1>b, <2>2
<1>c. ASSUME NEW S, Takes(s, S),
             UNCHANGED <<settings, sandcatEnv>>,
             \/ addonVersion' = addonVersion /\ proxyPc' = proxyPc
             \/ addonVersion' = Absent /\ proxyPc' = "boot",
             AgentUp' => sandcatEnv # Absent,
             agentPc' = "running" =>
               agentPc = "running" /\ agentEnv' = agentEnv /\ Head(cli[s]) # RestartAgent,
             asked[s] # Absent /\ ~Left(cli'[s], {RestartProxy, AwaitProxy}) =>
               sandcatEnv >= asked[s],
             cli'[s] # << >> => sandcatEnv # Absent \/ Left(cli'[s], ProxyGates)
      PROVE  EnvInv(s)'
  <2>1. /\ sandcatEnv' <= settings'
        /\ addonVersion' # Absent => sandcatEnv' <= addonVersion'
        /\ proxyPc' \in {"dns", "hosts", "serving"} => sandcatEnv' = addonVersion'
    BY <1>c DEF EnvInv
  <2>2. CASE cli'[s] = << >> /\ asked[s] # Absent
    <3>1. /\ asked'[s] = Absent
          /\ promised' = IF asked[s] > promised THEN asked[s] ELSE promised
      <4>1. Takes(s, S)
        BY <1>c
      <4> QED BY <2>2, <4>1 DEF Takes
    <3>2. ~Left(cli'[s], {RestartProxy, AwaitProxy})
      BY <2>2, NothingLeft
    <3>3. sandcatEnv >= asked[s]
      BY <1>c, <2>2, <3>2
    <3>4. promised' > 0 => sandcatEnv >= promised'
      BY <1>n, <3>1, <3>3 DEF EnvInv
    <3>5. agentPc' # "running"
      BY <1>b, <1>c, <2>2
    <3> QED BY <1>c, <2>1, <2>2, <3>1, <3>4, <3>5 DEF EnvInv
  <2>3. CASE ~(cli'[s] = << >> /\ asked[s] # Absent)
    <3>1. asked'[s] = asked[s] /\ promised' = promised
      <4>1. Takes(s, S)
        BY <1>c
      <4> QED BY <2>3, <4>1 DEF Takes
    <3> QED BY <1>c, <2>1, <3>1 DEF EnvInv
  <2> QED BY <2>2, <2>3
<1> USE DEF ProxySteps, ProxyGates, AgentSteps, WgGates, StartWg, RestartWg, StartAgent,
            RestartAgent, RestartProxy, AwaitProxy
<1>d. ASSUME NEW S, Takes(s, S), Head(cli[s]) \notin ProxyGates, Head(cli[s]) # RestartProxy
      PROVE  /\ asked[s] # Absent /\ ~Left(cli'[s], {RestartProxy, AwaitProxy}) =>
                  sandcatEnv >= asked[s]
             /\ sandcatEnv # Absent \/ Left(cli'[s], ProxyGates)
  <2>1. /\ Planned(cli[s]) /\ cli[s] # << >>
        /\ Head(cli[s]) \notin {RestartProxy, AwaitProxy}
    BY <1>d DEF PlanInv, Takes
  <2>2. /\ Left(cli[s], {RestartProxy, AwaitProxy}) <=> Left(cli'[s], {RestartProxy, AwaitProxy})
        /\ Left(cli[s], ProxyGates) <=> Left(cli'[s], ProxyGates)
    BY <1>d, <2>1, TakesOn
  <2> QED BY <2>1, <2>2 DEF EnvInv
<1>10. CASE TakesProxyStart(s)
  <2>1. /\ Takes(s, ProxySteps) /\ Planned(cli[s]) /\ Head(cli[s]) \in ProxySteps
        /\ UNCHANGED <<volumeVars, wgVars, agentVars>>
        /\ addonVersion' = Absent /\ proxyPc' = "boot"
    BY <1>10 DEF TakesProxyStart, Takes, ProxyStart, PlanInv
  <2>2. Left(cli'[s], ProxyGates)
    BY <2>1, TakesOn
  <2>3. Head(cli[s]) = RestartProxy => Left(cli'[s], {RestartProxy, AwaitProxy})
    BY <2>1, TakesOn, LeftSets
  <2>4. asked[s] # Absent /\ ~Left(cli'[s], {RestartProxy, AwaitProxy}) => sandcatEnv >= asked[s]
    <3>1. Head(cli[s]) \notin ProxyGates
      BY <2>1
    <3> QED BY <1>d, <2>1, <2>3, <3>1
  <2>5. /\ AgentUp' => sandcatEnv # Absent
        /\ agentPc' = "running" =>
             agentPc = "running" /\ agentEnv' = agentEnv /\ Head(cli[s]) # RestartAgent
    BY <2>1 DEF EnvInv, AgentUp
  <2>6. UNCHANGED <<settings, sandcatEnv>>
    BY <2>1
  <2> QED BY <1>c, <2>1, <2>2, <2>4, <2>5, <2>6
<1>e. ASSUME NEW S, Takes(s, S), Head(cli[s]) \notin ProxyGates, Head(cli[s]) # RestartProxy,
             UNCHANGED <<settings, sandcatEnv, addonVersion, proxyPc, agentPc, agentEnv>>,
             Head(cli[s]) # RestartAgent
      PROVE  EnvInv(s)'
  <2>1. AgentUp' => sandcatEnv # Absent
    BY <1>e DEF EnvInv, AgentUp
  <2>2. /\ Takes(s, S)
        /\ UNCHANGED <<settings, sandcatEnv>>
        /\ addonVersion' = addonVersion /\ proxyPc' = proxyPc
        /\ agentPc' = "running" =>
             agentPc = "running" /\ agentEnv' = agentEnv /\ Head(cli[s]) # RestartAgent
    BY <1>e
  <2>3. /\ asked[s] # Absent /\ ~Left(cli'[s], {RestartProxy, AwaitProxy}) =>
             sandcatEnv >= asked[s]
        /\ sandcatEnv # Absent \/ Left(cli'[s], ProxyGates)
    BY <1>d, <1>e
  <2> QED BY <1>c, <2>1, <2>2, <2>3
<1>11. CASE TakesWgStart(s)
  <2>1. /\ Takes(s, {StartWg, RestartWg}) /\ Head(cli[s]) \in {StartWg, RestartWg}
        /\ UNCHANGED <<settings, sandcatEnv, addonVersion, proxyPc, agentPc, agentEnv>>
    BY <1>11 DEF TakesWgStart, Takes, NamespaceTornDown
  <2> QED BY <1>e, <2>1
<1>12. CASE TakesAgentStart(s)
  <2>1. /\ Takes(s, AgentSteps) /\ Head(cli[s]) \in AgentSteps /\ Planned(cli[s])
        /\ UNCHANGED <<settings, sandcatEnv, addonVersion, proxyPc>> /\ agentPc' = "resolv"
    BY <1>12 DEF TakesAgentStart, Takes, AgentStart, PlanInv
  <2>2. cli'[s] = << >>
    BY <2>1, TakesOn
  <2>3. ~Left(cli'[s], ProxyGates)
    BY <2>2, NothingLeft
  <2>4. Head(cli[s]) \notin ProxyGates /\ Head(cli[s]) # RestartProxy
    BY <2>1
  <2>5. /\ sandcatEnv # Absent
        /\ asked[s] # Absent /\ ~Left(cli'[s], {RestartProxy, AwaitProxy}) => sandcatEnv >= asked[s]
    BY <1>d, <2>1, <2>3, <2>4
  <2>6. /\ Takes(s, AgentSteps)
        /\ UNCHANGED <<settings, sandcatEnv>>
        /\ addonVersion' = addonVersion /\ proxyPc' = proxyPc
        /\ AgentUp' => sandcatEnv # Absent
        /\ agentPc' = "running" =>
             agentPc = "running" /\ agentEnv' = agentEnv /\ Head(cli[s]) # RestartAgent
    <3>1. agentPc' # "running"
      BY <2>1
    <3> QED BY <2>1, <2>5, <3>1
  <2> QED BY <1>c, <2>2, <2>5, <2>6
<1>13. CASE TakesNothing(s)
  <2> DEFINE S == {<<"start", "mitmproxy">>, StartWg, StartAgent}
  <2>1. /\ Takes(s, S) /\ Head(cli[s]) \in S
        /\ UNCHANGED <<settings, sandcatEnv, addonVersion, proxyPc, agentPc, agentEnv>>
    BY <1>13 DEF TakesNothing, Takes
  <2> QED BY <1>e, <2>1
<1>14. CASE TakesWgGate(s)
  <2>1. /\ Takes(s, WgGates) /\ Head(cli[s]) \in WgGates
        /\ UNCHANGED <<settings, sandcatEnv, addonVersion, proxyPc, agentPc, agentEnv>>
    BY <1>14 DEF TakesWgGate, Takes
  <2> QED BY <1>e, <2>1
<1>15. CASE TakesProxyGate(s)
  <2>1. /\ Takes(s, ProxyGates) /\ Head(cli[s]) \in ProxyGates /\ Planned(cli[s])
        /\ proxyHealth = "healthy"
        /\ UNCHANGED <<settings, sandcatEnv, addonVersion, proxyPc, agentPc, agentEnv>>
    BY <1>15 DEF TakesProxyGate, Takes, PlanInv
  <2>2. sandcatEnv = addonVersion /\ addonVersion # Absent
    BY <2>1, HealthyThrough DEF EnvInv
  <2>3. asked[s] # Absent /\ ~Left(cli'[s], {RestartProxy, AwaitProxy}) => sandcatEnv >= asked[s]
    <3>1. Head(cli[s]) # RestartProxy
      BY <2>1
    <3>2. Left(cli[s], {RestartProxy}) => Left(cli'[s], {RestartProxy, AwaitProxy})
      BY <2>1, <3>1, TakesOn, LeftSets
    <3> QED BY <2>2, <3>2 DEF VersionInv
  <2>4. /\ AgentUp' => sandcatEnv # Absent
        /\ Head(cli[s]) # RestartAgent
    BY <2>1, <2>2
  <2>5. /\ Takes(s, ProxyGates)
        /\ UNCHANGED <<settings, sandcatEnv>>
        /\ addonVersion' = addonVersion /\ proxyPc' = proxyPc
        /\ agentPc' = "running" =>
             agentPc = "running" /\ agentEnv' = agentEnv /\ Head(cli[s]) # RestartAgent
    BY <2>1, <2>4
  <2> QED BY <1>c, <2>2, <2>3, <2>4, <2>5
<1> QED
  BY <1>1, <1>2, <1>3, <1>4, <1>5, <1>6, <1>7, <1>8, <1>9, <1>10, <1>11, <1>12, <1>13,
     <1>14, <1>15, <1>0, OneShellMoves DEF Moves

(* "New settings are now active", for the agent: with commands given one   *)
(* after the other, its environment is that of the promised version,       *)
(* whatever is killed, unwritable or unreadable on the way.                *)
THEOREM EnvironmentPromised ==
  ASSUME NEW s, Shells = {s}, CleanupRaces = FALSE
  PROVE  SafetySpec => []PromisedEnv
<1>1. CASE NoLayers = {}
  <2>1. Init => EnvInv(s)
    <3> SUFFICES ASSUME Init PROVE EnvInv(s)
      OBVIOUS
    <3>1. /\ settings = 0 /\ promised = 0 /\ asked[s] = Absent /\ addonVersion = Absent
          /\ sandcatEnv = Absent /\ cli[s] = << >> /\ proxyPc = "down" /\ agentPc = "down"
          /\ Absent = -1
      BY DEF Init, VolumesInit, ProxyInit, AgentInit, Absent
    <3> QED BY <3>1 DEF EnvInv, AgentUp
  <2>2. /\ TypeOK /\ LoadedInv /\ PlanInv(s) /\ VersionInv(s) /\ EnvInv(s) /\ [Next]_vars
        => EnvInv(s)'
    BY <1>1, EnvStep
  <2>3. EnvInv(s) => PromisedEnv
    BY DEF EnvInv, PromisedEnv
  <2> QED
    BY <2>1, <2>2, <2>3, TypeCorrect, LoadedInvariant, PlanInvariant, VersionInvariant, PTL
       DEF SafetySpec
<1>2. CASE NoLayers # {}
  <2>1. PromisedEnv
    BY <1>2 DEF PromisedEnv
  <2> QED BY <2>1, PTL
<1> QED BY <1>1, <1>2

(***************************************************************************)
(* The forwarder of wg-client                                              *)
(***************************************************************************)

(* wg-client has configured dnsmasq.                                       *)
Past == wgPc \in {"resolv", "hosts", "touch", "supervise"}

(* The running proxy has written dns.conf, and nothing will remove it.     *)
Loaded == proxyPc \in {"hosts", "serving"} /\ bgPc # "clean" /\ dnsConf # Absent

(* While no command has failed, a wg-client exists only beside a loaded    *)
(* proxy, and what it has configured is not older than the promise: the    *)
(* waits for the proxy come before every step that starts wg-client, also  *)
(* before the restarts Docker's policy gives it.                           *)
DnsInv(s) ==
  /\ dnsmasqUp \/ wgHealth = "healthy" => Past
  /\ asked[s] = Absent /\ failed = {} /\ wgPc # "down" =>
       Loaded /\ (Past => upstream >= promised)
  /\ asked[s] = Absent /\ failed = {} /\ cli[s] # << >> =>
       Loaded \/ Left(cli[s], ProxyGates)
  /\ asked[s] # Absent /\ ~Left(cli[s], {RestartProxy, AwaitProxy}) => Loaded
  /\ asked[s] # Absent /\ ~Left(cli[s], {RestartWg}) /\ Past =>
       upstream >= asked[s] /\ upstream >= promised

(* Once the restart of wg-client is over, so are the steps for the proxy.  *)
LEMMA ProxyBeforeWg ==
  ASSUME NEW s, PlanInv(s), Left(cli[s], {RestartProxy, AwaitProxy})
  PROVE  Left(cli[s], {RestartWg})
<1>1. PICK i \in 1..Len(cli[s]) : cli[s][i] \in {RestartProxy, AwaitProxy}
  BY DEF Left
<1>2. After(cli[s], i, {RestartWg})
  BY <1>1 DEF PlanInv, Planned, PlannedAt
<1> QED BY <1>2 DEF After, Left

(* A loaded proxy stays loaded until a command restarts it.                *)
LEMMA ProxyKeepsDns ==
  ASSUME CleanupRaces = FALSE, "proxy" \notin Faults, NEW s, LoadedInv, VersionInv(s),
         DnsInv(s), Proxy
  PROVE  DnsInv(s)'
<1>0. UNCHANGED <<wgVars, cli, asked, failed, promised>> /\ ProxyStep
  BY DEF Proxy
<1>1. SUFFICES Loaded => Loaded'
  BY <1>0 DEF DnsInv, Past
<1> USE DEF Loaded
<1>2. CASE BgClean             BY <1>2 DEF BgClean
<1>3. CASE BgPublishCa         BY <1>3 DEF BgPublishCa
<1>4. CASE GenerateKeys        BY <1>4 DEF GenerateKeys
<1>5. CASE AddonRead           BY <1>5 DEF AddonRead
<1>6. CASE WritePlaceholdersEnv BY <1>6 DEF WritePlaceholdersEnv
<1>7. CASE WriteDnsConf        BY <1>7 DEF WriteDnsConf
<1>8. CASE WriteExtraHosts     BY <1>8 DEF WriteExtraHosts
<1>9. CASE AddonLoadFails      BY <1>9 DEF AddonLoadFails
<1>10. CASE ProxyCrash         BY <1>10 DEF ProxyCrash
<1>11. CASE ProxyProbePasses   BY <1>11 DEF ProxyProbePasses
<1>12. CASE ProxyProbesFail    BY <1>12 DEF ProxyProbesFail
<1> QED
  BY <1>0, <1>2, <1>3, <1>4, <1>5, <1>6, <1>7, <1>8, <1>9, <1>10, <1>11, <1>12
     DEF ProxyStep, ProxyWork

(* A step of wg-client: what it newly configures is the dns.conf of the    *)
(* loaded proxy.                                                           *)
LEMMA WgConfigures ==
  ASSUME WgTypeOK, dnsmasqUp \/ wgHealth = "healthy" => Past, Wg
  PROVE  /\ dnsmasqUp' \/ wgHealth' = "healthy" => Past'
         /\ wgPc # "down"
         /\ Past' => (Past /\ upstream' = upstream) \/ upstream' = dnsConf
<1> USE DEF Past, WgTypeOK
<1>1. CASE WgTunnel(ProxyUp)   BY <1>1 DEF WgTunnel
<1>2. CASE WgFirewall          BY <1>2 DEF WgFirewall
<1>3. CASE WgDnsmasq           BY <1>3 DEF WgDnsmasq
<1>4. CASE WgResolv            BY <1>4 DEF WgResolv
<1>5. CASE WgHosts             BY <1>5 DEF WgHosts
<1>6. CASE WgTouchReady        BY <1>6 DEF WgTouchReady
<1>7. CASE WgSupervise         BY <1>7 DEF WgSupervise
<1>8. CASE DnsmasqCrash
  <2>1. /\ dnsmasqUp /\ dnsmasqUp' = FALSE /\ wgPc' = wgPc /\ wgHealth' = wgHealth
        /\ upstream' = upstream
    BY <1>8 DEF DnsmasqCrash
  <2> QED BY <2>1
<1>9. CASE WgProbe             BY <1>9 DEF WgProbe, WgProbePasses, WgProbesFail, WgTest, WgUp
<1>10. CASE WgLeave
  <2>1. /\ dnsmasqUp' = FALSE /\ wgHealth' # "healthy" /\ wgPc' \in {"exited", "tunnel"}
        /\ wgPc # "down"
    BY <1>10 DEF WgLeave, WgRetry, WgTunnelFails, WgResolvFails, WgPolicyRestart,
       WgFirewallFails, WgCrash, WgExit, WgStart, WgUp
  <2> QED BY <2>1
<1> QED
  BY <1>1, <1>2, <1>3, <1>4, <1>5, <1>6, <1>7, <1>8, <1>9, <1>10 DEF Wg, WgWork

(* What a loaded proxy has read is what wg-client may rely on.             *)
LEMMA LoadedVersion ==
  ASSUME NEW s, LoadedInv, VersionInv(s), Loaded
  PROVE  /\ dnsConf = addonVersion /\ addonVersion # Absent /\ addonVersion >= promised
         /\ asked[s] # Absent /\ ~Left(cli[s], {RestartProxy}) => addonVersion >= asked[s]
<1>1. dnsConf = addonVersion /\ addonVersion # Absent
  BY DEF LoadedInv, Loaded, ProxyUp
<1> QED BY <1>1 DEF VersionInv

LEMMA WgKeepsDns ==
  ASSUME NEW s, TypeOK, LoadedInv, PlanInv(s), VersionInv(s), DnsInv(s), Wg
  PROVE  DnsInv(s)'
<1>1. /\ UNCHANGED <<proxyVars, cli, asked, failed, promised>> /\ dnsConf' = dnsConf
      /\ Loaded' = Loaded
  BY WgWrites DEF Wg, Loaded
<1>2. /\ dnsmasqUp' \/ wgHealth' = "healthy" => Past'
      /\ wgPc # "down"
      /\ Past' => (Past /\ upstream' = upstream) \/ upstream' = dnsConf
  BY WgConfigures DEF TypeOK, DnsInv
<1>3. asked[s] = Absent /\ failed = {} => Loaded /\ (Past' => upstream' >= promised)
  <2> SUFFICES ASSUME asked[s] = Absent, failed = {}
               PROVE  Loaded /\ (Past' => upstream' >= promised)
    OBVIOUS
  <2>1. Loaded /\ (Past => upstream >= promised)
    BY <1>2 DEF DnsInv
  <2> QED BY <1>2, <2>1, LoadedVersion
<1>4. asked[s] # Absent /\ ~Left(cli[s], {RestartWg}) /\ Past' =>
        upstream' >= asked[s] /\ upstream' >= promised
  <2> SUFFICES ASSUME asked[s] # Absent, ~Left(cli[s], {RestartWg}), Past'
               PROVE  upstream' >= asked[s] /\ upstream' >= promised
    OBVIOUS
  <2>1. ~Left(cli[s], {RestartProxy, AwaitProxy}) /\ ~Left(cli[s], {RestartProxy})
    BY ProxyBeforeWg, LeftSets
  <2>2. Loaded
    BY <2>1 DEF DnsInv
  <2>3. Past => upstream >= asked[s] /\ upstream >= promised
    BY DEF DnsInv
  <2> QED BY <1>2, <2>1, <2>2, <2>3, LoadedVersion
<1> QED BY <1>1, <1>2, <1>3, <1>4 DEF DnsInv

LEMMA DnsStep ==
  ASSUME CleanupRaces = FALSE, "proxy" \notin Faults, NEW s, Shells = {s}, TypeOK,
         LoadedInv, PlanInv(s), VersionInv(s), DnsInv(s), [Next]_vars
  PROVE  DnsInv(s)'
<1>0. StackTypeOK
  BY DEF TypeOK
<1>n. /\ promised \in Int /\ asked[s] \in Int /\ upstream \in Int
  BY TypeFacts
<1>a. ASSUME UNCHANGED <<wgVars, proxyVars, dnsConf, cli, asked, failed, promised>>
      PROVE  DnsInv(s)'
  BY <1>a DEF DnsInv, Past, Loaded
<1>1. CASE Edit
  BY <1>1, <1>a DEF Edit, EditSettings
<1>2. CASE Proxy
  BY <1>2, ProxyKeepsDns
<1>3. CASE Wg
  BY <1>3, WgKeepsDns
<1>4. CASE Agent
  BY <1>4, <1>a, AgentWrites DEF Agent
<1>5. CASE Down /\ cli[s] = << >>
  <2>1. /\ wgPc' = "down" /\ wgHealth' = "none" /\ dnsmasqUp' = FALSE
        /\ cli'[s] = << >> /\ asked'[s] = asked[s]
    BY <1>5 DEF Down
  <2>2. asked'[s] = Absent
    BY <1>5, <2>1, NothingLeft DEF PlanInv
  <2> QED BY <2>1, <2>2 DEF DnsInv, Past
<1>6. CASE UNCHANGED vars
  BY <1>6, <1>a DEF vars
<1>7. CASE GivesUp(s)
  BY <1>7 DEF GivesUp, DnsInv, Past
<1>8. CASE Begins(s, UpSteps, Absent)
  <2>1. asked[s] = Absent
    BY <1>8, NothingLeft DEF Begins, PlanInv
  <2>2. Left(cli'[s], ProxyGates)
    BY <1>8, UpPlanned DEF Begins
  <2> QED BY <1>8, <2>1, <2>2 DEF Begins, DnsInv, Past, Loaded
<1>9. CASE Begins(s, RestartSteps(AgentUp), settings)
  <2>1. AgentUp \in BOOLEAN /\ settings # Absent
    BY TypeFacts DEF AgentUp, TypeOK, VolumesTypeOK
  <2>2. cli'[s] = RestartSteps(AgentUp) /\ asked'[s] = settings
    BY <1>9 DEF Begins
  <2>3. Left(cli'[s], {RestartProxy, AwaitProxy}) /\ Left(cli'[s], {RestartWg})
    BY <2>1, <2>2, RestartPlanned, LeftSets
  <2> QED BY <1>9, <2>1, <2>2, <2>3 DEF Begins, DnsInv, Past
<1> USE DEF ProxySteps, ProxyGates, AgentSteps, WgGates, StartWg, RestartWg, StartAgent,
            RestartAgent, RestartProxy, AwaitProxy
(* A step that is neither for the proxy nor a restart of wg-client leaves  *)
(* the same steps of these kinds.                                          *)
<1>b. ASSUME NEW S, Takes(s, S), Head(cli[s]) \notin ProxyGates, Head(cli[s]) # RestartProxy
      PROVE  /\ Left(cli[s], {RestartProxy, AwaitProxy}) <=> Left(cli'[s], {RestartProxy, AwaitProxy})
             /\ Left(cli[s], ProxyGates) <=> Left(cli'[s], ProxyGates)
             /\ Head(cli[s]) # RestartWg =>
                  (Left(cli[s], {RestartWg}) <=> Left(cli'[s], {RestartWg}))
             /\ cli[s] # << >>
  <2>1. Planned(cli[s]) /\ cli[s] # << >> /\ Head(cli[s]) \notin {RestartProxy, AwaitProxy}
    BY <1>b DEF PlanInv, Takes
  <2> QED BY <1>b, <2>1, TakesOn
<1>c. ASSUME NEW S, Takes(s, S), RestartWg \notin S, RestartAgent \notin S,
             Head(cli[s]) \notin ProxyGates, Head(cli[s]) # RestartProxy,
             UNCHANGED <<wgVars, proxyVars, dnsConf>>
      PROVE  DnsInv(s)'
  <2>1. asked'[s] = asked[s] /\ failed' = failed /\ promised' = promised
    BY <1>c, NotLast
  <2>2. /\ Left(cli[s], {RestartProxy, AwaitProxy}) <=> Left(cli'[s], {RestartProxy, AwaitProxy})
        /\ Left(cli[s], ProxyGates) <=> Left(cli'[s], ProxyGates)
        /\ Left(cli[s], {RestartWg}) <=> Left(cli'[s], {RestartWg})
        /\ cli[s] # << >>
    <3>1. Head(cli[s]) # RestartWg
      BY <1>c DEF Takes
    <3> QED BY <1>b, <1>c, <3>1
  <2>3. Past' = Past /\ Loaded' = Loaded
    BY <1>c DEF Past, Loaded
  <2> QED BY <1>c, <2>1, <2>2, <2>3 DEF DnsInv
<1>10. CASE TakesNothing(s)
  <2> DEFINE S == {<<"start", "mitmproxy">>, StartWg, StartAgent}
  <2>1. /\ Takes(s, S) /\ Head(cli[s]) \in S
        /\ UNCHANGED <<wgVars, proxyVars, dnsConf>>
    BY <1>10 DEF TakesNothing, Takes
  <2>2. /\ RestartWg \notin S /\ RestartAgent \notin S
        /\ Head(cli[s]) \notin ProxyGates /\ Head(cli[s]) # RestartProxy
    BY <2>1
  <2> QED BY <1>c, <2>1, <2>2
<1>11. CASE TakesWgGate(s)
  <2>1. /\ Takes(s, WgGates) /\ Head(cli[s]) \in WgGates
        /\ UNCHANGED <<wgVars, proxyVars, dnsConf>>
    BY <1>11 DEF TakesWgGate, Takes
  <2>2. /\ RestartWg \notin WgGates /\ RestartAgent \notin WgGates
        /\ Head(cli[s]) \notin ProxyGates /\ Head(cli[s]) # RestartProxy
    BY <2>1
  <2> QED BY <1>c, <2>1, <2>2
<1>12. CASE TakesProxyGate(s)
  <2>1. /\ Takes(s, ProxyGates) /\ Head(cli[s]) \in ProxyGates /\ Planned(cli[s])
        /\ proxyHealth = "healthy"
        /\ UNCHANGED <<wgVars, proxyVars, dnsConf>>
    BY <1>12 DEF TakesProxyGate, Takes, PlanInv
  <2>2. asked'[s] = asked[s] /\ failed' = failed /\ promised' = promised
    <3>1. RestartWg \notin ProxyGates /\ RestartAgent \notin ProxyGates
      OBVIOUS
    <3> QED BY <2>1, <3>1, NotLast
  <2>3. Loaded' /\ Past' = Past
    BY <2>1, HealthyThrough DEF Loaded, Past
  <2>4. Left(cli[s], {RestartWg}) <=> Left(cli'[s], {RestartWg})
    <3>1. Head(cli[s]) \notin {RestartWg}
      BY <2>1
    <3> QED BY <2>1, <3>1, TakesOn
  <2> QED BY <2>1, <2>2, <2>3, <2>4 DEF DnsInv
<1>13. CASE TakesProxyStart(s)
  <2>1. /\ Takes(s, ProxySteps) /\ Head(cli[s]) \in ProxySteps /\ Planned(cli[s])
        /\ cli[s] # << >> /\ UNCHANGED wgVars
    BY <1>13 DEF TakesProxyStart, Takes, PlanInv
  <2>2. asked'[s] = asked[s] /\ failed' = failed /\ promised' = promised
    <3>1. RestartWg \notin ProxySteps /\ RestartAgent \notin ProxySteps
      OBVIOUS
    <3> QED BY <2>1, <3>1, NotLast
  <2>3. /\ Left(cli'[s], ProxyGates)
        /\ Head(cli[s]) = RestartProxy => Left(cli'[s], {RestartProxy, AwaitProxy})
    BY <2>1, TakesOn, LeftSets
  <2>4. Left(cli[s], {RestartWg}) <=> Left(cli'[s], {RestartWg})
    <3>1. Head(cli[s]) \notin {RestartWg}
      BY <2>1
    <3> QED BY <2>1, <3>1, TakesOn
  <2>5. Head(cli[s]) = RestartProxy => asked[s] # Absent
    <3>1. SUFFICES ASSUME Head(cli[s]) = RestartProxy PROVE asked[s] # Absent
      OBVIOUS
    <3>2. Left(cli[s], {RestartProxy, AwaitProxy})
      BY <2>1, <3>1, TakesOn
    <3>3. Left(cli[s], {RestartWg, RestartAgent})
      BY <3>2, ProxyBeforeWg, LeftSets
    <3> QED BY <3>3 DEF PlanInv
  <2>6. Head(cli[s]) # RestartProxy => ~Loaded
    BY <1>13 DEF TakesProxyStart, ProxyUp, Loaded
  <2>7. asked[s] # Absent => Left(cli'[s], {RestartProxy, AwaitProxy})
    <3>1. SUFFICES ASSUME asked[s] # Absent, Head(cli[s]) # RestartProxy
                   PROVE  Left(cli'[s], {RestartProxy, AwaitProxy})
      BY <2>3
    <3>2. Left(cli[s], {RestartProxy, AwaitProxy})
      BY <2>6, <3>1 DEF DnsInv
    <3>3. Head(cli[s]) \notin ProxyGates
      BY <2>1
    <3> QED BY <1>b, <2>1, <3>1, <3>2, <3>3
  <2>8. asked[s] = Absent /\ failed = {} => wgPc = "down"
    BY <2>5, <2>6 DEF DnsInv
  <2>9. Past' = Past /\ wgPc' = wgPc /\ upstream' = upstream /\ dnsmasqUp' = dnsmasqUp
        /\ wgHealth' = wgHealth
    BY <2>1 DEF Past
  <2> QED BY <2>2, <2>3, <2>4, <2>7, <2>8, <2>9 DEF DnsInv
<1>14. CASE TakesWgStart(s)
  <2>1. /\ Takes(s, {StartWg, RestartWg}) /\ Head(cli[s]) \in {StartWg, RestartWg}
        /\ Planned(cli[s]) /\ Loaded' = Loaded
        /\ wgPc' = "tunnel" /\ dnsmasqUp' = FALSE /\ wgHealth' = "starting"
    BY <1>14 DEF TakesWgStart, WgStart, Takes, PlanInv, Loaded
  <2>2. Head(cli[s]) \notin ProxyGates /\ Head(cli[s]) # RestartProxy
    BY <2>1
  <2>3. /\ Left(cli[s], {RestartProxy, AwaitProxy}) <=> Left(cli'[s], {RestartProxy, AwaitProxy})
        /\ Left(cli[s], ProxyGates) <=> Left(cli'[s], ProxyGates)
        /\ cli[s] # << >>
    BY <1>b, <2>1, <2>2
  <2>4. ~Past'
    BY <2>1 DEF Past
  <2>5. CASE asked[s] = Absent
    <3>1. Head(cli[s]) = StartWg
      <4>1. ~Left(cli[s], {RestartWg})
        BY <2>5, LeftSets DEF PlanInv
      <4> QED BY <2>1, <4>1, TakesOn
    <3>2. ~Left(cli[s], ProxyGates)
      BY <2>1, <2>3, <3>1, TakesOn
    <3>3. failed = {} => Loaded
      BY <2>3, <2>5, <3>2 DEF DnsInv
    <3>4. asked'[s] = Absent /\ failed' = failed
      <4>1. Takes(s, {StartWg, RestartWg})
        BY <2>1
      <4> QED BY <2>5, <4>1 DEF Takes
    <3> QED BY <2>1, <2>4, <3>3, <3>4 DEF DnsInv
  <2>6. CASE asked[s] # Absent /\ cli'[s] # << >>
    <3>1. asked'[s] = asked[s]
      <4>1. Takes(s, {StartWg, RestartWg})
        BY <2>1
      <4> QED BY <2>6, <4>1 DEF Takes
    <3> QED BY <2>1, <2>3, <2>4, <2>6, <3>1 DEF DnsInv
  <2>7. CASE asked[s] # Absent /\ cli'[s] = << >>
    <3>1. ~Left(cli[s], {RestartProxy, AwaitProxy})
      BY <2>1, <2>7, LastIsLate
    <3>2. Loaded
      BY <2>7, <3>1 DEF DnsInv
    <3>3. asked'[s] = Absent
      <4>1. Takes(s, {StartWg, RestartWg})
        BY <2>1
      <4> QED BY <2>7, <4>1 DEF Takes
    <3> QED BY <2>1, <2>4, <2>7, <3>2, <3>3 DEF DnsInv
  <2> QED BY <2>5, <2>6, <2>7
<1>15. CASE TakesAgentStart(s)
  <2>1. /\ Takes(s, AgentSteps) /\ Head(cli[s]) \in AgentSteps /\ Planned(cli[s])
        /\ UNCHANGED <<wgVars, proxyVars, dnsConf>>
    BY <1>15 DEF TakesAgentStart, Takes, PlanInv
  <2>2. cli'[s] = << >>
    BY <2>1, TakesOn
  <2>3. Past' = Past /\ Loaded' = Loaded
    BY <2>1 DEF Past, Loaded
  <2>4. CASE asked[s] = Absent
    <3>1. asked'[s] = Absent /\ failed' = failed /\ promised' = promised
      <4>1. Takes(s, AgentSteps)
        BY <2>1
      <4> QED BY <2>4, <4>1 DEF Takes
    <3> QED BY <2>1, <2>2, <2>3, <2>4, <3>1 DEF DnsInv
  <2>5. CASE asked[s] # Absent
    <3>1. Loaded
      BY <2>1, <2>2, <2>5, LastIsLate DEF DnsInv
    <3>2. ~Left(cli[s], {RestartWg})
      <4>1. ~Left(cli'[s], {RestartWg}) /\ Head(cli[s]) \notin {RestartWg}
        BY <2>1, <2>2, NothingLeft
      <4> QED BY <2>1, <4>1, TakesOn
    <3>3. Past => upstream >= asked[s] /\ upstream >= promised
      BY <2>5, <3>2 DEF DnsInv
    <3>4. /\ asked'[s] = Absent
          /\ promised' = IF asked[s] > promised THEN asked[s] ELSE promised
      <4>1. Takes(s, AgentSteps)
        BY <2>1
      <4> QED BY <2>2, <2>5, <4>1 DEF Takes
    <3>5. Past => upstream >= promised'
      BY <3>3, <3>4
    <3> QED BY <2>1, <2>2, <2>3, <3>1, <3>4, <3>5 DEF DnsInv
  <2> QED BY <2>4, <2>5
<1> QED
  BY <1>1, <1>2, <1>3, <1>4, <1>5, <1>6, <1>7, <1>8, <1>9, <1>10, <1>11, <1>12, <1>13,
     <1>14, <1>15, <1>0, OneShellMoves DEF Moves

(* "New settings are now active", for DNS: as long as the proxy itself is  *)
(* not killed, a healthy wg-client in a settled sandbox forwards to the    *)
(* servers of a version no older than the promised one, also after Docker  *)
(* has restarted it by its policy or dnsmasq has been brought back.        *)
THEOREM DnsPromised ==
  ASSUME NEW s, Shells = {s}, CleanupRaces = FALSE, "proxy" \notin Faults
  PROVE  SafetySpec => []PromisedDns
<1>1. Init => DnsInv(s)
  <2> SUFFICES ASSUME Init PROVE DnsInv(s)
    OBVIOUS
  <2>1. /\ wgPc = "down" /\ dnsmasqUp = FALSE /\ wgHealth = "none" /\ cli[s] = << >>
        /\ asked[s] = Absent
    BY DEF Init, WgInit
  <2> QED BY <2>1 DEF DnsInv, Past
<1>2. /\ TypeOK /\ LoadedInv /\ PlanInv(s) /\ VersionInv(s) /\ DnsInv(s) /\ [Next]_vars
      => DnsInv(s)'
  BY DnsStep
<1>3. PlanInv(s) /\ DnsInv(s) => PromisedDns
  <2> SUFFICES ASSUME PlanInv(s), DnsInv(s), Settled, wgHealth = "healthy"
               PROVE  upstream >= promised
    BY DEF PromisedDns
  <2>1. cli[s] = << >> /\ failed = {}
    BY DEF Settled, Idle
  <2>2. asked[s] = Absent
    BY <2>1, NothingLeft DEF PlanInv
  <2> QED BY <2>1, <2>2 DEF DnsInv, Past
<1> QED
  BY <1>1, <1>2, <1>3, TypeCorrect, LoadedInvariant, PlanInvariant, VersionInvariant, PTL
     DEF SafetySpec
=============================================================================
