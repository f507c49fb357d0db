--------------------------- MODULE InitCommandProofs ---------------------------
(***************************************************************************)
(* Proofs about the module InitCommand.                                    *)
(*                                                                         *)
(* What is left to do is always the end of the running command's list, so  *)
(* the step at its head tells how far the command has come (Places).  A    *)
(* file of the tree is, after k steps, the composition of the edits that   *)
(* the first k steps make of it (Stage); this holds from the moment it is  *)
(* copied, whatever was there before, hence also in an empty directory     *)
(* (Fresh).  The settings, the host's paths and the block of .gitignore    *)
(* are followed one by one in the same way: by what is true once the step  *)
(* that sees to it has been taken.                                         *)
(***************************************************************************)
EXTENDS InitCommand, Iterations

(***************************************************************************)
(* The steps of a command                                                  *)
(***************************************************************************)

EarlySteps ==
  << <<"create", "user">>, <<"defaults", "user">>, <<"paths", "home">>, <<"token", "user">>,
     <<"project", "settings.json">>, <<"local", "settings.local.json">> >>

LaterSteps ==
  << <<"stacks", "devcontainer.json">>,
     <<"stacks", "devbox.stack.json">>, <<"tools", "devbox.tools.json">>,
     <<"devbox", "Dockerfile.app">>, <<"load", "compose-all.yml">>,
     <<"agent", "devcontainer.json">>, <<"agent", "Dockerfile.app">>,
     <<"agent", "app-user-init.sh">>, <<"agent", "compose-proxy.yml">>,
     <<"proxy", "compose-proxy.yml">>, <<"save", "compose-all.yml">>,
     <<"ide", "devcontainer.json">> >>

(* Step k of the generator.                                                *)
GenStep(k) ==
  IF k <= 5 THEN <<"copy", TemplateOrder[k]>>
  ELSE IF k <= 17 THEN LaterSteps[k - 5] ELSE <<"plugins", "devcontainer.json">>

Gens(ch) == IF ch.ide = "jetbrains" /\ ch.stacks # << >> THEN 18 ELSE 17

LEMMA GenerateStepsAre ==
  ASSUME NEW ch
  PROVE  \E S : /\ GenerateSteps(ch) \in Seq(S)
                /\ Len(GenerateSteps(ch)) = Gens(ch)
                /\ \A k \in 1..Gens(ch) : GenerateSteps(ch)[k] = GenStep(k)
<1> DEFINE copies == [i \in DOMAIN TemplateOrder |-> <<"copy", TemplateOrder[i]>>]
           last   == IF ch.ide = "jetbrains" /\ ch.stacks # << >>
                       THEN << <<"plugins", "devcontainer.json">> >> ELSE << >>
           most   == copies \o LaterSteps
           all    == most \o last
           S      == Range(copies) \cup Range(LaterSteps) \cup Range(last)
<1>1. GenerateSteps(ch) = all
  BY DEF GenerateSteps, LaterSteps
<1>2. copies \in Seq(S) /\ Len(copies) = 5 /\ \A i \in 1..5 : copies[i] = <<"copy", TemplateOrder[i]>>
  BY DEF TemplateOrder, Range
<1>3. LaterSteps \in Seq(S) /\ Len(LaterSteps) = 12
  BY DEF LaterSteps, Range
<1>4. last \in Seq(S)
  <2>1. last \in Seq(Range(last))
    <3>1. CASE ch.ide = "jetbrains" /\ ch.stacks # << >>
      <4>1. last = << <<"plugins", "devcontainer.json">> >>
        BY <3>1
      <4> HIDE DEF last
      <4> QED BY <4>1 DEF Range
    <3>2. CASE ~(ch.ide = "jetbrains" /\ ch.stacks # << >>)
      <4>1. last = << >>
        BY <3>2
      <4> HIDE DEF last
      <4> QED BY <4>1
    <3> QED BY <3>1, <3>2
  <2> HIDE DEF last, copies
  <2>2. Range(last) \subseteq S
    OBVIOUS
  <2> HIDE DEF S
  <2> QED BY <2>1, <2>2
<1>5. Len(last) = Gens(ch) - 17 /\ (Gens(ch) = 18 => last[1] = <<"plugins", "devcontainer.json">>)
  BY DEF Gens
<1> HIDE DEF copies, last, S
<1>6. /\ most \in Seq(S) /\ Len(most) = Len(copies) + Len(LaterSteps)
      /\ \A i \in 1..(Len(copies) + Len(LaterSteps)) :
           most[i] = IF i <= Len(copies) THEN copies[i] ELSE LaterSteps[i - Len(copies)]
  <2>1. copies \in Seq(S) /\ LaterSteps \in Seq(S)
    BY <1>2, <1>3
  <2> QED BY <2>1
<1> HIDE DEF most
<1>7. /\ all \in Seq(S) /\ Len(all) = Len(most) + Len(last)
      /\ \A i \in 1..(Len(most) + Len(last)) :
           all[i] = IF i <= Len(most) THEN most[i] ELSE last[i - Len(most)]
  <2>1. most \in Seq(S) /\ last \in Seq(S)
    BY <1>4, <1>6
  <2> QED BY <2>1
<1> HIDE DEF all
<1>8. Gens(ch) \in {17, 18} /\ Len(most) = 17 /\ Len(all) = Gens(ch)
  <2>1. Gens(ch) \in {17, 18}
    BY DEF Gens
  <2>2. Len(most) = 17
    BY <1>2, <1>3, <1>6
  <2>3. Len(all) = Len(most) + (Gens(ch) - 17)
    BY <1>5, <1>7
  <2> QED BY <2>1, <2>2, <2>3
<1>9. ASSUME NEW k \in 1..Gens(ch)
      PROVE  all[k] = GenStep(k)
  <2>1. k \in Int /\ k >= 1 /\ k <= 18 /\ k \in 1..(Len(most) + Len(last))
    BY <1>5, <1>8
  <2>2. CASE k <= 5
    <3>1. all[k] = most[k]
      BY <1>7, <1>8, <2>1, <2>2
    <3>2. most[k] = copies[k]
      <4>1. k \in 1..(Len(copies) + Len(LaterSteps)) /\ k <= Len(copies)
        BY <1>2, <1>3, <2>1, <2>2
      <4> QED BY <1>6, <4>1
    <3>3. copies[k] = <<"copy", TemplateOrder[k]>>
      BY <1>2, <2>1, <2>2
    <3> QED BY <2>2, <3>1, <3>2, <3>3 DEF GenStep
  <2>3. CASE k > 5 /\ k <= 17
    <3>1. all[k] = most[k]
      BY <1>7, <1>8, <2>1, <2>3
    <3>2. most[k] = LaterSteps[k - 5]
      <4>1. Len(copies) = 5 /\ k \in 1..(Len(copies) + Len(LaterSteps)) /\ ~(k <= Len(copies))
        BY <1>2, <1>3, <2>1, <2>3
      <4> QED BY <1>6, <4>1
    <3> QED BY <2>1, <2>3, <3>1, <3>2 DEF GenStep
  <2>4. CASE k > 17
    <3>1. k = 18 /\ Gens(ch) = 18
      BY <1>8, <2>1, <2>4
    <3> QED BY <1>5, <1>7, <1>8, <2>1, <3>1 DEF GenStep
  <2> QED BY <2>1, <2>2, <2>3, <2>4
<1> QED BY <1>1, <1>7, <1>8, <1>9

(* The verbs of the generator, each at its place.                          *)
LEMMA GenVerbs ==
  ASSUME NEW k \in 1..18
  PROVE  /\ GenStep(k)[1] = "copy" <=> k <= 5
         /\ GenStep(k)[1] = "stacks" <=> k \in {6, 7}
         /\ GenStep(k)[1] = "tools" <=> k = 8
         /\ GenStep(k)[1] = "devbox" <=> k = 9
         /\ GenStep(k)[1] = "load" <=> k = 10
         /\ GenStep(k)[1] = "agent" <=> k \in 11..14
         /\ GenStep(k)[1] = "proxy" <=> k = 15
         /\ GenStep(k)[1] = "save" <=> k = 16
         /\ GenStep(k)[1] = "ide" <=> k = 17
         /\ GenStep(k)[1] = "plugins" <=> k = 18
<1>1. CASE k <= 5
  <2>1. GenStep(k)[1] = "copy"
    BY <1>1 DEF GenStep
  <2> QED BY <1>1, <2>1
<1>2. CASE k \in 6..11
  <2>1. /\ k = 6 => GenStep(k) = <<"stacks", "devcontainer.json">>
        /\ k = 7 => GenStep(k) = <<"stacks", "devbox.stack.json">>
        /\ k = 8 => GenStep(k) = <<"tools", "devbox.tools.json">>
        /\ k = 9 => GenStep(k) = <<"devbox", "Dockerfile.app">>
        /\ k = 10 => GenStep(k) = <<"load", "compose-all.yml">>
        /\ k = 11 => GenStep(k) = <<"agent", "devcontainer.json">>
    BY DEF GenStep, LaterSteps
  <2> QED BY <1>2, <2>1
<1>3. CASE k \in 12..18
  <2>1. /\ k = 12 => GenStep(k) = <<"agent", "Dockerfile.app">>
        /\ k = 13 => GenStep(k) = <<"agent", "app-user-init.sh">>
        /\ k = 14 => GenStep(k) = <<"agent", "compose-proxy.yml">>
        /\ k = 15 => GenStep(k) = <<"proxy", "compose-proxy.yml">>
        /\ k = 16 => GenStep(k) = <<"save", "compose-all.yml">>
        /\ k = 17 => GenStep(k) = <<"ide", "devcontainer.json">>
        /\ k = 18 => GenStep(k) = <<"plugins", "devcontainer.json">>
    BY DEF GenStep, LaterSteps
  <2> QED BY <1>3, <2>1
<1> QED BY <1>1, <1>2, <1>3

(* Where the generator's steps begin.                                      *)
Offset(ch) == IF ch.command = "init" THEN 6 ELSE 0

Total(ch) ==
  CASE ch.command = "init" -> Gens(ch) + 7
    [] ch.command = "init settings" -> 2
    [] ch.command = "init devcontainer" -> Gens(ch)

Commands == {"init", "init settings", "init devcontainer"}

LEMMA StepsAre ==
  ASSUME NEW ch, ch.command \in Commands
  PROVE  /\ \E S : Steps(ch) \in Seq(S)
         /\ Len(Steps(ch)) = Total(ch)
         /\ Total(ch) \in Nat /\ Total(ch) > 0 /\ Gens(ch) \in {17, 18}
         /\ Generates(ch) => /\ Total(ch) >= Offset(ch) + Gens(ch)
                             /\ \A k \in 1..Gens(ch) : Steps(ch)[Offset(ch) + k] = GenStep(k)
         /\ ch.command = "init" =>
              /\ \A k \in 1..6 : Steps(ch)[k] = EarlySteps[k]
              /\ Steps(ch)[Total(ch)] = <<"block", ".gitignore">>
         /\ ch.command = "init settings" =>
              Steps(ch)[1] = EarlySteps[5] /\ Steps(ch)[2] = EarlySteps[6]
<1> DEFINE gen == GenerateSteps(ch)
<1>1. PICK R : /\ gen \in Seq(R)
               /\ Len(gen) = Gens(ch)
               /\ \A k \in 1..Gens(ch) : gen[k] = GenStep(k)
  BY GenerateStepsAre
<1>2. Gens(ch) \in {17, 18}
  BY DEF Gens
<1>3. CASE ch.command = "init"
  <2> DEFINE setup == << <<"create", "user">>, <<"defaults", "user">>, <<"paths", "home">>,
                         <<"token", "user">> >>
             block == << <<"block", ".gitignore">> >>
             early == setup \o ProjectSteps
             most  == early \o gen
             all   == most \o block
             S     == R \cup Range(setup) \cup Range(ProjectSteps) \cup Range(block)
  <2>1. Steps(ch) = all
    BY <1>3 DEF Steps
  <2>2. /\ setup \in Seq(S) /\ Len(setup) = 4 /\ ProjectSteps \in Seq(S) /\ Len(ProjectSteps) = 2
        /\ block \in Seq(S) /\ Len(block) = 1 /\ block[1] = <<"block", ".gitignore">>
    BY DEF ProjectSteps, Range
  <2>3. gen \in Seq(S)
    BY <1>1
  <2>4. /\ \A k \in 1..4 : setup[k] = EarlySteps[k]
        /\ \A k \in 1..2 : ProjectSteps[k] = EarlySteps[4 + k]
    BY DEF EarlySteps, ProjectSteps
  <2> HIDE DEF gen, setup, block, S
  <2>5. /\ early \in Seq(S) /\ Len(early) = Len(setup) + Len(ProjectSteps)
        /\ \A i \in 1..(Len(setup) + Len(ProjectSteps)) :
             early[i] = IF i <= Len(setup) THEN setup[i] ELSE ProjectSteps[i - Len(setup)]
    <3>1. setup \in Seq(S) /\ ProjectSteps \in Seq(S)
      BY <2>2
    <3> QED BY <3>1
  <2> HIDE DEF early
  <2>6. Len(early) = 6 /\ \A i \in 1..6 : early[i] = EarlySteps[i]
    <3>1. Len(early) = 6
      BY <2>2, <2>5
    <3>2. ASSUME NEW i \in 1..4  PROVE  early[i] = EarlySteps[i]
      <4>1. early[i] = setup[i]
        BY <2>2, <2>5
      <4> QED BY <2>4, <4>1
    <3>3. ASSUME NEW i \in 5..6  PROVE  early[i] = EarlySteps[i]
      <4>1. early[i] = ProjectSteps[i - 4]
        BY <2>2, <2>5
      <4>2. i - 4 \in 1..2 /\ 4 + (i - 4) = i
        OBVIOUS
      <4> QED BY <2>4, <4>1, <4>2
    <3>4. 1..6 = (1..4) \cup (5..6)
      OBVIOUS
    <3> QED BY <3>1, <3>2, <3>3, <3>4
  <2>7. /\ most \in Seq(S) /\ Len(most) = Len(early) + Len(gen)
        /\ \A i \in 1..(Len(early) + Len(gen)) :
             most[i] = IF i <= Len(early) THEN early[i] ELSE gen[i - Len(early)]
    BY <2>3, <2>5
  <2> HIDE DEF most
  <2>8. /\ all \in Seq(S) /\ Len(all) = Len(most) + Len(block)
        /\ \A i \in 1..(Len(most) + Len(block)) :
             all[i] = IF i <= Len(most) THEN most[i] ELSE block[i - Len(most)]
    <3>1. most \in Seq(S) /\ block \in Seq(S)
      BY <2>2, <2>7
    <3> QED BY <3>1
  <2> HIDE DEF all
  <2>9. /\ Total(ch) = 7 + Gens(ch) /\ Offset(ch) = 6
        /\ Len(most) = 6 + Gens(ch) /\ Len(all) = 7 + Gens(ch)
    <3>1. Total(ch) = 7 + Gens(ch) /\ Offset(ch) = 6
      BY <1>2, <1>3 DEF Total, Offset
    <3> QED BY <1>1, <1>2, <2>2, <2>6, <2>7, <2>8, <3>1
  <2>10. \A k \in 1..6 : all[k] = EarlySteps[k]
    <3> TAKE k \in 1..6
    <3>1. all[k] = most[k]
      <4>1. k \in 1..(Len(most) + Len(block)) /\ k <= Len(most)
        BY <1>2, <2>2, <2>9
      <4> QED BY <2>8, <4>1
    <3>2. most[k] = early[k]
      <4>1. k \in 1..(Len(early) + Len(gen)) /\ k <= Len(early)
        BY <1>1, <1>2, <2>6
      <4> QED BY <2>7, <4>1
    <3> QED BY <2>6, <3>1, <3>2
  <2>11. \A k \in 1..Gens(ch) : all[6 + k] = GenStep(k)
    <3> TAKE k \in 1..Gens(ch)
    <3>1. all[6 + k] = most[6 + k]
      <4>1. 6 + k \in 1..(Len(most) + Len(block)) /\ 6 + k <= Len(most)
        BY <1>2, <2>2, <2>9
      <4> QED BY <2>8, <4>1
    <3>2. most[6 + k] = gen[k]
      <4>1. /\ 6 + k \in 1..(Len(early) + Len(gen)) /\ ~(6 + k <= Len(early))
            /\ 6 + k - Len(early) = k
        BY <1>1, <1>2, <2>6
      <4> QED BY <2>7, <4>1
    <3> QED BY <1>1, <3>1, <3>2
  <2>12. all[7 + Gens(ch)] = <<"block", ".gitignore">>
    <3>1. /\ 7 + Gens(ch) \in 1..(Len(most) + Len(block)) /\ ~(7 + Gens(ch) <= Len(most))
          /\ (7 + Gens(ch)) - Len(most) = 1
      <4>1. Len(block) = 1 /\ Gens(ch) \in Nat
        BY <1>2, <2>2
      <4>2. Len(most) = 6 + Gens(ch)
        BY <2>9
      <4> QED BY <4>1, <4>2
    <3>2. block[1] = <<"block", ".gitignore">>
      BY <2>2
    <3>3. all[7 + Gens(ch)] = block[(7 + Gens(ch)) - Len(most)]
      <4> DEFINE i == 7 + Gens(ch)
      <4>1. i \in 1..(Len(most) + Len(block)) /\ ~(i <= Len(most))
        BY <3>1
      <4> HIDE DEF i
      <4>2. all[i] = block[i - Len(most)]
        BY <2>8, <4>1
      <4> QED BY <4>2 DEF i
    <3> QED BY <3>1, <3>2, <3>3
  <2>13. /\ \E T : Steps(ch) \in Seq(T)
         /\ Len(Steps(ch)) = Total(ch)
         /\ \A k \in 1..6 : Steps(ch)[k] = EarlySteps[k]
    BY <2>1, <2>8, <2>9, <2>10
  <2>14. Total(ch) \in Nat /\ Total(ch) > 0 /\ Total(ch) >= Offset(ch) + Gens(ch)
    <3>1. Gens(ch) \in Nat
      BY <1>2
    <3> QED BY <2>9, <3>1
  <2>15. \A k \in 1..Gens(ch) : Steps(ch)[Offset(ch) + k] = GenStep(k)
    BY <2>1, <2>9, <2>11
  <2>16. Steps(ch)[Total(ch)] = <<"block", ".gitignore">>
    BY <2>1, <2>9, <2>12
  <2> QED BY <1>2, <1>3, <2>13, <2>14, <2>15, <2>16
<1>4. CASE ch.command = "init settings"
  <2>1. Steps(ch) = ProjectSteps /\ Total(ch) = 2
    BY <1>4 DEF Steps, Total
  <2>2. ProjectSteps \in Seq(Range(ProjectSteps)) /\ Len(ProjectSteps) = 2
    BY DEF ProjectSteps, Range
  <2>3. ProjectSteps[1] = EarlySteps[5] /\ ProjectSteps[2] = EarlySteps[6]
    BY DEF ProjectSteps, EarlySteps
  <2>4. ~Generates(ch) /\ ch.command # "init"
    BY <1>4 DEF Generates
  <2>5. \E S : Steps(ch) \in Seq(S)
    BY <2>1, <2>2
  <2>6. Len(Steps(ch)) = Total(ch) /\ Total(ch) \in Nat /\ Total(ch) > 0
    BY <2>1, <2>2
  <2>7. Steps(ch)[1] = EarlySteps[5] /\ Steps(ch)[2] = EarlySteps[6]
    BY <2>1, <2>3
  <2> QED BY <1>2, <2>4, <2>5, <2>6, <2>7
<1>5. CASE ch.command = "init devcontainer"
  <2>1. Steps(ch) = gen /\ Total(ch) = Gens(ch) /\ Offset(ch) = 0
    BY <1>5 DEF Steps, Total, Offset
  <2> HIDE DEF gen
  <2>2. ch.command # "init" /\ ch.command # "init settings"
    BY <1>5
  <2>3. \E S : Steps(ch) \in Seq(S)
    BY <1>1, <2>1
  <2>4. \A k \in 1..Gens(ch) : Steps(ch)[0 + k] = GenStep(k)
    BY <1>1, <1>2, <2>1
  <2>5. Len(Steps(ch)) = Total(ch) /\ Total(ch) \in Nat /\ Total(ch) > 0
    BY <1>1, <1>2, <2>1
  <2>6. Total(ch) >= Offset(ch) + Gens(ch)
    BY <1>2, <2>1
  <2> QED BY <1>2, <2>1, <2>2, <2>3, <2>4, <2>5, <2>6
<1> QED BY <1>3, <1>4, <1>5 DEF Commands

(***************************************************************************)
(* Where a command stands                                                  *)
(***************************************************************************)

(* The choices of the command that runs, or of the one that succeeded last *)
(* if nothing has happened since; and how many of its steps are taken.     *)
Whose == IF Idle THEN done ELSE chosen
Pos   == Total(Whose) - Len(todo)

(* How many of the generator's steps are taken, if it has begun.           *)
Gen == Pos - Offset(Whose)

Chooses(ch) == \E inv \in Invocations : Valid(inv) /\ ch = Options(inv)

(* What is left to do is the end of the command's list of steps.           *)
RunInv ==
  /\ Idle <=> chosen = NoOptions
  /\ Idle \/ done = NoOptions
  /\ Whose # NoOptions =>
       /\ Chooses(Whose)
       /\ todo \in Seq(Range(Steps(Whose)))
       /\ Len(todo) <= Total(Whose)
       /\ \A i \in DOMAIN todo : todo[i] = Steps(Whose)[Pos + i]

LEMMA ChosenIs ==
  ASSUME NEW ch, Chooses(ch)
  PROVE  /\ ch.command \in Commands /\ ch # NoOptions
         /\ ch.name # "" /\ ch.name \notin Placeholders
         /\ ch.command # "init settings" => ch.agent \in AgentNames
<1>1. PICK inv \in Invocations : Valid(inv) /\ ch = Options(inv)
  BY DEF Chooses
<1>2. /\ ch.command = inv.command /\ ch.name = inv.name /\ ch.agent = inv.agent
  BY <1>1 DEF Options
<1>3. inv.command \in Commands /\ inv.name # "" /\ inv.name \notin Placeholders
  BY InvocationsAssumption DEF Commands
<1>4. inv.command # "init settings" => inv.agent \in AgentNames
  BY <1>1, <1>3 DEF Valid, Commands
<1>5. ch.command # NoOptions.command
  BY <1>2, <1>3 DEF Commands, NoOptions
<1> QED BY <1>2, <1>3, <1>4, <1>5

LEMMA Walk ==
  ASSUME RunInv, ~Idle
  PROVE  /\ Whose = chosen /\ Chooses(chosen) /\ chosen.command \in Commands
         /\ Total(chosen) \in Nat /\ Len(todo) \in Nat /\ Len(todo) > 0
         /\ Pos \in 0..(Total(chosen) - 1)
         /\ Head(todo) = Steps(chosen)[Pos + 1]
<1>1. Whose = chosen /\ Whose # NoOptions
  BY DEF RunInv, Whose
<1>2. /\ Chooses(chosen) /\ todo \in Seq(Range(Steps(chosen))) /\ Len(todo) <= Total(chosen)
      /\ \A i \in DOMAIN todo : todo[i] = Steps(chosen)[Pos + i]
  BY <1>1 DEF RunInv
<1>3. chosen.command \in Commands
  BY <1>2, ChosenIs
<1>4. Total(chosen) \in Nat
  BY <1>3, StepsAre
<1>5. Len(todo) \in Nat /\ Len(todo) > 0 /\ 1 \in DOMAIN todo /\ Head(todo) = todo[1]
  BY <1>2 DEF Idle
<1>6. Pos = Total(chosen) - Len(todo)
  BY <1>1 DEF Pos
<1> QED BY <1>1, <1>2, <1>3, <1>4, <1>5, <1>6

GenVerb ==
  {"copy", "stacks", "tools", "devbox", "load", "agent", "proxy", "save", "ide", "plugins"}

(* The step that is next tells how far the command has come.               *)
LEMMA Places ==
  ASSUME RunInv, ~Idle
  PROVE  /\ At("create")   => chosen.command = "init" /\ Pos = 0
         /\ At("defaults") => chosen.command = "init" /\ Pos = 1
         /\ At("paths")    => chosen.command = "init" /\ Pos = 2
         /\ At("token")    => chosen.command = "init" /\ Pos = 3
         /\ At("project")  => ~Generates(chosen) \/ (chosen.command = "init" /\ Pos = 4)
         /\ At("local")    => ~Generates(chosen) \/ (chosen.command = "init" /\ Pos = 5)
         /\ At("block")    => chosen.command = "init" /\ Gen = Gens(chosen) /\ Len(todo) = 1
         /\ Head(todo)[1] \in GenVerb =>
              /\ Generates(chosen) /\ Gen \in 0..(Gens(chosen) - 1)
              /\ Head(todo) = GenStep(Gen + 1)
<1>1. /\ Whose = chosen /\ chosen.command \in Commands
      /\ Pos \in 0..(Total(chosen) - 1) /\ Head(todo) = Steps(chosen)[Pos + 1]
      /\ Total(chosen) \in Nat /\ Len(todo) \in Nat
  BY Walk
<1>2. Gens(chosen) \in {17, 18}
  BY <1>1, StepsAre
<1>3. Gen = Pos - Offset(chosen)
  BY <1>1 DEF Gen
<1>4. Pos = Total(chosen) - Len(todo)
  BY <1>1 DEF Pos
<1>5. \A v : At(v) => Head(todo)[1] = v
  BY DEF At
<1> DEFINE verb == Head(todo)[1]
<1>6. CASE chosen.command = "init"
  <2>1. /\ \A k \in 1..6 : Steps(chosen)[k] = EarlySteps[k]
        /\ Steps(chosen)[Total(chosen)] = <<"block", ".gitignore">>
        /\ \A k \in 1..Gens(chosen) : Steps(chosen)[6 + k] = GenStep(k)
        /\ Total(chosen) = Gens(chosen) + 7 /\ Offset(chosen) = 6 /\ Generates(chosen)
    BY <1>1, <1>6, StepsAre DEF Generates, Offset, Total
  <2>2. CASE Pos < 6
    <3>1. Pos \in {0, 1, 2, 3, 4, 5} /\ Head(todo) = EarlySteps[Pos + 1]
      <4>1. Pos \in Nat
        BY <1>1
      <4>2. Pos \in {0, 1, 2, 3, 4, 5} /\ Pos + 1 \in 1..6
        BY <2>2, <4>1
      <4> QED BY <1>1, <2>1, <4>2
    <3>2. /\ Pos = 0 => verb = "create"
          /\ Pos = 1 => verb = "defaults"
          /\ Pos = 2 => verb = "paths"
          /\ Pos = 3 => verb = "token"
          /\ Pos = 4 => verb = "project"
          /\ Pos = 5 => verb = "local"
      BY <3>1 DEF EarlySteps
    <3>3. verb \notin GenVerb
      BY <3>1, <3>2 DEF GenVerb
    <3> QED BY <1>5, <1>6, <3>1, <3>2, <3>3
  <2>3. CASE Pos >= 6 /\ Pos < 6 + Gens(chosen)
    <3>1. /\ Pos - 5 \in 1..Gens(chosen) /\ Pos + 1 = 6 + (Pos - 5) /\ Gen + 1 = Pos - 5
          /\ Gen \in 0..(Gens(chosen) - 1)
      <4>1. Pos \in Nat /\ Gens(chosen) \in Nat /\ Gen = Pos - 6
        <5>1. Offset(chosen) = 6
          BY <2>1
        <5>2. Gens(chosen) \in Nat
          BY <1>2
        <5>3. Pos \in Nat
          BY <1>1
        <5> QED BY <1>3, <5>1, <5>2, <5>3
      <4>2. Pos - 5 >= 1 /\ Pos - 5 <= Gens(chosen) /\ Pos - 5 \in Int
        BY <2>3, <4>1
      <4>3. Gen >= 0 /\ Gen <= Gens(chosen) - 1 /\ Gen \in Int
        BY <2>3, <4>1
      <4>4. Pos + 1 = 6 + (Pos - 5) /\ Gen + 1 = Pos - 5
        BY <4>1
      <4> QED BY <4>1, <4>2, <4>3, <4>4
    <3>2. Head(todo) = GenStep(Gen + 1)
      BY <1>1, <2>1, <3>1
    <3>3. verb \in GenVerb
      <4>1. Gen + 1 \in 1..18
        BY <1>2, <3>1
      <4> QED BY <3>2, <4>1, GenVerbs DEF GenVerb
    <3>4. verb \notin {"create", "defaults", "paths", "token", "project", "local", "block"}
      BY <3>3 DEF GenVerb
    <3> QED BY <1>5, <2>1, <3>1, <3>2, <3>4
  <2>4. CASE Pos >= 6 + Gens(chosen)
    <3>1. Pos + 1 = Total(chosen) /\ Gen = Gens(chosen) /\ Len(todo) = 1
      <4>1. Pos = 6 + Gens(chosen)
        BY <1>1, <1>2, <2>1, <2>4
      <4>2. Pos + 1 = Total(chosen) /\ Gen = Gens(chosen)
        BY <1>2, <1>3, <2>1, <4>1
      <4>3. Len(todo) = Total(chosen) - Pos
        BY <1>1, <1>4
      <4>4. Total(chosen) - Pos = 1
        BY <1>1, <4>2
      <4> QED BY <4>2, <4>3, <4>4
    <3>2. verb = "block"
      BY <1>1, <2>1, <3>1
    <3> QED BY <1>5, <1>6, <3>1, <3>2 DEF GenVerb
  <2> QED BY <1>1, <1>2, <2>2, <2>3, <2>4
<1>7. CASE chosen.command = "init settings"
  <2>1. /\ Steps(chosen)[1] = EarlySteps[5] /\ Steps(chosen)[2] = EarlySteps[6]
        /\ Total(chosen) = 2 /\ ~Generates(chosen)
    BY <1>1, <1>7, StepsAre DEF Generates, Total
  <2>2. Pos \in {0, 1}
    BY <1>1, <2>1
  <2>3. verb \in {"project", "local"}
    BY <1>1, <2>1, <2>2 DEF EarlySteps
  <2> QED BY <1>5, <2>1, <2>3 DEF GenVerb
<1>8. CASE chosen.command = "init devcontainer"
  <2>1. /\ \A k \in 1..Gens(chosen) : Steps(chosen)[0 + k] = GenStep(k)
        /\ Total(chosen) = Gens(chosen) /\ Offset(chosen) = 0 /\ Generates(chosen)
    BY <1>1, <1>8, StepsAre DEF Generates, Offset, Total
  <2>2. Gen = Pos /\ Gen \in 0..(Gens(chosen) - 1) /\ Gen + 1 \in 1..Gens(chosen)
    BY <1>1, <1>2, <1>3, <2>1
  <2>3. Head(todo) = GenStep(Gen + 1)
    BY <1>1, <2>1, <2>2
  <2>4. verb \in GenVerb
    <3>1. Gen + 1 \in 1..18
      BY <1>2, <2>2
    <3> QED BY <2>3, <3>1, GenVerbs DEF GenVerb
  <2>5. verb \notin {"create", "defaults", "paths", "token", "project", "local", "block"}
    BY <2>4 DEF GenVerb
  <2> QED BY <1>5, <2>1, <2>2, <2>3, <2>5
<1> QED BY <1>1, <1>6, <1>7, <1>8 DEF Commands

(***************************************************************************)
(* Where a step leads                                                      *)
(***************************************************************************)

(* One step of the command's list is taken.                                *)
Advances == ~Idle /\ Whose' = Whose /\ Pos' = Pos + 1

LEMMA TailAdvances ==
  ASSUME RunInv, ~Idle, todo' = Tail(todo),
         IF Len(todo) = 1 THEN chosen' = NoOptions /\ done' = chosen
         ELSE chosen' = chosen /\ done' = done
  PROVE  RunInv' /\ Advances
<1> DEFINE S == Range(Steps(chosen))
<1>1. /\ Whose = chosen /\ chosen # NoOptions /\ Chooses(chosen) /\ chosen.command \in Commands
      /\ Total(chosen) \in Nat
  BY Walk, ChosenIs
<1>2. /\ todo \in Seq(S) /\ Len(todo) <= Total(chosen)
      /\ \A i \in DOMAIN todo : todo[i] = Steps(chosen)[Pos + i]
  BY <1>1 DEF RunInv
<1>3. Pos = Total(chosen) - Len(todo) /\ done = NoOptions
  BY <1>1 DEF Pos, RunInv
<1> HIDE DEF S
<1>4. /\ Tail(todo) \in Seq(S) /\ Len(Tail(todo)) = Len(todo) - 1 /\ Len(todo) > 0 /\ Len(todo) \in Nat
      /\ \A i \in 1..(Len(todo) - 1) : Tail(todo)[i] = todo[i + 1]
  BY <1>2 DEF Idle
<1>5. Whose' = chosen /\ (Idle' <=> Len(todo) = 1)
  <2>1. CASE Len(todo) = 1
    <3>1. todo' = << >>
      BY <1>4, <2>1, EmptySeq
    <3> QED BY <2>1, <3>1 DEF Whose, Idle
  <2>2. CASE Len(todo) # 1
    <3>1. Len(Tail(todo)) # 0
      BY <1>4, <2>2
    <3>2. todo' # << >>
      <4>1. Len(<< >>) = 0
        OBVIOUS
      <4> QED BY <3>1, <4>1
    <3> QED BY <2>2, <3>2 DEF Whose, Idle
  <2> QED BY <2>1, <2>2
<1>6. Pos' = Total(chosen) - Len(Tail(todo))
  BY <1>5 DEF Pos
<1>7. Pos' = Pos + 1
  BY <1>1, <1>3, <1>4, <1>6
<1>8. Idle' <=> chosen' = NoOptions
  BY <1>1, <1>5
<1>9. Idle' \/ done' = NoOptions
  BY <1>3, <1>5
<1>10. Len(todo') <= Total(chosen)
  BY <1>1, <1>2, <1>4
<1>11. \A i \in DOMAIN todo' : todo'[i] = Steps(chosen)[Pos' + i]
  <2> TAKE i \in DOMAIN todo'
  <2>1. i \in 1..(Len(todo) - 1)
    BY <1>4
  <2>2. todo'[i] = todo[i + 1] /\ i + 1 \in DOMAIN todo
    BY <1>2, <1>4, <2>1
  <2>3. Pos \in Int /\ Pos + (i + 1) = Pos' + i
    BY <1>1, <1>3, <1>4, <1>7, <2>1
  <2> QED BY <1>2, <2>2, <2>3
<1>12. todo' \in Seq(Range(Steps(chosen)))
  BY <1>4 DEF S
<1>13. RunInv'
  BY <1>1, <1>5, <1>8, <1>9, <1>10, <1>11, <1>12 DEF RunInv
<1> QED BY <1>1, <1>5, <1>7, <1>13 DEF Advances

LEMMA ProceedAdvances ==
  ASSUME RunInv, ~Idle, Proceed
  PROVE  RunInv' /\ Advances
BY TailAdvances DEF Proceed

(* Nothing of the command is left.                                         *)
LEMMA QuitLeaves ==
  ASSUME RunInv, ~Idle, Quit
  PROVE  RunInv' /\ Whose' = NoOptions
<1>1. todo' = << >> /\ chosen' = NoOptions /\ done' = NoOptions
  BY DEF Quit, RunInv
<1> QED BY <1>1 DEF RunInv, Whose, Idle

LEMMA Begins ==
  ASSUME Begin
  PROVE  RunInv' /\ Pos' = 0 /\ Chooses(Whose')
<1>1. PICK inv \in Invocations :
        Valid(inv) /\ chosen' = Options(inv) /\ todo' = Steps(Options(inv))
  BY DEF Begin
<1> DEFINE ch == Options(inv)
<1>2. Chooses(ch)
  BY <1>1 DEF Chooses
<1>3. done' = NoOptions /\ chosen' = ch /\ todo' = Steps(ch)
  BY <1>1 DEF Begin
<1> HIDE DEF ch
<1>4. ch.command \in Commands /\ ch # NoOptions
  BY <1>2, ChosenIs
<1>5. /\ \E S : Steps(ch) \in Seq(S)
      /\ Len(Steps(ch)) = Total(ch) /\ Total(ch) \in Nat /\ Total(ch) > 0
  BY <1>4, StepsAre
<1>6. Steps(ch) \in Seq(Range(Steps(ch))) /\ Steps(ch) # << >>
  BY <1>5 DEF Range
<1>7. Whose' = ch /\ ~Idle'
  BY <1>3, <1>6 DEF Whose, Idle
<1>8. Pos' = 0
  BY <1>3, <1>5, <1>7 DEF Pos
<1>9. \A i \in DOMAIN todo' : todo'[i] = Steps(Whose')[Pos' + i]
  BY <1>3, <1>5, <1>7, <1>8
<1> QED BY <1>2, <1>3, <1>4, <1>5, <1>6, <1>7, <1>8, <1>9 DEF RunInv

(* The user's edits, and what goes wrong, leave no command to speak of.    *)
LEMMA EachStep ==
  ASSUME RunInv, [Next]_vars
  PROVE  /\ RunInv'
         /\ \/ UNCHANGED vars
            \/ Begin /\ Pos' = 0 /\ Chooses(Whose')
            \/ Whose' = NoOptions
            \/ Advances /\ Command
<1>1. CASE Begin
  BY <1>1, Begins
<1>2. CASE UNCHANGED vars
  <2>1. UNCHANGED <<todo, chosen, done>>
    BY <1>2 DEF vars, run
  <2>2. RunInv'
    BY <2>1 DEF RunInv, Whose, Idle, Pos
  <2> QED BY <1>2, <2>2
<1>3. CASE UserEdit
  <2>1. todo' = todo /\ chosen' = chosen /\ done' = NoOptions /\ Idle
    BY <1>3 DEF UserEdit
  <2>2. Whose' = NoOptions
    BY <2>1 DEF Whose, Idle
  <2> QED BY <2>1, <2>2 DEF RunInv, Idle
<1>4. CASE Command
  <2>1. ~Idle
    BY <1>4 DEF Command, UserStep, CreateUserSettingsStep, ApplyAgentDefaultsStep,
      AddSecretProviderTokenStep, EditUserSettingsFails, EnsureHostConfigPathsStep,
      WriteProjectSettings, WriteLocalSettings, GenerateStep, GenerateFails, ProxyEditFails,
      LoadCompose, SaveCompose, NoSettingsFile, ManageGitignore, Interrupt, Interruptible, At
  <2>2. Proceed \/ Quit \/ LoadCompose
    BY <1>4 DEF Command, UserStep, CreateUserSettingsStep, ApplyAgentDefaultsStep,
      AddSecretProviderTokenStep, EditUserSettingsFails, EnsureHostConfigPathsStep,
      WriteProjectSettings, WriteLocalSettings, GenerateStep, GenerateFails,
      SaveCompose, NoSettingsFile, ManageGitignore, Interrupt, WriteUser, WriteTree, CutShort
  <2>3. CASE LoadCompose
    <3>1. todo' = Tail(todo) /\ chosen' = chosen /\ done' = done /\ At("load")
      BY <2>3 DEF LoadCompose
    <3>2. Len(todo) # 1
      <4>1. Head(todo)[1] = "load" /\ "load" \in GenVerb
        BY <3>1 DEF At, GenVerb
      <4>2. Gen + 1 = 10 /\ Generates(chosen) /\ Gens(chosen) \in {17, 18}
        <5>1. /\ Generates(chosen) /\ Gen \in 0..(Gens(chosen) - 1) /\ Head(todo) = GenStep(Gen + 1)
              /\ chosen.command \in Commands
          BY <2>1, <4>1, Places, Walk
        <5>2. Gens(chosen) \in {17, 18}
          BY <5>1, StepsAre
        <5>3. Gen + 1 \in 1..18
          BY <5>1, <5>2
        <5> QED BY <4>1, <5>1, <5>2, <5>3, GenVerbs
      <4>3. Gen = Pos - Offset(chosen) /\ Pos = Total(chosen) - Len(todo) /\ Total(chosen) >= Offset(chosen) + Gens(chosen)
        BY <2>1, <4>2, Walk, StepsAre DEF Gen, Pos
      <4>4. Offset(chosen) \in Nat /\ Total(chosen) \in Nat /\ Len(todo) \in Nat
        BY <2>1, Walk DEF Offset
      <4>5. Len(todo) >= 8
        BY <4>2, <4>3, <4>4
      <4> DEFINE left == Len(todo)
      <4>6. left \in Nat /\ left >= 8
        BY <4>4, <4>5
      <4> HIDE DEF left
      <4>7. left # 1
        BY <4>6
      <4> QED BY <4>7 DEF left
    <3> QED BY <1>4, <2>1, <3>1, <3>2, TailAdvances
  <2> QED BY <1>4, <2>1, <2>2, <2>3, ProceedAdvances, QuitLeaves
<1> QED BY <1>1, <1>2, <1>3, <1>4 DEF Next

(***************************************************************************)
(* Settings files                                                          *)
(***************************************************************************)

LEMMA KindsDiffer ==
  /\ Missing # Malformed /\ ~Loads(Missing) /\ ~Loads(Malformed)
  /\ \A o : Loads(Saved(o)) /\ Exists(Saved(o)) /\ Saved(o).obj = o
  /\ \A file : Loads(file) => Exists(file)
<1>1. DOMAIN Missing = {"file"} /\ DOMAIN Malformed = {"file"}
  BY DEF Missing, Malformed
<1>2. Missing.file # Malformed.file
  BY DEF Missing, Malformed
<1>3. \A o : DOMAIN Saved(o) = {"obj"} /\ Saved(o).obj = o
  BY DEF Saved, Obj
<1> QED BY <1>1, <1>2, <1>3 DEF Loads, IsObj, Exists

CaKey == "upstream_ca_bundles"

LEMMA WithKeeps ==
  ASSUME NEW o, NEW key, NEW v
  PROVE  /\ key \in DOMAIN With(o, key, v) /\ With(o, key, v)[key] = v
         /\ \A other : other # key =>
              /\ other \in DOMAIN With(o, key, v) <=> other \in DOMAIN o
              /\ other \in DOMAIN o => With(o, key, v)[other] = o[other]
              /\ EnsureArray(With(o, key, v), other) = EnsureArray(o, other)
BY DEF With, EnsureArray

LEMMA SetDefaultKeeps ==
  ASSUME NEW o, NEW key, NEW def, def \notin {Lit("null"), Lit("false")}
  PROVE  /\ ~Absent(SetDefault(o, key, def), key)
         /\ \A other : other # key =>
              EnsureArray(SetDefault(o, key, def), other) = EnsureArray(o, other)
<1>1. CASE Absent(o, key)
  <2>1. SetDefault(o, key, def) = With(o, key, def)
    BY <1>1 DEF SetDefault
  <2> QED BY <2>1, WithKeeps DEF Absent
<1>2. CASE ~Absent(o, key)
  BY <1>2 DEF SetDefault
<1> QED BY <1>1, <1>2

(* No edit of init's touches the list of CA bundles.                       *)
LEMMA DefaultsKeepBundles ==
  ASSUME NEW o
  PROVE  /\ EnsureArray(CursorDefaults(o), CaKey) = EnsureArray(o, CaKey)
         /\ EnsureArray(CodexDefaults(o), CaKey) = EnsureArray(o, CaKey)
<1>1. ASSUME NEW name, NEW hosts
      PROVE  EnsureArray(SeedSecret(o, name, hosts), CaKey) = EnsureArray(o, CaKey)
  <2>1. \E u, v : SeedSecret(o, name, hosts) = With(With(o, "env", u), "secrets", v)
    BY DEF SeedSecret
  <2>2. PICK u, v : SeedSecret(o, name, hosts) = With(With(o, "env", u), "secrets", v)
    BY <2>1
  <2>3. EnsureArray(With(With(o, "env", u), "secrets", v), CaKey) = EnsureArray(With(o, "env", u), CaKey)
    BY WithKeeps DEF CaKey
  <2>4. EnsureArray(With(o, "env", u), CaKey) = EnsureArray(o, CaKey)
    BY WithKeeps DEF CaKey
  <2> QED BY <2>2, <2>3, <2>4
<1>2. ASSUME NEW name, NEW hosts, NEW key, key # CaKey, NEW v
      PROVE  EnsureArray(With(SeedSecret(o, name, hosts), key, v), CaKey) = EnsureArray(o, CaKey)
  <2> DEFINE p == SeedSecret(o, name, hosts)
  <2>1. EnsureArray(p, CaKey) = EnsureArray(o, CaKey)
    BY <1>1
  <2> HIDE DEF p
  <2>2. EnsureArray(With(p, key, v), CaKey) = EnsureArray(p, CaKey)
    BY <1>2, WithKeeps
  <2> QED BY <2>1, <2>2 DEF p
<1>3. \E hosts, v : CursorDefaults(o) = With(SeedSecret(o, "CURSOR_API_KEY", hosts), "cursor", v)
  BY DEF CursorDefaults
<1>4. \E hosts, v : CodexDefaults(o) = With(SeedSecret(o, "OPENAI_API_KEY", hosts), "network", v)
  BY DEF CodexDefaults
<1> QED BY <1>2, <1>3, <1>4 DEF CaKey

LEMMA SavedSettings ==
  ASSUME NEW o, NEW p, SettingsFile(Saved(o)), EnsureArray(p, CaKey) = EnsureArray(o, CaKey)
  PROVE  SettingsFile(Saved(p))
BY KindsDiffer DEF SettingsFile, CaKey, Loads

LEMMA LoadedSettings ==
  ASSUME NEW file, SettingsFile(file), Exists(file), ~EditFails(file)
  PROVE  Loads(file) /\ SettingsFile(Saved(file.obj)) 
<1>1. Loads(file)
  BY DEF EditFails
<1>2. EnsureArray(file.obj, CaKey) \in Seq(Range(EnsureArray(file.obj, CaKey)))
  BY <1>1 DEF SettingsFile, CaKey
<1> QED BY <1>1, <1>2, KindsDiffer DEF SettingsFile, CaKey, Loads

LEMMA UserFileTyped ==
  ASSUME NEW file, SettingsFile(file), NEW agent
  PROVE  /\ agent \in AgentNames =>
              /\ SettingsFile(CreateUserSettings(file, agent))
              /\ Exists(CreateUserSettings(file, agent))
         /\ (agent \in Seeded => ~EditFails(file)) => SettingsFile(ApplyAgentDefaults(file, agent))
<1>1. ASSUME agent \in AgentNames, ~Exists(file)
      PROVE  SettingsFile(CreateUserSettings(file, agent)) /\ Exists(CreateUserSettings(file, agent))
  <2>1. PICK v : CreateUserSettings(file, agent) = Saved(With(UserTemplate[agent], "env", v))
    BY <1>1 DEF CreateUserSettings
  <2>2. SettingsFile(Saved(UserTemplate[agent]))
    BY <1>1, FilesAssumption
  <2>3. EnsureArray(With(UserTemplate[agent], "env", v), CaKey) = EnsureArray(UserTemplate[agent], CaKey)
    BY WithKeeps DEF CaKey
  <2> QED BY <2>1, <2>2, <2>3, SavedSettings, KindsDiffer
<1>2. Exists(file) => CreateUserSettings(file, agent) = file
  BY DEF CreateUserSettings
<1>3. ASSUME agent \in Seeded => ~EditFails(file)
      PROVE  SettingsFile(ApplyAgentDefaults(file, agent))
  <2>1. CASE ~(agent \in Seeded /\ Exists(file))
    <3>1. ApplyAgentDefaults(file, agent) = file
      BY <2>1 DEF ApplyAgentDefaults, EditUserSettings, Seeded
    <3> QED BY <3>1
  <2>2. CASE agent \in Seeded /\ Exists(file)
    <3>1. SettingsFile(Saved(file.obj))
      BY <1>3, <2>2, LoadedSettings
    <3>2. \/ ApplyAgentDefaults(file, agent) = Saved(CursorDefaults(file.obj))
          \/ ApplyAgentDefaults(file, agent) = Saved(CodexDefaults(file.obj))
      BY <2>2 DEF ApplyAgentDefaults, EditUserSettings, Seeded
    <3> QED BY <3>1, <3>2, DefaultsKeepBundles, SavedSettings
  <2> QED BY <2>1, <2>2
<1> QED BY <1>1, <1>2, <1>3

LEMMA TokenTyped ==
  ASSUME NEW file, SettingsFile(file), NEW provider, provider # "none" => ~EditFails(file)
  PROVE  /\ SettingsFile(AddSecretProviderToken(file, provider))
         /\ provider \in DOMAIN TokenKey /\ Exists(file) =>
              LET new == AddSecretProviderToken(file, provider)
              IN  Loads(new) /\ ~Absent(new.obj, TokenKey[provider])
<1>1. DOMAIN TokenKey = {"1password", "protonpass"} /\ \A p \in DOMAIN TokenKey : TokenKey[p] # CaKey
  BY DEF TokenKey, CaKey
<1>2. CASE ~(provider \in DOMAIN TokenKey /\ Exists(file))
  <2>1. AddSecretProviderToken(file, provider) = file
    BY <1>2 DEF AddSecretProviderToken, EditUserSettings
  <2> QED BY <1>2, <2>1
<1>3. CASE provider \in DOMAIN TokenKey /\ Exists(file)
  <2> DEFINE p == SetDefault(file.obj, TokenKey[provider], Str(""))
  <2>1. SettingsFile(Saved(file.obj))
    BY <1>1, <1>3, LoadedSettings
  <2>2. Str("") \notin {Lit("null"), Lit("false")}
    <3>1. DOMAIN Str("") = {"str"} /\ DOMAIN Lit("null") = {"lit"} /\ DOMAIN Lit("false") = {"lit"}
      BY DEF Str, Lit
    <3> QED BY <3>1
  <2>3. ~Absent(p, TokenKey[provider]) /\ EnsureArray(p, CaKey) = EnsureArray(file.obj, CaKey)
    <3> DEFINE o   == file.obj
               key == TokenKey[provider]
               def == Str("")
    <3>1. key # CaKey
      BY <1>1, <1>3
    <3> HIDE DEF key, def, o
    <3>2. def \notin {Lit("null"), Lit("false")}
      BY <2>2 DEF def
    <3>3. /\ ~Absent(SetDefault(o, key, def), key)
          /\ \A other : other # key =>
               EnsureArray(SetDefault(o, key, def), other) = EnsureArray(o, other)
      BY <3>2, SetDefaultKeeps
    <3> QED BY <3>1, <3>3 DEF key, def, o
  <2>4. AddSecretProviderToken(file, provider) = Saved(p)
    BY <1>3 DEF AddSecretProviderToken, EditUserSettings
  <2> HIDE DEF p
  <2> QED BY <2>1, <2>3, <2>4, SavedSettings, KindsDiffer
<1> QED BY <1>2, <1>3

(***************************************************************************)
(* The managed block                                                       *)
(***************************************************************************)

LEMMA MarkersDiffer ==
  /\ StartMarker # EndMarker /\ StartMarker # "" /\ EndMarker # ""
  /\ Block[2] # StartMarker /\ Block[2] # EndMarker
  /\ Block = <<StartMarker, Block[2], EndMarker>>
  /\ \A lines : NoFile # Text(lines) /\ LinesOf(Text(lines)) = lines
  /\ LinesOf(NoFile) = << >>
<1>1. \A lines : DOMAIN Text(lines) = {"lines"} /\ Text(lines).lines = lines
  BY DEF Text
<1>2. DOMAIN NoFile = {"file"}
  BY DEF NoFile
<1>3. \A lines : NoFile # Text(lines)
  BY <1>1, <1>2
<1> QED BY <1>1, <1>3 DEF StartMarker, EndMarker, Block, LinesOf

(* The states of RemoveBlock's loop, one more than there are lines.        *)
Reads(read, lines, S) ==
  /\ read[0] = [out |-> << >>, inside |-> FALSE]
  /\ \A k \in 0..Len(lines) : read[k] \in [out : Seq(S), inside : BOOLEAN]
  /\ \A k \in 1..Len(lines) : read[k] = Strip(read[k - 1], lines[k])

LEMMA Reading ==
  ASSUME NEW file, NEW S, LinesOf(file) \in Seq(S)
  PROVE  \E read :
           LET lines == LinesOf(file)
               out   == read[Len(lines)].out
           IN  /\ Reads(read, lines, S)
               /\ RemoveBlock(file) = IF ~HasBlock(file) THEN file
                                      ELSE IF out = << >> THEN NoFile ELSE Text(out)
<1> DEFINE lines == LinesOf(file)
           n     == Len(lines)
           Acc   == [out : Seq(S), inside : BOOLEAN]
           first == [out |-> << >>, inside |-> FALSE]
           next  == [x \in Acc \X (1..n) |-> Strip(x[1], lines[x[2]])]
           read  == CHOOSE g : g = [k \in 0..n |-> IF k = 0 THEN first ELSE Strip(g[k - 1], lines[k])]
<1>1. n \in Nat /\ first \in Acc /\ \A k \in 1..n : lines[k] \in S
  OBVIOUS
<1>2. ASSUME NEW acc \in Acc, NEW line \in S
      PROVE  Strip(acc, line) \in Acc
  <2>1. acc = [out |-> acc.out, inside |-> acc.inside] /\ acc.out \in Seq(S) /\ acc.inside \in BOOLEAN
    OBVIOUS
  <2>2. acc.out # << >> => Front(acc.out) \in Seq(S)
    BY <2>1 DEF Front
  <2>3. CASE acc.inside
    <3>1. Strip(acc, line) = [out |-> acc.out, inside |-> line # EndMarker]
      BY <2>1, <2>3 DEF Strip
    <3> QED BY <2>1, <3>1
  <2>4. CASE ~acc.inside /\ line # StartMarker
    <3>1. Strip(acc, line) = [out |-> Append(acc.out, line), inside |-> acc.inside]
      BY <2>1, <2>4 DEF Strip
    <3>2. Append(acc.out, line) \in Seq(S)
      BY <2>1
    <3> QED BY <2>1, <3>1, <3>2
  <2>5. CASE ~acc.inside /\ line = StartMarker
    <3> DEFINE kept == IF acc.out # << >> /\ Last(acc.out) = "" THEN Front(acc.out) ELSE acc.out
    <3>1. Strip(acc, line) = [out |-> kept, inside |-> TRUE]
      BY <2>5 DEF Strip
    <3>2. kept \in Seq(S)
      BY <2>1, <2>2
    <3> HIDE DEF kept
    <3> QED BY <3>1, <3>2
  <2> QED BY <2>3, <2>4, <2>5
<1>3. RemoveBlock(file) = IF ~HasBlock(file) THEN file
                          ELSE IF read[n].out = << >> THEN NoFile ELSE Text(read[n].out)
  BY DEF RemoveBlock
<1>4. \A x \in Acc, k \in 1..n : next[<<x, k>>] = Strip(x, lines[k])
  OBVIOUS
<1>5. next \in [Acc \X (1..n) -> Acc]
  BY <1>1, <1>2
<1> HIDE DEF next, first, Acc, n, lines
<1>6. PICK f : Iterates(f, Acc, n, first, next)
  BY <1>1, <1>5, Iteration
<1>7. f = [k \in 0..n |-> IF k = 0 THEN first ELSE Strip(f[k - 1], lines[k])]
  <2>1. f \in [0..n -> Acc] /\ f[0] = first /\ \A k \in 1..n : f[k] = next[<<f[k - 1], k>>]
    BY <1>6 DEF Iterates
  <2>2. ASSUME NEW k \in 1..n
        PROVE  f[k] = Strip(f[k - 1], lines[k])
    <3>1. k - 1 \in 0..n
      BY <1>1
    <3>2. f[k - 1] \in Acc
      BY <2>1, <3>1
    <3> QED BY <1>4, <2>1, <3>2
  <2>3. \A k \in 0..n : f[k] = IF k = 0 THEN first ELSE Strip(f[k - 1], lines[k])
    BY <1>1, <2>1, <2>2
  <2> QED BY <2>1, <2>3
<1>8. read = [k \in 0..n |-> IF k = 0 THEN first ELSE Strip(read[k - 1], lines[k])]
  BY <1>7
<1> HIDE DEF read
<1>9. read[0] = first /\ \A k \in 1..n : read[k] = Strip(read[k - 1], lines[k])
  BY <1>1, <1>8
<1> DEFINE good == {m \in 0..n : read[m] \in Acc}
<1>10. 0 \in good
  BY <1>1, <1>9
<1>11. ASSUME NEW m \in 0..(n - 1), m \in good
       PROVE  m + 1 \in good
  <2>1. m + 1 \in 0..n /\ m + 1 \in 1..n /\ (m + 1) - 1 = m
    BY <1>1
  <2> QED BY <1>1, <1>2, <1>9, <1>11, <2>1
<1>12. \A m \in 0..n : read[m] \in Acc
  <2> HIDE DEF good
  <2>1. \A m \in 0..n : m \in good
    BY <1>1, <1>10, <1>11, UpTo
  <2> QED BY <2>1 DEF good
<1> QED BY <1>3, <1>9, <1>12 DEF Reads, first, Acc, n, lines

(* Up to the first start marker RemoveBlock keeps every line.              *)
LEMMA PlainLinesStay ==
  ASSUME NEW S, NEW lines \in Seq(S), NEW read, Reads(read, lines, S),
         NEW n \in 0..Len(lines), \A i \in 1..n : lines[i] # StartMarker
  PROVE  /\ ~read[n].inside /\ Len(read[n].out) = n
         /\ \A i \in 1..n : read[n].out[i] = lines[i]
<1> DEFINE good == {m \in 0..n : /\ ~read[m].inside /\ Len(read[m].out) = m
                                 /\ \A i \in 1..m : read[m].out[i] = lines[i]}
<1>1. n \in Nat /\ Len(lines) \in Nat /\ n <= Len(lines)
  OBVIOUS
<1>2. 0 \in good
  BY <1>1 DEF Reads
<1>3. ASSUME NEW m \in 0..(n - 1), m \in good
      PROVE  m + 1 \in good
  <2>1. /\ m + 1 \in 1..n /\ m + 1 \in 0..n /\ m + 1 \in 1..Len(lines) /\ (m + 1) - 1 = m
        /\ m \in 0..Len(lines)
    BY <1>1
  <2>2. read[m + 1] = Strip(read[m], lines[m + 1]) /\ lines[m + 1] # StartMarker /\ lines[m + 1] \in S
    BY <2>1 DEF Reads
  <2>3. read[m] \in [out : Seq(S), inside : BOOLEAN]
    BY <2>1 DEF Reads
  <2>4. read[m + 1] = [read[m] EXCEPT !.out = Append(@, lines[m + 1])]
    BY <1>3, <2>2 DEF Strip
  <2>5. ~read[m + 1].inside /\ read[m + 1].out = Append(read[m].out, lines[m + 1])
    BY <1>3, <2>3, <2>4
  <2> DEFINE out == read[m].out
             line == lines[m + 1]
  <2>6. out \in Seq(S) /\ Len(out) = m /\ \A i \in 1..m : out[i] = lines[i]
    BY <1>3, <2>3
  <2> HIDE DEF out
  <2>7. Len(Append(out, line)) = m + 1 /\ \A i \in 1..(m + 1) : Append(out, line)[i] = lines[i]
    BY <2>2, <2>6
  <2> QED BY <2>1, <2>5, <2>7 DEF out
<1>4. n \in good
  <2> HIDE DEF good
  <2>1. n \in 0..n
    BY <1>1
  <2> QED BY <1>1, <1>2, <1>3, <2>1, UpTo
<1> QED BY <1>4

LEMMA Appended ==
  ASSUME NEW S, NEW seq \in Seq(S), NEW v \in S
  PROVE  LET longer == Append(seq, v)
         IN  /\ longer \in Seq(S) /\ Len(longer) = Len(seq) + 1 /\ longer # << >>
             /\ longer[Len(seq) + 1] = v /\ Last(longer) = v /\ Front(longer) = seq
             /\ \A i \in 1..Len(seq) : longer[i] = seq[i]
<1> DEFINE longer == Append(seq, v)
           n == Len(seq)
<1>1. /\ longer \in Seq(S) /\ Len(longer) = n + 1 /\ n \in Nat
      /\ longer[n + 1] = v /\ \A i \in 1..n : longer[i] = seq[i]
  OBVIOUS
<1>2. longer # << >>
  BY <1>1
<1>3. seq = [i \in 1..n |-> seq[i]]
  OBVIOUS
<1> HIDE DEF longer, n
<1>4. Last(longer) = v
  BY <1>1 DEF Last
<1>5. Front(longer) = [i \in 1..n |-> longer[i]]
  <2>1. SubSeq(longer, 1, Len(longer) - 1) = [i \in 1..n |-> longer[i]]
    BY <1>1
  <2> QED BY <2>1 DEF Front
<1>6. Front(longer) = seq
  BY <1>1, <1>3, <1>5
<1> QED BY <1>1, <1>2, <1>4, <1>6 DEF longer, n

LEMMA LastFront ==
  ASSUME NEW S, NEW seq \in Seq(S), seq # << >>
  PROVE  Front(seq) \in Seq(S) /\ Last(seq) \in S /\ seq = Append(Front(seq), Last(seq))
         /\ \A i \in DOMAIN Front(seq) : i \in DOMAIN seq /\ Front(seq)[i] = seq[i]
<1> DEFINE n == Len(seq) - 1
<1>1. n \in Nat /\ Len(seq) = n + 1 /\ n + 1 \in 1..Len(seq)
  BY EmptySeq
<1>2. Last(seq) = seq[n + 1] /\ Last(seq) \in S
  BY <1>1 DEF Last
<1>3. /\ Front(seq) \in Seq(S) /\ Len(Front(seq)) = n /\ DOMAIN Front(seq) = 1..n
      /\ \A i \in 1..n : Front(seq)[i] = seq[i]
  BY <1>1 DEF Front
<1> DEFINE front == Front(seq)
           v == Last(seq)
<1> HIDE DEF n, front, v
<1>4. front \in Seq(S) /\ v \in S /\ Len(front) = n /\ v = seq[n + 1]
  BY <1>2, <1>3 DEF front, v
<1>5. /\ Append(front, v) \in Seq(S) /\ Len(Append(front, v)) = n + 1
      /\ \A i \in 1..(n + 1) : Append(front, v)[i] = IF i = n + 1 THEN v ELSE front[i]
  BY <1>1, <1>4
<1>6. \A i \in 1..(n + 1) : Append(front, v)[i] = seq[i]
  BY <1>1, <1>2, <1>3, <1>5 DEF front, v
<1>7. Append(front, v) = seq
  BY <1>1, <1>5, <1>6, SeqEqual
<1>8. \A i \in 1..n : i \in DOMAIN seq
  BY <1>1
<1> QED BY <1>2, <1>3, <1>7, <1>8 DEF front, v

Blank == ""

(* The rules of a file, line by line.                                      *)
Marked(lines) == [i \in DOMAIN lines |-> IF InBlock(lines, i) THEN Blank ELSE lines[i]]

(* After k lines what is kept has the rules of these lines.                *)
LEMMA StripKeepsRules ==
  ASSUME NEW S, Blank \in S, NEW lines \in Seq(S), NEW read, Reads(read, lines, S)
  PROVE  LET out == read[Len(lines)].out
         IN  /\ Without(out, {Blank}) = Without(Marked(lines), {Blank})
             /\ \A i \in DOMAIN out : out[i] # StartMarker
<1> DEFINE n  == Len(lines)
           mm == Marked(lines)
           Sees(k) == \E s \in 1..k : lines[s] = StartMarker /\ \A j \in s..k : lines[j] # EndMarker
           prefix(k) == [i \in 1..k |-> mm[i]]
           Keeps(k) == /\ read[k].inside <=> Sees(k)
                       /\ Without(read[k].out, {Blank}) = Without(prefix(k), {Blank})
                       /\ \A i \in DOMAIN read[k].out : read[k].out[i] # StartMarker
           good == {m \in 0..n : Keeps(m)}
<1>1. n \in Nat /\ n = Len(lines) /\ DOMAIN lines = 1..n /\ \A k \in 1..n : lines[k] \in S
  OBVIOUS
<1>2. DOMAIN mm = 1..n /\ \A i \in 1..n : mm[i] = (IF InBlock(lines, i) THEN Blank ELSE lines[i]) /\ mm[i] \in S
  BY <1>1 DEF Marked, Blank
<1>3. mm = prefix(n)
  BY <1>1 DEF Marked
<1> HIDE DEF n, mm
<1>4. 0 \in good
  <2>1. prefix(0) = << >> /\ read[0].out = << >> /\ ~read[0].inside /\ ~Sees(0) /\ 0 \in 0..n
    BY <1>1 DEF Reads
  <2> QED BY <2>1
<1>5. ASSUME NEW m \in 0..(n - 1), m \in good
      PROVE  m + 1 \in good
  <2> DEFINE line == lines[m + 1]
             acc  == read[m]
             new  == read[m + 1]
  <2>1. m + 1 \in 1..n /\ m + 1 \in 0..n /\ m \in 0..n /\ (m + 1) - 1 = m /\ m \in Nat
    BY <1>1
  <2>2. new = Strip(acc, line)
    BY <1>1, <2>1 DEF Reads
  <2>3. acc \in [out : Seq(S), inside : BOOLEAN] /\ line \in S
    BY <1>1, <2>1 DEF Reads
  <2>4. Keeps(m)
    BY <1>5
  <2>5. InBlock(lines, m + 1) <=> acc.inside \/ line = StartMarker
    <3>1. InBlock(lines, m + 1) <=>
            \E s \in 1..(m + 1) : lines[s] = StartMarker /\ \A k \in s..m : lines[k] # EndMarker
      BY <2>1 DEF InBlock
    <3>2. (m + 1)..m = {} /\ 1..(m + 1) = 1..m \cup {m + 1}
      BY <2>1
    <3> QED BY <2>4, <3>1, <3>2
  <2>6. Sees(m + 1) <=> (Sees(m) \/ line = StartMarker) /\ line # EndMarker
    <3>1. 1..(m + 1) = 1..m \cup {m + 1} /\ (m + 1)..(m + 1) = {m + 1}
      BY <2>1
    <3>2. \A s \in 1..m : s..(m + 1) = s..m \cup {m + 1}
      BY <2>1
    <3>3. \A s \in 1..m : (\A j \in s..(m + 1) : lines[j] # EndMarker)
                            <=> (\A j \in s..m : lines[j] # EndMarker) /\ line # EndMarker
      BY <3>2
    <3> QED BY <3>1, <3>3
  <2>7. Without(prefix(m + 1), {Blank}) =
          IF mm[m + 1] = Blank THEN Without(prefix(m), {Blank})
          ELSE Append(Without(prefix(m), {Blank}), mm[m + 1])
    <3>1. prefix(m) \in Seq(S) /\ Len(prefix(m)) = m
      BY <1>1, <1>2, <2>1
    <3>2. prefix(m + 1) = Append(prefix(m), mm[m + 1])
      <4>1. \A i \in 1..(m + 1) : i # m + 1 => i \in 1..m
        BY <2>1
      <4> QED BY <2>1, <3>1, <4>1
    <3>3. mm[m + 1] \in S
      BY <1>2, <2>1
    <3> DEFINE p == prefix(m)
               v == mm[m + 1]
    <3> HIDE DEF p, v
    <3>4. Without(Append(p, v), {Blank}) = IF v \in {Blank} THEN Without(p, {Blank}) ELSE Append(Without(p, {Blank}), v)
      <4>1. p \in Seq(S) /\ v \in S
        BY <3>1, <3>3 DEF p, v
      <4> QED BY <4>1, WithoutAppend
    <3> QED BY <3>2, <3>4 DEF p, v
  <2>8. mm[m + 1] = IF acc.inside \/ line = StartMarker THEN Blank ELSE line
    BY <1>2, <2>1, <2>5
  <2>9. acc = [out |-> acc.out, inside |-> acc.inside] /\ acc.out \in Seq(S) /\ acc.inside \in BOOLEAN
    BY <2>3
  <2> HIDE DEF line, acc, prefix, Sees
  <2>10. CASE acc.inside
    <3>1. new = [out |-> acc.out, inside |-> line # EndMarker]
      BY <2>2, <2>9, <2>10 DEF Strip
    <3>2. new.inside <=> Sees(m + 1)
      <4> DEFINE b == line # EndMarker
      <4>1. new = [out |-> acc.out, inside |-> b]
        BY <3>1
      <4> HIDE DEF b, new
      <4>3. new.inside = b
        BY <4>1
      <4> USE DEF b
      <4>2. Sees(m)
        BY <2>4, <2>10 DEF acc
      <4> QED BY <2>6, <4>2, <4>3
    <3>3. new.out = acc.out
      BY <3>1
    <3>4. Without(prefix(m + 1), {Blank}) = Without(prefix(m), {Blank})
      BY <2>7, <2>8, <2>10
    <3> QED BY <2>1, <2>4, <3>2, <3>3, <3>4 DEF acc
  <2>11. CASE ~acc.inside /\ line # StartMarker
    <3>1. new = [out |-> Append(acc.out, line), inside |-> acc.inside]
      BY <2>2, <2>9, <2>11 DEF Strip
    <3>2. new.inside <=> Sees(m + 1)
      BY <2>4, <2>6, <2>11, <3>1 DEF acc
    <3>3. Without(Append(acc.out, line), {Blank}) =
            IF line = Blank THEN Without(acc.out, {Blank}) ELSE Append(Without(acc.out, {Blank}), line)
      <4> DEFINE o == acc.out
      <4> HIDE DEF o
      <4>1. o \in Seq(S) /\ line \in S
        BY <2>3, <2>9 DEF o, line
      <4>2. Without(Append(o, line), {Blank}) = IF line \in {Blank} THEN Without(o, {Blank}) ELSE Append(Without(o, {Blank}), line)
        BY <4>1, WithoutAppend
      <4> QED BY <4>2 DEF o
    <3>4. \A i \in DOMAIN Append(acc.out, line) : Append(acc.out, line)[i] # StartMarker
      <4> DEFINE o == acc.out
      <4>1. o \in Seq(S) /\ line \in S /\ \A i \in DOMAIN o : o[i] # StartMarker
        BY <2>3, <2>4, <2>9 DEF acc, line
      <4> HIDE DEF o
      <4>2. \A i \in DOMAIN Append(o, line) : Append(o, line)[i] = line \/ (i \in DOMAIN o /\ Append(o, line)[i] = o[i])
        BY <4>1
      <4> QED BY <2>11, <4>1, <4>2 DEF o
    <3>5. new.out = Append(acc.out, line)
      BY <3>1
    <3>6. mm[m + 1] = line
      BY <2>8, <2>11
    <3>7. Without(new.out, {Blank}) = Without(prefix(m + 1), {Blank})
      BY <2>4, <2>7, <3>3, <3>5, <3>6 DEF acc
    <3> QED BY <2>1, <3>2, <3>4, <3>5, <3>7
  <2>12. CASE ~acc.inside /\ line = StartMarker
    <3> DEFINE o    == acc.out
               kept == IF o # << >> /\ Last(o) = Blank THEN Front(o) ELSE o
    <3>1. new = [out |-> kept, inside |-> TRUE]
      BY <2>2, <2>12 DEF Strip, Blank
    <3>2. new.inside <=> Sees(m + 1)
      <4>1. new.inside
        BY <3>1
      <4>2. line # EndMarker
        BY <2>12, MarkersDiffer
      <4> QED BY <2>6, <2>12, <4>1, <4>2
    <3>3. o \in Seq(S) /\ \A i \in DOMAIN o : o[i] # StartMarker
      BY <2>4, <2>9 DEF acc
    <3> HIDE DEF o
    <3>4. Without(kept, {Blank}) = Without(o, {Blank}) /\ \A i \in DOMAIN kept : kept[i] # StartMarker
      <4>1. CASE o # << >> /\ Last(o) = Blank
        <5> DEFINE f == Front(o)
        <5>1. /\ f \in Seq(S) /\ o = Append(f, Blank)
              /\ \A i \in DOMAIN f : i \in DOMAIN o /\ f[i] = o[i]
          BY <3>3, <4>1, LastFront
        <5>2. kept = f
          BY <4>1
        <5> HIDE DEF f
        <5>3. Without(Append(f, Blank), {Blank}) = Without(f, {Blank})
          BY <5>1, WithoutAppend
        <5> QED BY <3>3, <5>1, <5>2, <5>3
      <4>2. CASE ~(o # << >> /\ Last(o) = Blank)
        BY <3>3, <4>2
      <4> QED BY <4>1, <4>2
    <3>5. new.out = kept
      BY <3>1
    <3>6. Without(prefix(m + 1), {Blank}) = Without(prefix(m), {Blank})
      BY <2>7, <2>8, <2>12
    <3> HIDE DEF kept
    <3>7. Without(new.out, {Blank}) = Without(prefix(m + 1), {Blank})
      BY <2>4, <3>4, <3>5, <3>6 DEF acc, o
    <3> QED BY <2>1, <3>2, <3>4, <3>5, <3>7
  <2> QED BY <2>9, <2>10, <2>11, <2>12
<1>6. n \in good
  <2> HIDE DEF good
  <2>1. n \in 0..n
    BY <1>1
  <2> QED BY <1>1, <1>4, <1>5, <2>1, UpTo
<1> QED BY <1>3, <1>6 DEF n, mm

LEMMA UserRulesAre ==
  ASSUME NEW file
  PROVE  UserRules(file) = Without(Marked(LinesOf(file)), {Blank})
BY DEF UserRules, Marked, Blank

(* Without a start marker no line is in a block.                           *)
LEMMA NothingMarked ==
  ASSUME NEW S, NEW lines \in Seq(S), \A i \in DOMAIN lines : lines[i] # StartMarker
  PROVE  Marked(lines) = lines
<1>1. \A i \in DOMAIN lines : ~InBlock(lines, i)
  BY DEF InBlock
<1>2. Marked(lines) = [i \in DOMAIN lines |-> lines[i]]
  BY <1>1 DEF Marked
<1> QED BY <1>2

LEMMA RemoveKeepsRules ==
  ASSUME NEW file, TextFile(file)
  PROVE  TextFile(RemoveBlock(file)) /\ UserRules(RemoveBlock(file)) = UserRules(file)
<1> DEFINE lines == LinesOf(file)
           S == Range(lines) \cup {Blank}
<1>1. lines \in Seq(S) /\ Blank \in S
  <2>1. lines \in Seq(Range(lines))
    <3>1. CASE file = NoFile
      <4>1. lines = << >>
        BY <3>1, MarkersDiffer
      <4> HIDE DEF lines
      <4> QED BY <4>1
    <3>2. CASE file # NoFile
      BY <3>2 DEF TextFile, LinesOf
    <3> QED BY <3>1, <3>2
  <2> HIDE DEF lines
  <2> QED BY <2>1
<1> HIDE DEF S
<1>2. PICK read :
        /\ Reads(read, lines, S)
        /\ RemoveBlock(file) = IF ~HasBlock(file) THEN file
                               ELSE IF read[Len(lines)].out = << >> THEN NoFile
                                    ELSE Text(read[Len(lines)].out)
  BY <1>1, Reading
<1> DEFINE out == read[Len(lines)].out
<1> HIDE DEF lines
<1>3. out \in Seq(S)
  <2>1. Len(lines) \in 0..Len(lines)
    BY <1>1
  <2> QED BY <1>2, <2>1 DEF Reads
<1>4. /\ Without(out, {Blank}) = Without(Marked(lines), {Blank})
      /\ \A i \in DOMAIN out : out[i] # StartMarker
  BY <1>1, <1>2, StripKeepsRules
<1> HIDE DEF out
<1>5. CASE ~HasBlock(file)
  BY <1>2, <1>5
<1>6. CASE HasBlock(file)
  <2> DEFINE new == RemoveBlock(file)
  <2>1. new = (IF out = << >> THEN NoFile ELSE Text(out))
    BY <1>2, <1>6 DEF out
  <2> HIDE DEF new
  <2>2. LinesOf(new) = out
    BY <2>1, MarkersDiffer
  <2>3. UserRules(new) = Without(Marked(out), {Blank})
    BY <2>2, UserRulesAre
  <2>4. Marked(out) = out
    BY <1>3, <1>4, NothingMarked
  <2>5. UserRules(file) = Without(Marked(lines), {Blank})
    BY UserRulesAre DEF lines
  <2>6. out \in Seq(Range(out))
    BY <1>3 DEF Range
  <2>7. TextFile(new)
    BY <2>1, <2>6 DEF TextFile, Text
  <2> QED BY <1>4, <2>3, <2>4, <2>5, <2>7 DEF new
<1> QED BY <1>5, <1>6

(* A new block stands below the rules, and a blank line, if there are any. *)
SetOff(lines) == IF lines = << >> THEN lines ELSE Append(lines, "")

LEMMA BlockAdded ==
  ASSUME NEW S, NEW base \in Seq(S)
  PROVE  LET b1 == Append(base, StartMarker)
             b2 == Append(b1, Block[2])
             b3 == Append(b2, EndMarker)
         IN  base \o Block = b3
<1> DEFINE T == S \cup {StartMarker, Block[2], EndMarker}
           a == StartMarker
           b == Block[2]
           c == EndMarker
<1>1. Block = <<a, b, c>> /\ a \in T /\ b \in T /\ c \in T
  BY MarkersDiffer
<1>2. base \in Seq(T)
  OBVIOUS
<1> HIDE DEF T, a, b, c
<1>3. base \o <<a, b, c>> = Append(Append(Append(base, a), b), c)
  BY <1>1, <1>2
<1> QED BY <1>1, <1>3 DEF a, b, c

LEMMA BlockMarked ==
  ASSUME NEW S, Blank \in S, NEW base \in Seq(S), \A i \in DOMAIN base : base[i] # StartMarker
  PROVE  /\ base \o Block \in Seq(S \cup {StartMarker, Block[2], EndMarker})
         /\ Without(Marked(base \o Block), {Blank}) = Without(base, {Blank})
<1> DEFINE T   == S \cup {StartMarker, Block[2], EndMarker}
           n   == Len(base)
           b1  == Append(base, StartMarker)
           b2  == Append(b1, Block[2])
           new == Append(b2, EndMarker)
           m1  == Append(base, Blank)
           m2  == Append(m1, Blank)
           m3  == Append(m2, Blank)
<1>1. base \o Block = new
  BY BlockAdded
<1>2. base \in Seq(T) /\ StartMarker \in T /\ Block[2] \in T /\ EndMarker \in T
  OBVIOUS
<1> HIDE DEF T
<1>3. /\ new \in Seq(T) /\ Len(new) = n + 3 /\ n \in Nat
      /\ \A i \in 1..n : new[i] = base[i]
      /\ new[n + 1] = StartMarker /\ new[n + 2] = Block[2] /\ new[n + 3] = EndMarker
  BY <1>2
<1>4. /\ m3 \in Seq(S) /\ Len(m3) = n + 3 /\ m1 \in Seq(S) /\ m2 \in Seq(S)
      /\ \A i \in 1..n : m3[i] = base[i]
      /\ m3[n + 1] = Blank /\ m3[n + 2] = Blank /\ m3[n + 3] = Blank
  OBVIOUS
<1>5. DOMAIN base = 1..n
  OBVIOUS
<1> HIDE DEF n, new, m1, m2, m3
<1>6. \A i \in 1..n : ~InBlock(new, i)
  BY <1>3, <1>5 DEF InBlock
<1>7. InBlock(new, n + 1) /\ InBlock(new, n + 2) /\ InBlock(new, n + 3)
  <2>1. (n + 1)..((n + 1) - 1) = {} /\ (n + 1)..((n + 2) - 1) = {n + 1}
        /\ (n + 1)..((n + 3) - 1) = {n + 1, n + 2}
    BY <1>3
  <2>2. n + 1 \in 1..(n + 1) /\ n + 1 \in 1..(n + 2) /\ n + 1 \in 1..(n + 3)
    BY <1>3
  <2>3. new[n + 1] = StartMarker /\ new[n + 1] # EndMarker /\ new[n + 2] # EndMarker
    BY <1>3, MarkersDiffer
  <2> QED BY <2>1, <2>2, <2>3 DEF InBlock
<1>8. Marked(new) = m3
  <2>1. DOMAIN new = 1..(n + 3) /\ DOMAIN m3 = 1..(n + 3)
    BY <1>3, <1>4
  <2>2. \A i \in 1..(n + 3) : i \in 1..n \/ i = n + 1 \/ i = n + 2 \/ i = n + 3
    BY <1>3
  <2>3. \A i \in 1..(n + 3) : (IF InBlock(new, i) THEN Blank ELSE new[i]) = m3[i]
    BY <1>3, <1>4, <1>6, <1>7, <2>2
  <2>4. Marked(new) = [i \in 1..(n + 3) |-> IF InBlock(new, i) THEN Blank ELSE new[i]]
    BY <2>1 DEF Marked, Blank
  <2>5. m3 = [i \in 1..(n + 3) |-> m3[i]]
    BY <1>4, <2>1
  <2> QED BY <2>3, <2>4, <2>5
<1>9. Without(m3, {Blank}) = Without(base, {Blank})
  <2>1. Without(m1, {Blank}) = Without(base, {Blank})
    BY WithoutAppend DEF m1
  <2>2. Without(m2, {Blank}) = Without(m1, {Blank})
    BY <1>4, WithoutAppend DEF m2
  <2>3. Without(m3, {Blank}) = Without(m2, {Blank})
    BY <1>4, WithoutAppend DEF m3
  <2> QED BY <2>1, <2>2, <2>3
<1> QED BY <1>1, <1>3, <1>8, <1>9 DEF T

LEMMA UpdateKeepsRules ==
  ASSUME NEW file, TextFile(file)
  PROVE  /\ TextFile(Update(file)) /\ UserRules(Update(file)) = UserRules(file)
         /\ LinesOf(Update(file)) = IF HasBlock(file) THEN LinesOf(file)
                                    ELSE SetOff(LinesOf(file)) \o Block
<1> DEFINE lines == LinesOf(file)
           S     == Range(lines) \cup {Blank}
           base  == SetOff(lines)
           new   == Update(file)
<1>1. CASE HasBlock(file)
  BY <1>1 DEF Update
<1>2. CASE ~HasBlock(file)
  <2>1. new = Text(base \o Block)
    BY <1>2 DEF Update, SetOff
  <2>2. lines \in Seq(S) /\ Blank \in S
    <3>1. lines \in Seq(Range(lines))
      <4>1. CASE file = NoFile
        <5>1. lines = << >>
          BY <4>1, MarkersDiffer
        <5> HIDE DEF lines
        <5> QED BY <5>1
      <4>2. CASE file # NoFile
        BY <4>2 DEF TextFile, LinesOf
      <4> QED BY <4>1, <4>2
    <3> HIDE DEF lines
    <3> QED BY <3>1
  <2>3. \A i \in DOMAIN lines : lines[i] # StartMarker
    BY <1>2 DEF HasBlock, Contains
  <2> HIDE DEF lines, S
  <2>4. base = IF lines = << >> THEN lines ELSE Append(lines, Blank)
    BY DEF SetOff, Blank
  <2>5. /\ base \in Seq(S) /\ \A i \in DOMAIN base : base[i] # StartMarker
        /\ Without(base, {Blank}) = Without(lines, {Blank})
    <3>1. CASE lines = << >>
      BY <2>2, <2>3, <2>4, <3>1
    <3>2. CASE lines # << >>
      <4>1. base = Append(lines, Blank)
        BY <2>4, <3>2
      <4>2. base \in Seq(S) /\ \A i \in DOMAIN base : base[i] = Blank \/ (i \in DOMAIN lines /\ base[i] = lines[i])
        BY <2>2, <4>1
      <4>3. Blank # StartMarker
        BY MarkersDiffer DEF Blank
      <4>4. Without(base, {Blank}) = Without(lines, {Blank})
        BY <2>2, <4>1, WithoutAppend
      <4> QED BY <2>3, <4>2, <4>3, <4>4
    <3> QED BY <3>1, <3>2
  <2> HIDE DEF base
  <2> DEFINE all == base \o Block
             T == S \cup {StartMarker, Block[2], EndMarker}
  <2>6. /\ all \in Seq(T)
        /\ Without(Marked(all), {Blank}) = Without(base, {Blank})
    BY <2>2, <2>5, BlockMarked
  <2> HIDE DEF all, T
  <2>7. new = Text(all) /\ LinesOf(new) = all
    BY <2>1, MarkersDiffer DEF all
  <2> HIDE DEF new
  <2>8. all \in Seq(Range(all))
    BY <2>6 DEF Range
  <2>9. TextFile(new)
    BY <2>7, <2>8 DEF TextFile, Text
  <2>10. UserRules(new) = Without(Marked(all), {Blank})
    BY <2>7, UserRulesAre
  <2>11. UserRules(file) = Without(lines, {Blank})
    <3>1. UserRules(file) = Without(Marked(lines), {Blank})
      BY UserRulesAre DEF lines
    <3> QED BY <2>2, <2>3, <3>1, NothingMarked
  <2> QED BY <1>2, <2>5, <2>6, <2>7, <2>9, <2>10, <2>11 DEF new, all, base, lines
<1> QED BY <1>1, <1>2

LEMMA ExceptInside ==
  ASSUME NEW out, NEW i, NEW b
  PROVE  [[out |-> out, inside |-> i] EXCEPT !.inside = b] = [out |-> out, inside |-> b]
OBVIOUS

LEMMA StripCases ==
  ASSUME NEW out, NEW line
  PROVE  /\ line # EndMarker =>
              Strip([out |-> out, inside |-> TRUE], line) = [out |-> out, inside |-> TRUE]
         /\ Strip([out |-> out, inside |-> TRUE], EndMarker) = [out |-> out, inside |-> FALSE]
         /\ Strip([out |-> out, inside |-> FALSE], StartMarker) =
              [out |-> IF out # << >> /\ Last(out) = "" THEN Front(out) ELSE out, inside |-> TRUE]
<1> DEFINE in == [out |-> out, inside |-> TRUE]
           off == [out |-> out, inside |-> FALSE]
<1>1. in.inside /\ ~off.inside /\ off.out = out
  OBVIOUS
<1>2. \A b : [in EXCEPT !.inside = b] = [out |-> out, inside |-> b]
  BY ExceptInside
<1> HIDE DEF in, off
<1>3. ASSUME NEW v
      PROVE  Strip(in, v) = [in EXCEPT !.inside = v # EndMarker]
  BY <1>1 DEF Strip
<1>4. ASSUME NEW v
      PROVE  Strip(in, v) = [out |-> out, inside |-> v # EndMarker]
  BY <1>2, <1>3, Zenon
<1>5. Strip(off, StartMarker) =
        [out |-> IF off.out # << >> /\ Last(off.out) = "" THEN Front(off.out) ELSE off.out, inside |-> TRUE]
  BY <1>1 DEF Strip
<1>6. line # EndMarker => [out |-> out, inside |-> line # EndMarker] = [out |-> out, inside |-> TRUE]
  OBVIOUS
<1>7. [out |-> out, inside |-> EndMarker # EndMarker] = [out |-> out, inside |-> FALSE]
  OBVIOUS
<1>8. line # EndMarker => Strip(in, line) = [out |-> out, inside |-> TRUE]
  BY <1>4, <1>6, Zenon
<1>9. Strip(in, EndMarker) = [out |-> out, inside |-> FALSE]
  BY <1>4, <1>7, Zenon
<1> QED BY <1>1, <1>5, <1>8, <1>9 DEF in, off

(* Removing the block from rules it was added to gives the rules again.    *)
LEMMA RemoveUndoes ==
  ASSUME NEW S, NEW own \in Seq(S), \A i \in DOMAIN own : own[i] # StartMarker,
         NEW file, LinesOf(file) = SetOff(own) \o Block
  PROVE  HasBlock(file) /\ LinesOf(RemoveBlock(file)) = own
<1> DEFINE R    == S \cup {Blank}
           T    == R \cup {StartMarker, Block[2], EndMarker}
           base == SetOff(own)
           n    == Len(base)
           b1  == Append(base, StartMarker)
           b2  == Append(b1, Block[2])
           all == Append(b2, EndMarker)
<1>1. own \in Seq(R) /\ Blank \in R
  OBVIOUS
<1>2. base = IF own = << >> THEN own ELSE Append(own, Blank)
  BY DEF SetOff, Blank
<1>3. Blank # StartMarker
  BY MarkersDiffer DEF Blank
<1> HIDE DEF R
<1>4. /\ base \in Seq(R) /\ \A i \in DOMAIN base : base[i] # StartMarker
      /\ base = << >> => own = << >>
      /\ base # << >> => own # << >> /\ base = Append(own, Blank)
  <2>1. CASE own = << >>
    BY <1>1, <1>2, <2>1
  <2>2. CASE own # << >>
    <3>1. base = Append(own, Blank)
      BY <1>2, <2>2
    <3>2. base \in Seq(R) /\ base # << >> /\ \A i \in DOMAIN base : base[i] = Blank \/ (i \in DOMAIN own /\ base[i] = own[i])
      BY <1>1, <3>1
    <3> QED BY <1>3, <2>2, <3>1, <3>2
  <2> QED BY <2>1, <2>2
<1> HIDE DEF base
<1>5. LinesOf(file) = all
  BY <1>4, BlockAdded DEF base
<1>6. base \in Seq(T) /\ StartMarker \in T /\ Block[2] \in T /\ EndMarker \in T
  BY <1>4
<1> HIDE DEF T
<1>7. /\ all \in Seq(T) /\ Len(all) = n + 3 /\ n \in Nat
      /\ \A i \in 1..n : all[i] = base[i]
      /\ all[n + 1] = StartMarker /\ all[n + 2] = Block[2] /\ all[n + 3] = EndMarker
  BY <1>6
<1>8. DOMAIN base = 1..n /\ base = [i \in 1..n |-> base[i]]
  BY <1>4
<1> HIDE DEF all, n
<1>9. HasBlock(file)
  <2>1. n + 1 \in DOMAIN all
    BY <1>7
  <2> QED BY <1>5, <1>7, <2>1 DEF HasBlock, Contains
<1>10. PICK read :
        /\ Reads(read, all, T)
        /\ RemoveBlock(file) = IF ~HasBlock(file) THEN file
                               ELSE IF read[Len(all)].out = << >> THEN NoFile
                                    ELSE Text(read[Len(all)].out)
  BY <1>5, <1>7, Reading
<1>11. n \in 0..Len(all) /\ n + 1 \in 1..Len(all) /\ n + 2 \in 1..Len(all) /\ n + 3 \in 1..Len(all)
       /\ (n + 1) - 1 = n /\ (n + 2) - 1 = n + 1 /\ (n + 3) - 1 = n + 2
  BY <1>7
<1>12. /\ ~read[n].inside /\ Len(read[n].out) = n
       /\ \A i \in 1..n : read[n].out[i] = all[i]
  <2>1. \A i \in 1..n : all[i] # StartMarker
    BY <1>4, <1>7, <1>8
  <2> QED BY <1>7, <1>10, <1>11, <2>1, PlainLinesStay
<1>13. read[n] \in [out : Seq(T), inside : BOOLEAN]
  BY <1>10, <1>11 DEF Reads
<1>14. read[n] = [out |-> base, inside |-> FALSE]
  <2>1. read[n].out = base
    <3>1. read[n].out \in Seq(T) /\ \A i \in 1..n : read[n].out[i] = base[i]
      BY <1>7, <1>12, <1>13
    <3> QED BY <1>6, <1>12, <3>1, SeqEqual DEF n
  <2> QED BY <1>12, <1>13, <2>1
<1>15. read[n + 1] = [out |-> own, inside |-> TRUE]
  <2>1. read[n + 1] = Strip(read[n], StartMarker)
    BY <1>7, <1>10, <1>11 DEF Reads
  <2>2. read[n + 1] = [out |-> IF base # << >> /\ Last(base) = "" THEN Front(base) ELSE base, inside |-> TRUE]
    BY <1>14, <2>1, StripCases
  <2>3. (IF base # << >> /\ Last(base) = "" THEN Front(base) ELSE base) = own
    <3>1. CASE base = << >>
      BY <1>4, <3>1
    <3>2. CASE base # << >>
      <4>1. base = Append(own, Blank)
        BY <1>4, <3>2
      <4>2. Last(base) = Blank /\ Front(base) = own
        BY <1>1, <4>1, Appended
      <4> QED BY <3>2, <4>2 DEF Blank
    <3> QED BY <3>1, <3>2
  <2> QED BY <2>2, <2>3
<1>16. read[n + 2] = [out |-> own, inside |-> TRUE]
  <2>1. read[n + 2] = Strip(read[n + 1], Block[2])
    BY <1>7, <1>10, <1>11 DEF Reads
  <2> QED BY <1>15, <2>1, MarkersDiffer, StripCases
<1>17. read[n + 3] = [out |-> own, inside |-> FALSE]
  <2>1. read[n + 3] = Strip(read[n + 2], EndMarker)
    BY <1>7, <1>10, <1>11 DEF Reads
  <2> QED BY <1>16, <2>1, MarkersDiffer, StripCases
<1>18. RemoveBlock(file) = IF own = << >> THEN NoFile ELSE Text(own)
  BY <1>7, <1>9, <1>10, <1>17
<1> QED BY <1>9, <1>18, MarkersDiffer

(***************************************************************************)
(* What a step does                                                        *)
(***************************************************************************)

LEMMA GenFiles ==
  ASSUME NEW k \in 1..18
  PROVE  /\ k <= 5 => GenStep(k) = <<"copy", TemplateOrder[k]>>
         /\ k = 6 => GenStep(k) = <<"stacks", "devcontainer.json">>
         /\ k = 7 => GenStep(k) = <<"stacks", "devbox.stack.json">>
         /\ k = 8 => GenStep(k) = <<"tools", "devbox.tools.json">>
         /\ k = 9 => GenStep(k) = <<"devbox", "Dockerfile.app">>
         /\ k = 10 => GenStep(k) = <<"load", "compose-all.yml">>
         /\ k = 11 => GenStep(k) = <<"agent", "devcontainer.json">>
         /\ k = 12 => GenStep(k) = <<"agent", "Dockerfile.app">>
         /\ k = 13 => GenStep(k) = <<"agent", "app-user-init.sh">>
         /\ k = 14 => GenStep(k) = <<"agent", "compose-proxy.yml">>
         /\ k = 15 => GenStep(k) = <<"proxy", "compose-proxy.yml">>
         /\ k = 16 => GenStep(k) = <<"save", "compose-all.yml">>
         /\ k = 17 => GenStep(k) = <<"ide", "devcontainer.json">>
         /\ k = 18 => GenStep(k) = <<"plugins", "devcontainer.json">>
         /\ GenStep(k)[2] \in AllFiles
         /\ GenStep(k)[2] = "devbox.tools.json" <=> k = 8
<1>1. k <= 5 => GenStep(k) = <<"copy", TemplateOrder[k]>>
  BY DEF GenStep
<1>2. /\ k = 6 => GenStep(k) = <<"stacks", "devcontainer.json">>
      /\ k = 7 => GenStep(k) = <<"stacks", "devbox.stack.json">>
      /\ k = 8 => GenStep(k) = <<"tools", "devbox.tools.json">>
      /\ k = 9 => GenStep(k) = <<"devbox", "Dockerfile.app">>
      /\ k = 10 => GenStep(k) = <<"load", "compose-all.yml">>
      /\ k = 11 => GenStep(k) = <<"agent", "devcontainer.json">>
      /\ k = 12 => GenStep(k) = <<"agent", "Dockerfile.app">>
  BY DEF GenStep, LaterSteps
<1>3. /\ k = 13 => GenStep(k) = <<"agent", "app-user-init.sh">>
      /\ k = 14 => GenStep(k) = <<"agent", "compose-proxy.yml">>
      /\ k = 15 => GenStep(k) = <<"proxy", "compose-proxy.yml">>
      /\ k = 16 => GenStep(k) = <<"save", "compose-all.yml">>
      /\ k = 17 => GenStep(k) = <<"ide", "devcontainer.json">>
      /\ k = 18 => GenStep(k) = <<"plugins", "devcontainer.json">>
  BY DEF GenStep, LaterSteps
<1>4. k <= 5 => TemplateOrder[k] \in AllFiles /\ TemplateOrder[k] # "devbox.tools.json"
  <2>1. AllFiles = {"Dockerfile.app", "compose-all.yml", "devcontainer.json", "compose-proxy.yml",
                    "app-user-init.sh", "devbox.stack.json", "devbox.tools.json"}
    BY DEF AllFiles, GeneratedFiles, Template
  <2>2. k <= 5 => k \in {1, 2, 3, 4, 5}
    OBVIOUS
  <2> QED BY <2>1, <2>2 DEF TemplateOrder
<1>5. {"Dockerfile.app", "compose-all.yml", "devcontainer.json", "compose-proxy.yml",
       "app-user-init.sh", "devbox.stack.json", "devbox.tools.json"} \subseteq AllFiles
  BY DEF AllFiles, GeneratedFiles, Template
<1>6. GenStep(k)[2] \in AllFiles
  <2>1. CASE k <= 5
    BY <1>1, <1>4, <2>1
  <2>2. CASE k > 5 /\ k <= 12
    BY <1>2, <1>5, <2>2
  <2>3. CASE k > 12
    BY <1>3, <1>5, <2>3
  <2> QED BY <2>1, <2>2, <2>3
<1>7. GenStep(k)[2] = "devbox.tools.json" <=> k = 8
  <2>1. CASE k <= 5
    BY <1>1, <1>4, <2>1
  <2>2. CASE k > 5 /\ k <= 12
    BY <1>2, <2>2
  <2>3. CASE k > 12
    BY <1>3, <2>3
  <2> QED BY <2>1, <2>2, <2>3
<1> QED BY <1>1, <1>2, <1>3, <1>6, <1>7

(* The generator takes its step k and writes a file,                       *)
Makes(k) ==
  /\ Advances /\ Generates(Whose) /\ Gen + 1 = k /\ k \in 1..Gens(Whose) /\ k \notin {10, 16}
  /\ tree' = [tree EXCEPT ![GenStep(k)[2]] = Generated(GenStep(k), tree, Whose, Bundles)]
  /\ k = 15 => ValidSecretProvider(Whose.provider) /\ Range(Bundles) \subseteq GoodBundles
  /\ k < 17 => doc' = doc
  /\ UNCHANGED <<user, host, project, local, ignore, history>>

(* reads compose-all.yml,                                                  *)
Reads10 ==
  /\ Advances /\ Generates(Whose) /\ Gen + 1 = 10
  /\ doc' = MergeAgentEnvironment(tree["compose-all.yml"].compose, EnvEntries(Whose.stacks))
  /\ UNCHANGED <<files, history>>

(* or writes what it has made of it.                                       *)
Saves16 ==
  /\ Advances /\ Generates(Whose) /\ Gen + 1 = 16
  /\ tree' = [tree EXCEPT !["compose-all.yml"] = Compose(FinishedCompose(doc, Whose))]
  /\ UNCHANGED <<user, host, project, local, ignore, history>>

(* The settings come first, the block last.                                *)
Settings ==
  /\ Advances /\ (~Generates(Whose) \/ (Whose.command = "init" /\ Pos < 6))
  /\ UNCHANGED <<tree, ignore, history>>

Blocks ==
  /\ Advances /\ Whose.command = "init" /\ Gen = Gens(Whose) /\ Idle'
  /\ ignore' = Managed /\ chosen = Whose
  /\ UNCHANGED <<user, host, project, local, tree, history>>

(* A command that ends early may leave the file cut off that it writes.    *)
Ends ==
  /\ ~Idle /\ Whose' = NoOptions
  /\ \/ tree' = tree
     \/ \E f \in AllFiles :
          /\ tree' = [tree EXCEPT ![f] = CutOff]
          /\ f = "devbox.tools.json" => tree[f] = NotThere
          /\ UNCHANGED <<user, host, project, local, ignore, history>>

LEMMA CommandCases ==
  ASSUME RunInv, Command, RunInv'
  PROVE  (\E k : Makes(k)) \/ Reads10 \/ Saves16 \/ Settings \/ Blocks \/ Ends
<1>1. ASSUME Quit, ~Idle
      PROVE  Whose' = NoOptions
  BY <1>1, QuitLeaves
<1>2. ASSUME Proceed, ~Idle
      PROVE  Advances
  BY <1>2, ProceedAdvances
<1>3. CASE UserStep
  <2>1. /\ At("create") \/ At("defaults") \/ At("token")
        /\ Proceed \/ Quit
        /\ UNCHANGED <<tree, ignore, history>>
    BY <1>3 DEF UserStep, CreateUserSettingsStep, ApplyAgentDefaultsStep, AddSecretProviderTokenStep,
      WriteUser, CutShort
  <2>2. ~Idle
    BY <2>1 DEF At
  <2>3. Whose.command = "init" /\ Pos < 6
    BY <2>1, <2>2, Places, Walk
  <2> QED BY <1>1, <1>2, <2>1, <2>2, <2>3 DEF Settings, Ends
<1>4. CASE EnsureHostConfigPathsStep
  <2>1. At("paths") /\ (Proceed \/ Quit) /\ UNCHANGED <<tree, ignore, history>>
    BY <1>4 DEF EnsureHostConfigPathsStep, CutShort
  <2>2. ~Idle
    BY <2>1 DEF At
  <2>3. Whose.command = "init" /\ Pos < 6
    BY <2>1, <2>2, Places, Walk
  <2> QED BY <1>1, <1>2, <2>1, <2>2, <2>3 DEF Settings, Ends
<1>5. CASE WriteProjectSettings \/ WriteLocalSettings
  <2>1. /\ At("project") \/ At("local")
        /\ Proceed \/ Quit
        /\ UNCHANGED <<tree, ignore, history>>
    BY <1>5 DEF WriteProjectSettings, WriteLocalSettings, CutShort
  <2>2. ~Idle
    BY <2>1 DEF At
  <2>3. ~Generates(Whose) \/ (Whose.command = "init" /\ Pos < 6)
    BY <2>1, <2>2, Places, Walk
  <2> QED BY <1>1, <1>2, <2>1, <2>2, <2>3 DEF Settings, Ends
<1>6. CASE EditUserSettingsFails \/ GenerateFails \/ NoSettingsFile \/ Interrupt
  <2>1. ~Idle /\ Quit /\ tree' = tree
    BY <1>6 DEF EditUserSettingsFails, GenerateFails, NoSettingsFile, Interrupt, ProxyEditFails,
      Interruptible, At, files
  <2> QED BY <1>1, <2>1 DEF Ends
<1>7. CASE GenerateStep
  <2>1. /\ ~Idle /\ Head(todo)[1] \in GenVerb \ {"load", "save"} /\ ~ProxyEditFails
        /\ WriteTree(Head(todo)[2], Generated(Head(todo), tree, chosen, Bundles))
        /\ UNCHANGED <<user, host, project, local, ignore, history>>
    BY <1>7 DEF GenerateStep, At, GenVerb
  <2>2. /\ Whose = chosen /\ Generates(chosen) /\ Gen \in 0..(Gens(chosen) - 1)
        /\ Head(todo) = GenStep(Gen + 1) /\ chosen.command \in Commands
    BY <2>1, Walk, Places
  <2>3. Gens(chosen) \in {17, 18} /\ Total(chosen) \in Nat /\ Total(chosen) >= Offset(chosen) + Gens(chosen)
    BY <2>2, StepsAre
  <2> DEFINE k == Gen + 1
             f == GenStep(k)[2]
  <2>4. k \in 1..Gens(chosen) /\ k \in 1..18
    BY <2>2, <2>3
  <2>5. k \notin {10, 16} /\ f \in AllFiles /\ (f = "devbox.tools.json" <=> k = 8)
    BY <2>1, <2>2, <2>4, GenVerbs, GenFiles
  <2>6. CASE tree' = [tree EXCEPT ![f] = Generated(GenStep(k), tree, chosen, Bundles)] /\ Proceed
    <3>1. Advances
      BY <1>2, <2>1, <2>6
    <3>2. k = 15 => ValidSecretProvider(chosen.provider) /\ Range(Bundles) \subseteq GoodBundles
      <4>1. k = 15 => At("proxy")
        BY <2>1, <2>2, <2>4, GenVerbs DEF At
      <4> QED BY <2>1, <4>1 DEF ProxyEditFails
    <3>3. k < 17 => doc' = doc
      <4> DEFINE left == Len(todo)
      <4>1. Gen = Pos - Offset(chosen) /\ Pos = Total(chosen) - left /\ left \in Nat /\ Offset(chosen) \in Nat
        BY <2>1, <2>2, Walk DEF Gen, Pos, Offset
      <4>2. (left = 1 \/ doc' = doc)
        BY <2>6 DEF Proceed
      <4> HIDE DEF left
      <4>3. k < 17 => left # 1
        BY <2>2, <2>3, <4>1
      <4> QED BY <4>2, <4>3
    <3>4. Makes(k)
      BY <2>1, <2>2, <2>4, <2>5, <2>6, <3>1, <3>2, <3>3 DEF Makes
    <3> HIDE DEF k
    <3> QED BY <3>4
  <2>7. CASE tree' = [tree EXCEPT ![f] = CutOff] /\ CutShort
    <3>1. Whose' = NoOptions
      BY <1>1, <2>1, <2>7 DEF CutShort
    <3>2. f = "devbox.tools.json" => tree[f] = NotThere
      <4>1. k = 8 => At("tools")
        BY <2>1, <2>2, <2>4, GenVerbs DEF At
      <4>2. At("tools") => tree["devbox.tools.json"] = NotThere
        <5>1. At("tools") => ~At("create") /\ ~At("defaults") /\ ~At("token") /\ ~At("local") /\ ~At("proxy")
          BY DEF At
        <5> QED BY <2>7, <5>1 DEF CutShort, Writes
      <4> QED BY <2>5, <4>1, <4>2
    <3> HIDE DEF f
    <3> QED BY <2>1, <2>5, <2>7, <3>1, <3>2 DEF Ends
  <2> QED BY <2>1, <2>2, <2>6, <2>7 DEF WriteTree
<1>8. CASE LoadCompose
  <2>1. /\ ~Idle /\ Head(todo)[1] = "load" /\ Head(todo)[1] \in GenVerb
        /\ doc' = MergeAgentEnvironment(tree["compose-all.yml"].compose, EnvEntries(chosen.stacks))
        /\ todo' = Tail(todo) /\ chosen' = chosen /\ done' = done
        /\ UNCHANGED <<files, history>>
    BY <1>8 DEF LoadCompose, At, GenVerb
  <2>2. /\ Whose = chosen /\ Generates(chosen) /\ Gen \in 0..(Gens(chosen) - 1)
        /\ Head(todo) = GenStep(Gen + 1) /\ chosen.command \in Commands
    BY <2>1, Walk, Places
  <2>3. Gens(chosen) \in {17, 18}
    BY <2>2, StepsAre
  <2>4. Gen + 1 = 10
    <3>1. Gen + 1 \in 1..18
      BY <2>2, <2>3
    <3>2. GenStep(Gen + 1)[1] = "load"
      BY <2>1, <2>2
    <3> DEFINE k == Gen + 1
    <3>3. k \in 1..18 /\ GenStep(k)[1] = "load"
      BY <3>1, <3>2
    <3> HIDE DEF k
    <3>4. k = 10
      BY <3>3, GenVerbs
    <3> QED BY <3>4 DEF k
  <2>5. Advances
    <3>1. ~Idle' /\ Whose' = Whose
      <4>1. chosen # NoOptions /\ (Idle' <=> chosen' = NoOptions)
        BY <2>1, <2>2 DEF RunInv
      <4> QED BY <2>1, <2>2, <4>1 DEF Whose
    <3>2. Len(Tail(todo)) = Len(todo) - 1
      BY <2>1, <2>2 DEF RunInv, Idle
    <3>3. Total(chosen) \in Nat /\ Len(todo) \in Nat
      BY <2>1, Walk
    <3>4. Pos = Total(chosen) - Len(todo) /\ Pos' = Total(chosen) - Len(Tail(todo))
      BY <2>1, <2>2, <3>1 DEF Pos
    <3> QED BY <2>1, <3>1, <3>2, <3>3, <3>4 DEF Advances
  <2> QED BY <2>1, <2>2, <2>4, <2>5 DEF Reads10
<1>9. CASE SaveCompose
  <2>1. /\ ~Idle /\ Head(todo)[1] = "save" /\ Head(todo)[1] \in GenVerb
        /\ WriteTree("compose-all.yml", Compose(FinishedCompose(doc, chosen)))
        /\ UNCHANGED <<user, host, project, local, ignore, history>>
    BY <1>9 DEF SaveCompose, At, GenVerb
  <2>2. /\ Whose = chosen /\ Generates(chosen) /\ Gen \in 0..(Gens(chosen) - 1)
        /\ Head(todo) = GenStep(Gen + 1) /\ chosen.command \in Commands
    BY <2>1, Walk, Places
  <2>3. Gens(chosen) \in {17, 18}
    BY <2>2, StepsAre
  <2>4. Gen + 1 = 16
    <3>1. Gen + 1 \in 1..18
      BY <2>2, <2>3
    <3> QED BY <2>1, <2>2, <3>1, GenVerbs
  <2>5. "compose-all.yml" \in AllFiles
    BY DEF AllFiles, GeneratedFiles, Template
  <2>6. CASE tree' = [tree EXCEPT !["compose-all.yml"] = Compose(FinishedCompose(doc, chosen))] /\ Proceed
    BY <1>2, <2>1, <2>2, <2>4, <2>6 DEF Saves16
  <2>7. CASE tree' = [tree EXCEPT !["compose-all.yml"] = CutOff] /\ CutShort
    BY <1>1, <2>1, <2>5, <2>7 DEF Ends, CutShort
  <2> QED BY <2>1, <2>6, <2>7 DEF WriteTree
<1>10. CASE ManageGitignore
  <2>1. ~Idle /\ At("block") /\ UNCHANGED <<user, host, project, local, tree>>
    BY <1>10 DEF ManageGitignore, At
  <2>2. Whose = chosen /\ chosen.command = "init" /\ Gen = Gens(chosen) /\ Len(todo) = 1
    BY <2>1, Places, Walk
  <2>3. CASE ignore' = Managed /\ Proceed /\ UNCHANGED history
    <3>1. Idle'
      <4>1. chosen' = NoOptions
        BY <2>2, <2>3 DEF Proceed
      <4> QED BY <4>1 DEF RunInv
    <3> QED BY <1>2, <2>1, <2>2, <2>3, <3>1 DEF Blocks
  <2>4. CASE CutShort
    BY <1>1, <2>1, <2>4 DEF Ends, CutShort
  <2> QED BY <1>10, <2>3, <2>4 DEF ManageGitignore, history
<1> QED BY <1>3, <1>4, <1>5, <1>6, <1>7, <1>8, <1>9, <1>10 DEF Command

LEMMA GeneratedBy ==
  ASSUME NEW k \in 1..18, k \notin {10, 16}, NEW t, NEW c, NEW bundles
  PROVE  LET new == Generated(GenStep(k), t, c, bundles)
             old == t[GenStep(k)[2]]
         IN  /\ k <= 5 => new = Template[TemplateOrder[k]]
             /\ k = 7 => new = Packages(StackJson(c.stacks))
             /\ k = 8 => new = ToolsJson(old)
             /\ k = 14 => new = Proxy(InlineProxy(old.proxy, c.agent))
             /\ k = 15 => new = Proxy(EditProxy(old.proxy, c, bundles))
             /\ k = 17 => new = Lines(CustomizeJSON(old.lines, c.name, c.ide))
             /\ k = 18 => new = Lines(CustomizePlugins(old.lines, c.stacks))
             /\ k \in {6, 9, 11, 12, 13} =>
                  new = Lines(ApplyLinePlaceholders(old.lines,
                                LinePairs(GenStep(k)[1], GenStep(k)[2], c)))
<1> DEFINE step == GenStep(k)
<1>1. CASE k <= 5
  <2>1. step = <<"copy", TemplateOrder[k]>>
    BY <1>1, GenFiles
  <2> QED BY <1>1, <2>1 DEF Generated, CopyTemplate
<1>2. CASE k = 6
  BY <1>2, GenFiles DEF Generated
<1>3. CASE k = 7
  BY <1>3, GenFiles DEF Generated
<1>4. CASE k = 8
  BY <1>4, GenFiles DEF Generated
<1>5. CASE k = 9
  BY <1>5, GenFiles DEF Generated
<1>6. CASE k = 11
  BY <1>6, GenFiles DEF Generated
<1>7. CASE k = 12
  BY <1>7, GenFiles DEF Generated
<1>8. CASE k = 13
  BY <1>8, GenFiles DEF Generated
<1>9. CASE k = 14
  BY <1>9, GenFiles DEF Generated
<1>10. CASE k = 15
  BY <1>10, GenFiles DEF Generated
<1>11. CASE k = 17
  BY <1>11, GenFiles DEF Generated
<1>12. CASE k = 18
  BY <1>12, GenFiles DEF Generated
<1>13. k \in {6, 7, 8, 9, 11, 12, 13, 14, 15, 17, 18} \/ k <= 5
  OBVIOUS
<1> QED BY <1>1, <1>2, <1>3, <1>4, <1>5, <1>6, <1>7, <1>8, <1>9, <1>10, <1>11, <1>12, <1>13

(***************************************************************************)
(* Types                                                                   *)
(***************************************************************************)

FileTyped(f, content) ==
  \/ content \in {NotThere, CutOff}
  \/ f \in DOMAIN Template /\ DOMAIN content = DOMAIN Template[f]
  \/ f \notin DOMAIN Template /\ DOMAIN content = {"packages"}

FilesInv ==
  /\ SettingsFile(user) /\ SettingsFile(local)
  /\ project = Missing \/ project = Malformed \/ IsObj(project)
  /\ tree = [f \in AllFiles |-> tree[f]]
  /\ \A f \in AllFiles : FileTyped(f, tree[f])
  /\ TextFile(ignore) /\ TextFile(OwnIgnore) /\ cut \in BOOLEAN

TypeInv == RunInv /\ FilesInv

LEMMA TypeOKHolds ==
  ASSUME TypeInv
  PROVE  TypeOK
<1>1. DOMAIN tree = AllFiles
  BY DEF TypeInv, FilesInv
<1>2. \A f \in AllFiles :
        \/ tree[f] \in {NotThere, CutOff}
        \/ f \in DOMAIN Template /\ DOMAIN tree[f] = DOMAIN Template[f]
        \/ f \notin DOMAIN Template /\ DOMAIN tree[f] = {"packages"}
  BY DEF TypeInv, FilesInv, FileTyped
<1>3. /\ user = Missing \/ user = Malformed \/ IsObj(user)
      /\ project = Missing \/ project = Malformed \/ IsObj(project)
      /\ local = Missing \/ local = Malformed \/ IsObj(local)
      /\ TextFile(ignore) /\ cut \in BOOLEAN
  BY DEF TypeInv, FilesInv, SettingsFile
<1>4. (Idle <=> chosen = NoOptions) /\ (done # NoOptions => Idle)
  BY DEF TypeInv, RunInv
<1> QED BY <1>1, <1>2, <1>3, <1>4 DEF TypeOK

LEMMA InitTyped ==
  ASSUME Init
  PROVE  TypeInv
<1>1. RunInv
  BY DEF Init, RunInv, Whose, Idle
<1>2. origin \in Projects
  BY DEF Init
<1>3. /\ SettingsFile(origin.user) /\ SettingsFile(origin.local) /\ TextFile(origin.ignore)
      /\ origin.tools = NotThere \/ DOMAIN origin.tools = {"packages"}
  BY <1>2, FilesAssumption
<1>4. /\ user = origin.user /\ local = origin.local /\ ignore = origin.ignore /\ project = Missing
      /\ cut = FALSE
      /\ tree = [f \in AllFiles |-> IF f = "devbox.tools.json" THEN origin.tools ELSE NotThere]
  BY DEF Init
<1>5. "devbox.tools.json" \notin DOMAIN Template
  BY DEF Template
<1>6. \A f \in AllFiles : FileTyped(f, tree[f])
  BY <1>3, <1>4, <1>5 DEF FileTyped
<1>7. tree = [f \in AllFiles |-> tree[f]]
  BY <1>4
<1>8. OwnIgnore = ignore
  BY <1>4 DEF OwnIgnore
<1> QED BY <1>1, <1>3, <1>4, <1>6, <1>7, <1>8 DEF TypeInv, FilesInv

LEMMA GeneratedTyped ==
  ASSUME NEW k \in 1..18, k \notin {10, 16}, NEW t, NEW c, NEW bundles,
         FileTyped("devbox.tools.json", t["devbox.tools.json"])
  PROVE  FileTyped(GenStep(k)[2], Generated(GenStep(k), t, c, bundles))
<1> DEFINE f   == GenStep(k)[2]
           new == Generated(GenStep(k), t, c, bundles)
<1>1. /\ DOMAIN Template = {"Dockerfile.app", "compose-all.yml", "devcontainer.json",
                            "compose-proxy.yml", "app-user-init.sh"}
      /\ DOMAIN Template["Dockerfile.app"] = {"lines"}
      /\ DOMAIN Template["devcontainer.json"] = {"lines"}
      /\ DOMAIN Template["app-user-init.sh"] = {"lines"}
      /\ DOMAIN Template["compose-proxy.yml"] = {"proxy"}
  BY DEF Template, Lines, Proxy
<1>2. \A x : DOMAIN Lines(x) = {"lines"} /\ DOMAIN Proxy(x) = {"proxy"} /\ DOMAIN Packages(x) = {"packages"}
  BY DEF Lines, Proxy, Packages
<1>3. CASE k <= 5
  <2>1. new = Template[TemplateOrder[k]] /\ f = TemplateOrder[k]
    BY <1>3, GeneratedBy, GenFiles
  <2>2. TemplateOrder[k] \in DOMAIN Template
    <3>1. k \in {1, 2, 3, 4, 5}
      BY <1>3
    <3> QED BY <1>1, <3>1 DEF TemplateOrder
  <2> QED BY <2>1, <2>2 DEF FileTyped
<1>4. CASE k \in {6, 9, 11, 12, 13, 17, 18}
  <2>1. f \in {"devcontainer.json", "Dockerfile.app", "app-user-init.sh"}
    BY <1>4, GenFiles
  <2>2. \E x : new = Lines(x)
    <3>1. CASE k \in {6, 9, 11, 12, 13}
      BY <3>1, GeneratedBy
    <3>2. CASE k = 17
      BY <3>2, GeneratedBy
    <3>3. CASE k = 18
      BY <3>3, GeneratedBy
    <3> QED BY <1>4, <3>1, <3>2, <3>3
  <2> HIDE DEF f, new
  <2> QED BY <1>1, <1>2, <2>1, <2>2 DEF FileTyped, f, new
<1>5. CASE k \in {14, 15}
  <2>1. f = "compose-proxy.yml"
    BY <1>5, GenFiles
  <2>2. \E x : new = Proxy(x)
    <3>1. CASE k = 14
      BY <3>1, GeneratedBy
    <3>2. CASE k = 15
      BY <3>2, GeneratedBy
    <3> QED BY <1>5, <3>1, <3>2
  <2> HIDE DEF f, new
  <2> QED BY <1>1, <1>2, <2>1, <2>2 DEF FileTyped, f, new
<1>6. CASE k = 7
  <2>1. f = "devbox.stack.json" /\ new = Packages(StackJson(c.stacks))
    BY <1>6, GenFiles, GeneratedBy
  <2> HIDE DEF f, new
  <2> QED BY <1>1, <1>2, <2>1 DEF FileTyped, f, new
<1>7. CASE k = 8
  <2>1. f = "devbox.tools.json" /\ new = ToolsJson(t["devbox.tools.json"])
    BY <1>7, GenFiles, GeneratedBy
  <2> HIDE DEF f, new
  <2>2. new = t["devbox.tools.json"] \/ new = Packages(<< >>)
    BY <2>1 DEF ToolsJson
  <2> QED BY <1>1, <1>2, <2>1, <2>2 DEF FileTyped, f, new
<1>8. k <= 5 \/ k \in {6, 9, 11, 12, 13, 17, 18} \/ k \in {14, 15} \/ k = 7 \/ k = 8
  OBVIOUS
<1> QED BY <1>3, <1>4, <1>5, <1>6, <1>7, <1>8

LEMMA TreeTyped ==
  ASSUME TypeInv, RunInv', Command
  PROVE  tree' = [f \in AllFiles |-> tree'[f]] /\ \A f \in AllFiles : FileTyped(f, tree'[f])
<1>1. tree = [f \in AllFiles |-> tree[f]] /\ \A f \in AllFiles : FileTyped(f, tree[f])
  BY DEF TypeInv, FilesInv
<1>2. CASE tree' = tree
  BY <1>1, <1>2
<1>3. ASSUME NEW f \in AllFiles, NEW content, FileTyped(f, content), tree' = [tree EXCEPT ![f] = content]
      PROVE  tree' = [g \in AllFiles |-> tree'[g]] /\ \A g \in AllFiles : FileTyped(g, tree'[g])
  <2>1. tree' = [g \in AllFiles |-> IF g = f THEN content ELSE tree[g]]
    BY <1>1, <1>3
  <2> QED BY <1>1, <1>3, <2>1
<1>4. ASSUME NEW k, Makes(k)
      PROVE  \E f \in AllFiles : \E content : FileTyped(f, content) /\ tree' = [tree EXCEPT ![f] = content]
  <2>1. k \in 1..18 /\ k \notin {10, 16}
    BY <1>4 DEF Makes, Gens
  <2>2. GenStep(k)[2] \in AllFiles
    BY <2>1, GenFiles
  <2>3. FileTyped("devbox.tools.json", tree["devbox.tools.json"])
    BY <1>1 DEF AllFiles
  <2>4. FileTyped(GenStep(k)[2], Generated(GenStep(k), tree, Whose, Bundles))
    BY <2>1, <2>3, GeneratedTyped
  <2> QED BY <1>4, <2>2, <2>4 DEF Makes
<1>5. ASSUME Saves16
      PROVE  \E f \in AllFiles : \E content : FileTyped(f, content) /\ tree' = [tree EXCEPT ![f] = content]
  <2>1. DOMAIN Template["compose-all.yml"] = {"compose"} /\ "compose-all.yml" \in DOMAIN Template
    BY DEF Template, Compose
  <2>2. \A x : DOMAIN Compose(x) = {"compose"}
    BY DEF Compose
  <2>3. "compose-all.yml" \in AllFiles
    BY DEF AllFiles, GeneratedFiles, Template
  <2> QED BY <1>5, <2>1, <2>2, <2>3 DEF Saves16, FileTyped
<1>6. ASSUME Ends
      PROVE  \/ tree' = tree
             \/ \E f \in AllFiles : \E content : FileTyped(f, content) /\ tree' = [tree EXCEPT ![f] = content]
  BY <1>6 DEF Ends, FileTyped
<1>7. (\E k : Makes(k)) \/ Reads10 \/ Saves16 \/ Settings \/ Blocks \/ Ends
  BY CommandCases DEF TypeInv
<1>8. Reads10 \/ Settings \/ Blocks => tree' = tree
  BY DEF Reads10, Settings, Blocks, files
<1> QED BY <1>2, <1>3, <1>4, <1>5, <1>6, <1>7, <1>8

(* The history variables change only when a write of .gitignore is cut.    *)
LEMMA OwnStays ==
  ASSUME UNCHANGED history
  PROVE  OwnIgnore' = OwnIgnore /\ cut' = cut /\ origin' = origin
BY DEF history, OwnIgnore

LEMMA OwnIsCut ==
  ASSUME cut' = TRUE
  PROVE  OwnIgnore' = Text(<< >>)
BY DEF OwnIgnore

(* What a step of a command does to .gitignore.                            *)
LEMMA IgnoreSteps ==
  ASSUME Command
  PROVE  \/ ignore' = Managed /\ UNCHANGED history
         \/ /\ Managed # ignore /\ ignore' = Text(<< >>) /\ cut' = TRUE /\ origin' = origin
            /\ At("block") /\ CutShort
         \/ ignore' = ignore /\ UNCHANGED history
<1>1. CASE ManageGitignore
  BY <1>1 DEF ManageGitignore, history
<1>2. CASE ~ManageGitignore
  BY <1>2 DEF Command, UserStep, CreateUserSettingsStep, ApplyAgentDefaultsStep,
    AddSecretProviderTokenStep, EditUserSettingsFails, EnsureHostConfigPathsStep,
    WriteProjectSettings, WriteLocalSettings, GenerateStep, GenerateFails, LoadCompose,
    SaveCompose, NoSettingsFile, Interrupt, files
<1> QED BY <1>1, <1>2

LEMMA FilesStep ==
  ASSUME TypeInv, [Next]_vars
  PROVE  TypeInv'
<1>1. RunInv'
  BY EachStep DEF TypeInv
<1>2. FilesInv
  BY DEF TypeInv
<1>3. CASE UNCHANGED vars
  <2>1. UNCHANGED <<user, project, local, tree, ignore, history>>
    BY <1>3 DEF vars, files
  <2>2. FilesInv'
    BY <1>2, <2>1, OwnStays DEF FilesInv
  <2> QED BY <1>1, <2>2 DEF TypeInv
<1>4. CASE Begin
  <2>1. UNCHANGED <<user, project, local, tree, ignore, history>>
    BY <1>4 DEF Begin, files
  <2>2. FilesInv'
    BY <1>2, <2>1, OwnStays DEF FilesInv
  <2> QED BY <1>1, <2>2 DEF TypeInv
<1>5. CASE UserEdit
  <2>1. UNCHANGED <<project, tree, ignore, history>>
    BY <1>5 DEF UserEdit
  <2>2. SettingsFile(user') /\ SettingsFile(local')
    BY <1>2, <1>5, FilesAssumption DEF UserEdit, FilesInv
  <2>3. FilesInv'
    BY <1>2, <2>1, <2>2, OwnStays DEF FilesInv
  <2> QED BY <1>1, <2>3 DEF TypeInv
<1>6. CASE Command
  <2>1. tree' = [f \in AllFiles |-> tree'[f]] /\ \A f \in AllFiles : FileTyped(f, tree'[f])
    BY <1>1, <1>6, TreeTyped
  <2>2. SettingsFile(Malformed)
    BY KindsDiffer DEF SettingsFile
  <2>3. SettingsFile(user')
    <3>1. CASE CreateUserSettingsStep
      <4>1. chosen.agent \in AgentNames
        <5>1. ~Idle /\ chosen.command = "init" /\ Chooses(chosen)
          BY <3>1, Places, Walk DEF CreateUserSettingsStep, At, TypeInv
        <5> QED BY <5>1, ChosenIs
      <4>2. user' = CreateUserSettings(user, chosen.agent) \/ user' = Malformed
        BY <3>1 DEF CreateUserSettingsStep, WriteUser
      <4> QED BY <1>2, <2>2, <4>1, <4>2, UserFileTyped DEF FilesInv
    <3>2. CASE ApplyAgentDefaultsStep
      <4>1. user' = ApplyAgentDefaults(user, chosen.agent) \/ user' = Malformed
        BY <3>2 DEF ApplyAgentDefaultsStep, WriteUser
      <4>2. chosen.agent \in Seeded => ~EditFails(user)
        BY <3>2 DEF ApplyAgentDefaultsStep
      <4> QED BY <1>2, <2>2, <4>1, <4>2, UserFileTyped DEF FilesInv
    <3>3. CASE AddSecretProviderTokenStep
      <4>1. user' = AddSecretProviderToken(user, chosen.provider) \/ user' = Malformed
        BY <3>3 DEF AddSecretProviderTokenStep, WriteUser
      <4>2. chosen.provider # "none" => ~EditFails(user)
        BY <3>3 DEF AddSecretProviderTokenStep
      <4> QED BY <1>2, <2>2, <4>1, <4>2, TokenTyped DEF FilesInv
    <3>4. CASE ~UserStep
      <4>1. user' = user
        BY <1>6, <3>4 DEF Command, EditUserSettingsFails, EnsureHostConfigPathsStep,
          WriteProjectSettings, WriteLocalSettings, GenerateStep, GenerateFails, LoadCompose,
          SaveCompose, NoSettingsFile, ManageGitignore, Interrupt, files
      <4> QED BY <1>2, <4>1 DEF FilesInv
    <3> QED BY <3>1, <3>2, <3>3, <3>4 DEF UserStep
  <2>4. SettingsFile(local')
    <3>1. local' = local \/ local' = LocalSettings(local) \/ local' = Malformed
      BY <1>6 DEF Command, UserStep, CreateUserSettingsStep, ApplyAgentDefaultsStep,
        AddSecretProviderTokenStep, EditUserSettingsFails, EnsureHostConfigPathsStep,
        WriteProjectSettings, WriteLocalSettings, GenerateStep, GenerateFails, LoadCompose,
        SaveCompose, NoSettingsFile, ManageGitignore, Interrupt, files
    <3>2. SettingsFile(Saved(<< >>))
      <4>1. EnsureArray(<< >>, "upstream_ca_bundles") = << >>
        BY DEF EnsureArray
      <4>2. << >> \in Seq(Range(<< >>))
        OBVIOUS
      <4>3. IsObj(Saved(<< >>)) /\ Saved(<< >>).obj = << >>
        BY KindsDiffer DEF Loads
      <4> QED BY <4>1, <4>2, <4>3 DEF SettingsFile, CaKey
    <3> QED BY <1>2, <2>2, <3>1, <3>2 DEF FilesInv, LocalSettings
  <2>5. project' = Missing \/ project' = Malformed \/ IsObj(project')
    <3>1. project' = project \/ project' = Malformed \/ project' = ProjectSettings(chosen.strict, chosen.stacks)
      BY <1>6 DEF Command, UserStep, CreateUserSettingsStep, ApplyAgentDefaultsStep,
        AddSecretProviderTokenStep, EditUserSettingsFails, EnsureHostConfigPathsStep,
        WriteProjectSettings, WriteLocalSettings, GenerateStep, GenerateFails, LoadCompose,
        SaveCompose, NoSettingsFile, ManageGitignore, Interrupt, files
    <3>2. IsObj(ProjectSettings(chosen.strict, chosen.stacks))
      BY KindsDiffer DEF ProjectSettings, Loads
    <3> QED BY <1>2, <3>1, <3>2 DEF FilesInv
  <2>6. TextFile(ignore') /\ TextFile(OwnIgnore') /\ cut' \in BOOLEAN
    <3>1. TextFile(Text(<< >>))
      BY DEF TextFile, Text
    <3>2. TextFile(Managed)
      BY <1>2, UpdateKeepsRules, RemoveKeepsRules DEF FilesInv, Managed
    <3>3. CASE UNCHANGED history /\ ignore' \in {Managed, ignore}
      BY <1>2, <3>2, <3>3, OwnStays DEF FilesInv
    <3>4. CASE ignore' = Text(<< >>) /\ cut' = TRUE
      BY <3>1, <3>4, OwnIsCut
    <3> QED BY <1>6, <3>3, <3>4, IgnoreSteps
  <2> QED BY <1>1, <2>1, <2>3, <2>4, <2>5, <2>6 DEF TypeInv, FilesInv
<1> QED BY <1>3, <1>4, <1>5, <1>6 DEF Next

(* Every file of the directory is missing, cut off, or of its shape, and   *)
(* what the command still has to do is the end of its list of steps.       *)
THEOREM Typed == Spec => []TypeInv
BY InitTyped, FilesStep, PTL DEF Spec

(* The files hold what they can hold, and a command runs or has ended.     *)
THEOREM TypeCorrect == Spec => []TypeOK
BY Typed, TypeOKHolds, PTL

(***************************************************************************)
(* .gitignore                                                              *)
(***************************************************************************)

(* A command that does not take its last step is not one that succeeded.   *)
LEMMA NotLast ==
  ASSUME RunInv, RunInv', Advances, Pos + 1 < Total(Whose)
  PROVE  done' = NoOptions /\ ~Idle'
<1>1. Whose = chosen /\ Total(chosen) \in Nat /\ Len(todo) \in Nat /\ Pos \in Nat
  BY Walk DEF Advances
<1>2. Pos' = Pos + 1 /\ Whose' = chosen
  BY <1>1 DEF Advances
<1>3. Pos' = Total(chosen) - Len(todo')
  BY <1>2 DEF Pos
<1>4. todo' # << >>
  <2>1. ASSUME todo' = << >>
        PROVE  FALSE
    <3>1. Len(todo') = 0
      BY <2>1
    <3>2. Pos + 1 = Total(chosen)
      BY <1>1, <1>2, <1>3, <3>1
    <3> QED BY <1>1, <3>2
  <2> QED BY <2>1
<1> QED BY <1>4 DEF RunInv, Idle

(* What makes a step the last one of init.                                 *)
LEMMA LastOfInit ==
  ASSUME RunInv, RunInv', Command, done'.command = "init"
  PROVE  Blocks
<1>1. NoOptions.command # "init" /\ done' # NoOptions /\ Idle' /\ Whose' = done'
  BY DEF RunInv, NoOptions, Whose
<1>2. CASE Ends
  BY <1>1, <1>2 DEF Ends
<1>3. ASSUME Advances, (Generates(Whose) /\ Gen < Gens(Whose)) \/ Pos < 6 \/ ~Generates(Whose)
      PROVE  FALSE
  <2>1. Whose.command = "init" /\ Whose = chosen
    BY <1>1, <1>3, Walk DEF Advances
  <2>2. /\ Total(Whose) = Gens(Whose) + 7 /\ Offset(Whose) = 6 /\ Generates(Whose)
        /\ Gens(Whose) \in {17, 18}
    BY <2>1 DEF Total, Offset, Generates, Gens
  <2>3. Pos \in Nat /\ Gen = Pos - 6
    BY <1>3, <2>1, <2>2, Walk DEF Advances, Gen
  <2>4. Pos + 1 < Total(Whose)
    BY <1>3, <2>2, <2>3
  <2> QED BY <1>1, <1>3, <2>4, NotLast
<1>4. ASSUME NEW k, Makes(k)
      PROVE  FALSE
  <2>1. Advances /\ Generates(Whose) /\ Gen + 1 = k /\ k \in 1..Gens(Whose) /\ Gens(Whose) \in {17, 18}
    BY <1>4 DEF Makes, Gens
  <2>2. Gen \in Int
    <3>1. Whose = chosen /\ Pos \in Nat
      BY <2>1, Walk DEF Advances
    <3> QED BY <3>1 DEF Gen, Offset
  <2> QED BY <1>3, <2>1, <2>2
<1>5. CASE Reads10 \/ Saves16
  <2>1. Advances /\ Generates(Whose) /\ (Gen + 1 = 10 \/ Gen + 1 = 16) /\ Gens(Whose) \in {17, 18}
    BY <1>5 DEF Reads10, Saves16, Gens
  <2>2. Gen \in Int
    <3>1. Whose = chosen /\ Pos \in Nat
      BY <2>1, Walk DEF Advances
    <3> QED BY <3>1 DEF Gen, Offset
  <2> QED BY <1>3, <2>1, <2>2
<1>6. CASE Settings
  BY <1>3, <1>6 DEF Settings
<1> QED BY <1>2, <1>4, <1>5, <1>6, CommandCases

(* The file has the user's rules at every moment, with or without a block  *)
(* below them; outside a repository it is not touched.                     *)
IgnoreInv ==
  /\ UserRules(ignore) = UserRules(OwnIgnore)
  /\ ~HasBlock(OwnIgnore) =>
       LinesOf(ignore) \in {LinesOf(OwnIgnore), SetOff(LinesOf(OwnIgnore)) \o Block}
  /\ ~origin.git => ignore = OwnIgnore
  /\ IgnoreConverges

LEMMA TextLines ==
  ASSUME NEW file, TextFile(file)
  PROVE  /\ \E S : LinesOf(file) \in Seq(S)
         /\ ~HasBlock(file) => \A i \in DOMAIN LinesOf(file) : LinesOf(file)[i] # StartMarker
<1>1. CASE file = NoFile
  <2>1. LinesOf(file) = << >>
    BY <1>1, MarkersDiffer
  <2>2. LinesOf(file) \in Seq({})
    BY <2>1
  <2> QED BY <2>1, <2>2
<1>2. CASE file # NoFile
  <2>1. LinesOf(file) = file.lines /\ file.lines \in Seq(Range(file.lines))
    BY <1>2 DEF TextFile, LinesOf
  <2> QED BY <2>1 DEF HasBlock, Contains, Range
<1> QED BY <1>1, <1>2

LEMMA ManagedLines ==
  ASSUME TypeInv, IgnoreInv, ~HasBlock(OwnIgnore)
  PROVE  LET own == LinesOf(OwnIgnore)
         IN  LinesOf(Managed) = IF ~origin.git \/ ~chosen.gitignore THEN own
                                ELSE SetOff(own) \o Block
<1> DEFINE own == LinesOf(OwnIgnore)
<1>1. TextFile(ignore) /\ TextFile(OwnIgnore)
  BY DEF TypeInv, FilesInv
<1>2. PICK S : own \in Seq(S)
  BY <1>1, TextLines
<1>3. \A i \in DOMAIN own : own[i] # StartMarker
  BY <1>1, TextLines
<1>4. LinesOf(ignore) = own \/ LinesOf(ignore) = SetOff(own) \o Block
  BY DEF IgnoreInv
<1>5. LinesOf(ignore) = SetOff(own) \o Block => HasBlock(ignore) /\ LinesOf(RemoveBlock(ignore)) = own
  BY <1>2, <1>3, RemoveUndoes
<1>6. LinesOf(ignore) = own => ~HasBlock(ignore)
  BY DEF HasBlock
<1>7. CASE ~origin.git
  BY <1>7 DEF IgnoreInv, Managed
<1>8. CASE origin.git /\ ~chosen.gitignore
  <2>1. Managed = RemoveBlock(ignore)
    BY <1>8 DEF Managed
  <2>2. ~HasBlock(ignore) => RemoveBlock(ignore) = ignore
    BY DEF RemoveBlock
  <2> QED BY <1>4, <1>5, <1>6, <1>8, <2>1, <2>2
<1>9. CASE origin.git /\ chosen.gitignore
  <2>1. Managed = Update(ignore)
    BY <1>9 DEF Managed
  <2>2. LinesOf(Update(ignore)) = IF HasBlock(ignore) THEN LinesOf(ignore)
                                  ELSE SetOff(LinesOf(ignore)) \o Block
    BY <1>1, UpdateKeepsRules
  <2> QED BY <1>4, <1>5, <1>6, <1>9, <2>1, <2>2
<1> QED BY <1>7, <1>8, <1>9

LEMMA IgnoreStep ==
  ASSUME TypeInv, TypeInv', IgnoreInv, [Next]_vars
  PROVE  IgnoreInv'
<1> DEFINE own  == LinesOf(OwnIgnore)
           most == SetOff(own) \o Block
<1>1. IgnoreConverges <=>
        (done.command = "init" /\ ~HasBlock(OwnIgnore) =>
           LinesOf(ignore) = IF ~origin.git \/ ~done.gitignore THEN own ELSE most)
  BY DEF IgnoreConverges, SetOff
<1>2. IgnoreConverges' <=>
        (done'.command = "init" /\ ~HasBlock(OwnIgnore') =>
           LinesOf(ignore') = IF ~origin'.git \/ ~done'.gitignore THEN LinesOf(OwnIgnore')
                              ELSE SetOff(LinesOf(OwnIgnore')) \o Block)
  BY DEF IgnoreConverges, SetOff
<1>3. NoOptions.command # "init"
  BY DEF NoOptions
<1>4. CASE Begin \/ UserEdit \/ UNCHANGED vars
  <2>1. ignore' = ignore /\ UNCHANGED history /\ (done' = done \/ done' = NoOptions)
    BY <1>4 DEF Begin, UserEdit, vars, files, run
  <2> QED BY <1>1, <1>2, <1>3, <2>1, OwnStays DEF IgnoreInv
<1>5. CASE Command
  <2>1. RunInv /\ RunInv'
    BY DEF TypeInv
  <2>2. TextFile(ignore) /\ TextFile(OwnIgnore)
    BY DEF TypeInv, FilesInv
  <2>3. UserRules(Managed) = UserRules(ignore)
    BY <2>2, UpdateKeepsRules, RemoveKeepsRules DEF Managed
  <2>4. ~origin.git => Managed = ignore
    BY DEF Managed
  <2>5. ~HasBlock(OwnIgnore) => LinesOf(Managed) \in {own, most}
    BY ManagedLines
  <2>6. /\ UserRules(ignore') = UserRules(OwnIgnore')
        /\ ~HasBlock(OwnIgnore') =>
             LinesOf(ignore') \in {LinesOf(OwnIgnore'), SetOff(LinesOf(OwnIgnore')) \o Block}
        /\ ~origin'.git => ignore' = OwnIgnore'
    <3>1. CASE ignore' = Managed /\ UNCHANGED history
      BY <2>3, <2>4, <2>5, <3>1, OwnStays DEF IgnoreInv
    <3>2. CASE ignore' = Text(<< >>) /\ cut' = TRUE
      BY <3>2, OwnIsCut
    <3>3. CASE ignore' = ignore /\ UNCHANGED history
      BY <3>3, OwnStays DEF IgnoreInv
    <3> QED BY <1>5, <3>1, <3>2, <3>3, IgnoreSteps
  <2>7. IgnoreConverges'
    <3>1. ASSUME done'.command = "init", ~HasBlock(OwnIgnore')
          PROVE  LinesOf(ignore') = IF ~origin'.git \/ ~done'.gitignore THEN LinesOf(OwnIgnore')
                                    ELSE SetOff(LinesOf(OwnIgnore')) \o Block
      <4>1. Blocks
        BY <1>5, <2>1, <3>1, LastOfInit
      <4>2. ignore' = Managed /\ UNCHANGED history /\ done' = chosen
        BY <4>1 DEF Blocks, Advances, Whose
      <4> QED BY <3>1, <4>2, ManagedLines, OwnStays
    <3> QED BY <1>2, <3>1
  <2> QED BY <2>6, <2>7 DEF IgnoreInv
<1> QED BY <1>4, <1>5 DEF Next

LEMMA IgnoreInit ==
  ASSUME Init
  PROVE  IgnoreInv
BY DEF Init, IgnoreInv, IgnoreConverges, OwnIgnore, NoOptions

(* .gitignore holds the user's rules, as they were before the first        *)
(* command, or none if a write of it was cut short; and at most one block, *)
(* if there was none before the first command.                             *)
THEOREM RulesAndBlock == Spec => []IgnoreInv
BY Typed, IgnoreInit, IgnoreStep, PTL DEF Spec

(* Switched off, the block leaves no trace; switched on, there is one.     *)
THEOREM BlockConverges == Spec => []IgnoreConverges
BY RulesAndBlock, PTL DEF IgnoreInv

(***************************************************************************)
(* What the user owns                                                      *)
(***************************************************************************)

(* A verb names one step.                                                  *)
LEMMA OneVerb ==
  ASSUME NEW v, At(v), NEW w, w # v
  PROVE  ~At(w)
BY DEF At

LEMMA PathsStay ==
  ASSUME NEW before, NEW paths, NEW path \in DOMAIN before, before[path] # "empty"
  PROVE  EnsurePaths(before, paths)[path] = before[path]
<1>1. EnsurePaths(before, paths)[path] =
        CASE path \in paths \cap HostFiles -> EnsureFile(before, path)
          [] path \in DOMAIN before \ (paths \cap HostFiles) -> before[path]
          [] OTHER -> "directory"
  BY DEF EnsurePaths
<1>2. EnsureFile(before, path) = before[path]
  BY DEF EnsureFile
<1> QED BY <1>1, <1>2

(* Preparing the host, also when it is cut short, adds paths and leaves    *)
(* alone what is not empty.                                                *)
LEMMA HostFilesStay ==
  ASSUME NEW before, NEW agent, NEW name, NEW env, NEW after,
         \/ after = EnsureHostConfigPaths(before, agent, name, env)
         \/ \E k \in DOMAIN HostConfigPaths(agent, name) : after \in PathsCutShort(before, agent, name, k)
  PROVE  /\ DOMAIN before \subseteq DOMAIN after
         /\ \A path \in DOMAIN before : before[path] # "empty" => after[path] = before[path]
<1>1. \A paths : DOMAIN EnsurePaths(before, paths) = DOMAIN before \cup paths
  BY DEF EnsurePaths
<1>2. CASE after = EnsureHostConfigPaths(before, agent, name, env)
  BY <1>1, <1>2, PathsStay DEF EnsureHostConfigPaths
<1>3. ASSUME NEW k, after \in PathsCutShort(before, agent, name, k)
      PROVE  /\ DOMAIN before \subseteq DOMAIN after
             /\ \A path \in DOMAIN before : before[path] # "empty" => after[path] = before[path]
  <2> DEFINE ready == EnsurePaths(before, {HostConfigPaths(agent, name)[i] : i \in 1..k})
  <2>1. \/ after = ready
        \/ \E p : after = [ready EXCEPT ![p] = "empty"] /\ (p \notin DOMAIN before \/ before[p] = "empty")
    BY <1>3 DEF PathsCutShort
  <2>2. DOMAIN before \subseteq DOMAIN ready
    BY <1>1
  <2>3. \A path \in DOMAIN before : before[path] # "empty" => ready[path] = before[path]
    BY PathsStay
  <2>4. ready = [path \in DOMAIN ready |-> ready[path]]
    BY DEF EnsurePaths
  <2> HIDE DEF ready
  <2> QED BY <2>1, <2>2, <2>3, <2>4
<1> QED BY <1>2, <1>3

LEMMA ToolsStay ==
  ASSUME TypeInv, RunInv', Command, tree["devbox.tools.json"] # NotThere
  PROVE  tree'["devbox.tools.json"] = tree["devbox.tools.json"]
<1>1. DOMAIN tree = AllFiles
  BY DEF TypeInv, FilesInv
<1>2. \A f \in AllFiles : \A content :
        f # "devbox.tools.json" /\ tree' = [tree EXCEPT ![f] = content]
          => tree'["devbox.tools.json"] = tree["devbox.tools.json"]
  BY <1>1 DEF AllFiles
<1>3. ASSUME NEW k, Makes(k)
      PROVE  tree'["devbox.tools.json"] = tree["devbox.tools.json"]
  <2>1. /\ k \in 1..18 /\ k \notin {10, 16}
        /\ tree' = [tree EXCEPT ![GenStep(k)[2]] = Generated(GenStep(k), tree, Whose, Bundles)]
    BY <1>3 DEF Makes, Gens
  <2>2. CASE k = 8
    <3>1. GenStep(k)[2] = "devbox.tools.json"
      BY <2>1, <2>2, GenFiles
    <3>2. Generated(GenStep(k), tree, Whose, Bundles) = ToolsJson(tree["devbox.tools.json"])
      BY <2>1, <2>2, <3>1, GeneratedBy
    <3> QED BY <1>1, <2>1, <3>1, <3>2 DEF ToolsJson
  <2>3. CASE k # 8
    <3>1. GenStep(k)[2] \in AllFiles /\ GenStep(k)[2] # "devbox.tools.json"
      BY <2>1, <2>3, GenFiles
    <3> QED BY <1>2, <2>1, <3>1
  <2> QED BY <2>2, <2>3
<1>4. ASSUME Saves16
      PROVE  tree'["devbox.tools.json"] = tree["devbox.tools.json"]
  <2>1. "compose-all.yml" \in AllFiles
    BY DEF AllFiles, GeneratedFiles, Template
  <2> QED BY <1>2, <1>4, <2>1 DEF Saves16
<1>5. ASSUME Ends
      PROVE  tree'["devbox.tools.json"] = tree["devbox.tools.json"]
  BY <1>2, <1>5 DEF Ends
<1>6. Reads10 \/ Settings \/ Blocks => tree' = tree
  BY DEF Reads10, Settings, Blocks, files
<1> QED BY <1>3, <1>4, <1>5, <1>6, CommandCases DEF TypeInv

LEMMA LocalStays ==
  ASSUME Command, Exists(local)
  PROVE  local' = local
<1>1. CASE WriteLocalSettings
  <2>1. At("local")
    BY <1>1 DEF WriteLocalSettings
  <2>2. ~At("create") /\ ~At("defaults") /\ ~At("token") /\ ~At("tools") /\ ~At("proxy")
    BY <2>1, OneVerb
  <2>3. ~Writes
    BY <2>1, <2>2 DEF Writes
  <2> QED BY <1>1, <2>3 DEF WriteLocalSettings, CutShort, LocalSettings
<1>2. CASE ~WriteLocalSettings
  BY <1>2 DEF Command, UserStep, CreateUserSettingsStep, ApplyAgentDefaultsStep,
    AddSecretProviderTokenStep, EditUserSettingsFails, EnsureHostConfigPathsStep,
    WriteProjectSettings, GenerateStep, GenerateFails, LoadCompose,
    SaveCompose, NoSettingsFile, ManageGitignore, Interrupt, files
<1> QED BY <1>1, <1>2

LEMMA MalformedStays ==
  ASSUME Command, user = Malformed
  PROVE  user' = user
<1>1. Exists(user) /\ EditFails(user)
  BY KindsDiffer DEF EditFails, Exists
<1>2. CASE CreateUserSettingsStep
  BY <1>1, <1>2 DEF CreateUserSettingsStep, WriteUser, CreateUserSettings
<1>3. CASE ApplyAgentDefaultsStep
  <2>1. chosen.agent \notin Seeded
    BY <1>1, <1>3 DEF ApplyAgentDefaultsStep
  <2>2. ApplyAgentDefaults(user, chosen.agent) = user
    BY <2>1 DEF ApplyAgentDefaults, Seeded
  <2> QED BY <1>3, <2>2 DEF ApplyAgentDefaultsStep, WriteUser
<1>4. CASE AddSecretProviderTokenStep
  <2>1. chosen.provider = "none"
    BY <1>1, <1>4 DEF AddSecretProviderTokenStep
  <2>2. AddSecretProviderToken(user, chosen.provider) = user
    BY <2>1 DEF AddSecretProviderToken, TokenKey
  <2> QED BY <1>4, <2>2 DEF AddSecretProviderTokenStep, WriteUser
<1>5. CASE ~UserStep
  BY <1>5 DEF Command, EditUserSettingsFails, EnsureHostConfigPathsStep,
    WriteProjectSettings, WriteLocalSettings, GenerateStep, GenerateFails, LoadCompose,
    SaveCompose, NoSettingsFile, ManageGitignore, Interrupt, files
<1> QED BY <1>2, <1>3, <1>4, <1>5 DEF UserStep

LEMMA HostSame ==
  ASSUME Command, ~At("paths")
  PROVE  host' = host
BY DEF Command, UserStep, CreateUserSettingsStep, ApplyAgentDefaultsStep,
  AddSecretProviderTokenStep, EditUserSettingsFails, EnsureHostConfigPathsStep,
  WriteProjectSettings, WriteLocalSettings, GenerateStep, GenerateFails, LoadCompose,
  SaveCompose, NoSettingsFile, ManageGitignore, Interrupt, files

LEMMA HostKept ==
  ASSUME Command
  PROVE  \A path \in DOMAIN host : host[path] # "empty" => host'[path] = host[path]
<1>1. CASE EnsureHostConfigPathsStep
  BY <1>1, HostFilesStay DEF EnsureHostConfigPathsStep
<1>2. CASE ~EnsureHostConfigPathsStep
  <2>1. host' = host
    BY <1>2 DEF Command, UserStep, CreateUserSettingsStep, ApplyAgentDefaultsStep,
      AddSecretProviderTokenStep, EditUserSettingsFails,
      WriteProjectSettings, WriteLocalSettings, GenerateStep, GenerateFails, LoadCompose,
      SaveCompose, NoSettingsFile, ManageGitignore, Interrupt, files
  <2> QED BY <2>1
<1> QED BY <1>1, <1>2

LEMMA RulesStay ==
  ASSUME TypeInv, Command
  PROVE  UserRules(ignore') = UserRules(ignore) \/ (At("block") /\ CutShort)
<1>1. TextFile(ignore)
  BY DEF TypeInv, FilesInv
<1>2. UserRules(Managed) = UserRules(ignore)
  BY <1>1, UpdateKeepsRules, RemoveKeepsRules DEF Managed
<1> QED BY <1>2, IgnoreSteps

(* What the user owns outlives every command, its failures and its         *)
(* interruptions, but for .gitignore and an interrupt in the middle of     *)
(* writing it.                                                             *)
THEOREM OwnFilesStay == Spec => OwnFilesKept
<1>1. ASSUME TypeInv, [Next]_vars
      PROVE  [~Idle =>
                /\ Exists(local) => local' = local
                /\ tree["devbox.tools.json"] # NotThere =>
                     tree'["devbox.tools.json"] = tree["devbox.tools.json"]
                /\ \A path \in DOMAIN host : host[path] # "empty" => host'[path] = host[path]
                /\ user = Malformed => user' = user
                /\ UserRules(ignore') = UserRules(ignore) \/ (At("block") /\ CutShort)]_vars
  <2>1. CASE UNCHANGED vars
    BY <2>1
  <2>2. CASE Begin \/ UserEdit
    BY <2>2 DEF Begin, UserEdit
  <2>3. CASE Command
    <3>1. RunInv'
      BY <1>1, EachStep DEF TypeInv
    <3> QED BY <1>1, <2>3, <3>1, LocalStays, ToolsStay, HostKept, RulesStay, MalformedStays
  <2> QED BY <1>1, <2>1, <2>2, <2>3 DEF Next
<1> QED BY <1>1, Typed, PTL DEF Spec, OwnFilesKept

(***************************************************************************)
(* What init has done on the host and to the project                       *)
(***************************************************************************)

(* A command that succeeded has taken all its steps.                       *)
LEMMA AllTaken ==
  ASSUME RunInv, done # NoOptions
  PROVE  /\ Whose = done /\ Chooses(done) /\ done.command \in Commands
         /\ Pos = Total(done) /\ Pos \in Nat /\ Gens(done) \in {17, 18}
         /\ done.command = "init" => Total(done) = Gens(done) + 7 /\ Pos >= 6
         /\ Generates(done) => Gen >= Gens(done)
<1>1. Idle /\ Whose = done /\ Chooses(done)
  BY DEF RunInv, Whose
<1>2. done.command \in Commands
  BY <1>1, ChosenIs
<1>3. Total(done) \in Nat /\ Gens(done) \in {17, 18}
  BY <1>2, StepsAre
<1>4. Len(todo) = 0
  BY <1>1 DEF Idle
<1>5. Pos = Total(done)
  BY <1>1, <1>3, <1>4 DEF Pos
<1>6. Gen = Total(done) - Offset(done)
  BY <1>1, <1>5 DEF Gen
<1>7. /\ done.command = "init" => Total(done) = Gens(done) + 7 /\ Offset(done) = 6
      /\ done.command = "init devcontainer" => Total(done) = Gens(done) /\ Offset(done) = 0
  BY DEF Total, Offset
<1>8. done.command = "init" => Pos >= 6 /\ Gen = Gens(done) + 1
  <2> SUFFICES ASSUME done.command = "init"
               PROVE  Pos >= 6 /\ Gen = Gens(done) + 1
    OBVIOUS
  <2>1. Pos = Gens(done) + 7 /\ Gen = (Gens(done) + 7) - 6
    BY <1>5, <1>6, <1>7
  <2> QED BY <1>3, <2>1
<1>9. Generates(done) => Gen >= Gens(done)
  <2> DEFINE gens == Gens(done)
             all  == Total(done)
             off  == Offset(done)
             dev  == done.command = "init devcontainer"
             full == done.command = "init"
  <2>1. /\ dev => all = gens /\ off = 0
        /\ full => all = gens + 7 /\ off = 6
    BY <1>7
  <2>2. Generates(done) => dev \/ full
    BY DEF Generates
  <2>3. Gen = all - off
    BY <1>6
  <2>4. gens \in Int
    BY <1>3
  <2> HIDE DEF gens, all, off, dev, full
  <2>5. Generates(done) => Gen >= gens
    BY <2>1, <2>2, <2>3, <2>4
  <2> QED BY <2>5 DEF gens
<1> QED BY <1>1, <1>2, <1>3, <1>5, <1>7, <1>8, <1>9

(* Only the step that is next is taken.                                    *)
LEMMA EarlyAt ==
  ASSUME RunInv, Advances, Command, Whose.command = "init", Pos < 6
  PROVE  /\ Whose = chosen /\ Pos \in 0..5 /\ At(EarlySteps[Pos + 1][1])
         /\ Pos = 2 => host' = EnsureHostConfigPaths(host, chosen.agent, chosen.name, chosen.env)
         /\ Pos = 3 => AddSecretProviderTokenStep
         /\ Pos = 4 => WriteProjectSettings
<1>1. /\ Whose = chosen /\ Pos \in 0..5 /\ chosen.command = "init" /\ ~Idle
      /\ Head(todo) = Steps(chosen)[Pos + 1]
  BY Walk DEF Advances
<1>2. Head(todo) = EarlySteps[Pos + 1]
  <2>1. chosen.command \in Commands
    BY <1>1 DEF Commands
  <2>2. \A k \in 1..6 : Steps(chosen)[k] = EarlySteps[k]
    BY <1>1, <2>1, StepsAre
  <2>3. Pos + 1 \in 1..6
    BY <1>1
  <2> QED BY <1>1, <2>2, <2>3
<1>3. At(EarlySteps[Pos + 1][1])
  BY <1>1, <1>2 DEF At
<1>4. ~Quit
  <2>1. chosen # NoOptions
    BY <1>1, Walk, ChosenIs
  <2> QED BY <1>1, <2>1, QuitLeaves DEF Advances
<1>5. /\ Pos = 2 => At("paths")
      /\ Pos = 3 => At("token")
      /\ Pos = 4 => At("project")
  BY <1>3 DEF EarlySteps
<1>6. Pos = 2 => host' = EnsureHostConfigPaths(host, chosen.agent, chosen.name, chosen.env)
  BY <1>4, <1>5 DEF At, Command, UserStep, CreateUserSettingsStep, ApplyAgentDefaultsStep,
    EnsureHostConfigPathsStep, CutShort,
    AddSecretProviderTokenStep, EditUserSettingsFails, WriteProjectSettings, WriteLocalSettings,
    GenerateStep, GenerateFails, LoadCompose, SaveCompose, NoSettingsFile, ManageGitignore, Interrupt
<1>7. Pos = 3 => AddSecretProviderTokenStep
  BY <1>4, <1>5 DEF At, Command, UserStep, CreateUserSettingsStep, ApplyAgentDefaultsStep,
    EnsureHostConfigPathsStep, EditUserSettingsFails, WriteProjectSettings, WriteLocalSettings,
    GenerateStep, GenerateFails, LoadCompose, SaveCompose, NoSettingsFile, ManageGitignore, Interrupt
<1>8. Pos = 4 => WriteProjectSettings
  BY <1>4, <1>5 DEF At, Command, UserStep, CreateUserSettingsStep, ApplyAgentDefaultsStep,
    EnsureHostConfigPathsStep, EditUserSettingsFails, AddSecretProviderTokenStep, WriteLocalSettings,
    GenerateStep, GenerateFails, LoadCompose, SaveCompose, NoSettingsFile, ManageGitignore, Interrupt
<1> QED BY <1>1, <1>3, <1>6, <1>7, <1>8

(* What the agent's mounts bind is what init prepares.                     *)
LEMMA MountsBind ==
  ASSUME NEW agent \in AgentNames, NEW name, NEW i \in DOMAIN AgentMounts(agent, name)
  PROVE  \E path \in Range(HostConfigPaths(agent, name)) :
           AtHome(path).source = AgentMounts(agent, name)[i].source
<1>1. \A path : AtHome(path).source = <<"~", path>>
  BY DEF AtHome, Mount
<1> DEFINE paths == HostConfigPaths(agent, name)
<1>2. CASE agent = "claude"
  <2>1. /\ AgentMounts(agent, name) =
            << AtHome(<<".claude/CLAUDE.md">>), AtHome(<<".claude/agents">>), AtHome(<<".claude/commands">>) >>
        /\ paths = << <<".claude/agents">>, <<".claude/commands">>, <<".claude/CLAUDE.md">> >>
    BY <1>2 DEF AgentMounts, HostConfigPaths
  <2>2. {<<".claude/agents">>, <<".claude/commands">>, <<".claude/CLAUDE.md">>} \subseteq Range(paths)
    BY <2>1 DEF Range
  <2> HIDE DEF paths
  <2> QED BY <1>1, <2>1, <2>2 DEF paths
<1>3. CASE agent = "codex"
  <2>1. /\ AgentMounts(agent, name) =
            << Mount(<<"~", <<".codex/AGENTS.md">>>>, <<"/home/vscode", <<".codex-host/AGENTS.md">>>>),
               AtHome(<<".codex/skills">>), AtHome(<<".codex/commands">>) >>
        /\ paths = << <<".codex/AGENTS.md">>, <<".codex/skills">>, <<".codex/commands">> >>
    BY <1>3 DEF AgentMounts, HostConfigPaths
  <2>2. Mount(<<"~", <<".codex/AGENTS.md">>>>, <<"/home/vscode", <<".codex-host/AGENTS.md">>>>).source =
          <<"~", <<".codex/AGENTS.md">>>>
    BY DEF Mount
  <2>3. {<<".codex/AGENTS.md">>, <<".codex/skills">>, <<".codex/commands">>} \subseteq Range(paths)
    BY <2>1 DEF Range
  <2> HIDE DEF paths
  <2> QED BY <1>1, <2>1, <2>2, <2>3 DEF paths
<1>4. CASE agent = "copilot"
  <2>1. /\ AgentMounts(agent, name) =
            << AtHome(<<".copilot/mcp-config.json">>), AtHome(<<".copilot/session-state">>) >>
        /\ paths = << <<".copilot/mcp-config.json">>, <<".copilot/session-state">> >>
    BY <1>4 DEF AgentMounts, HostConfigPaths
  <2>2. {<<".copilot/mcp-config.json">>, <<".copilot/session-state">>} \subseteq Range(paths)
    BY <2>1 DEF Range
  <2> HIDE DEF paths
  <2> QED BY <1>1, <2>1, <2>2 DEF paths
<1>5. CASE agent = "cursor"
  <2> DEFINE workspace == <<".cursor/projects", CursorWorkspaceProjectID(name)>>
  <2>1. /\ AgentMounts(agent, name) =
            << AtHome(<<".cursor/AGENTS.md">>), AtHome(<<".cursor/rules">>), AtHome(<<".cursor/skills">>),
               AtHome(<<".cursor/commands">>), AtHome(<<".cursor/hooks.json">>), AtHome(<<".cursor/hooks">>),
               AtHome(<<".cursor/agents">>), AtHome(<<".cursor/mcp.json">>), AtHome(workspace) >>
        /\ paths =
            << <<".cursor/rules">>, <<".cursor/skills">>, <<".cursor/commands">>, <<".cursor/agents">>,
               <<".cursor/hooks">>, workspace,
               <<".cursor/AGENTS.md">>, <<".cursor/hooks.json">>, <<".cursor/mcp.json">> >>
    BY <1>5 DEF AgentMounts, HostConfigPaths
  <2> HIDE DEF workspace
  <2>2. i \in 1..9
    BY <2>1
  <2>3. {paths[k] : k \in 1..9} \subseteq Range(paths)
    BY <2>1 DEF Range
  <2> HIDE DEF paths
  <2>4. {<<".cursor/rules">>, <<".cursor/skills">>, <<".cursor/commands">>, <<".cursor/agents">>,
         <<".cursor/hooks">>, workspace, <<".cursor/AGENTS.md">>, <<".cursor/hooks.json">>,
         <<".cursor/mcp.json">>} \subseteq Range(paths)
    BY <2>1, <2>3
  <2> QED BY <1>1, <2>1, <2>2, <2>4 DEF paths
<1> QED BY <1>2, <1>3, <1>4, <1>5 DEF AgentNames

(* A path that is ready for its mount.                                     *)
Ready(path) == path \in DOMAIN host /\ (DefaultContent(path) = "minimal" => host[path] # "empty")

HostInv ==
  Whose.command = "init" /\ Pos >= 3 /\ Whose.mounts.agentConfig =>
    \A path \in Range(HostConfigPaths(Whose.agent, Whose.name)) : Ready(path)

(* After its step, a strict init has written exactly its own policy.       *)
PolicyInv ==
  Whose.command = "init" /\ Pos >= 5 => project = ProjectSettings(Whose.strict, Whose.stacks)

(* The addon's rules for agent mounts and init's for what to prepare agree.*)
LEMMA MountsToggle ==
  ASSUME NEW ch, Chooses(ch), ch.command = "init"
  PROVE  ch.mounts.agentConfig <=> MountEnabled(ch.agent, ch.env)
<1>1. PICK inv \in Invocations : Valid(inv) /\ ch = Options(inv)
  BY DEF Chooses
<1> DEFINE mounts == MountOptions(inv.agent, inv.env)
<1>2. /\ ch.agent = inv.agent /\ ch.env = inv.env
      /\ \E x : ch.mounts = [mounts EXCEPT !.cache = x]
  BY <1>1 DEF Options
<1>3. mounts.agentConfig = Toggle(inv.env, MountEnvVar[inv.agent], TRUE) /\ "agentConfig" \in DOMAIN mounts
  BY DEF MountOptions
<1> HIDE DEF mounts
<1>4. ch.mounts.agentConfig = mounts.agentConfig
  BY <1>2, <1>3
<1> QED BY <1>2, <1>3, <1>4 DEF Toggle, MountEnabled

LEMMA AllReady ==
  ASSUME MountEnabled(chosen.agent, chosen.env),
         host' = EnsureHostConfigPaths(host, chosen.agent, chosen.name, chosen.env),
         NEW path \in Range(HostConfigPaths(chosen.agent, chosen.name))
  PROVE  Ready(path)'
<1> DEFINE paths == Range(HostConfigPaths(chosen.agent, chosen.name))
<1>1. host' = EnsurePaths(host, paths)
  BY DEF EnsureHostConfigPaths
<1> HIDE DEF paths
<1>2. DOMAIN host' = DOMAIN host \cup paths
  BY <1>1 DEF EnsurePaths
<1>3. path \in DOMAIN host'
  BY <1>2 DEF paths
<1>4. path \in HostFiles => host'[path] = EnsureFile(host, path)
  BY <1>1, <1>3 DEF EnsurePaths, paths
<1>5. ASSUME DefaultContent(path) = "minimal"
      PROVE  host'[path] # "empty"
  <2>1. path \in {<<".cursor/hooks.json">>, <<".cursor/mcp.json">>}
    BY <1>5 DEF DefaultContent
  <2>2. path \in HostFiles
    BY <2>1 DEF HostFiles
  <2>3. EnsureFile(host, path) # "empty"
    BY <1>5 DEF EnsureFile
  <2> QED BY <1>4, <2>2, <2>3
<1> QED BY <1>3, <1>5 DEF Ready

LEMMA ProjectStays ==
  ASSUME Command, ~WriteProjectSettings
  PROVE  project' = project
BY DEF Command, UserStep, CreateUserSettingsStep, ApplyAgentDefaultsStep,
  AddSecretProviderTokenStep, EditUserSettingsFails, EnsureHostConfigPathsStep,
  WriteLocalSettings, GenerateStep, GenerateFails, LoadCompose,
  SaveCompose, NoSettingsFile, ManageGitignore, Interrupt, files

LEMMA HostStep ==
  ASSUME RunInv, HostInv, [Next]_vars
  PROVE  HostInv'
<1>1. CASE UNCHANGED vars
  <2>1. Whose' = Whose /\ Pos' = Pos /\ host' = host
    BY <1>1 DEF vars, files, run, Whose, Pos, Idle
  <2> QED BY <2>1 DEF HostInv, Ready
<1>2. CASE Pos' = 0
  BY <1>2 DEF HostInv
<1>3. CASE Whose' = NoOptions
  BY <1>3 DEF HostInv, NoOptions
<1>4. CASE Advances /\ Command
  <2>1. /\ Whose' = Whose /\ Pos' = Pos + 1 /\ Whose = chosen /\ Pos \in Nat /\ Chooses(chosen)
        /\ ~Idle
    BY <1>4, Walk DEF Advances
  <2>2. SUFFICES ASSUME Whose.command = "init", Pos >= 2, Whose.mounts.agentConfig
                 PROVE  \A path \in Range(HostConfigPaths(Whose.agent, Whose.name)) : Ready(path)'
    BY <2>1 DEF HostInv
  <2>3. CASE Pos >= 3
    <3>1. ~At("paths")
      BY <2>1, <2>3, Places
    <3>2. host' = host
      BY <1>4, <3>1, HostSame
    <3> QED BY <2>2, <2>3, <3>2 DEF HostInv, Ready
  <2>4. CASE Pos = 2
    <3>1. host' = EnsureHostConfigPaths(host, chosen.agent, chosen.name, chosen.env)
      BY <1>4, <2>2, <2>4, EarlyAt
    <3>2. MountEnabled(chosen.agent, chosen.env)
      BY <2>1, <2>2, MountsToggle
    <3> QED BY <2>1, <3>1, <3>2, AllReady
  <2> QED BY <2>1, <2>2, <2>3, <2>4
<1> QED BY <1>1, <1>2, <1>3, <1>4, EachStep

LEMMA PolicyStep ==
  ASSUME RunInv, PolicyInv, [Next]_vars
  PROVE  PolicyInv'
<1>1. CASE UNCHANGED vars
  <2>1. Whose' = Whose /\ Pos' = Pos /\ project' = project
    BY <1>1 DEF vars, files, run, Whose, Pos, Idle
  <2> QED BY <2>1 DEF PolicyInv
<1>2. CASE Pos' = 0
  BY <1>2 DEF PolicyInv
<1>3. CASE Whose' = NoOptions
  BY <1>3 DEF PolicyInv, NoOptions
<1>4. CASE Advances /\ Command
  <2>1. Whose' = Whose /\ Pos' = Pos + 1 /\ Whose = chosen /\ Pos \in Nat /\ ~Idle
    BY <1>4, Walk DEF Advances
  <2>2. SUFFICES ASSUME Whose.command = "init", Pos >= 4
                 PROVE  project' = ProjectSettings(Whose.strict, Whose.stacks)
    BY <2>1 DEF PolicyInv
  <2>3. CASE Pos >= 5
    <3>1. ~At("project")
      BY <2>1, <2>2, <2>3, Places DEF Generates
    <3>2. project' = project
      BY <1>4, <3>1, ProjectStays DEF WriteProjectSettings
    <3> QED BY <2>2, <2>3, <3>2 DEF PolicyInv
  <2>4. CASE Pos = 4
    <3>1. WriteProjectSettings
      BY <1>4, <2>2, <2>4, EarlyAt
    <3>2. ~CutShort
      BY <1>4, <2>1, QuitLeaves, Walk, ChosenIs DEF CutShort
    <3> QED BY <2>1, <3>1, <3>2 DEF WriteProjectSettings
  <2> QED BY <2>1, <2>2, <2>3, <2>4
<1> QED BY <1>1, <1>2, <1>3, <1>4, EachStep

LEMMA InitEarly ==
  ASSUME Init
  PROVE  HostInv /\ PolicyInv
<1>1. Whose = NoOptions
  BY DEF Init, Whose, Idle
<1> QED BY <1>1 DEF HostInv, PolicyInv, NoOptions

(* From its step on, a command has prepared the host's paths and written   *)
(* the project's policy; nothing undoes either before the next command.    *)
THEOREM EarlyDone == Spec => [](HostInv /\ PolicyInv)
<1>1. TypeInv => RunInv
  BY DEF TypeInv
<1> QED BY <1>1, Typed, InitEarly, HostStep, PolicyStep, PTL DEF Spec

(* Docker finds on the host what the agent's active mounts bind.           *)
THEOREM HostPrepared == Spec => []MountsPrepared
<1>1. ASSUME RunInv, HostInv
      PROVE  MountsPrepared
  <2>1. SUFFICES ASSUME done.command = "init", done.mounts.agentConfig,
                        NEW i \in DOMAIN AgentMounts(done.agent, done.name)
                 PROVE  \E path \in DOMAIN host :
                          /\ AtHome(path).source = AgentMounts(done.agent, done.name)[i].source
                          /\ DefaultContent(path) = "minimal" => host[path] # "empty"
    BY DEF MountsPrepared
  <2>2. done # NoOptions
    BY <2>1 DEF NoOptions
  <2>3. Whose = done /\ Pos >= 6 /\ Chooses(done)
    BY <1>1, <2>1, <2>2, AllTaken
  <2>4. done.agent \in AgentNames
    BY <2>1, <2>3, ChosenIs
  <2>5. Pos >= 3
    <3>1. Pos \in Int
      BY <1>1, <2>2, AllTaken
    <3> QED BY <2>3, <3>1
  <2>6. \A path \in Range(HostConfigPaths(done.agent, done.name)) : Ready(path)
    BY <1>1, <2>1, <2>3, <2>5 DEF HostInv
  <2>7. PICK path \in Range(HostConfigPaths(done.agent, done.name)) :
          AtHome(path).source = AgentMounts(done.agent, done.name)[i].source
    BY <2>1, <2>4, MountsBind
  <2>8. Ready(path)
    BY <2>6, <2>7
  <2> QED BY <2>7, <2>8 DEF Ready
<1>2. TypeInv => RunInv
  BY DEF TypeInv
<1> QED BY <1>1, <1>2, Typed, EarlyDone, PTL

(***************************************************************************)
(* The stacks of a policy                                                  *)
(***************************************************************************)

LEMMA StackKnown ==
  ASSUME NEW name \in StackNames
  PROVE  StackByName(name).name = name /\ StackByName(name).deps \in Seq(StackNames)
<1>1. \E s \in Range(AllStacks) : s.name = name
  BY DEF StackNames, Range
<1>2. StackByName(name) \in Range(AllStacks) /\ StackByName(name).name = name
  BY <1>1 DEF StackByName
<1>3. PICK i \in DOMAIN AllStacks : StackByName(name) = AllStacks[i]
  BY <1>2 DEF Range
<1>4. /\ DOMAIN AllStacks = 1..9 /\ AllStacks[3].name = "java"
      /\ AllStacks[1].deps = << >> /\ AllStacks[2].deps = << >> /\ AllStacks[3].deps = << >>
      /\ AllStacks[4].deps = << >> /\ AllStacks[5].deps = << >> /\ AllStacks[6].deps = <<"java">>
      /\ AllStacks[7].deps = << >> /\ AllStacks[8].deps = << >> /\ AllStacks[9].deps = << >>
  <2>1. DOMAIN AllStacks = 1..9
    BY DEF AllStacks
  <2>2. AllStacks[1].deps = << >>
    BY DEF AllStacks, Stack
  <2>3. AllStacks[2].deps = << >>
    BY DEF AllStacks, Stack
  <2>4. AllStacks[3].deps = << >>
    BY DEF AllStacks, Stack
  <2>5. AllStacks[4].deps = << >>
    BY DEF AllStacks, Stack
  <2>6. AllStacks[5].deps = << >>
    BY DEF AllStacks, Stack
  <2>7. AllStacks[6].deps = <<"java">>
    BY DEF AllStacks, Stack
  <2>8. AllStacks[7].deps = << >>
    BY DEF AllStacks, Stack
  <2>9. AllStacks[8].deps = << >>
    BY DEF AllStacks, Stack
  <2>10. AllStacks[9].deps = << >>
    BY DEF AllStacks, Stack
  <2>11. AllStacks[3].name = "java"
    BY DEF AllStacks, Stack
  <2> QED BY <2>1, <2>2, <2>3, <2>4, <2>5, <2>6, <2>7, <2>8, <2>9, <2>10, <2>11
<1>5. "java" \in StackNames
  BY <1>4 DEF StackNames
<1>6. i \in 1..9
  BY <1>4
<1>7. AllStacks[i].deps = << >> \/ AllStacks[i].deps = <<"java">>
  BY <1>4, <1>6
<1>8. << >> \in Seq(StackNames) /\ <<"java">> \in Seq(StackNames)
  BY <1>5
<1> QED BY <1>2, <1>3, <1>7, <1>8

(* What is asked for, and what that depends on.                            *)
LEMMA Resolved ==
  ASSUME NEW names, names \in Seq(Range(names)), ValidStacks(names)
  PROVE  /\ Resolve(names) \in Seq(StackNames)
         /\ Range(Resolve(names)) =
              Range(names) \cup UNION {Range(StackByName(s).deps) : s \in Range(names)}
<1> DEFINE ss == [i \in DOMAIN names |-> Append(StackByName(names[i]).deps, names[i])]
<1>1. \A i \in DOMAIN names : names[i] \in StackNames
  BY DEF ValidStacks, Range
<1>2. \A i \in DOMAIN names : StackByName(names[i]).deps \in Seq(StackNames)
  BY <1>1, StackKnown
<1>3. ASSUME NEW i \in DOMAIN names
      PROVE  ss[i] \in Seq(StackNames) /\ Range(ss[i]) = Range(StackByName(names[i]).deps) \cup {names[i]}
  <2> DEFINE deps == StackByName(names[i]).deps
  <2>1. ss[i] = Append(deps, names[i])
    BY <1>3
  <2>2. deps \in Seq(StackNames) /\ names[i] \in StackNames
    BY <1>1, <1>2, <1>3
  <2> HIDE DEF deps, ss
  <2>3. Append(deps, names[i]) \in Seq(StackNames)
    BY <2>2
  <2>4. \A x : x \in Range(Append(deps, names[i])) <=> x \in Range(deps) \cup {names[i]}
    <3> DEFINE longer == Append(deps, names[i])
    <3>1. /\ DOMAIN longer = 1..(Len(deps) + 1) /\ DOMAIN deps = 1..Len(deps) /\ Len(deps) \in Nat
          /\ longer[Len(deps) + 1] = names[i]
          /\ \A j \in 1..Len(deps) : longer[j] = deps[j]
      BY <2>2
    <3> HIDE DEF longer
    <3>2. \A j \in DOMAIN longer : j \in DOMAIN deps \/ j = Len(deps) + 1
      BY <3>1
    <3>3. \A j \in DOMAIN deps : j \in DOMAIN longer
      BY <3>1
    <3>4. Len(deps) + 1 \in DOMAIN longer
      BY <3>1
    <3> QED BY <3>1, <3>2, <3>3, <3>4 DEF Range, longer
  <2> QED BY <2>1, <2>3, <2>4 DEF deps
<1>4. ss \in Seq(Seq(StackNames)) /\ DOMAIN ss = DOMAIN names
  <2>1. DOMAIN names = 1..Len(names) /\ Len(names) \in Nat
    OBVIOUS
  <2>2. ss = [i \in 1..Len(names) |-> ss[i]]
    BY <2>1
  <2>3. \A i \in 1..Len(names) : ss[i] \in Seq(StackNames)
    BY <1>3, <2>1
  <2> HIDE DEF ss
  <2>4. ss \in [1..Len(names) -> Seq(StackNames)]
    BY <2>2, <2>3
  <2> QED BY <2>1, <2>4
<1> DEFINE flat == FlattenSeq(ss)
<1>5. Resolve(names) = FirstSeen(flat)
  BY DEF Resolve
<1> HIDE DEF ss
<1>6. flat \in Seq(StackNames) /\ Range(flat) = UNION {Range(ss[i]) : i \in DOMAIN ss}
  BY <1>4, FlattenedElements
<1> HIDE DEF flat
<1>7. Resolve(names) \in Seq(StackNames) /\ Range(Resolve(names)) = Range(flat)
  BY <1>5, <1>6, FirstSeenElements
<1> DEFINE most == Range(names) \cup UNION {Range(StackByName(s).deps) : s \in Range(names)}
<1>8. \A x : x \in Range(flat) <=> \E i \in DOMAIN names : x \in Range(ss[i])
  BY <1>4, <1>6
<1>9. \A x : x \in most <=> \E i \in DOMAIN names : x = names[i] \/ x \in Range(StackByName(names[i]).deps)
  BY DEF Range
<1>10. \A x : x \in most <=> x \in Range(flat)
  <2> HIDE DEF most
  <2>1. \A i \in DOMAIN names : \A x :
          x \in Range(ss[i]) <=> x = names[i] \/ x \in Range(StackByName(names[i]).deps)
    BY <1>3
  <2> QED BY <1>8, <1>9, <2>1
<1> HIDE DEF most
<1>11. most = Range(flat)
  BY <1>10
<1> QED BY <1>7, <1>11 DEF most

(* The stacks of init are those of its command line, resolved.             *)
LEMMA StacksOfInit ==
  ASSUME NEW ch, Chooses(ch), ch.command = "init"
  PROVE  ch.requested \in Seq(Range(ch.requested)) /\ ValidStacks(ch.requested)
         /\ ch.stacks = Resolve(ch.requested)
<1>1. PICK inv \in Invocations : Valid(inv) /\ ch = Options(inv)
  BY DEF Chooses
<1>2. ch.command = inv.command /\ ch.requested = inv.stacks
      /\ ch.stacks = IF inv.command = "init" THEN Resolve(inv.stacks) ELSE inv.stacks
  BY <1>1 DEF Options
<1>3. inv.command = "init"
  BY <1>2
<1>4. ValidStacks(inv.stacks)
  BY <1>1, <1>3 DEF Valid
<1>5. inv.stacks \in Seq(Range(inv.stacks))
  BY InvocationsAssumption
<1> QED BY <1>2, <1>3, <1>4, <1>5

LEMMA StrictSettings ==
  ASSUME NEW S, NEW stacks \in Seq(S), NEW saved, saved = ProjectSettings(TRUE, stacks)
  PROVE  LET network == EnsureArray(saved.obj, "network")
         IN  /\ DOMAIN network = DOMAIN stacks
             /\ \A i \in DOMAIN stacks : String(network[i].obj, "preset") = stacks[i]
<1> DEFINE rules == [i \in DOMAIN stacks |-> Obj([preset |-> Str(stacks[i])])]
<1>1. saved = Saved(With(ProjectTemplate, "network", Arr(rules)))
  BY DEF ProjectSettings
<1> HIDE DEF rules
<1>2. saved.obj = With(ProjectTemplate, "network", Arr(rules))
  BY <1>1, KindsDiffer
<1>3. "network" \in DOMAIN saved.obj /\ saved.obj["network"] = Arr(rules)
  BY <1>2 DEF With
<1>4. IsArr(Arr(rules)) /\ Arr(rules).arr = rules
  BY DEF IsArr, Arr
<1>5. EnsureArray(saved.obj, "network") = rules
  BY <1>3, <1>4 DEF EnsureArray
<1>6. ASSUME NEW i \in DOMAIN stacks
      PROVE  String(rules[i].obj, "preset") = stacks[i]
  <2>1. rules[i] = Obj([preset |-> Str(stacks[i])])
    BY <1>6 DEF rules
  <2>2. rules[i].obj = [preset |-> Str(stacks[i])]
    BY <2>1 DEF Obj
  <2>3. "preset" \in DOMAIN rules[i].obj /\ rules[i].obj["preset"] = Str(stacks[i])
    BY <2>2
  <2>4. IsStr(Str(stacks[i])) /\ Str(stacks[i]).str = stacks[i]
    BY DEF IsStr, Str
  <2> QED BY <2>3, <2>4 DEF String
<1>7. DOMAIN rules = DOMAIN stacks
  BY DEF rules
<1> QED BY <1>5, <1>6, <1>7

LEMMA StrictFrom ==
  ASSUME RunInv, PolicyInv
  PROVE  StrictPolicy
<1>1. SUFFICES ASSUME done.command = "init"
               PROVE  StrictPolicy
  BY DEF StrictPolicy
<1>2. done # NoOptions
  BY <1>1 DEF NoOptions
<1>3. Whose = done /\ Pos >= 6 /\ Chooses(done) /\ Pos \in Nat
  BY <1>1, <1>2, AllTaken
<1>4. Pos >= 5
  BY <1>3
<1>5. project = ProjectSettings(done.strict, done.stacks)
  BY <1>1, <1>3, <1>4 DEF PolicyInv
<1>6. CASE ~done.strict
  BY <1>5, <1>6 DEF StrictPolicy, ProjectSettings
<1>7. CASE done.strict
  <2> DEFINE network == EnsureArray(project.obj, "network")
             asked   == Range(done.requested)
             wanted  == asked \cup UNION {Range(StackByName(s).deps) : s \in asked}
  <2>1. /\ done.requested \in Seq(Range(done.requested)) /\ ValidStacks(done.requested)
        /\ done.stacks = Resolve(done.requested)
    BY <1>1, <1>3, StacksOfInit
  <2>2. done.stacks \in Seq(StackNames) /\ Range(done.stacks) = wanted
    BY <2>1, Resolved
  <2>3. project = ProjectSettings(TRUE, done.stacks)
    BY <1>5, <1>7 DEF ProjectSettings
  <2>4. DOMAIN network = DOMAIN done.stacks
        /\ \A i \in DOMAIN done.stacks : String(network[i].obj, "preset") = done.stacks[i]
    BY <2>2, <2>3, StrictSettings
  <2> HIDE DEF network, wanted
  <2>5. \A i \in DOMAIN network : ~BadPreset([preset |-> String(network[i].obj, "preset")])
    <3>1. \A i \in DOMAIN done.stacks : done.stacks[i] \in DOMAIN Presets
      BY <2>2, PresetsAssumption
    <3>2. \A p : DOMAIN [preset |-> p] = {"preset"} /\ [preset |-> p].preset = p
      OBVIOUS
    <3> QED BY <2>4, <3>1, <3>2 DEF BadPreset
  <2>6. {String(network[i].obj, "preset") : i \in DOMAIN network} = wanted
    <3>1. {String(network[i].obj, "preset") : i \in DOMAIN network} = Range(done.stacks)
      BY <2>4 DEF Range
    <3> QED BY <2>2, <3>1
  <2> QED BY <1>7, <2>5, <2>6 DEF StrictPolicy, network, wanted
<1> QED BY <1>6, <1>7

(* A strict init allows the stacks asked for and what they depend on, by   *)
(* presets the addon knows, and nothing else.                              *)
THEOREM PolicyIsStrict == Spec => []StrictPolicy
<1>1. TypeInv => RunInv
  BY DEF TypeInv
<1> QED BY <1>1, Typed, EarlyDone, StrictFrom, PTL

(***************************************************************************)
(* What the generator has made of a file                                   *)
(***************************************************************************)

(* Step k looks at its own file only, and makes this of what it finds.     *)
StepMakes(k, old, ch, bundles) == Generated(GenStep(k), [f \in AllFiles |-> old], ch, bundles)

Once(j, k, old, ch, bundles) == IF k >= j THEN StepMakes(j, old, ch, bundles) ELSE old

(* A file after k steps.                                                   *)
Stage(f, k, ch, bundles) ==
  CASE f = "Dockerfile.app" ->
         Once(12, k, Once(9, k, Template["Dockerfile.app"], ch, bundles), ch, bundles)
    [] f = "devcontainer.json" ->
         Once(18, k, Once(17, k,
           Once(11, k, Once(6, k, Template["devcontainer.json"], ch, bundles), ch, bundles),
           ch, bundles), ch, bundles)
    [] f = "compose-proxy.yml" ->
         Once(15, k, Once(14, k, Template["compose-proxy.yml"], ch, bundles), ch, bundles)
    [] f = "app-user-init.sh" -> Once(13, k, Template["app-user-init.sh"], ch, bundles)
    [] f = "devbox.stack.json" -> Packages(StackJson(ch.stacks))

(* Whatever was there has been replaced.                                   *)
Begun(f, k) ==
  \/ f = "Dockerfile.app" /\ k >= 1
  \/ f = "devcontainer.json" /\ k >= 3
  \/ f = "compose-proxy.yml" /\ k >= 4
  \/ f = "app-user-init.sh" /\ k >= 5
  \/ f = "devbox.stack.json" /\ k >= 7

LEMMA OwnFileOnly ==
  ASSUME NEW k \in 1..18, NEW t, NEW ch, NEW bundles
  PROVE  Generated(GenStep(k), t, ch, bundles) = StepMakes(k, t[GenStep(k)[2]], ch, bundles)
<1> DEFINE step == GenStep(k)
           same == [f \in AllFiles |-> t[step[2]]]
<1>1. step[2] \in AllFiles
  BY GenFiles
<1>2. same[step[2]] = t[step[2]]
  BY <1>1
<1>3. Generated(step, t, ch, bundles) = Generated(step, same, ch, bundles)
  <2> HIDE DEF step, same
  <2> QED BY <1>2 DEF Generated
<1> QED BY <1>3 DEF StepMakes

(* The file of a step.                                                     *)
LEMMA Writers ==
  ASSUME NEW k \in 1..18
  PROVE  /\ GenStep(k)[2] = "Dockerfile.app" <=> k \in {1, 9, 12}
         /\ GenStep(k)[2] = "devcontainer.json" <=> k \in {3, 6, 11, 17, 18}
         /\ GenStep(k)[2] = "compose-proxy.yml" <=> k \in {4, 14, 15}
         /\ GenStep(k)[2] = "app-user-init.sh" <=> k \in {5, 13}
         /\ GenStep(k)[2] = "devbox.stack.json" <=> k = 7
         /\ GenStep(k)[2] = "compose-all.yml" <=> k \in {2, 10, 16}
<1>1. CASE k <= 5
  <2>1. /\ k = 1 => GenStep(k)[2] = "Dockerfile.app"
        /\ k = 2 => GenStep(k)[2] = "compose-all.yml"
        /\ k = 3 => GenStep(k)[2] = "devcontainer.json"
        /\ k = 4 => GenStep(k)[2] = "compose-proxy.yml"
        /\ k = 5 => GenStep(k)[2] = "app-user-init.sh"
    BY <1>1 DEF GenStep, TemplateOrder
  <2>2. k \in {1, 2, 3, 4, 5}
    BY <1>1
  <2> QED BY <2>1, <2>2
<1>2. CASE k > 5
  <2>1. /\ k = 6 => GenStep(k)[2] = "devcontainer.json"
        /\ k = 7 => GenStep(k)[2] = "devbox.stack.json"
        /\ k = 8 => GenStep(k)[2] = "devbox.tools.json"
        /\ k = 9 => GenStep(k)[2] = "Dockerfile.app"
        /\ k = 10 => GenStep(k)[2] = "compose-all.yml"
        /\ k = 11 => GenStep(k)[2] = "devcontainer.json"
        /\ k = 12 => GenStep(k)[2] = "Dockerfile.app"
        /\ k = 13 => GenStep(k)[2] = "app-user-init.sh"
        /\ k = 14 => GenStep(k)[2] = "compose-proxy.yml"
        /\ k = 15 => GenStep(k)[2] = "compose-proxy.yml"
        /\ k = 16 => GenStep(k)[2] = "compose-all.yml"
        /\ k = 17 => GenStep(k)[2] = "devcontainer.json"
        /\ k = 18 => GenStep(k)[2] = "devcontainer.json"
    BY GenFiles
  <2>2. k \in {6, 7, 8, 9, 10, 11, 12, 13, 14, 15, 16, 17, 18}
    BY <1>2
  <2> QED BY <2>1, <2>2
<1> QED BY <1>1, <1>2

LEMMA TemplateOf ==
  /\ TemplateOrder[1] = "Dockerfile.app" /\ TemplateOrder[2] = "compose-all.yml"
  /\ TemplateOrder[3] = "devcontainer.json" /\ TemplateOrder[4] = "compose-proxy.yml"
  /\ TemplateOrder[5] = "app-user-init.sh"
BY DEF TemplateOrder

(* A step takes a file from one stage to the next, or leaves it there.     *)
LEMMA NextStage ==
  ASSUME NEW k \in 1..18, NEW f, Begun(f, k), NEW ch, NEW b, NEW t,
         Begun(f, k - 1) => t[f] = Stage(f, k - 1, ch, b)
  PROVE  Stage(f, k, ch, b) =
           IF GenStep(k)[2] = f THEN Generated(GenStep(k), t, ch, b) ELSE t[f]
<1> DEFINE new == Generated(GenStep(k), t, ch, b)
<1>1. new = StepMakes(k, t[GenStep(k)[2]], ch, b)
  BY OwnFileOnly
<1>2. k <= 5 => new = Template[TemplateOrder[k]]
  BY GeneratedBy
<1>3. k = 7 => new = Packages(StackJson(ch.stacks))
  BY GeneratedBy
<1> HIDE DEF new
<1>4. \A i \in 1..18, j \in 0..18 : \A old : Once(i, j, old, ch, b) = IF j >= i THEN StepMakes(i, old, ch, b) ELSE old
  BY DEF Once
<1>5. k - 1 \in 0..18 /\ k \in 0..18
  OBVIOUS
<1>6. CASE f = "Dockerfile.app"
  <2> DEFINE T == Template["Dockerfile.app"]
  <2>1. \A j : Stage(f, j, ch, b) = Once(12, j, Once(9, j, T, ch, b), ch, b)
    BY <1>6 DEF Stage
  <2>2. /\ \A j \in 0..8 : Stage(f, j, ch, b) = T
        /\ \A j \in 9..11 : Stage(f, j, ch, b) = StepMakes(9, T, ch, b)
        /\ \A j \in 12..18 : Stage(f, j, ch, b) = StepMakes(12, StepMakes(9, T, ch, b), ch, b)
    <3> HIDE DEF T
    <3> QED BY <1>4, <2>1
  <2>3. GenStep(k)[2] = f <=> k \in {1, 9, 12}
    BY <1>6, Writers
  <2>4. Begun(f, k - 1) <=> k - 1 >= 1
    BY <1>6 DEF Begun
  <2>5. k = 1 => new = T
    BY <1>2, TemplateOf
  <2> HIDE DEF T
  <2>6. CASE k = 1
    BY <2>2, <2>3, <2>5, <2>6 DEF new
  <2>7. CASE k = 9
    <3>1. t[f] = T
      BY <1>5, <2>2, <2>4, <2>7
    <3> QED BY <1>1, <2>2, <2>3, <2>7, <3>1 DEF new
  <2>8. CASE k = 12
    <3>1. t[f] = StepMakes(9, T, ch, b)
      BY <1>5, <2>2, <2>4, <2>8
    <3> QED BY <1>1, <2>2, <2>3, <2>8, <3>1 DEF new
  <2>9. CASE k \notin {1, 9, 12}
    <3>1. t[f] = Stage(f, k - 1, ch, b)
      BY <2>4, <2>9
    <3>2. k \in 2..8 \/ k \in 10..11 \/ k \in 13..18
      BY <2>9
    <3>3. Stage(f, k, ch, b) = Stage(f, k - 1, ch, b)
      BY <2>2, <3>2
    <3> QED BY <2>3, <2>9, <3>1, <3>3
  <2> QED BY <2>6, <2>7, <2>8, <2>9
<1>7. CASE f = "devcontainer.json"
  <2> DEFINE T == Template["devcontainer.json"]
             a == StepMakes(6, T, ch, b)
             c == StepMakes(11, a, ch, b)
             d == StepMakes(17, c, ch, b)
  <2>1. \A j : Stage(f, j, ch, b) =
          Once(18, j, Once(17, j, Once(11, j, Once(6, j, T, ch, b), ch, b), ch, b), ch, b)
    BY <1>7 DEF Stage
  <2>2. /\ \A j \in 0..5 : Stage(f, j, ch, b) = T
        /\ \A j \in 6..10 : Stage(f, j, ch, b) = a
        /\ \A j \in 11..16 : Stage(f, j, ch, b) = c
        /\ Stage(f, 17, ch, b) = d
        /\ Stage(f, 18, ch, b) = StepMakes(18, d, ch, b)
    <3> HIDE DEF T
    <3> QED BY <1>4, <2>1
  <2>3. GenStep(k)[2] = f <=> k \in {3, 6, 11, 17, 18}
    BY <1>7, Writers
  <2>4. Begun(f, k - 1) <=> k - 1 >= 3
    BY <1>7 DEF Begun
  <2>5. k = 3 => new = T
    BY <1>2, TemplateOf
  <2>6. k >= 3
    BY <1>7 DEF Begun
  <2> HIDE DEF T
  <2>7. CASE k = 3
    BY <2>2, <2>3, <2>5, <2>7 DEF new
  <2>8. CASE k = 6
    <3>1. t[f] = T
      BY <1>5, <2>2, <2>4, <2>8
    <3> QED BY <1>1, <2>2, <2>3, <2>8, <3>1 DEF new
  <2>9. CASE k = 11
    <3>1. t[f] = a
      BY <1>5, <2>2, <2>4, <2>9
    <3> QED BY <1>1, <2>2, <2>3, <2>9, <3>1 DEF new
  <2>10. CASE k = 17
    <3>1. t[f] = c
      BY <1>5, <2>2, <2>4, <2>10
    <3> QED BY <1>1, <2>2, <2>3, <2>10, <3>1 DEF new
  <2>11. CASE k = 18
    <3>1. t[f] = d
      BY <1>5, <2>2, <2>4, <2>11
    <3> QED BY <1>1, <2>2, <2>3, <2>11, <3>1 DEF new
  <2>12. CASE k \notin {3, 6, 11, 17, 18}
    <3>1. t[f] = Stage(f, k - 1, ch, b)
      BY <2>4, <2>6, <2>12
    <3>2. k \in 4..5 \/ k \in 7..10 \/ k \in 12..16
      BY <2>6, <2>12
    <3>3. Stage(f, k, ch, b) = Stage(f, k - 1, ch, b)
      BY <2>2, <3>2
    <3> QED BY <2>3, <2>12, <3>1, <3>3
  <2> QED BY <2>7, <2>8, <2>9, <2>10, <2>11, <2>12
<1>8. CASE f = "compose-proxy.yml"
  <2> DEFINE T == Template["compose-proxy.yml"]
             a == StepMakes(14, T, ch, b)
  <2>1. \A j : Stage(f, j, ch, b) = Once(15, j, Once(14, j, T, ch, b), ch, b)
    BY <1>8 DEF Stage
  <2>2. /\ \A j \in 0..13 : Stage(f, j, ch, b) = T
        /\ Stage(f, 14, ch, b) = a
        /\ \A j \in 15..18 : Stage(f, j, ch, b) = StepMakes(15, a, ch, b)
    <3> HIDE DEF T
    <3> QED BY <1>4, <2>1
  <2>3. GenStep(k)[2] = f <=> k \in {4, 14, 15}
    BY <1>8, Writers
  <2>4. Begun(f, k - 1) <=> k - 1 >= 4
    BY <1>8 DEF Begun
  <2>5. k = 4 => new = T
    BY <1>2, TemplateOf
  <2>6. k >= 4
    BY <1>8 DEF Begun
  <2> HIDE DEF T
  <2>7. CASE k = 4
    BY <2>2, <2>3, <2>5, <2>7 DEF new
  <2>8. CASE k = 14
    <3>1. t[f] = T
      BY <1>5, <2>2, <2>4, <2>8
    <3> QED BY <1>1, <2>2, <2>3, <2>8, <3>1 DEF new
  <2>9. CASE k = 15
    <3>1. t[f] = a
      BY <1>5, <2>2, <2>4, <2>9
    <3> QED BY <1>1, <2>2, <2>3, <2>9, <3>1 DEF new
  <2>10. CASE k \notin {4, 14, 15}
    <3>1. t[f] = Stage(f, k - 1, ch, b)
      BY <2>4, <2>6, <2>10
    <3>2. k \in 5..13 \/ k \in 16..18
      BY <2>6, <2>10
    <3>3. Stage(f, k, ch, b) = Stage(f, k - 1, ch, b)
      BY <2>2, <3>2
    <3> QED BY <2>3, <2>10, <3>1, <3>3
  <2> QED BY <2>7, <2>8, <2>9, <2>10
<1>9. CASE f = "app-user-init.sh"
  <2> DEFINE T == Template["app-user-init.sh"]
  <2>1. \A j : Stage(f, j, ch, b) = Once(13, j, T, ch, b)
    BY <1>9 DEF Stage
  <2>2. /\ \A j \in 0..12 : Stage(f, j, ch, b) = T
        /\ \A j \in 13..18 : Stage(f, j, ch, b) = StepMakes(13, T, ch, b)
    <3> HIDE DEF T
    <3> QED BY <1>4, <2>1
  <2>3. GenStep(k)[2] = f <=> k \in {5, 13}
    BY <1>9, Writers
  <2>4. Begun(f, k - 1) <=> k - 1 >= 5
    BY <1>9 DEF Begun
  <2>5. k = 5 => new = T
    BY <1>2, TemplateOf
  <2>6. k >= 5
    BY <1>9 DEF Begun
  <2> HIDE DEF T
  <2>7. CASE k = 5
    BY <2>2, <2>3, <2>5, <2>7 DEF new
  <2>8. CASE k = 13
    <3>1. t[f] = T
      BY <1>5, <2>2, <2>4, <2>8
    <3> QED BY <1>1, <2>2, <2>3, <2>8, <3>1 DEF new
  <2>9. CASE k \notin {5, 13}
    <3>1. t[f] = Stage(f, k - 1, ch, b)
      BY <2>4, <2>6, <2>9
    <3>2. k \in 6..12 \/ k \in 14..18
      BY <2>6, <2>9
    <3>3. Stage(f, k, ch, b) = Stage(f, k - 1, ch, b)
      BY <2>2, <3>2
    <3> QED BY <2>3, <2>9, <3>1, <3>3
  <2> QED BY <2>7, <2>8, <2>9
<1>10. CASE f = "devbox.stack.json"
  <2>1. \A j : Stage(f, j, ch, b) = Packages(StackJson(ch.stacks))
    BY <1>10 DEF Stage
  <2>2. GenStep(k)[2] = f <=> k = 7
    BY <1>10, Writers
  <2>3. (Begun(f, k - 1) <=> k - 1 >= 7) /\ k >= 7
    BY <1>10 DEF Begun
  <2>4. CASE k = 7
    BY <1>3, <2>1, <2>2, <2>4 DEF new
  <2>5. CASE k # 7
    BY <2>1, <2>2, <2>3, <2>5
  <2> QED BY <2>4, <2>5
<1> QED BY <1>6, <1>7, <1>8, <1>9, <1>10 DEF Begun

LEMMA NextStages ==
  \A k \in 1..18 : \A f : Begun(f, k) =>
    \A ch, b, t :
      (Begun(f, k - 1) => t[f] = Stage(f, k - 1, ch, b)) =>
        Stage(f, k, ch, b) =
          IF GenStep(k)[2] = f THEN Generated(GenStep(k), t, ch, b) ELSE t[f]
BY NextStage

TreeFiles == {"Dockerfile.app", "devcontainer.json", "compose-proxy.yml", "app-user-init.sh",
              "devbox.stack.json"}

(* compose-all.yml, as the command holds it between its two steps.         *)
Loaded(ch) == MergeAgentEnvironment(ComposeTemplate, EnvEntries(ch.stacks))

(* The directory after k steps of the generator.                           *)
GeneratedUpTo(k, ch) ==
  /\ \A f \in TreeFiles : Begun(f, k) => tree[f] = Stage(f, k, ch, Bundles)
  /\ k >= 2 /\ k < 16 => tree["compose-all.yml"] = Compose(ComposeTemplate)
  /\ k >= 10 /\ k < 16 => doc = Loaded(ch)
  /\ k >= 15 => ValidSecretProvider(ch.provider) /\ Range(Bundles) \subseteq GoodBundles
  /\ k >= 16 => tree["compose-all.yml"] = Compose(FinishedCompose(Loaded(ch), ch))

(* The block of .gitignore comes after the generator's last step.          *)
GenInv ==
  Generates(Whose) /\ Gen >= 0 =>
    GeneratedUpTo(IF Gen <= Gens(Whose) THEN Gen ELSE Gens(Whose), Whose)

LEMMA MakesNext ==
  ASSUME FilesInv, NEW k, Makes(k), GeneratedUpTo(k - 1, Whose), Whose' = Whose
  PROVE  GeneratedUpTo(k, Whose)'
<1>1. /\ k \in 1..18 /\ k \notin {10, 16}
      /\ tree' = [tree EXCEPT ![GenStep(k)[2]] = Generated(GenStep(k), tree, Whose, Bundles)]
      /\ k = 15 => ValidSecretProvider(Whose.provider) /\ Range(Bundles) \subseteq GoodBundles
      /\ k < 17 => doc' = doc
      /\ user' = user /\ local' = local
  <2>1. k \in 1..18
    <3>1. Gens(Whose) \in {17, 18} /\ k \in 1..Gens(Whose)
      BY DEF Makes, Gens
    <3> QED BY <3>1
  <2> QED BY <2>1 DEF Makes
<1>2. Bundles' = Bundles
  BY <1>1 DEF Bundles
<1> DEFINE new == Generated(GenStep(k), tree, Whose, Bundles)
<1>3. \A f \in AllFiles : tree'[f] = IF GenStep(k)[2] = f THEN new ELSE tree[f]
  <2> HIDE DEF new
  <2> QED BY <1>1 DEF FilesInv, new
<1> HIDE DEF new
<1>4. "compose-all.yml" \in AllFiles /\ TreeFiles \subseteq AllFiles
  BY DEF AllFiles, GeneratedFiles, Template, TreeFiles
<1>5. ASSUME NEW f \in TreeFiles, Begun(f, k)
      PROVE  tree'[f] = Stage(f, k, Whose, Bundles)
  <2>1. Begun(f, k - 1) => tree[f] = Stage(f, k - 1, Whose, Bundles)
    BY DEF GeneratedUpTo
  <2>2. Stage(f, k, Whose, Bundles) = IF GenStep(k)[2] = f THEN new ELSE tree[f]
    <3>1. k \in 1..18
      BY <1>1
    <3>2. Stage(f, k, Whose, Bundles) =
            IF GenStep(k)[2] = f THEN Generated(GenStep(k), tree, Whose, Bundles) ELSE tree[f]
      <4>1. Begun(f, k)
        BY <1>5
      <4>2. \A ch, b, t :
              (Begun(f, k - 1) => t[f] = Stage(f, k - 1, ch, b)) =>
                Stage(f, k, ch, b) =
                  IF GenStep(k)[2] = f THEN Generated(GenStep(k), t, ch, b) ELSE t[f]
        BY <3>1, <4>1, NextStages
      <4> QED BY <2>1, <4>2
    <3> QED BY <3>2 DEF new
  <2> QED BY <1>3, <1>4, <1>5, <2>2
<1>6. ASSUME k >= 2, k < 16
      PROVE  tree'["compose-all.yml"] = Compose(ComposeTemplate)
  <2>1. CASE k = 2
    <3>1. GenStep(k)[2] = "compose-all.yml" /\ new = Template["compose-all.yml"]
      BY <1>1, <2>1, Writers, GeneratedBy, TemplateOf DEF new
    <3>2. Template["compose-all.yml"] = Compose(ComposeTemplate)
      BY DEF Template
    <3> QED BY <1>3, <1>4, <3>1, <3>2
  <2>2. CASE k # 2
    <3>1. GenStep(k)[2] # "compose-all.yml"
      BY <1>1, <2>2, Writers
    <3>2. k - 1 >= 2 /\ k - 1 < 16
      BY <1>1, <1>6, <2>2
    <3>3. tree["compose-all.yml"] = Compose(ComposeTemplate)
      BY <3>2 DEF GeneratedUpTo
    <3> QED BY <1>3, <1>4, <3>1, <3>3
  <2> QED BY <2>1, <2>2
<1>7. k >= 10 /\ k < 16 => doc' = Loaded(Whose)
  <2> SUFFICES ASSUME k >= 10, k < 16
               PROVE  doc' = Loaded(Whose)
    OBVIOUS
  <2>1. k - 1 >= 10 /\ k - 1 < 16
    BY <1>1
  <2> QED BY <1>1, <2>1 DEF GeneratedUpTo
<1>8. k >= 15 => ValidSecretProvider(Whose.provider) /\ Range(Bundles) \subseteq GoodBundles
  <2>1. k >= 15 /\ k # 15 => k - 1 >= 15
    BY <1>1
  <2> QED BY <1>1, <2>1 DEF GeneratedUpTo
<1>9. k >= 16 => tree'["compose-all.yml"] = Compose(FinishedCompose(Loaded(Whose), Whose))
  <2> SUFFICES ASSUME k >= 16
               PROVE  tree'["compose-all.yml"] = Compose(FinishedCompose(Loaded(Whose), Whose))
    OBVIOUS
  <2>1. k - 1 >= 16 /\ GenStep(k)[2] # "compose-all.yml"
    BY <1>1, Writers
  <2> QED BY <1>3, <1>4, <2>1 DEF GeneratedUpTo
<1> QED BY <1>2, <1>5, <1>6, <1>7, <1>8, <1>9 DEF GeneratedUpTo

(* The two steps that are not Makes: reading, and writing, compose-all.yml.*)
LEMMA ComposeNext ==
  ASSUME FilesInv, NEW k \in {10, 16}, GeneratedUpTo(k - 1, Whose), Whose' = Whose,
         \/ k = 10 /\ Reads10
         \/ k = 16 /\ Saves16
  PROVE  GeneratedUpTo(k, Whose)'
<1> DEFINE c == "compose-all.yml"
<1>1. user' = user /\ local' = local
  BY DEF Reads10, Saves16, files
<1>2. Bundles' = Bundles
  BY <1>1 DEF Bundles
<1>3. c \in AllFiles /\ TreeFiles \subseteq AllFiles /\ c \notin TreeFiles
  BY DEF AllFiles, GeneratedFiles, Template, TreeFiles
<1>4. \A f \in TreeFiles : tree'[f] = tree[f]
  BY <1>3 DEF Reads10, Saves16, files, FilesInv
<1>5. \A f \in TreeFiles : Begun(f, k) => Begun(f, k - 1)
  BY DEF Begun
<1>6. ASSUME NEW f \in TreeFiles, Begun(f, k)
      PROVE  tree'[f] = Stage(f, k, Whose, Bundles)
  <2>1. tree[f] = Stage(f, k - 1, Whose, Bundles)
    BY <1>5, <1>6 DEF GeneratedUpTo
  <2>2. GenStep(k)[2] # f
    <3>1. GenStep(k)[2] = c
      BY Writers
    <3> QED BY <1>3, <3>1
  <2>3. k \in 1..18
    OBVIOUS
  <2>4. Stage(f, k, Whose, Bundles) = tree[f]
    BY <1>6, <2>1, <2>2, <2>3, NextStage
  <2> QED BY <1>4, <2>4
<1>7. CASE k = 10
  <2>1. /\ tree' = tree /\ doc' = MergeAgentEnvironment(tree[c].compose, EnvEntries(Whose.stacks))
    BY <1>7 DEF Reads10, files
  <2>2. tree[c] = Compose(ComposeTemplate)
    BY <1>7 DEF GeneratedUpTo
  <2>3. tree[c].compose = ComposeTemplate
    BY <2>2 DEF Compose
  <2>4. doc' = Loaded(Whose)
    BY <2>1, <2>3 DEF Loaded
  <2>5. ~(k >= 15) /\ ~(k >= 16)
    BY <1>7
  <2> QED BY <1>2, <1>6, <2>1, <2>2, <2>4, <2>5 DEF GeneratedUpTo
<1>8. CASE k = 16
  <2>1. tree' = [tree EXCEPT ![c] = Compose(FinishedCompose(doc, Whose))]
    BY <1>8 DEF Saves16
  <2>2. doc = Loaded(Whose) /\ ValidSecretProvider(Whose.provider) /\ Range(Bundles) \subseteq GoodBundles
    BY <1>8 DEF GeneratedUpTo
  <2>3. tree'[c] = Compose(FinishedCompose(Loaded(Whose), Whose))
    BY <1>3, <2>1, <2>2 DEF FilesInv
  <2>4. ~(k < 16)
    BY <1>8
  <2> QED BY <1>2, <1>6, <2>2, <2>3, <2>4 DEF GeneratedUpTo
<1> QED BY <1>7, <1>8

LEMMA GenStepHolds ==
  ASSUME TypeInv, GenInv, [Next]_vars
  PROVE  GenInv'
<1>1. RunInv /\ RunInv' /\ FilesInv
  BY EachStep DEF TypeInv
<1>2. CASE UNCHANGED vars
  <2>1. /\ todo' = todo /\ chosen' = chosen /\ done' = done /\ tree' = tree /\ doc' = doc
        /\ user' = user /\ local' = local
    BY <1>2 DEF vars, files, run
  <2>2. Whose' = Whose /\ Gen' = Gen /\ Bundles' = Bundles
    BY <2>1 DEF Whose, Gen, Pos, Idle, Bundles
  <2> QED BY <2>1, <2>2 DEF GenInv, GeneratedUpTo
<1>3. CASE Pos' = 0
  <2>1. Generates(Whose') /\ Gen' >= 0 => Gen' = 0 /\ Gens(Whose') >= 0
    <3>1. Gens(Whose') \in {17, 18}
      BY DEF Gens
    <3>2. Gen' = Pos' - Offset(Whose') /\ (Offset(Whose') = 6 \/ Offset(Whose') = 0)
      BY DEF Gen, Offset
    <3> QED BY <1>3, <3>1, <3>2
  <2>2. GeneratedUpTo(0, Whose)'
    BY DEF GeneratedUpTo, Begun
  <2> QED BY <2>1, <2>2 DEF GenInv
<1>4. CASE Whose' = NoOptions
  <2>1. ~Generates(NoOptions)
    BY DEF Generates, NoOptions
  <2> QED BY <1>4, <2>1 DEF GenInv
<1>5. CASE Advances /\ Command
  <2>1. Whose' = Whose /\ Pos' = Pos + 1 /\ Pos \in Nat
    BY <1>1, <1>5, Walk DEF Advances
  <2>2. Gen' = Gen + 1 /\ Gen \in Int /\ Gens(Whose) \in {17, 18}
    <3>1. Offset(Whose) \in Int
      BY DEF Offset
    <3> QED BY <2>1, <3>1 DEF Gen, Gens
  <2>3. SUFFICES ASSUME Generates(Whose), Gen + 1 >= 0
                 PROVE  GenInv'
    BY <2>1, <2>2 DEF GenInv
  <2>4. Gen >= 0 => GeneratedUpTo(IF Gen <= Gens(Whose) THEN Gen ELSE Gens(Whose), Whose)
    BY <2>3 DEF GenInv
  <2>5. ASSUME NEW k \in 1..Gens(Whose), Gen + 1 = k, GeneratedUpTo(k, Whose)'
        PROVE  GenInv'
    <3>1. Gen' = k /\ Gen' <= Gens(Whose)
      BY <2>2, <2>5
    <3>2. Gens(Whose)' = Gens(Whose)
      BY <2>1
    <3> QED BY <2>1, <2>5, <3>1, <3>2 DEF GenInv
  <2>6. ASSUME NEW k, Makes(k)
        PROVE  GenInv'
    <3>1. k \in 1..Gens(Whose) /\ Gen + 1 = k
      BY <2>6 DEF Makes
    <3>2. Gen = k - 1 /\ Gen >= 0 /\ Gen <= Gens(Whose)
      BY <2>2, <3>1
    <3>3. GeneratedUpTo(k - 1, Whose)
      BY <2>4, <3>2
    <3>4. GeneratedUpTo(k, Whose)'
      BY <1>1, <2>1, <2>6, <3>3, MakesNext
    <3> QED BY <2>5, <3>1, <3>4
  <2>7. ASSUME NEW k \in {10, 16}, k = 10 => Reads10, k = 16 => Saves16
        PROVE  GenInv'
    <3>1. Gen + 1 = k /\ k \in 1..Gens(Whose)
      BY <2>2, <2>7 DEF Reads10, Saves16
    <3>2. Gen = k - 1 /\ Gen >= 0 /\ Gen <= Gens(Whose)
      BY <2>2, <3>1
    <3>3. GeneratedUpTo(k - 1, Whose)
      BY <2>4, <3>2
    <3>4. GeneratedUpTo(k, Whose)'
      BY <1>1, <2>1, <2>7, <3>3, ComposeNext
    <3> QED BY <2>5, <3>1, <3>4
  <2>8. CASE Settings
    <3>1. Whose.command = "init" /\ Pos < 6
      BY <2>3, <2>8 DEF Settings
    <3>2. Gen = Pos - 6
      BY <3>1 DEF Gen, Offset
    <3>3. Gen' = 0
      BY <2>1, <2>2, <2>3, <3>1, <3>2
    <3>4. GeneratedUpTo(0, Whose)'
      BY DEF GeneratedUpTo, Begun
    <3>5. Gen' <= Gens(Whose)'
      BY <2>1, <2>2, <3>3
    <3> QED BY <3>3, <3>4, <3>5 DEF GenInv
  <2>9. CASE Blocks
    <3>1. /\ Gen = Gens(Whose)
          /\ user' = user /\ local' = local /\ tree' = tree
      BY <2>9 DEF Blocks
    <3>2. Bundles' = Bundles
      BY <3>1 DEF Bundles
    <3>3. GeneratedUpTo(Gens(Whose), Whose)
      BY <2>2, <2>4, <3>1
    <3>4. Gens(Whose) >= 16 /\ ~(Gens(Whose) < 16)
      BY <2>2
    <3>5. GeneratedUpTo(Gens(Whose), Whose)'
      BY <2>1, <3>1, <3>2, <3>3, <3>4 DEF GeneratedUpTo
    <3>6. ~(Gen' <= Gens(Whose)')
      BY <2>1, <2>2, <3>1
    <3> QED BY <3>5, <3>6 DEF GenInv
  <2>10. CASE Ends
    BY <1>4, <2>10 DEF Ends
  <2>11. (\E k : Makes(k)) \/ Reads10 \/ Saves16 \/ Settings \/ Blocks \/ Ends
    BY <1>1, <1>5, CommandCases
  <2>12. CASE Reads10
    <3>1. 10 \in {10, 16} /\ 10 # 16
      OBVIOUS
    <3> QED BY <2>7, <2>12, <3>1
  <2>13. CASE Saves16
    <3>1. 16 \in {10, 16} /\ 16 # 10
      OBVIOUS
    <3> QED BY <2>7, <2>13, <3>1
  <2> QED BY <2>6, <2>8, <2>9, <2>10, <2>11, <2>12, <2>13
<1> QED BY <1>1, <1>2, <1>3, <1>4, <1>5, EachStep

LEMMA GenInit ==
  ASSUME Init
  PROVE  GenInv
<1>1. Whose = NoOptions
  BY DEF Init, Whose, Idle
<1>2. ~Generates(NoOptions)
  BY DEF Generates, NoOptions
<1> QED BY <1>1, <1>2 DEF GenInv

(* After k steps every file that is copied by then is what those steps     *)
(* make of its template, and compose-all.yml, read and not yet saved, is   *)
(* in memory what was read from the template.                              *)
THEOREM Generation == Spec => []GenInv
BY Typed, GenInit, GenStepHolds, PTL DEF Spec

(***************************************************************************)
(* Generating anew                                                         *)
(***************************************************************************)

NextTree(before, k, ch) ==
  IF GenerateSteps(ch)[k][1] \in {"load", "save"} THEN before
  ELSE [before EXCEPT ![GenerateSteps(ch)[k][2]] = Generated(GenerateSteps(ch)[k], before, ch, Bundles)]

NoTree == [f \in AllFiles |-> NotThere]

(* The directories that generating from nothing goes through.              *)
LEMMA FreshTrees ==
  ASSUME NEW ch
  PROVE  \E made :
           /\ made[0] = NoTree
           /\ \A k \in 1..Gens(ch) : made[k] = NextTree(made[k - 1], k, ch)
           /\ Fresh(ch) = [made[Gens(ch)] EXCEPT !["compose-all.yml"] =
                             Compose(FinishedCompose(Loaded(ch), ch))]
<1> DEFINE n == Len(GenerateSteps(ch))
           Is(g, m) == g = [k \in 0..m |-> IF k = 0 THEN NoTree ELSE NextTree(g[k - 1], k, ch)]
           good == {m \in 0..n : \E g : Is(g, m)}
           made == CHOOSE g : Is(g, n)
<1>1. n = Gens(ch) /\ n \in Nat
  BY GenerateStepsAre DEF Gens
<1>2. \A m \in 0..n : m \in good
  <2> HIDE DEF n
  <2>1. \E g : Is(g, 0)
    <3> DEFINE g == [k \in 0..0 |-> NoTree]
    <3>1. \A k \in 0..0 : g[k] = IF k = 0 THEN NoTree ELSE NextTree(g[k - 1], k, ch)
      OBVIOUS
    <3>2. g = [k \in 0..0 |-> g[k]]
      OBVIOUS
    <3> HIDE DEF g
    <3>3. Is(g, 0)
      BY <3>1, <3>2
    <3> QED BY <3>3
  <2>2. 0 \in good
    <3>1. 0 \in 0..n
      BY <1>1
    <3> QED BY <2>1, <3>1
  <2>3. ASSUME NEW m \in 0..(n - 1), m \in good
        PROVE  m + 1 \in good
    <3>1. PICK g : Is(g, m)
      BY <2>3
    <3> DEFINE h == [k \in 0..(m + 1) |-> IF k <= m THEN g[k] ELSE NextTree(g[m], k, ch)]
    <3>2. m \in Nat /\ m + 1 \in 0..n
      BY <1>1
    <3>3. \A k \in 0..m : g[k] = IF k = 0 THEN NoTree ELSE NextTree(g[k - 1], k, ch)
      BY <3>1
    <3>4. ASSUME NEW k \in 0..(m + 1)
          PROVE  h[k] = IF k = 0 THEN NoTree ELSE NextTree(h[k - 1], k, ch)
      <4>1. CASE k = 0
        <5>1. h[k] = g[k] /\ k \in 0..m
          BY <3>2, <4>1
        <5> QED BY <3>3, <4>1, <5>1
      <4>2. CASE k # 0 /\ k <= m
        <5>1. h[k] = g[k] /\ h[k - 1] = g[k - 1] /\ k \in 0..m
          BY <3>2, <4>2
        <5> HIDE DEF h
        <5> QED BY <3>3, <4>2, <5>1
      <4>3. CASE k = m + 1
        <5>1. h[k] = NextTree(g[m], k, ch) /\ h[m] = g[m] /\ k - 1 = m /\ k # 0
          BY <3>2, <4>3
        <5> HIDE DEF h
        <5> QED BY <5>1
      <4> QED BY <3>2, <4>1, <4>2, <4>3
    <3>5. h = [k \in 0..(m + 1) |-> h[k]]
      OBVIOUS
    <3> HIDE DEF h
    <3>6. Is(h, m + 1)
      BY <3>4, <3>5
    <3> QED BY <3>2, <3>6
  <2> HIDE DEF good
  <2> QED BY <1>1, <2>2, <2>3, UpTo
<1>3. Is(made, n)
  <2>1. n \in 0..n
    BY <1>1
  <2>2. \E g : Is(g, n)
    BY <1>2, <2>1
  <2> HIDE DEF Is
  <2> QED BY <2>2
<1>4. made[0] = NoTree /\ \A k \in 1..n : made[k] = NextTree(made[k - 1], k, ch)
  <2> HIDE DEF n, made
  <2>1. 0 \in 0..n /\ \A k \in 1..n : k \in 0..n /\ k # 0
    BY <1>1
  <2> QED BY <1>3, <2>1
<1>5. Fresh(ch) = [made[n] EXCEPT !["compose-all.yml"] = Compose(FinishedCompose(Loaded(ch), ch))]
  BY DEF Fresh, NextTree, NoTree, Loaded
<1> HIDE DEF made, n
<1> QED BY <1>1, <1>4, <1>5

LEMMA FreshStages ==
  ASSUME NEW ch
  PROVE  /\ \A f \in TreeFiles : Fresh(ch)[f] = Stage(f, Gens(ch), ch, Bundles)
         /\ Fresh(ch)["compose-all.yml"] = Compose(FinishedCompose(Loaded(ch), ch))
<1>1. PICK made : /\ made[0] = NoTree
                  /\ \A k \in 1..Gens(ch) : made[k] = NextTree(made[k - 1], k, ch)
                  /\ Fresh(ch) = [made[Gens(ch)] EXCEPT !["compose-all.yml"] =
                                    Compose(FinishedCompose(Loaded(ch), ch))]
  BY FreshTrees
<1> DEFINE n == Gens(ch)
           IsTree(t) == t = [f \in AllFiles |-> t[f]]
           Holds(m) == IsTree(made[m]) /\ \A f \in TreeFiles :
                         Begun(f, m) => made[m][f] = Stage(f, m, ch, Bundles)
           good == {m \in 0..n : Holds(m)}
<1>2. n \in Nat /\ n <= 18 /\ n >= 17
  BY DEF Gens
<1>3. "compose-all.yml" \in AllFiles /\ TreeFiles \subseteq AllFiles /\ "compose-all.yml" \notin TreeFiles
  BY DEF AllFiles, GeneratedFiles, Template, TreeFiles
<1> HIDE DEF n
<1>4. 0 \in good
  <2>1. IsTree(NoTree)
    BY DEF NoTree
  <2>2. \A f : ~Begun(f, 0)
    BY DEF Begun
  <2>3. Holds(0)
    BY <1>1, <2>1, <2>2
  <2>4. 0 \in 0..n
    BY <1>2
  <2> QED BY <2>3, <2>4
<1>5. ASSUME NEW m \in 0..(n - 1), m \in good
      PROVE  m + 1 \in good
  <2> DEFINE k   == m + 1
             t   == made[m]
             new == Generated(GenStep(k), t, ch, Bundles)
  <2>1. k \in 1..n /\ k \in 1..18 /\ k - 1 = m /\ k \in 0..n
    BY <1>2
  <2>2. GenerateSteps(ch)[k] = GenStep(k)
    BY <2>1, GenerateStepsAre DEF n
  <2>3. GenStep(k)[1] \in {"load", "save"} <=> k \in {10, 16}
    BY <2>1, GenVerbs
  <2>4. made[k] = IF k \in {10, 16} THEN t ELSE [t EXCEPT ![GenStep(k)[2]] = new]
    <3>1. made[k] = NextTree(made[k - 1], k, ch)
      BY <1>1, <2>1 DEF n
    <3> QED BY <2>1, <2>2, <2>3, <3>1 DEF NextTree
  <2>5. IsTree(t) /\ \A f \in TreeFiles : Begun(f, m) => t[f] = Stage(f, m, ch, Bundles)
    BY <1>5
  <2> HIDE DEF new, t
  <2>6. GenStep(k)[2] \in AllFiles
    BY <2>1, GenFiles
  <2>7. k \in {10, 16} => GenStep(k)[2] = "compose-all.yml"
    BY <2>1, Writers
  <2>8. IsTree(made[k]) /\ \A f \in TreeFiles : made[k][f] = IF GenStep(k)[2] = f THEN new ELSE t[f]
    <3> HIDE DEF k
    <3>1. CASE k \in {10, 16}
      BY <1>3, <2>4, <2>5, <2>7, <3>1
    <3>2. CASE k \notin {10, 16}
      <4>1. made[k] = [t EXCEPT ![GenStep(k)[2]] = new]
        BY <2>4, <3>2
      <4>2. made[k] = [f \in AllFiles |-> IF f = GenStep(k)[2] THEN new ELSE t[f]]
        BY <2>5, <2>6, <4>1
      <4> QED BY <1>3, <4>2
    <3> QED BY <3>1, <3>2
  <2>9. ASSUME NEW f \in TreeFiles, Begun(f, k)
        PROVE  made[k][f] = Stage(f, k, ch, Bundles)
    <3> HIDE DEF k
    <3>1. \A c, b, u :
            (Begun(f, k - 1) => u[f] = Stage(f, k - 1, c, b)) =>
              Stage(f, k, c, b) =
                IF GenStep(k)[2] = f THEN Generated(GenStep(k), u, c, b) ELSE u[f]
      <4>1. k \in 1..18 /\ Begun(f, k)
        BY <2>1, <2>9
      <4> QED BY <4>1, NextStages
    <3>2. Begun(f, k - 1) => t[f] = Stage(f, k - 1, ch, Bundles)
      BY <2>1, <2>5
    <3> QED BY <2>8, <3>1, <3>2 DEF new
  <2>10. Holds(k)
    <3> HIDE DEF k
    <3> QED BY <2>8, <2>9
  <2> HIDE DEF k, Holds
  <2> QED BY <2>1, <2>10 DEF k
<1>6. \A m \in 0..n : m \in good
  <2> HIDE DEF good
  <2> QED BY <1>2, <1>4, <1>5, UpTo
<1>7. n \in 0..n
  BY <1>2
<1>8. Holds(n)
  BY <1>6, <1>7
<1>9. \A f \in TreeFiles : Begun(f, n)
  BY <1>2 DEF TreeFiles, Begun
<1> DEFINE all == made[n]
<1>10. IsTree(all) /\ \A f \in TreeFiles : all[f] = Stage(f, n, ch, Bundles)
  BY <1>8, <1>9
<1>11. Fresh(ch) = [all EXCEPT !["compose-all.yml"] = Compose(FinishedCompose(Loaded(ch), ch))]
  BY <1>1 DEF n
<1> HIDE DEF all
<1>12. Fresh(ch) = [f \in AllFiles |-> IF f = "compose-all.yml"
                                         THEN Compose(FinishedCompose(Loaded(ch), ch)) ELSE all[f]]
  BY <1>10, <1>11
<1> QED BY <1>3, <1>10, <1>12 DEF n

(* A run that succeeds has generated everything anew.                      *)
LEMMA AllGenerated ==
  ASSUME TypeInv, GenInv, Generates(done)
  PROVE  /\ Chooses(done)
         /\ \A f \in TreeFiles : tree[f] = Stage(f, Gens(done), done, Bundles)
         /\ tree["compose-all.yml"] = Compose(FinishedCompose(Loaded(done), done))
         /\ ValidSecretProvider(done.provider) /\ Range(Bundles) \subseteq GoodBundles
<1>1. done # NoOptions
  <2>1. ~Generates(NoOptions)
    BY DEF Generates, NoOptions
  <2> QED BY <2>1
<1>2. Whose = done /\ Chooses(done) /\ Gen >= Gens(done) /\ Gens(done) \in {17, 18}
  BY <1>1, AllTaken DEF TypeInv
<1>3. Gen \in Int
  <2>1. Pos \in Nat
    BY <1>1, AllTaken DEF TypeInv
  <2> QED BY <2>1 DEF Gen, Offset
<1>4. GeneratedUpTo(Gens(done), done)
  <2>1. Gen >= 0 /\ (IF Gen <= Gens(done) THEN Gen ELSE Gens(done)) = Gens(done)
    BY <1>2, <1>3
  <2> QED BY <1>2, <2>1 DEF GenInv
<1>5. \A f \in TreeFiles : Begun(f, Gens(done))
  BY <1>2 DEF TreeFiles, Begun
<1>6. Gens(done) >= 15 /\ Gens(done) >= 16
  BY <1>2
<1> QED BY <1>2, <1>4, <1>5, <1>6 DEF GeneratedUpTo

LEMMA AsFresh ==
  ASSUME TypeInv, GenInv, Generates(done), NEW f \in GeneratedFiles
  PROVE  tree[f] = Fresh(done)[f]
<1>1. f \in TreeFiles \/ f = "compose-all.yml"
  BY DEF GeneratedFiles, Template, TreeFiles
<1> QED BY <1>1, AllGenerated, FreshStages

(***************************************************************************)
(* Placeholders                                                            *)
(***************************************************************************)

(* Of the placeholders the lines may only hold those of T.                 *)
CleanText(lines, T) == \E W : lines \in Seq(Seq(W)) /\ W \cap Placeholders \subseteq T

LEMMA ListOf ==
  ASSUME NEW n \in Nat, NEW S, NEW seq, DOMAIN seq = 1..n, seq = [i \in 1..n |-> seq[i]],
         \A i \in 1..n : seq[i] \in S
  PROVE  seq \in Seq(S) /\ Len(seq) = n
<1>1. seq \in [1..n -> S]
  OBVIOUS
<1> QED BY <1>1

LEMMA LinesReplaced ==
  ASSUME NEW lines, NEW T, CleanText(lines, T), NEW pairs, NEW V, V \cap Placeholders = {},
         \A t \in DOMAIN pairs : pairs[t] \in Seq(Seq(V))
  PROVE  CleanText(ApplyLinePlaceholders(lines, pairs), T \ DOMAIN pairs)
<1>1. PICK W : lines \in Seq(Seq(W)) /\ W \cap Placeholders \subseteq T
  BY DEF CleanText
<1> DEFINE U == (W \ DOMAIN pairs) \cup V
           tokens(i) == {t \in DOMAIN pairs : Contains(lines[i], t)}
           parts == [i \in DOMAIN lines |->
                       IF tokens(i) = {} THEN <<lines[i]>> ELSE pairs[CHOOSE t \in tokens(i) : TRUE]]
<1>2. ApplyLinePlaceholders(lines, pairs) = FlattenSeq(parts)
  BY DEF ApplyLinePlaceholders
<1>3. /\ DOMAIN lines = 1..Len(lines) /\ Len(lines) \in Nat
      /\ \A i \in DOMAIN lines : lines[i] \in Seq(W)
  <2> DEFINE S == Seq(W)
  <2>1. lines \in Seq(S)
    BY <1>1
  <2> HIDE DEF S
  <2>2. DOMAIN lines = 1..Len(lines) /\ Len(lines) \in Nat
    BY <2>1
  <2>3. \A i \in DOMAIN lines : lines[i] \in S
    BY <2>1
  <2> QED BY <2>2, <2>3 DEF S
<1>4. ASSUME NEW i \in DOMAIN lines
      PROVE  parts[i] \in Seq(Seq(U))
  <2>1. CASE tokens(i) = {}
    <3> DEFINE line == lines[i]
    <3>1. parts[i] = <<line>>
      BY <1>4, <2>1
    <3>2. \A t \in DOMAIN pairs : ~Contains(line, t)
      BY <2>1
    <3>3. line \in Seq(W)
      BY <1>3, <1>4
    <3> HIDE DEF parts, line, U
    <3>4. \A j \in DOMAIN line : line[j] \in W \ DOMAIN pairs
      BY <3>2, <3>3 DEF Contains
    <3>5. \A j \in DOMAIN line : line[j] \in U
      BY <3>4 DEF U
    <3>6. line \in Seq(U)
      BY <3>3, <3>5
    <3>7. <<line>> \in Seq(Seq(U))
      BY <3>6
    <3> QED BY <3>1, <3>7
  <2>2. CASE tokens(i) # {}
    <3> DEFINE t == CHOOSE t \in tokens(i) : TRUE
    <3>1. parts[i] = pairs[t]
      BY <1>4, <2>2
    <3>2. t \in tokens(i)
      <4> HIDE DEF tokens
      <4> QED BY <2>2
    <3>3. t \in DOMAIN pairs
      <4> HIDE DEF t
      <4> QED BY <3>2
    <3> HIDE DEF t, parts, U
    <3>4. pairs[t] \in Seq(Seq(V)) /\ V \subseteq U
      BY <3>3 DEF U
    <3>5. Seq(V) \subseteq Seq(U)
      BY <3>4
    <3>6. Seq(Seq(V)) \subseteq Seq(Seq(U))
      BY <3>5
    <3> QED BY <3>1, <3>4, <3>6
  <2> QED BY <2>1, <2>2
<1>5. DOMAIN parts = 1..Len(lines) /\ parts = [i \in 1..Len(lines) |-> parts[i]]
  BY <1>3
<1> HIDE DEF parts, U
<1>6. parts \in Seq(Seq(Seq(U)))
  BY <1>3, <1>4, <1>5, ListOf
<1>7. FlattenSeq(parts) \in Seq(Seq(U))
  BY <1>6, FlattenedElements
<1>8. U \cap Placeholders \subseteq T \ DOMAIN pairs
  BY <1>1 DEF U
<1> QED BY <1>2, <1>7, <1>8 DEF CleanText

LEMMA WordsReplaced ==
  ASSUME NEW W, NEW words \in Seq(W), NEW pairs, NEW V, \A t \in DOMAIN pairs : pairs[t] \in Seq(V)
  PROVE  ApplyInlinePlaceholders(words, pairs) \in Seq((W \ DOMAIN pairs) \cup V)
<1> DEFINE U == (W \ DOMAIN pairs) \cup V
           parts == [i \in DOMAIN words |->
                       IF words[i] \in DOMAIN pairs THEN pairs[words[i]] ELSE <<words[i]>>]
<1>1. ApplyInlinePlaceholders(words, pairs) = FlattenSeq(parts)
  BY DEF ApplyInlinePlaceholders
<1>2. /\ DOMAIN words = 1..Len(words) /\ Len(words) \in Nat
      /\ \A i \in DOMAIN words : words[i] \in W
  <2>1. DOMAIN words = 1..Len(words) /\ Len(words) \in Nat
    OBVIOUS
  <2>2. \A i \in DOMAIN words : words[i] \in W
    OBVIOUS
  <2> QED BY <2>1, <2>2
<1>3. ASSUME NEW i \in DOMAIN words
      PROVE  parts[i] \in Seq(U)
  <2>1. CASE words[i] \in DOMAIN pairs
    <3>1. parts[i] = pairs[words[i]] /\ pairs[words[i]] \in Seq(V)
      BY <1>3, <2>1
    <3> HIDE DEF parts
    <3> QED BY <3>1
  <2>2. CASE words[i] \notin DOMAIN pairs
    <3>1. parts[i] = <<words[i]>> /\ words[i] \in U
      BY <1>2, <1>3, <2>2
    <3> HIDE DEF parts, U
    <3> QED BY <3>1
  <2> QED BY <2>1, <2>2
<1>4. DOMAIN parts = 1..Len(words) /\ parts = [i \in 1..Len(words) |-> parts[i]]
  BY <1>2
<1> HIDE DEF parts, U
<1>5. parts \in Seq(Seq(U))
  BY <1>2, <1>3, <1>4, ListOf
<1>6. FlattenSeq(parts) \in Seq(U)
  BY <1>5, FlattenedElements
<1> QED BY <1>1, <1>6 DEF U

LEMMA Customized ==
  ASSUME NEW lines, NEW T, CleanText(lines, T), NEW name, name \notin Placeholders, NEW ide
  PROVE  CleanText(CustomizeJSON(lines, name, ide),
                   T \ {"__PROJECT_NAME__", "__CUSTOMIZATIONS_START__", "__CUSTOMIZATIONS_END__"})
<1>1. PICK W : lines \in Seq(Seq(W)) /\ W \cap Placeholders \subseteq T
  BY DEF CleanText
<1> DEFINE pairs == [t \in {"__PROJECT_NAME__"} |-> <<name>>]
           X == (W \ DOMAIN pairs) \cup {name}
           U == (X \ {"__CUSTOMIZATIONS_START__", "__CUSTOMIZATIONS_END__"}) \cup {NoPlugins}
           named == [i \in DOMAIN lines |-> ApplyInlinePlaceholders(lines[i], pairs)]
           parts == [i \in DOMAIN named |->
             CASE Contains(named[i], "__CUSTOMIZATIONS_START__") ->
                    IF ide = "jetbrains" THEN OneLine(NoPlugins) ELSE << >>
               [] IsEnd(named[i]) -> << >>
               [] OTHER -> IF InCustomizations(named, i) /\ ide # "vscode" THEN << >> ELSE <<named[i]>>]
<1>2. CustomizeJSON(lines, name, ide) = ApplyIDECustomizations(named, ide)
  BY DEF CustomizeJSON
<1>3. ApplyIDECustomizations(named, ide) = FlattenSeq(parts)
  <2> HIDE DEF named
  <2> QED BY DEF ApplyIDECustomizations
<1>4. /\ DOMAIN lines = 1..Len(lines) /\ Len(lines) \in Nat
      /\ \A i \in DOMAIN lines : lines[i] \in Seq(W)
  <2> DEFINE S == Seq(W)
  <2>1. lines \in Seq(S)
    BY <1>1
  <2> HIDE DEF S
  <2>2. DOMAIN lines = 1..Len(lines) /\ Len(lines) \in Nat
    BY <2>1
  <2>3. \A i \in DOMAIN lines : lines[i] \in S
    BY <2>1
  <2> QED BY <2>2, <2>3 DEF S
<1>5. DOMAIN pairs = {"__PROJECT_NAME__"} /\ \A t \in DOMAIN pairs : pairs[t] \in Seq({name})
  OBVIOUS
<1>6. ASSUME NEW i \in DOMAIN lines
      PROVE  named[i] \in Seq(X)
  <2>1. named[i] = ApplyInlinePlaceholders(lines[i], pairs) /\ lines[i] \in Seq(W)
    BY <1>4, <1>6
  <2> HIDE DEF named, pairs
  <2> QED BY <1>5, <2>1, WordsReplaced
<1>7. DOMAIN named = DOMAIN lines /\ DOMAIN parts = DOMAIN named /\ parts = [i \in DOMAIN named |-> parts[i]]
  OBVIOUS
<1>8. ASSUME NEW i \in DOMAIN lines
      PROVE  parts[i] \in Seq(Seq(U))
  <2> DEFINE line == named[i]
  <2>1. line \in Seq(X)
    BY <1>6, <1>8
  <2>2. parts[i] \in {OneLine(NoPlugins), << >>} \/
        (parts[i] = <<line>> /\ ~Contains(line, "__CUSTOMIZATIONS_START__") /\ ~IsEnd(line))
    <3>1. i \in DOMAIN named
      BY <1>7, <1>8
    <3> HIDE DEF named
    <3>2. parts[i] = CASE Contains(line, "__CUSTOMIZATIONS_START__") ->
                            IF ide = "jetbrains" THEN OneLine(NoPlugins) ELSE << >>
                       [] IsEnd(line) -> << >>
                       [] OTHER -> IF InCustomizations(named, i) /\ ide # "vscode" THEN << >> ELSE <<line>>
      BY <3>1
    <3> HIDE DEF parts
    <3>3. IsEnd(line) => ~Contains(line, "__CUSTOMIZATIONS_START__")
      BY DEF IsEnd
    <3> HIDE DEF line
    <3>4. CASE Contains(line, "__CUSTOMIZATIONS_START__")
      BY <3>2, <3>3, <3>4
    <3>5. CASE IsEnd(line)
      BY <3>2, <3>3, <3>5
    <3>6. CASE ~Contains(line, "__CUSTOMIZATIONS_START__") /\ ~IsEnd(line)
      BY <3>2, <3>6
    <3> QED BY <3>4, <3>5, <3>6
  <2> HIDE DEF parts, named, line
  <2>3. CASE parts[i] = OneLine(NoPlugins)
    <3>1. NoPlugins \in U
      OBVIOUS
    <3> HIDE DEF U
    <3>2. <<NoPlugins>> \in Seq(U)
      BY <3>1
    <3> DEFINE words == <<NoPlugins>>
    <3> HIDE DEF words
    <3>3. words \in Seq(U)
      BY <3>2 DEF words
    <3>4. <<words>> \in Seq(Seq(U))
      BY <3>3
    <3> QED BY <2>3, <3>4 DEF OneLine, words
  <2>4. CASE parts[i] = << >>
    BY <2>4
  <2>5. CASE parts[i] = <<line>> /\ ~Contains(line, "__CUSTOMIZATIONS_START__") /\ ~IsEnd(line)
    <3>1. ~Contains(line, "__CUSTOMIZATIONS_START__") /\ ~Contains(line, "__CUSTOMIZATIONS_END__")
      BY <2>5 DEF IsEnd
    <3> HIDE DEF X, U
    <3>2. \A j \in DOMAIN line : line[j] \in X /\ line[j] # "__CUSTOMIZATIONS_START__"
                                 /\ line[j] # "__CUSTOMIZATIONS_END__"
      BY <2>1, <3>1 DEF Contains
    <3>3. \A j \in DOMAIN line : line[j] \in U
      BY <3>2 DEF U
    <3>4. line \in Seq(U)
      BY <2>1, <3>3
    <3>5. <<line>> \in Seq(Seq(U))
      BY <3>4
    <3> QED BY <2>5, <3>5
  <2> QED BY <2>2, <2>3, <2>4, <2>5
<1> HIDE DEF parts, named
<1>9. parts \in Seq(Seq(Seq(U)))
  BY <1>4, <1>7, <1>8, ListOf
<1>10. FlattenSeq(parts) \in Seq(Seq(U))
  BY <1>9, FlattenedElements
<1>11. NoPlugins \notin Placeholders
  BY DEF NoPlugins, Placeholders
<1>12. U \cap Placeholders \subseteq
         T \ {"__PROJECT_NAME__", "__CUSTOMIZATIONS_START__", "__CUSTOMIZATIONS_END__"}
  BY <1>1, <1>5, <1>11
<1> QED BY <1>2, <1>3, <1>10, <1>12 DEF CleanText

LEMMA NothingUnexpanded ==
  ASSUME NEW lines, CleanText(lines, {})
  PROVE  ~Unexpanded(Lines(lines))
<1>1. PICK W : lines \in Seq(Seq(W)) /\ W \cap Placeholders \subseteq {}
  BY DEF CleanText
<1>2. "lines" \in DOMAIN Lines(lines) /\ Lines(lines).lines = lines
  BY DEF Lines
<1>3. Unexpanded(Lines(lines)) <=> \E i \in DOMAIN lines : Range(lines[i]) \cap Placeholders # {}
  <2> DEFINE content == Lines(lines)
  <2>1. "lines" \in DOMAIN content /\ content.lines = lines /\ "proxy" \notin DOMAIN content
    BY DEF Lines
  <2> HIDE DEF content
  <2> QED BY <2>1 DEF Unexpanded, content
<1>4. ASSUME NEW i \in DOMAIN lines
      PROVE  Range(lines[i]) \cap Placeholders = {}
  <2> DEFINE S == Seq(W)
  <2> HIDE DEF S
  <2>0. lines \in Seq(S)
    BY <1>1 DEF S
  <2>1. lines[i] \in Seq(W)
    BY <2>0, <1>4 DEF S
  <2>2. Range(lines[i]) \subseteq W
    BY <2>1 DEF Range
  <2> QED BY <1>1, <2>2
<1> QED BY <1>3, <1>4

LEMMA InlineReplaced ==
  ASSUME NEW lines, NEW T, CleanText(lines, T), NEW pairs, NEW V, V \cap Placeholders = {},
         \A t \in DOMAIN pairs : pairs[t] \in Seq(V)
  PROVE  CleanText([i \in DOMAIN lines |-> ApplyInlinePlaceholders(lines[i], pairs)],
                   T \ DOMAIN pairs)
<1>1. PICK W : lines \in Seq(Seq(W)) /\ W \cap Placeholders \subseteq T
  BY DEF CleanText
<1> DEFINE S == Seq(W)
           U == (W \ DOMAIN pairs) \cup V
           new == [i \in DOMAIN lines |-> ApplyInlinePlaceholders(lines[i], pairs)]
<1>2. lines \in Seq(S)
  BY <1>1
<1>3. ASSUME NEW i \in DOMAIN lines
      PROVE  new[i] \in Seq(U)
  <2>1. lines[i] \in S
    <3> HIDE DEF S
    <3> QED BY <1>2, <1>3
  <2>2. lines[i] \in Seq(W)
    BY <2>1
  <2>3. ApplyInlinePlaceholders(lines[i], pairs) \in Seq(U)
    BY <2>2, WordsReplaced
  <2> QED BY <1>3, <2>3
<1>4. DOMAIN lines = 1..Len(lines) /\ Len(lines) \in Nat
  <2> HIDE DEF S
  <2> QED BY <1>2
<1>5. DOMAIN new = 1..Len(lines) /\ new = [i \in 1..Len(lines) |-> new[i]]
  BY <1>4
<1> HIDE DEF new, U
<1>6. new \in Seq(Seq(U))
  BY <1>3, <1>4, <1>5, ListOf
<1>7. U \cap Placeholders \subseteq T \ DOMAIN pairs
  BY <1>1 DEF U
<1> QED BY <1>6, <1>7 DEF CleanText, new

(* No extension and no plugin is a placeholder.                            *)
LEMMA StackWords ==
  ASSUME NEW name
  PROVE  StackByName(name).extension \notin Placeholders /\ StackByName(name).plugin \notin Placeholders
<1>1. CASE name \notin StackNames
  <2> DEFINE none == Stack("", << >>, << >>, "", "", << >>, << >>)
  <2>1. none.extension \notin Placeholders
    BY DEF Stack, Placeholders
  <2>2. none.plugin \notin Placeholders
    BY DEF Stack, Placeholders
  <2>3. StackByName(name) =
          IF name \in StackNames THEN CHOOSE s \in Range(AllStacks) : s.name = name ELSE none
    BY DEF StackByName
  <2> HIDE DEF none
  <2> QED BY <1>1, <2>1, <2>2, <2>3
<1>2. CASE name \in StackNames
  <2>1. \E s \in Range(AllStacks) : s.name = name
    BY <1>2 DEF StackNames, Range
  <2>2. StackByName(name) \in Range(AllStacks)
    BY <1>2, <2>1 DEF StackByName
  <2>3. \A i \in DOMAIN AllStacks : AllStacks[i].extension \notin Placeholders
    <3>0. DOMAIN AllStacks = 1..9
      BY DEF AllStacks
    <3>1. AllStacks[1].extension \notin Placeholders
      BY DEF AllStacks, Stack, Placeholders
    <3>2. AllStacks[2].extension \notin Placeholders
      BY DEF AllStacks, Stack, Placeholders
    <3>3. AllStacks[3].extension \notin Placeholders
      BY DEF AllStacks, Stack, Placeholders
    <3>4. AllStacks[4].extension \notin Placeholders
      BY DEF AllStacks, Stack, Placeholders
    <3>5. AllStacks[5].extension \notin Placeholders
      BY DEF AllStacks, Stack, Placeholders
    <3>6. AllStacks[6].extension \notin Placeholders
      BY DEF AllStacks, Stack, Placeholders
    <3>7. AllStacks[7].extension \notin Placeholders
      BY DEF AllStacks, Stack, Placeholders
    <3>8. AllStacks[8].extension \notin Placeholders
      BY DEF AllStacks, Stack, Placeholders
    <3>9. AllStacks[9].extension \notin Placeholders
      BY DEF AllStacks, Stack, Placeholders
    <3>10. \A i \in 1..9 : i = 1 \/ i = 2 \/ i = 3 \/ i = 4 \/ i = 5 \/ i = 6 \/ i = 7 \/ i = 8 \/ i = 9
      OBVIOUS
    <3> QED BY <3>0, <3>1, <3>2, <3>3, <3>4, <3>5, <3>6, <3>7, <3>8, <3>9, <3>10
  <2>4. \A i \in DOMAIN AllStacks : AllStacks[i].plugin \notin Placeholders
    <3>0. DOMAIN AllStacks = 1..9
      BY DEF AllStacks
    <3>1. AllStacks[1].plugin \notin Placeholders
      BY DEF AllStacks, Stack, Placeholders
    <3>2. AllStacks[2].plugin \notin Placeholders
      BY DEF AllStacks, Stack, Placeholders
    <3>3. AllStacks[3].plugin \notin Placeholders
      BY DEF AllStacks, Stack, Placeholders
    <3>4. AllStacks[4].plugin \notin Placeholders
      BY DEF AllStacks, Stack, Placeholders
    <3>5. AllStacks[5].plugin \notin Placeholders
      BY DEF AllStacks, Stack, Placeholders
    <3>6. AllStacks[6].plugin \notin Placeholders
      BY DEF AllStacks, Stack, Placeholders
    <3>7. AllStacks[7].plugin \notin Placeholders
      BY DEF AllStacks, Stack, Placeholders
    <3>8. AllStacks[8].plugin \notin Placeholders
      BY DEF AllStacks, Stack, Placeholders
    <3>9. AllStacks[9].plugin \notin Placeholders
      BY DEF AllStacks, Stack, Placeholders
    <3>10. \A i \in 1..9 : i = 1 \/ i = 2 \/ i = 3 \/ i = 4 \/ i = 5 \/ i = 6 \/ i = 7 \/ i = 8 \/ i = 9
      OBVIOUS
    <3> QED BY <3>0, <3>1, <3>2, <3>3, <3>4, <3>5, <3>6, <3>7, <3>8, <3>9, <3>10
  <2> QED BY <2>2, <2>3, <2>4 DEF Range
<1> QED BY <1>1, <1>2

LEMMA ListedWords ==
  ASSUME NEW R, NEW resolved \in Seq(R)
  PROVE  \E V : /\ V \cap Placeholders = {}
                /\ Extensions(resolved) \in Seq(V) /\ JetBrainsPlugins(resolved) \in Seq(V)
<1> DEFINE ext == [i \in DOMAIN resolved |-> StackByName(resolved[i]).extension]
           plug == [i \in DOMAIN resolved |-> StackByName(resolved[i]).plugin]
           V == Range(ext) \cup Range(plug)
<1>1. V \cap Placeholders = {}
  BY StackWords DEF Range
<1>2. DOMAIN resolved = 1..Len(resolved) /\ Len(resolved) \in Nat
  OBVIOUS
<1>3. ext \in Seq(V)
  <2>1. DOMAIN ext = 1..Len(resolved) /\ ext = [i \in 1..Len(resolved) |-> ext[i]]
    BY <1>2
  <2> HIDE DEF ext
  <2>2. \A i \in 1..Len(resolved) : ext[i] \in V
    BY <2>1 DEF Range
  <2> HIDE DEF V
  <2> QED BY <1>2, <2>1, <2>2, ListOf
<1>4. plug \in Seq(V)
  <2>1. DOMAIN plug = 1..Len(resolved) /\ plug = [i \in 1..Len(resolved) |-> plug[i]]
    BY <1>2
  <2> HIDE DEF plug
  <2>2. \A i \in 1..Len(resolved) : plug[i] \in V
    BY <2>1 DEF Range
  <2> HIDE DEF V
  <2> QED BY <1>2, <2>1, <2>2, ListOf
<1> HIDE DEF V
<1>5. Without(ext, {Blank}) \in Seq(V)
  <2> HIDE DEF ext
  <2> QED BY <1>3, WithoutElements
<1>6. Without(plug, {Blank}) \in Seq(V)
  <2> HIDE DEF plug
  <2> QED BY <1>4, WithoutElements
<1>7. /\ Extensions(resolved) = Without(ext, {Blank})
      /\ JetBrainsPlugins(resolved) = Without(plug, {Blank})
  BY DEF Extensions, JetBrainsPlugins, NonEmpty, Blank
<1> QED BY <1>1, <1>5, <1>6, <1>7

LEMMA PluginsAdded ==
  ASSUME NEW lines, NEW T, CleanText(lines, T), NEW R, NEW resolved \in Seq(R)
  PROVE  CleanText(CustomizePlugins(lines, resolved), T)
<1> DEFINE ids == JetBrainsPlugins(resolved)
<1>1. PICK V : V \cap Placeholders = {} /\ ids \in Seq(V)
  BY ListedWords
<1> DEFINE Z == V \cup {"plugins:"}
           pairs == [t \in {NoPlugins} |-> <<"plugins:">> \o ids]
<1> HIDE DEF ids
<1>2. <<"plugins:">> \o ids \in Seq(Z)
  <2> DEFINE head == <<"plugins:">>
  <2>1. head \in Seq(Z) /\ ids \in Seq(Z)
    BY <1>1
  <2> HIDE DEF head, Z
  <2>2. head \o ids \in Seq(Z)
    BY <2>1
  <2> QED BY <2>2 DEF head
<1>3. Z \cap Placeholders = {}
  BY <1>1 DEF Placeholders
<1>4. DOMAIN pairs = {NoPlugins} /\ \A t \in DOMAIN pairs : pairs[t] \in Seq(Z)
  BY <1>2
<1>5. CustomizePlugins(lines, resolved) =
        IF ids = << >> THEN lines
        ELSE [i \in DOMAIN lines |-> ApplyInlinePlaceholders(lines[i], pairs)]
  BY DEF CustomizePlugins, ids
<1> HIDE DEF pairs, Z
<1>6. CleanText([i \in DOMAIN lines |-> ApplyInlinePlaceholders(lines[i], pairs)], T \ DOMAIN pairs)
  BY <1>3, <1>4, InlineReplaced
<1>7. CleanText([i \in DOMAIN lines |-> ApplyInlinePlaceholders(lines[i], pairs)], T)
  BY <1>6 DEF CleanText
<1> QED BY <1>5, <1>7

(* A text of which the lines hold only placeholders of T.                  *)
IsText(content, T) == \E ls : content = Lines(ls) /\ CleanText(ls, T)

(* The placeholders that step k expands.                                   *)
Expands(k) ==
  CASE k = 6  -> {"__STACK_EXTENSIONS__"}
    [] k = 9  -> {"__DEVBOX_INSTALL__"}
    [] k = 11 -> {"__AGENT_EXTENSION__", "__AGENT_SETTINGS__"}
    [] k = 12 -> {"__AGENT_DOCKER_INSTALL__", "__AGENT_DOCKER_HOME_PREP__"}
    [] k = 13 -> {"__AGENT_USER_INIT__"}
    [] k = 17 -> {"__PROJECT_NAME__", "__CUSTOMIZATIONS_START__", "__CUSTOMIZATIONS_END__"}
    [] k = 18 -> {}

(* The choices from which files are generated.                             *)
LEMMA StacksAreListed ==
  ASSUME NEW ch, Chooses(ch), Generates(ch)
  PROVE  \E R : ch.stacks \in Seq(R)
<1>1. CASE ch.command = "init"
  BY <1>1, StacksOfInit, Resolved
<1>2. CASE ch.command = "init devcontainer"
  <2>1. PICK inv \in Invocations : Valid(inv) /\ ch = Options(inv)
    BY DEF Chooses
  <2>2. ch.command = inv.command /\ ch.stacks = IF inv.command = "init" THEN Resolve(inv.stacks) ELSE inv.stacks
    BY <2>1 DEF Options
  <2>3. ch.stacks = inv.stacks
    BY <1>2, <2>2
  <2>4. inv.stacks \in Seq(Range(inv.stacks))
    BY InvocationsAssumption
  <2> QED BY <2>3, <2>4
<1> QED BY <1>1, <1>2 DEF Generates

(* The words of the blocks that depend on the agent.                       *)
LEMMA AgentWords ==
  ASSUME NEW agent \in AgentNames, NEW rtk
  PROVE  \E V : /\ V \cap Placeholders = {}
                /\ AgentExtensionLine(agent) \in Seq(Seq(V))
                /\ DevcontainerSettingsBlock(agent) \in Seq(Seq(V))
                /\ DockerInstallBlock(agent, rtk) \in Seq(Seq(V))
                /\ DockerHomePrepBlock(agent) \in Seq(Seq(V))
                /\ UserInitBlock(agent, rtk) \in Seq(Seq(V))
<1> DEFINE V == {agent, VSCodeExtension[agent], "settings", "install", "home", "init",
                 "install rtk", "init rtk"}
<1>1. agent \notin Placeholders
  BY DEF AgentNames, Placeholders
<1>2. VSCodeExtension[agent] \notin Placeholders
  BY DEF AgentNames, VSCodeExtension, Placeholders
<1>3. {"settings", "install", "home", "init", "install rtk", "init rtk"} \cap Placeholders = {}
  BY DEF Placeholders
<1>4. V \cap Placeholders = {}
  BY <1>1, <1>2, <1>3
<1>5. /\ agent \in V /\ VSCodeExtension[agent] \in V /\ "settings" \in V /\ "install" \in V
      /\ "home" \in V /\ "init" \in V /\ "install rtk" \in V /\ "init rtk" \in V
  OBVIOUS
<1> HIDE DEF V
<1>6. ASSUME NEW v \in V
      PROVE  OneLine(v) \in Seq(Seq(V))
  <2> DEFINE line == <<v>>
  <2>1. line \in Seq(V)
    OBVIOUS
  <2> HIDE DEF line
  <2>2. <<line>> \in Seq(Seq(V))
    BY <2>1
  <2> QED BY <2>2 DEF OneLine, line
<1>7. ASSUME NEW v \in V, NEW w \in V
      PROVE  << <<v, w>> >> \in Seq(Seq(V))
  <2> DEFINE line == <<v, w>>
  <2>1. line \in Seq(V)
    OBVIOUS
  <2> HIDE DEF line
  <2>2. <<line>> \in Seq(Seq(V))
    BY <2>1
  <2> QED BY <2>2 DEF line
<1> DEFINE Q == Seq(V)
<1>8. << >> \in Seq(Q)
  OBVIOUS
<1>9. ASSUME NEW x \in Seq(Q), NEW y \in Seq(Q)
      PROVE  x \o y \in Seq(Q)
  <2> HIDE DEF Q
  <2> QED OBVIOUS
<1>10. AgentExtensionLine(agent) \in Seq(Q)
  BY <1>5, <1>6 DEF AgentExtensionLine
<1>11. DevcontainerSettingsBlock(agent) \in Seq(Q)
  BY <1>5, <1>7, <1>8 DEF DevcontainerSettingsBlock
<1>12. DockerInstallBlock(agent, rtk) \in Seq(Q)
  <2> DEFINE x == << <<"install", agent>> >>
             y == RtkLine(rtk)
  <2>1. x \in Seq(Q)
    BY <1>5, <1>7
  <2>2. y \in Seq(Q)
    BY <1>5, <1>6, <1>8 DEF RtkLine
  <2>3. DockerInstallBlock(agent, rtk) = x \o y
    BY DEF DockerInstallBlock
  <2> HIDE DEF x, y, Q
  <2> QED BY <1>9, <2>1, <2>2, <2>3
<1>13. DockerHomePrepBlock(agent) \in Seq(Q)
  BY <1>5, <1>7 DEF DockerHomePrepBlock
<1>14. UserInitBlock(agent, rtk) \in Seq(Q)
  <2> DEFINE x == << <<"init", agent>> >>
             y == IF rtk /\ agent \in {"claude", "cursor"} THEN OneLine("init rtk") ELSE << >>
  <2>1. x \in Seq(Q)
    BY <1>5, <1>7
  <2>2. y \in Seq(Q)
    BY <1>5, <1>6, <1>8
  <2>3. UserInitBlock(agent, rtk) = x \o y
    BY DEF UserInitBlock
  <2> HIDE DEF x, y, Q
  <2> QED BY <1>9, <2>1, <2>2, <2>3
<1> QED BY <1>4, <1>10, <1>11, <1>12, <1>13, <1>14

(* What the steps "stacks", "devbox" and "agent" put in place of their     *)
(* placeholders holds none.                                                *)
LEMMA PairsClean ==
  ASSUME NEW k \in {6, 9, 11, 12, 13}, NEW ch, Chooses(ch), Generates(ch)
  PROVE  LET pairs == LinePairs(GenStep(k)[1], GenStep(k)[2], ch)
         IN  /\ DOMAIN pairs = Expands(k)
             /\ \E V : /\ V \cap Placeholders = {}
                       /\ \A t \in DOMAIN pairs : pairs[t] \in Seq(Seq(V))
<1>1. ch.agent \in AgentNames
  BY ChosenIs DEF Generates
<1>2. PICK V : /\ V \cap Placeholders = {}
               /\ AgentExtensionLine(ch.agent) \in Seq(Seq(V))
               /\ DevcontainerSettingsBlock(ch.agent) \in Seq(Seq(V))
               /\ DockerInstallBlock(ch.agent, ch.rtk) \in Seq(Seq(V))
               /\ DockerHomePrepBlock(ch.agent) \in Seq(Seq(V))
               /\ UserInitBlock(ch.agent, ch.rtk) \in Seq(Seq(V))
  BY <1>1, AgentWords
<1>3. CASE k = 6
  <2> DEFINE pairs == [t \in {"__STACK_EXTENSIONS__"} |-> StackExtensionLines(ch.stacks)]
  <2>1. GenStep(6) = <<"stacks", "devcontainer.json">>
    BY GenFiles
  <2>2. LinePairs(GenStep(6)[1], GenStep(6)[2], ch) = pairs
    BY <2>1 DEF LinePairs
  <2>3. PICK R : ch.stacks \in Seq(R)
    BY StacksAreListed
  <2>4. PICK U : U \cap Placeholders = {} /\ Extensions(ch.stacks) \in Seq(U)
    BY <2>3, ListedWords
  <2>5. StackExtensionLines(ch.stacks) \in Seq(Seq(U))
    <3> DEFINE words == Extensions(ch.stacks)
               ls == [i \in DOMAIN words |-> <<words[i]>>]
    <3> HIDE DEF words
    <3>1. words \in Seq(U)
      BY <2>4 DEF words
    <3>2. DOMAIN words = 1..Len(words) /\ Len(words) \in Nat
      BY <3>1
    <3>3. DOMAIN ls = 1..Len(words) /\ ls = [i \in 1..Len(words) |-> ls[i]]
      BY <3>2
    <3>4. ASSUME NEW i \in 1..Len(words)
          PROVE  ls[i] \in Seq(U)
      <4>1. words[i] \in U /\ ls[i] = <<words[i]>>
        BY <3>1, <3>2
      <4> HIDE DEF ls
      <4> QED BY <4>1
    <3> HIDE DEF ls
    <3>5. ls \in Seq(Seq(U))
      BY <3>2, <3>3, <3>4, ListOf
    <3> QED BY <3>5 DEF StackExtensionLines, EachLine, ls, words
  <2> QED BY <1>3, <2>2, <2>4, <2>5 DEF Expands
<1>4. CASE k = 9
  <2> DEFINE pairs == [t \in {"__DEVBOX_INSTALL__"} |-> DevboxBlock]
             U == {"install devbox"}
  <2>1. GenStep(9) = <<"devbox", "Dockerfile.app">>
    BY GenFiles
  <2>2. LinePairs(GenStep(9)[1], GenStep(9)[2], ch) = pairs
    BY <2>1 DEF LinePairs
  <2>3. U \cap Placeholders = {}
    BY DEF Placeholders
  <2>4. DevboxBlock \in Seq(Seq(U))
    <3> DEFINE line == <<"install devbox">>
    <3>1. line \in Seq(U)
      OBVIOUS
    <3> HIDE DEF line, U
    <3>2. <<line>> \in Seq(Seq(U))
      BY <3>1
    <3> QED BY <3>2 DEF DevboxBlock, OneLine, line
  <2>5. DOMAIN pairs = {"__DEVBOX_INSTALL__"}
    OBVIOUS
  <2>6. Expands(k) = {"__DEVBOX_INSTALL__"}
    BY <1>4 DEF Expands
  <2>7. \A t \in DOMAIN pairs : pairs[t] \in Seq(Seq(U))
    BY <2>4
  <2> HIDE DEF pairs, U
  <2> QED BY <2>3, <1>4, <2>2, <2>5, <2>6, <2>7
<1>5. CASE k = 11
  <2> DEFINE pairs == [t \in {"__AGENT_EXTENSION__", "__AGENT_SETTINGS__"} |->
                         IF t = "__AGENT_EXTENSION__" THEN AgentExtensionLine(ch.agent)
                         ELSE DevcontainerSettingsBlock(ch.agent)]
  <2>1. GenStep(11) = <<"agent", "devcontainer.json">>
    BY GenFiles
  <2>2. LinePairs(GenStep(11)[1], GenStep(11)[2], ch) = pairs
    BY <2>1 DEF LinePairs
  <2>5. DOMAIN pairs = {"__AGENT_EXTENSION__", "__AGENT_SETTINGS__"}
    OBVIOUS
  <2>6. Expands(k) = {"__AGENT_EXTENSION__", "__AGENT_SETTINGS__"}
    BY <1>5 DEF Expands
  <2>7. \A t \in DOMAIN pairs : pairs[t] \in Seq(Seq(V))
    BY <1>2
  <2> HIDE DEF pairs
  <2> QED BY <1>2, <1>5, <2>2, <2>5, <2>6, <2>7
<1>6. CASE k = 12
  <2> DEFINE pairs == [t \in {"__AGENT_DOCKER_INSTALL__", "__AGENT_DOCKER_HOME_PREP__"} |->
                         IF t = "__AGENT_DOCKER_INSTALL__" THEN DockerInstallBlock(ch.agent, ch.rtk)
                         ELSE DockerHomePrepBlock(ch.agent)]
  <2>1. GenStep(12) = <<"agent", "Dockerfile.app">>
    BY GenFiles
  <2>2. LinePairs(GenStep(12)[1], GenStep(12)[2], ch) = pairs
    BY <2>1 DEF LinePairs
  <2>5. DOMAIN pairs = {"__AGENT_DOCKER_INSTALL__", "__AGENT_DOCKER_HOME_PREP__"}
    OBVIOUS
  <2>6. Expands(k) = {"__AGENT_DOCKER_INSTALL__", "__AGENT_DOCKER_HOME_PREP__"}
    BY <1>6 DEF Expands
  <2>7. \A t \in DOMAIN pairs : pairs[t] \in Seq(Seq(V))
    BY <1>2
  <2> HIDE DEF pairs
  <2> QED BY <1>2, <1>6, <2>2, <2>5, <2>6, <2>7
<1>7. CASE k = 13
  <2> DEFINE pairs == [t \in {"__AGENT_USER_INIT__"} |-> UserInitBlock(ch.agent, ch.rtk)]
  <2>1. GenStep(13) = <<"agent", "app-user-init.sh">>
    BY GenFiles
  <2>2. LinePairs(GenStep(13)[1], GenStep(13)[2], ch) = pairs
    BY <2>1 DEF LinePairs
  <2>5. DOMAIN pairs = {"__AGENT_USER_INIT__"}
    OBVIOUS
  <2>6. Expands(k) = {"__AGENT_USER_INIT__"}
    BY <1>7 DEF Expands
  <2>7. \A t \in DOMAIN pairs : pairs[t] \in Seq(Seq(V))
    BY <1>2
  <2> HIDE DEF pairs
  <2> QED BY <1>2, <1>7, <2>2, <2>5, <2>6, <2>7
<1> QED BY <1>3, <1>4, <1>5, <1>6, <1>7

LEMMA StepExpands ==
  ASSUME NEW k \in {6, 9, 11, 12, 13, 17, 18}, NEW ch, Chooses(ch), Generates(ch), NEW b,
         NEW old, NEW T, IsText(old, T)
  PROVE  IsText(StepMakes(k, old, ch, b), T \ Expands(k))
<1>1. PICK ls : old = Lines(ls) /\ CleanText(ls, T)
  BY DEF IsText
<1>2. old.lines = ls
  BY <1>1 DEF Lines
<1> DEFINE t == [f \in AllFiles |-> old]
<1>3. t[GenStep(k)[2]] = old
  <2>1. GenStep(k)[2] \in AllFiles
    BY GenFiles
  <2> QED BY <2>1
<1> HIDE DEF t
<1>4. StepMakes(k, old, ch, b) = Generated(GenStep(k), t, ch, b)
  BY DEF StepMakes, t
<1>5. CASE k \in {6, 9, 11, 12, 13}
  <2> DEFINE pairs == LinePairs(GenStep(k)[1], GenStep(k)[2], ch)
  <2>1. StepMakes(k, old, ch, b) = Lines(ApplyLinePlaceholders(ls, pairs))
    BY <1>2, <1>3, <1>4, <1>5, GeneratedBy
  <2>2. DOMAIN pairs = Expands(k)
    BY <1>5, PairsClean
  <2>3. PICK V : V \cap Placeholders = {} /\ \A w \in DOMAIN pairs : pairs[w] \in Seq(Seq(V))
    BY <1>5, PairsClean
  <2> HIDE DEF pairs
  <2>4. CleanText(ApplyLinePlaceholders(ls, pairs), T \ DOMAIN pairs)
    BY <1>1, <2>3, LinesReplaced
  <2> QED BY <2>1, <2>2, <2>4 DEF IsText
<1>6. CASE k = 17
  <2>1. StepMakes(k, old, ch, b) = Lines(CustomizeJSON(ls, ch.name, ch.ide))
    BY <1>2, <1>3, <1>4, <1>6, GeneratedBy
  <2>2. ch.name \notin Placeholders
    BY ChosenIs
  <2>3. Expands(k) = {"__PROJECT_NAME__", "__CUSTOMIZATIONS_START__", "__CUSTOMIZATIONS_END__"}
    BY <1>6 DEF Expands
  <2>4. CleanText(CustomizeJSON(ls, ch.name, ch.ide),
                  T \ {"__PROJECT_NAME__", "__CUSTOMIZATIONS_START__", "__CUSTOMIZATIONS_END__"})
    BY <1>1, <2>2, Customized
  <2> QED BY <2>1, <2>3, <2>4 DEF IsText
<1>7. CASE k = 18
  <2>1. StepMakes(k, old, ch, b) = Lines(CustomizePlugins(ls, ch.stacks))
    BY <1>2, <1>3, <1>4, <1>7, GeneratedBy
  <2>2. PICK R : ch.stacks \in Seq(R)
    BY StacksAreListed
  <2>3. CleanText(CustomizePlugins(ls, ch.stacks), T)
    BY <1>1, <2>2, PluginsAdded
  <2>4. T \ Expands(k) = T
    BY <1>7 DEF Expands
  <2> QED BY <2>1, <2>3, <2>4 DEF IsText
<1> QED BY <1>5, <1>6, <1>7

LEMMA TemplateTexts ==
  /\ IsText(Template["Dockerfile.app"], Expands(9) \cup Expands(12))
  /\ IsText(Template["devcontainer.json"], Expands(6) \cup Expands(11) \cup Expands(17))
  /\ IsText(Template["app-user-init.sh"], Expands(13))
<1>1. IsText(Template["Dockerfile.app"], Expands(9) \cup Expands(12))
  <2> DEFINE W == {"__AGENT_DOCKER_INSTALL__", "__DEVBOX_INSTALL__", "__AGENT_DOCKER_HOME_PREP__"}
             ls == << <<"__AGENT_DOCKER_INSTALL__">>, <<"__DEVBOX_INSTALL__">>,
                      <<"__AGENT_DOCKER_HOME_PREP__">> >>
  <2>1. Template["Dockerfile.app"] = Lines(ls)
    BY DEF Template
  <2>2. ls \in Seq(Seq(W))
    OBVIOUS
  <2>3. W \subseteq Expands(9) \cup Expands(12)
    BY DEF Expands
  <2> HIDE DEF ls
  <2> QED BY <2>1, <2>2, <2>3 DEF IsText, CleanText
<1>2. IsText(Template["devcontainer.json"], Expands(6) \cup Expands(11) \cup Expands(17))
  <2> DEFINE W == {"name", "__PROJECT_NAME__", "__CUSTOMIZATIONS_START__", "__AGENT_EXTENSION__",
                   "__STACK_EXTENSIONS__", "__AGENT_SETTINGS__", "__CUSTOMIZATIONS_END__"}
             ls == << <<"name", "__PROJECT_NAME__">>, <<"__CUSTOMIZATIONS_START__">>,
                      <<"__AGENT_EXTENSION__">>, <<"__STACK_EXTENSIONS__">>,
                      <<"__AGENT_SETTINGS__">>, <<"__CUSTOMIZATIONS_END__">> >>
  <2>1. Template["devcontainer.json"] = Lines(ls)
    BY DEF Template
  <2>2. ls \in Seq(Seq(W))
    OBVIOUS
  <2>3. "name" \notin Placeholders
    BY DEF Placeholders
  <2>4. W \ {"name"} \subseteq Expands(6) \cup Expands(11) \cup Expands(17)
    BY DEF Expands
  <2>5. W \cap Placeholders \subseteq Expands(6) \cup Expands(11) \cup Expands(17)
    <3> HIDE DEF W
    <3> QED BY <2>3, <2>4
  <2> HIDE DEF ls
  <2> QED BY <2>1, <2>2, <2>5 DEF IsText, CleanText
<1>3. IsText(Template["app-user-init.sh"], Expands(13))
  <2> DEFINE W == {"__AGENT_USER_INIT__"}
             ls == OneLine("__AGENT_USER_INIT__")
  <2>1. Template["app-user-init.sh"] = Lines(ls)
    BY DEF Template
  <2>2. ls \in Seq(Seq(W))
    BY DEF OneLine
  <2>3. W \subseteq Expands(13)
    BY DEF Expands
  <2> HIDE DEF ls
  <2> QED BY <2>1, <2>2, <2>3 DEF IsText, CleanText
<1> QED BY <1>1, <1>2, <1>3

(* All steps taken, nothing is left to expand.                             *)
LEMMA TextsExpanded ==
  ASSUME NEW k \in {17, 18}, NEW ch, Chooses(ch), Generates(ch), NEW b,
         NEW f \in {"Dockerfile.app", "devcontainer.json", "app-user-init.sh"}
  PROVE  IsText(Stage(f, k, ch, b), {})
<1>1. \A j \in {6, 9, 11, 12, 13, 17, 18} : \A old, T :
        IsText(old, T) => IsText(StepMakes(j, old, ch, b), T \ Expands(j))
  BY StepExpands
<1>2. \A i, old : /\ k >= i => Once(i, k, old, ch, b) = StepMakes(i, old, ch, b)
                  /\ ~(k >= i) => Once(i, k, old, ch, b) = old
  BY DEF Once
<1>3. k >= 6 /\ k >= 9 /\ k >= 11 /\ k >= 12 /\ k >= 13 /\ k >= 17 /\ (k >= 18 <=> k = 18)
  OBVIOUS
<1>4. CASE f = "Dockerfile.app"
  <2> DEFINE T0 == Expands(9) \cup Expands(12)
             c0 == Template["Dockerfile.app"]
             c1 == StepMakes(9, c0, ch, b)
             c2 == StepMakes(12, c1, ch, b)
  <2>1. IsText(c0, T0)
    BY TemplateTexts
  <2>2. Stage(f, k, ch, b) = c2
    <3>1. Stage(f, k, ch, b) = Once(12, k, Once(9, k, c0, ch, b), ch, b)
      BY <1>4 DEF Stage
    <3> HIDE DEF c0
    <3> QED BY <1>2, <1>3, <3>1
  <2> HIDE DEF c0
  <2>3. IsText(c1, T0 \ Expands(9))
    BY <1>1, <2>1
  <2> HIDE DEF c1
  <2>4. IsText(c2, (T0 \ Expands(9)) \ Expands(12))
    BY <1>1, <2>3
  <2>5. (T0 \ Expands(9)) \ Expands(12) = {}
    OBVIOUS
  <2> HIDE DEF c2, T0
  <2> QED BY <2>2, <2>4, <2>5
<1>5. CASE f = "devcontainer.json"
  <2> DEFINE T0 == Expands(6) \cup Expands(11) \cup Expands(17)
             c0 == Template["devcontainer.json"]
             c1 == StepMakes(6, c0, ch, b)
             c2 == StepMakes(11, c1, ch, b)
             c3 == StepMakes(17, c2, ch, b)
             c4 == StepMakes(18, c3, ch, b)
             T1 == T0 \ Expands(6)
             T2 == T1 \ Expands(11)
             T3 == T2 \ Expands(17)
             T4 == T3 \ Expands(18)
  <2>1. IsText(c0, T0)
    BY TemplateTexts
  <2>2. Stage(f, k, ch, b) = IF k = 18 THEN c4 ELSE c3
    <3>1. Stage(f, k, ch, b) =
            Once(18, k, Once(17, k, Once(11, k, Once(6, k, c0, ch, b), ch, b), ch, b), ch, b)
      BY <1>5 DEF Stage
    <3> HIDE DEF c0
    <3> QED BY <1>2, <1>3, <3>1
  <2>3. T3 = {} /\ T4 = {}
    OBVIOUS
  <2> HIDE DEF T0, c0
  <2>4. IsText(c1, T1)
    BY <1>1, <2>1
  <2> HIDE DEF c1, T1
  <2>5. IsText(c2, T2)
    BY <1>1, <2>4
  <2> HIDE DEF c2, T2
  <2>6. IsText(c3, T3)
    BY <1>1, <2>5
  <2> HIDE DEF c3, T3
  <2>7. IsText(c4, T4)
    BY <1>1, <2>6
  <2> HIDE DEF c4, T4
  <2> QED BY <2>2, <2>3, <2>6, <2>7
<1>6. CASE f = "app-user-init.sh"
  <2> DEFINE c0 == Template["app-user-init.sh"]
             c1 == StepMakes(13, c0, ch, b)
  <2>1. IsText(c0, Expands(13))
    BY TemplateTexts
  <2>2. Stage(f, k, ch, b) = c1
    <3>1. Stage(f, k, ch, b) = Once(13, k, c0, ch, b)
      BY <1>6 DEF Stage
    <3> HIDE DEF c0
    <3> QED BY <1>2, <1>3, <3>1
  <2> HIDE DEF c0
  <2>3. IsText(c1, Expands(13) \ Expands(13))
    BY <1>1, <2>1
  <2>4. Expands(13) \ Expands(13) = {}
    OBVIOUS
  <2> HIDE DEF c1
  <2> QED BY <2>2, <2>3, <2>4
<1> QED BY <1>4, <1>5, <1>6

(***************************************************************************)
(* compose-proxy.yml                                                       *)
(***************************************************************************)

LEMMA FlattenedTwo ==
  ASSUME NEW S, NEW x \in Seq(S), NEW y \in Seq(S)
  PROVE  FlattenSeq(<<x, y>>) = x \o y
<1> DEFINE ss == <<x, y>>
<1>1. ss \in Seq(Seq(S)) /\ Len(ss) = 2 /\ ss[1] = x /\ ss[2] = y
  OBVIOUS
<1> HIDE DEF ss
<1>2. PICK f \in [0..Len(ss) -> Seq(S)] :
        /\ f[0] = << >>
        /\ \A k \in 1..Len(ss) : f[k] = f[k - 1] \o ss[k]
        /\ FlattenSeq(ss) = f[Len(ss)]
  BY <1>1, Flattened
<1> DEFINE more(k) == f[k - 1] \o ss[k]
<1>6. \A k \in 1..Len(ss) : f[k] = more(k)
  BY <1>2
<1>7. more(1) = f[0] \o x
  BY <1>1
<1>8. more(2) = f[1] \o y
  BY <1>1
<1> HIDE DEF more
<1>9. f[1] = more(1) /\ f[2] = more(2)
  BY <1>1, <1>6
<1>3. f[1] = f[0] \o x
  BY <1>7, <1>9
<1>4. f[2] = f[1] \o y
  BY <1>8, <1>9
<1>5. f[1] = x
  BY <1>2, <1>3
<1> QED BY <1>1, <1>2, <1>4, <1>5 DEF ss

(* What the step "agent" replaces in it.                                   *)
ProxyPairs(agent) ==
  [t \in {"__AGENT_MITM_ADDON__", "__MITM_HTTP2__",
          "__AGENT_MITM_STREAMING_FLAGS__", "__MITMPROXY_VERSION__"} |->
     CASE t = "__AGENT_MITM_ADDON__" -> <<"mitmproxy_addon", agent>>
       [] t = "__MITM_HTTP2__" -> <<"http2=true">>
       [] t = "__AGENT_MITM_STREAMING_FLAGS__" -> MitmStreamingFlags(agent)
       [] t = "__MITMPROXY_VERSION__" -> <<MitmproxyVersion>>]

(* Words without a placeholder.                                            *)
CleanWords(words) == \E V : words \in Seq(V) /\ V \cap Placeholders = {}

LEMMA ProxyPairsClean ==
  ASSUME NEW agent \in AgentNames
  PROVE  /\ DOMAIN ProxyPairs(agent) = {"__AGENT_MITM_ADDON__", "__MITM_HTTP2__",
                                        "__AGENT_MITM_STREAMING_FLAGS__", "__MITMPROXY_VERSION__"}
         /\ ProxyPairs(agent)["__MITMPROXY_VERSION__"] = <<MitmproxyVersion>>
         /\ \E V : /\ V \cap Placeholders = {}
                   /\ \A t \in DOMAIN ProxyPairs(agent) : ProxyPairs(agent)[t] \in Seq(V)
<1> DEFINE V == {"mitmproxy_addon", agent, "http2=true", "stream_large_bodies", MitmproxyVersion}
           pairs == ProxyPairs(agent)
<1>1. V \cap Placeholders = {}
  <2>1. agent \notin Placeholders
    BY DEF AgentNames, Placeholders
  <2>2. {"mitmproxy_addon", "http2=true", "stream_large_bodies", MitmproxyVersion} \cap Placeholders = {}
    BY DEF Placeholders, MitmproxyVersion
  <2> QED BY <2>1, <2>2
<1>2. DOMAIN pairs = {"__AGENT_MITM_ADDON__", "__MITM_HTTP2__",
                      "__AGENT_MITM_STREAMING_FLAGS__", "__MITMPROXY_VERSION__"}
  BY DEF ProxyPairs
<1>3. pairs["__AGENT_MITM_ADDON__"] = <<"mitmproxy_addon", agent>>
  BY DEF ProxyPairs
<1>4. pairs["__MITM_HTTP2__"] = <<"http2=true">>
  BY DEF ProxyPairs
<1>5. pairs["__AGENT_MITM_STREAMING_FLAGS__"] = MitmStreamingFlags(agent)
  BY DEF ProxyPairs
<1>6. pairs["__MITMPROXY_VERSION__"] = <<MitmproxyVersion>>
  BY DEF ProxyPairs
<1>7. /\ "mitmproxy_addon" \in V /\ agent \in V /\ "http2=true" \in V
      /\ "stream_large_bodies" \in V /\ MitmproxyVersion \in V
  OBVIOUS
<1> HIDE DEF pairs, V
<1>8. MitmStreamingFlags(agent) \in Seq(V)
  BY <1>7 DEF MitmStreamingFlags
<1>9. <<"mitmproxy_addon", agent>> \in Seq(V) /\ <<"http2=true">> \in Seq(V) /\ <<MitmproxyVersion>> \in Seq(V)
  BY <1>7
<1>10. \A t \in DOMAIN pairs : pairs[t] \in Seq(V)
  <2> DEFINE Q == Seq(V)
  <2>1. /\ pairs["__AGENT_MITM_ADDON__"] \in Q /\ pairs["__MITM_HTTP2__"] \in Q
        /\ pairs["__AGENT_MITM_STREAMING_FLAGS__"] \in Q /\ pairs["__MITMPROXY_VERSION__"] \in Q
    BY <1>3, <1>4, <1>5, <1>6, <1>8, <1>9
  <2> HIDE DEF Q
  <2>2. \A t \in DOMAIN pairs : pairs[t] \in Q
    BY <1>2, <2>1
  <2> QED BY <2>2 DEF Q
<1> QED BY <1>1, <1>2, <1>6, <1>10 DEF pairs

LEMMA WordsCleaned ==
  ASSUME NEW agent \in AgentNames, NEW W, NEW words \in Seq(W),
         W \cap Placeholders \subseteq DOMAIN ProxyPairs(agent)
  PROVE  CleanWords(ApplyInlinePlaceholders(words, ProxyPairs(agent)))
<1> DEFINE pairs == ProxyPairs(agent)
<1>1. PICK V : V \cap Placeholders = {} /\ \A t \in DOMAIN pairs : pairs[t] \in Seq(V)
  BY ProxyPairsClean
<1> HIDE DEF pairs
<1>2. ApplyInlinePlaceholders(words, pairs) \in Seq((W \ DOMAIN pairs) \cup V)
  BY <1>1, WordsReplaced
<1>3. ((W \ DOMAIN pairs) \cup V) \cap Placeholders = {}
  BY <1>1 DEF pairs
<1> QED BY <1>2, <1>3 DEF CleanWords, pairs

ProxyFields == {"image", "command", "entrypoint", "ports", "environment", "volumes"}

(* The proxy with the CA bundles b: they are mounted behind the two mounts *)
(* of the template, and installed first of all.                            *)
WithBundles(proxy, b) ==
  /\ Len(proxy.volumes) = 2 + Len(b) /\ DOMAIN proxy.volumes = 1..(2 + Len(b))
  /\ proxy.volumes[1].target # "/upstream-ca" /\ proxy.volumes[2].target # "/upstream-ca"
  /\ \A i \in 1..Len(b) : proxy.volumes[2 + i] = Mount(<<b[i]>>, "/upstream-ca")
  /\ proxy.entrypoint = IF b = << >> THEN ProxyTemplate.entrypoint
                        ELSE <<CaInstall>> \o ProxyTemplate.entrypoint

(* Its words, once the agent has been filled in.                           *)
ProxyClean(proxy) ==
  /\ CleanWords(proxy.image) /\ CleanWords(proxy.command)
  /\ CleanWords(proxy.volumes[1].source) /\ CleanWords(proxy.volumes[2].source)

LEMMA TemplateProxy ==
  /\ DOMAIN ProxyTemplate = ProxyFields /\ WithBundles(ProxyTemplate, << >>)
  /\ ProxyTemplate.environment = << >>
<1> DEFINE vs == ProxyTemplate.volumes
<1>1. DOMAIN ProxyTemplate = ProxyFields /\ ProxyTemplate.environment = << >>
  BY DEF ProxyTemplate, ProxyFields
<1>2. vs = << Mount(<<"./scripts", "__AGENT_MITM_ADDON__">>, "/scripts"),
              Mount(<<"~/.config/sandcat/settings.json">>, "/config/settings.json") >>
  BY DEF ProxyTemplate
<1>3. vs[1].target = "/scripts" /\ vs[2].target = "/config/settings.json"
  BY <1>2 DEF Mount
<1>4. Len(vs) = 2 /\ DOMAIN vs = 1..2
  BY <1>2
<1> HIDE DEF vs
<1>5. Len(<< >>) = 0
  OBVIOUS
<1> QED BY <1>1, <1>3, <1>4, <1>5 DEF WithBundles, vs

LEMMA InlinedProxy ==
  ASSUME NEW agent \in AgentNames
  PROVE  LET proxy == InlineProxy(ProxyTemplate, agent)
         IN  /\ DOMAIN proxy = ProxyFields /\ WithBundles(proxy, << >>) /\ ProxyClean(proxy)
             /\ proxy.image = <<"mitmproxy/mitmproxy", MitmproxyVersion>>
             /\ proxy.environment = << >>
<1> DEFINE T     == ProxyTemplate
           pairs == ProxyPairs(agent)
           proxy == InlineProxy(T, agent)
<1>1. proxy = [T EXCEPT !.image = ApplyInlinePlaceholders(@, pairs),
                        !.command = ApplyInlinePlaceholders(@, pairs),
                        !.volumes = [i \in DOMAIN @ |->
                           Mount(ApplyInlinePlaceholders(@[i].source, pairs), @[i].target)]]
  <2> HIDE DEF T
  <2> QED BY DEF InlineProxy, ProxyPairs
<1>2. DOMAIN T = ProxyFields /\ T.environment = << >> /\ WithBundles(T, << >>)
  BY TemplateProxy
<1>3. /\ T.image = <<"mitmproxy/mitmproxy", "__MITMPROXY_VERSION__">>
      /\ T.volumes = << Mount(<<"./scripts", "__AGENT_MITM_ADDON__">>, "/scripts"),
                        Mount(<<"~/.config/sandcat/settings.json">>, "/config/settings.json") >>
  BY DEF ProxyTemplate
<1>4. CleanWords(ApplyInlinePlaceholders(T.command, pairs))
  <2> DEFINE W == {"mitmweb", "--web-host", "web_password", "__MITM_HTTP2__",
                   "__AGENT_MITM_STREAMING_FLAGS__", "__AGENT_MITM_ADDON__"}
             words == T.command
  <2>1. words \in Seq(W)
    BY DEF ProxyTemplate
  <2>2. W \cap Placeholders \subseteq DOMAIN pairs
    <3>1. {"mitmweb", "--web-host", "web_password"} \cap Placeholders = {}
      BY DEF Placeholders
    <3>2. {"__MITM_HTTP2__", "__AGENT_MITM_STREAMING_FLAGS__", "__AGENT_MITM_ADDON__"} \subseteq DOMAIN pairs
      BY ProxyPairsClean
    <3> HIDE DEF pairs
    <3> QED BY <3>1, <3>2
  <2> HIDE DEF words, W
  <2> QED BY <2>1, <2>2, WordsCleaned DEF words
<1>5. ApplyInlinePlaceholders(T.image, pairs) = <<"mitmproxy/mitmproxy", MitmproxyVersion>>
  <2> DEFINE x == <<"mitmproxy/mitmproxy">>
             y == <<MitmproxyVersion>>
             words == T.image
             parts == [i \in DOMAIN words |->
                         IF words[i] \in DOMAIN pairs THEN pairs[words[i]] ELSE <<words[i]>>]
  <2>1. DOMAIN words = 1..2 /\ words[1] = "mitmproxy/mitmproxy" /\ words[2] = "__MITMPROXY_VERSION__"
    BY <1>3
  <2>2. /\ "mitmproxy/mitmproxy" \notin DOMAIN pairs /\ "__MITMPROXY_VERSION__" \in DOMAIN pairs
        /\ pairs["__MITMPROXY_VERSION__"] = y
    BY ProxyPairsClean
  <2>3. ApplyInlinePlaceholders(words, pairs) = FlattenSeq(parts)
    BY DEF ApplyInlinePlaceholders
  <2> HIDE DEF words, pairs, y
  <2>4. DOMAIN parts = 1..2 /\ parts[1] = x /\ parts[2] = y
    BY <2>1, <2>2
  <2>5. parts = <<x, y>>
    <3>1. parts = [i \in 1..2 |-> parts[i]]
      BY <2>1
    <3> HIDE DEF parts, x
    <3> QED BY <2>4, <3>1
  <2>6. x \in Seq({"mitmproxy/mitmproxy", MitmproxyVersion}) /\ y \in Seq({"mitmproxy/mitmproxy", MitmproxyVersion})
    BY DEF y
  <2> HIDE DEF parts, x
  <2>7. FlattenSeq(<<x, y>>) = x \o y
    BY <2>6, FlattenedTwo
  <2> QED BY <2>3, <2>5, <2>7 DEF x, y, words
<1>6. /\ CleanWords(ApplyInlinePlaceholders(T.volumes[1].source, pairs))
      /\ CleanWords(ApplyInlinePlaceholders(T.volumes[2].source, pairs))
  <2> DEFINE w1 == <<"./scripts", "__AGENT_MITM_ADDON__">>
             w2 == <<"~/.config/sandcat/settings.json">>
             W1 == {"./scripts", "__AGENT_MITM_ADDON__"}
             W2 == {"~/.config/sandcat/settings.json"}
  <2>1. T.volumes[1].source = w1 /\ T.volumes[2].source = w2
    BY <1>3 DEF Mount
  <2>2. w1 \in Seq(W1) /\ w2 \in Seq(W2)
    OBVIOUS
  <2>3. W1 \cap Placeholders \subseteq DOMAIN pairs /\ W2 \cap Placeholders \subseteq DOMAIN pairs
    <3>1. "./scripts" \notin Placeholders /\ "~/.config/sandcat/settings.json" \notin Placeholders
      BY DEF Placeholders
    <3>2. "__AGENT_MITM_ADDON__" \in DOMAIN pairs
      BY ProxyPairsClean
    <3> HIDE DEF pairs
    <3> QED BY <3>1, <3>2
  <2> HIDE DEF w1, w2, W1, W2
  <2> QED BY <2>1, <2>2, <2>3, WordsCleaned
<1> DEFINE vs == T.volumes
           image == ApplyInlinePlaceholders(T.image, pairs)
           command == ApplyInlinePlaceholders(T.command, pairs)
           volumes == [i \in DOMAIN vs |->
                         Mount(ApplyInlinePlaceholders(vs[i].source, pairs), vs[i].target)]
<1>7. proxy = [T EXCEPT !.image = image, !.command = command, !.volumes = volumes]
  <2> HIDE DEF T, pairs
  <2> QED BY <1>1
<1> HIDE DEF image, command, proxy, pairs
<1>8. DOMAIN vs = 1..2 /\ vs[1].target # "/upstream-ca" /\ vs[2].target # "/upstream-ca"
  BY <1>3 DEF Mount
<1> HIDE DEF vs
<1>9. /\ DOMAIN volumes = 1..2 /\ volumes[1].target = vs[1].target /\ volumes[2].target = vs[2].target
      /\ volumes[1].source = ApplyInlinePlaceholders(vs[1].source, pairs)
      /\ volumes[2].source = ApplyInlinePlaceholders(vs[2].source, pairs)
  BY <1>8 DEF Mount
<1>10. Len(volumes) = 2
  <2>1. volumes = [i \in 1..2 |-> volumes[i]]
    BY <1>8
  <2> HIDE DEF volumes
  <2>2. volumes \in Seq(Range(volumes))
    BY <1>9, <2>1 DEF Range
  <2> QED BY <1>9, <2>2
<1> HIDE DEF volumes, T
<1>11. /\ DOMAIN proxy = ProxyFields /\ proxy.image = image /\ proxy.command = command
       /\ proxy.volumes = volumes /\ proxy.entrypoint = T.entrypoint /\ proxy.environment = T.environment
  BY <1>2, <1>7 DEF ProxyFields
<1>12. WithBundles(proxy, << >>)
  <2>1. Len(<< >>) = 0
    OBVIOUS
  <2> DEFINE none == << >>
  <2>2. Len(none) = 0 /\ none = << >>
    BY <2>1
  <2> HIDE DEF none
  <2>3. Len(proxy.volumes) = 2 + Len(none) /\ DOMAIN proxy.volumes = 1..(2 + Len(none))
    BY <1>9, <1>10, <1>11, <2>2
  <2>4. proxy.volumes[1].target # "/upstream-ca" /\ proxy.volumes[2].target # "/upstream-ca"
    BY <1>8, <1>9, <1>11
  <2>5. \A i \in 1..Len(none) : proxy.volumes[2 + i] = Mount(<<none[i]>>, "/upstream-ca")
    BY <2>2
  <2>6. proxy.entrypoint = IF none = << >> THEN ProxyTemplate.entrypoint
                           ELSE <<CaInstall>> \o ProxyTemplate.entrypoint
    BY <1>11, <2>2 DEF T
  <2> QED BY <2>2, <2>3, <2>4, <2>5, <2>6 DEF WithBundles
<1>13. CleanWords(image)
  <2> DEFINE V == {"mitmproxy/mitmproxy", MitmproxyVersion}
  <2>1. image \in Seq(V)
    BY <1>5 DEF image
  <2>2. V \cap Placeholders = {}
    BY DEF Placeholders, MitmproxyVersion
  <2> QED BY <2>1, <2>2 DEF CleanWords
<1>14. ProxyClean(proxy)
  BY <1>4, <1>6, <1>9, <1>11, <1>13 DEF ProxyClean, vs, command
<1> QED BY <1>2, <1>5, <1>11, <1>12, <1>14 DEF proxy, T, image

(* mitmdump takes a command line of the same words.                        *)
LEMMA TUIProxy ==
  ASSUME NEW proxy, DOMAIN proxy = ProxyFields, CleanWords(proxy.command)
  PROVE  LET tui == SetProxyTUIMode(proxy)
         IN  /\ DOMAIN tui = ProxyFields /\ CleanWords(tui.command)
             /\ tui.image = proxy.image /\ tui.environment = proxy.environment
             /\ tui.entrypoint = proxy.entrypoint /\ tui.volumes = proxy.volumes
<1> DEFINE words == [proxy.command EXCEPT ![1] = "mitmdump"]
           command == Without(words, {"--web-host", "web_password"})
           tui == SetProxyTUIMode(proxy)
<1>1. PICK V : proxy.command \in Seq(V) /\ V \cap Placeholders = {}
  BY DEF CleanWords
<1> DEFINE U == V \cup {"mitmdump"}
<1>2. words \in Seq(U)
  <2> DEFINE old == proxy.command
  <2>1. old \in Seq(V)
    BY <1>1
  <2>2. words = [i \in DOMAIN old |-> IF i = 1 THEN "mitmdump" ELSE old[i]]
    OBVIOUS
  <2> HIDE DEF old, words
  <2>3. DOMAIN old = 1..Len(old) /\ Len(old) \in Nat /\ \A i \in 1..Len(old) : old[i] \in U
    BY <2>1
  <2>4. DOMAIN words = 1..Len(old) /\ words = [i \in 1..Len(old) |-> words[i]]
    BY <2>2, <2>3
  <2>5. \A i \in 1..Len(old) : words[i] \in U
    BY <2>2, <2>3
  <2> HIDE DEF U
  <2> QED BY <2>3, <2>4, <2>5, ListOf
<1>3. tui = [proxy EXCEPT !.command = command, !.ports = << >>]
  BY DEF SetProxyTUIMode
<1> HIDE DEF words
<1>4. command \in Seq(U)
  <2> HIDE DEF U
  <2> QED BY <1>2, WithoutElements
<1>5. U \cap Placeholders = {}
  <2>1. "mitmdump" \notin Placeholders
    BY DEF Placeholders
  <2> QED BY <1>1, <2>1
<1> HIDE DEF command, tui
<1>6. /\ DOMAIN tui = ProxyFields /\ tui.command = command
      /\ tui.image = proxy.image /\ tui.environment = proxy.environment
      /\ tui.entrypoint = proxy.entrypoint /\ tui.volumes = proxy.volumes
  BY <1>3 DEF ProxyFields
<1> QED BY <1>4, <1>5, <1>6 DEF CleanWords, tui

ProviderImage(provider) ==
  IF provider = "1password" THEN <<"sandcat-mitmproxy-op", MitmproxyVersion>>
  ELSE IF provider = "protonpass" THEN <<"sandcat-mitmproxy-pass", MitmproxyVersion>>
  ELSE <<"mitmproxy/mitmproxy", MitmproxyVersion>>

ProviderVariable(provider) ==
  IF provider = "1password" THEN <<"OP_SERVICE_ACCOUNT_TOKEN">>
  ELSE IF provider = "protonpass" THEN <<"PROTON_PASS_PERSONAL_ACCESS_TOKEN">> ELSE << >>

LEMMA ProviderProxy ==
  ASSUME NEW proxy, DOMAIN proxy = ProxyFields, NEW provider,
         proxy.image = <<"mitmproxy/mitmproxy", MitmproxyVersion>>, proxy.environment = << >>
  PROVE  LET new == ApplySecretProvider(proxy, provider)
         IN  /\ DOMAIN new = ProxyFields /\ new.command = proxy.command
             /\ new.entrypoint = proxy.entrypoint /\ new.volumes = proxy.volumes
             /\ new.image = ProviderImage(provider) /\ new.environment = ProviderVariable(provider)
<1> DEFINE new == ApplySecretProvider(proxy, provider)
           image == ProviderImage(provider)
           variable == ProviderVariable(provider)
<1>1. CASE provider \in {"1password", "protonpass"}
  <2>1. new = [proxy EXCEPT !.image = image, !.environment = variable]
    BY <1>1 DEF ApplySecretProvider, ProviderImage, ProviderVariable
  <2> HIDE DEF new, image, variable
  <2>2. /\ DOMAIN new = ProxyFields /\ new.command = proxy.command
        /\ new.entrypoint = proxy.entrypoint /\ new.volumes = proxy.volumes
        /\ new.image = image /\ new.environment = variable
    BY <2>1 DEF ProxyFields
  <2> QED BY <2>2 DEF new, image, variable
<1>2. CASE provider \notin {"1password", "protonpass"}
  <2>1. new = proxy
    BY <1>2 DEF ApplySecretProvider
  <2>2. image = proxy.image /\ variable = proxy.environment
    BY <1>2 DEF ProviderImage, ProviderVariable
  <2> HIDE DEF new, image, variable
  <2>3. /\ DOMAIN new = ProxyFields /\ new.command = proxy.command
        /\ new.entrypoint = proxy.entrypoint /\ new.volumes = proxy.volumes
        /\ new.image = image /\ new.environment = variable
    BY <2>1, <2>2
  <2> QED BY <2>3 DEF new, image, variable
<1> QED BY <1>1, <1>2

LEMMA BundledProxy ==
  ASSUME NEW proxy, DOMAIN proxy = ProxyFields, WithBundles(proxy, << >>), ProxyClean(proxy),
         NEW B, NEW bundles \in Seq(B)
  PROVE  LET new == ApplyUpstreamCABundles(proxy, bundles)
         IN  /\ DOMAIN new = ProxyFields /\ WithBundles(new, bundles) /\ ProxyClean(new)
             /\ new.image = proxy.image /\ new.environment = proxy.environment
<1> DEFINE new == ApplyUpstreamCABundles(proxy, bundles)
<1>1. CASE bundles = << >>
  <2>1. new = proxy
    BY <1>1 DEF ApplyUpstreamCABundles
  <2> HIDE DEF new
  <2>2. WithBundles(new, bundles)
    BY <1>1, <2>1
  <2> QED BY <2>1, <2>2 DEF new
<1>2. CASE bundles # << >>
  <2> DEFINE vs    == proxy.volumes
             n     == Len(bundles)
             added == [i \in DOMAIN bundles |-> Mount(<<bundles[i]>>, "/upstream-ca")]
             volumes == vs \o added
             entrypoint == <<CaInstall>> \o proxy.entrypoint
  <2>1. new = [proxy EXCEPT !.volumes = volumes, !.entrypoint = entrypoint]
    BY <1>2 DEF ApplyUpstreamCABundles
  <2>2. /\ Len(vs) = 2 + Len(<< >>) /\ DOMAIN vs = 1..(2 + Len(<< >>))
        /\ vs[1].target # "/upstream-ca" /\ vs[2].target # "/upstream-ca"
        /\ proxy.entrypoint = ProxyTemplate.entrypoint
    BY DEF WithBundles
  <2>3. Len(vs) = 2 /\ DOMAIN vs = 1..2
    <3>1. 2 + Len(<< >>) = 2
      OBVIOUS
    <3> QED BY <2>2, <3>1
  <2>4. n \in Nat /\ DOMAIN bundles = 1..n
    OBVIOUS
  <2>5. Len(added) = n /\ DOMAIN added = 1..n /\ \A i \in 1..n : added[i] = Mount(<<bundles[i]>>, "/upstream-ca")
    <3>1. DOMAIN added = 1..n /\ added = [i \in 1..n |-> added[i]]
      BY <2>4
    <3>2. \A i \in 1..n : added[i] = Mount(<<bundles[i]>>, "/upstream-ca")
      BY <2>4
    <3> HIDE DEF added, n
    <3>3. added \in Seq(Range(added)) /\ Len(added) = n
      <4>1. \A i \in 1..n : added[i] \in Range(added)
        BY <3>1 DEF Range
      <4> QED BY <2>4, <3>1, <4>1, ListOf
    <3> QED BY <3>1, <3>2, <3>3
  <2> DEFINE both(i) == IF i <= Len(vs) THEN vs[i] ELSE added[i - Len(vs)]
  <2>6. volumes = [i \in 1..(Len(vs) + Len(added)) |-> both(i)]
    OBVIOUS
  <2> HIDE DEF vs, added, volumes, entrypoint, new, n
  <2>7. /\ DOMAIN volumes = 1..(2 + n) /\ volumes[1] = vs[1] /\ volumes[2] = vs[2]
        /\ \A i \in 1..n : volumes[2 + i] = added[i]
    BY <2>3, <2>4, <2>5, <2>6
  <2>8. Len(volumes) = 2 + n
    <3> DEFINE m == 2 + n
    <3>1. m \in Nat /\ DOMAIN volumes = 1..m
      BY <2>4, <2>7
    <3>2. volumes = [i \in 1..m |-> volumes[i]]
      BY <2>3, <2>5, <2>6
    <3> HIDE DEF m
    <3>3. \A i \in 1..m : volumes[i] \in Range(volumes)
      BY <3>1 DEF Range
    <3>4. Len(volumes) = m
      BY <3>1, <3>2, <3>3, ListOf
    <3> QED BY <3>4 DEF m
  <2>9. /\ DOMAIN new = ProxyFields /\ new.volumes = volumes /\ new.entrypoint = entrypoint
        /\ new.image = proxy.image /\ new.environment = proxy.environment /\ new.command = proxy.command
    BY <2>1 DEF ProxyFields
  <2>10. WithBundles(new, bundles)
    BY <1>2, <2>2, <2>5, <2>7, <2>8, <2>9 DEF WithBundles, n, entrypoint
  <2>11. ProxyClean(new)
    BY <2>7, <2>9 DEF ProxyClean, vs
  <2> QED BY <2>9, <2>10, <2>11 DEF new
<1> QED BY <1>1, <1>2

LEMMA CleanImage ==
  ASSUME NEW provider
  PROVE  CleanWords(ProviderImage(provider))
<1> DEFINE V == {"sandcat-mitmproxy-op", "sandcat-mitmproxy-pass", "mitmproxy/mitmproxy", MitmproxyVersion}
<1>1. V \cap Placeholders = {}
  BY DEF Placeholders, MitmproxyVersion
<1>2. /\ "sandcat-mitmproxy-op" \in V /\ "sandcat-mitmproxy-pass" \in V
      /\ "mitmproxy/mitmproxy" \in V /\ MitmproxyVersion \in V
  OBVIOUS
<1> HIDE DEF V
<1>3. \A x, y \in V : <<x, y>> \in Seq(V)
  OBVIOUS
<1>4. ProviderImage(provider) \in Seq(V)
  BY <1>2, <1>3 DEF ProviderImage
<1> QED BY <1>1, <1>4 DEF CleanWords

LEMMA EditedProxy ==
  ASSUME NEW agent \in AgentNames, NEW ch, NEW B, NEW bundles \in Seq(B)
  PROVE  LET proxy == EditProxy(InlineProxy(ProxyTemplate, agent), ch, bundles)
         IN  /\ DOMAIN proxy = ProxyFields /\ WithBundles(proxy, bundles) /\ ProxyClean(proxy)
             /\ proxy.image = ProviderImage(ch.provider)
             /\ proxy.environment = ProviderVariable(ch.provider)
<1> DEFINE p0 == InlineProxy(ProxyTemplate, agent)
           p1 == IF ch.tui THEN SetProxyTUIMode(p0) ELSE p0
           p2 == ApplySecretProvider(p1, ch.provider)
           p3 == ApplyUpstreamCABundles(p2, bundles)
<1>1. EditProxy(p0, ch, bundles) = p3
  BY DEF EditProxy
<1>2. /\ DOMAIN p0 = ProxyFields /\ WithBundles(p0, << >>) /\ ProxyClean(p0)
      /\ p0.image = <<"mitmproxy/mitmproxy", MitmproxyVersion>> /\ p0.environment = << >>
  BY InlinedProxy
<1> HIDE DEF p0
<1>3. /\ DOMAIN p1 = ProxyFields /\ CleanWords(p1.command)
      /\ p1.image = p0.image /\ p1.environment = p0.environment
      /\ p1.entrypoint = p0.entrypoint /\ p1.volumes = p0.volumes
  <2>1. CleanWords(p0.command)
    BY <1>2 DEF ProxyClean
  <2> QED BY <1>2, <2>1, TUIProxy
<1> HIDE DEF p1
<1>4. /\ DOMAIN p2 = ProxyFields /\ p2.command = p1.command
      /\ p2.entrypoint = p1.entrypoint /\ p2.volumes = p1.volumes
      /\ p2.image = ProviderImage(ch.provider) /\ p2.environment = ProviderVariable(ch.provider)
  <2>1. p1.image = <<"mitmproxy/mitmproxy", MitmproxyVersion>> /\ p1.environment = << >>
    BY <1>2, <1>3
  <2> QED BY <1>3, <2>1, ProviderProxy
<1> HIDE DEF p2
<1>5. WithBundles(p2, << >>)
  BY <1>2, <1>3, <1>4 DEF WithBundles
<1>6. ProxyClean(p2)
  BY <1>2, <1>3, <1>4, CleanImage DEF ProxyClean
<1>7. /\ DOMAIN p3 = ProxyFields /\ WithBundles(p3, bundles) /\ ProxyClean(p3)
      /\ p3.image = p2.image /\ p3.environment = p2.environment
  BY <1>4, <1>5, <1>6, BundledProxy
<1> QED BY <1>1, <1>4, <1>7 DEF p0

(* The bundles configured are a list.                                      *)
LEMMA BundlesListed ==
  ASSUME FilesInv
  PROVE  \E B : Bundles \in Seq(B)
<1>1. ASSUME NEW file, SettingsFile(file)
      PROVE  \E B : BundlesOf(file) \in Seq(B)
  <2>1. CASE ~Loads(file)
    <3>1. BundlesOf(file) = << >>
      BY <2>1 DEF BundlesOf
    <3> QED BY <3>1
  <2>2. CASE Loads(file)
    <3> DEFINE listed == EnsureArray(file.obj, "upstream_ca_bundles")
               names  == [i \in DOMAIN listed |-> IF IsStr(listed[i]) THEN listed[i].str ELSE Blank]
               B      == Range(names)
    <3>1. BundlesOf(file) = Without(names, {Blank})
      BY <2>2 DEF BundlesOf, Blank
    <3>2. listed \in Seq(Range(listed))
      BY <1>1, <2>2 DEF SettingsFile
    <3>3. DOMAIN listed = 1..Len(listed) /\ Len(listed) \in Nat
      <4> HIDE DEF listed
      <4> QED BY <3>2
    <3>4. DOMAIN names = 1..Len(listed) /\ names = [i \in 1..Len(listed) |-> names[i]]
      BY <3>3
    <3> HIDE DEF names
    <3>5. \A i \in 1..Len(listed) : names[i] \in B
      BY <3>4 DEF Range
    <3> HIDE DEF B, listed
    <3>6. names \in Seq(B)
      BY <3>3, <3>4, <3>5, ListOf
    <3>7. Without(names, {Blank}) \in Seq(B)
      BY <3>6, WithoutElements
    <3> QED BY <3>1, <3>7
  <2> QED BY <2>1, <2>2
<1>2. PICK B1 : BundlesOf(user) \in Seq(B1)
  BY <1>1 DEF FilesInv
<1>3. PICK B2 : BundlesOf(local) \in Seq(B2)
  BY <1>1 DEF FilesInv
<1> DEFINE B == B1 \cup B2
           x == BundlesOf(user)
           y == BundlesOf(local)
<1>4. x \in Seq(B) /\ y \in Seq(B)
  BY <1>2, <1>3
<1> HIDE DEF x, y, B
<1>5. x \o y \in Seq(B)
  BY <1>4
<1> QED BY <1>5 DEF Bundles, x, y

(* compose-proxy.yml after k steps of the generator.                       *)
LEMMA ProxyStage ==
  ASSUME NEW k \in 4..18, NEW ch, ch.agent \in AgentNames, NEW B, NEW b \in Seq(B)
  PROVE  LET content == Stage("compose-proxy.yml", k, ch, b)
         IN  /\ content = Proxy(content.proxy)
             /\ WithBundles(content.proxy, IF k >= 15 THEN b ELSE << >>)
             /\ k >= 15 => /\ ProxyClean(content.proxy)
                           /\ content.proxy.image = ProviderImage(ch.provider)
                           /\ content.proxy.environment = ProviderVariable(ch.provider)
<1> DEFINE T  == Template["compose-proxy.yml"]
           p0 == ProxyTemplate
           p1 == InlineProxy(p0, ch.agent)
           p2 == EditProxy(p1, ch, b)
           content == Stage("compose-proxy.yml", k, ch, b)
<1>1. T = Proxy(p0)
  BY DEF Template
<1>2. \A x : Proxy(x).proxy = x
  BY DEF Proxy
<1>3. \A j \in {14, 15} : \A old : StepMakes(j, old, ch, b) =
        IF j = 14 THEN Proxy(InlineProxy(old.proxy, ch.agent)) ELSE Proxy(EditProxy(old.proxy, ch, b))
  <2> SUFFICES ASSUME NEW j \in {14, 15}, NEW old
               PROVE  StepMakes(j, old, ch, b) =
                        IF j = 14 THEN Proxy(InlineProxy(old.proxy, ch.agent))
                        ELSE Proxy(EditProxy(old.proxy, ch, b))
    OBVIOUS
  <2> DEFINE t == [f \in AllFiles |-> old]
  <2>1. t[GenStep(j)[2]] = old
    <3>1. GenStep(j)[2] \in AllFiles
      BY GenFiles
    <3> QED BY <3>1
  <2> HIDE DEF t
  <2> QED BY <2>1, GeneratedBy DEF StepMakes, t
<1>4. content = Once(15, k, Once(14, k, T, ch, b), ch, b)
  BY DEF Stage
<1> HIDE DEF T, p0, p1, p2, content
<1>5. Once(14, k, T, ch, b) = IF k >= 14 THEN Proxy(p1) ELSE Proxy(p0)
  BY <1>1, <1>2, <1>3 DEF Once, p1
<1>6. content = IF k >= 15 THEN Proxy(p2) ELSE IF k >= 14 THEN Proxy(p1) ELSE Proxy(p0)
  BY <1>2, <1>3, <1>4, <1>5 DEF Once, p2
<1>7. WithBundles(p0, << >>)
  BY TemplateProxy DEF p0
<1>8. WithBundles(p1, << >>)
  BY InlinedProxy DEF p1, p0
<1>9. /\ WithBundles(p2, b) /\ ProxyClean(p2)
      /\ p2.image = ProviderImage(ch.provider) /\ p2.environment = ProviderVariable(ch.provider)
  BY EditedProxy DEF p2, p1, p0
<1>10. CASE k >= 15
  <2>1. content = Proxy(p2) /\ content.proxy = p2
    BY <1>2, <1>6, <1>10
  <2> QED BY <1>9, <1>10, <2>1 DEF content
<1>11. CASE ~(k >= 15)
  <2>1. \E p : content = Proxy(p) /\ content.proxy = p /\ WithBundles(p, << >>)
    BY <1>2, <1>6, <1>7, <1>8, <1>11
  <2> QED BY <1>11, <2>1 DEF content
<1> QED BY <1>10, <1>11

(* What a run that succeeded has made of it.                               *)
LEMMA ProxyMade ==
  ASSUME TypeInv, GenInv, Generates(done)
  PROVE  LET content == tree["compose-proxy.yml"]
         IN  /\ content = Proxy(content.proxy)
             /\ WithBundles(content.proxy, Bundles) /\ ProxyClean(content.proxy)
             /\ content.proxy.image = ProviderImage(done.provider)
             /\ content.proxy.environment = ProviderVariable(done.provider)
             /\ ValidSecretProvider(done.provider)
             /\ Bundles \in Seq(GoodBundles)
<1> DEFINE k == Gens(done)
<1>1. /\ Chooses(done) /\ Range(Bundles) \subseteq GoodBundles /\ ValidSecretProvider(done.provider)
      /\ tree["compose-proxy.yml"] = Stage("compose-proxy.yml", k, done, Bundles)
  BY AllGenerated DEF TreeFiles
<1>2. k \in 4..18 /\ k >= 15
  BY DEF Gens
<1>3. done.agent \in AgentNames
  BY <1>1, ChosenIs DEF Generates
<1>4. PICK B : Bundles \in Seq(B)
  BY BundlesListed DEF TypeInv
<1> HIDE DEF k
<1>5. Bundles \in Seq(GoodBundles)
  <2> DEFINE bundles == Bundles
  <2> HIDE DEF bundles
  <2>1. bundles \in Seq(B) /\ Range(bundles) \subseteq GoodBundles
    BY <1>1, <1>4 DEF bundles
  <2>2. \A i \in DOMAIN bundles : bundles[i] \in GoodBundles
    BY <2>1 DEF Range
  <2>3. bundles \in Seq(GoodBundles)
    BY <2>1, <2>2
  <2> QED BY <2>3 DEF bundles
<1> DEFINE content == Stage("compose-proxy.yml", k, done, Bundles)
<1>6. /\ content = Proxy(content.proxy)
      /\ WithBundles(content.proxy, IF k >= 15 THEN Bundles ELSE << >>)
      /\ k >= 15 => /\ ProxyClean(content.proxy)
                    /\ content.proxy.image = ProviderImage(done.provider)
                    /\ content.proxy.environment = ProviderVariable(done.provider)
  BY <1>2, <1>3, <1>4, ProxyStage
<1> HIDE DEF content
<1> QED BY <1>1, <1>2, <1>5, <1>6 DEF content

(***************************************************************************)
(* What a command that succeeds has generated                              *)
(***************************************************************************)

(* No file is left with a placeholder, and whatever a run finds there, of  *)
(* other options or cut off, it leaves what it would have made of nothing. *)
THEOREM Regenerates == Spec => []Regenerated
<1>1. ASSUME TypeInv, GenInv
      PROVE  Regenerated
  <2> SUFFICES ASSUME Generates(done), NEW f \in GeneratedFiles
               PROVE  tree[f] = Fresh(done)[f] /\ ~Unexpanded(tree[f])
    BY DEF Regenerated
  <2>1. tree[f] = Fresh(done)[f]
    BY <1>1, AsFresh
  <2>2. /\ Chooses(done) /\ \A g \in TreeFiles : tree[g] = Stage(g, Gens(done), done, Bundles)
        /\ tree["compose-all.yml"] = Compose(FinishedCompose(Loaded(done), done))
    BY <1>1, AllGenerated
  <2>3. CASE f \in {"Dockerfile.app", "devcontainer.json", "app-user-init.sh"}
    <3>1. f \in TreeFiles /\ Gens(done) \in {17, 18}
      BY <2>3 DEF TreeFiles, Gens
    <3>2. IsText(tree[f], {})
      BY <2>2, <2>3, <3>1, TextsExpanded
    <3> QED BY <2>1, <3>2, NothingUnexpanded DEF IsText
  <2>4. CASE f = "compose-all.yml"
    <3> DEFINE x == FinishedCompose(Loaded(done), done)
    <3>1. tree[f] = Compose(x)
      BY <2>2, <2>4
    <3> HIDE DEF x
    <3>2. DOMAIN tree[f] = {"compose"}
      BY <3>1 DEF Compose
    <3> QED BY <2>1, <3>2 DEF Unexpanded
  <2>5. CASE f = "devbox.stack.json"
    <3> DEFINE x == StackJson(done.stacks)
    <3>1. tree[f] = Packages(x)
      BY <2>2, <2>5 DEF TreeFiles, Stage
    <3> HIDE DEF x
    <3>2. DOMAIN tree[f] = {"packages"}
      BY <3>1 DEF Packages
    <3> QED BY <2>1, <3>2 DEF Unexpanded
  <2>6. CASE f = "compose-proxy.yml"
    <3> DEFINE content == tree[f]
               p  == content.proxy
               vs == p.volumes
    <3>1. /\ content = Proxy(p) /\ WithBundles(p, Bundles) /\ ProxyClean(p)
          /\ Bundles \in Seq(GoodBundles)
      BY <1>1, <2>6, ProxyMade
    <3> HIDE DEF p
    <3>2. "lines" \notin DOMAIN content /\ "proxy" \in DOMAIN content
      BY <3>1 DEF Proxy
    <3>3. PICK V : p.image \in Seq(V) /\ V \cap Placeholders = {}
      BY <3>1 DEF ProxyClean, CleanWords
    <3>4. PICK W : p.command \in Seq(W) /\ W \cap Placeholders = {}
      BY <3>1 DEF ProxyClean, CleanWords
    <3>5. Range(p.image \o p.command) \cap Placeholders = {}
      <4> DEFINE x == p.image
                 y == p.command
                 U == V \cup W
      <4>1. x \in Seq(U) /\ y \in Seq(U)
        BY <3>3, <3>4
      <4>2. U \cap Placeholders = {}
        BY <3>3, <3>4
      <4> HIDE DEF x, y, U
      <4> DEFINE z == x \o y
      <4>3. z \in Seq(U)
        BY <4>1
      <4> HIDE DEF z
      <4>4. Range(z) \subseteq U
        BY <4>3 DEF Range
      <4>5. Range(z) \cap Placeholders = {}
        BY <4>2, <4>4
      <4> QED BY <4>5 DEF x, y, z
    <3>6. ASSUME NEW i \in DOMAIN vs
          PROVE  Range(vs[i].source) \cap Placeholders = {}
      <4>1. i \in 1..(2 + Len(Bundles)) /\ Len(Bundles) \in Nat
        BY <3>1, <3>6 DEF WithBundles
      <4>2. i = 1 \/ i = 2 \/ (i - 2 \in 1..Len(Bundles) /\ i = 2 + (i - 2))
        BY <4>1
      <4>3. \A w : CleanWords(w) => Range(w) \cap Placeholders = {}
        BY DEF CleanWords, Range
      <4>4. CASE i = 1 \/ i = 2
        BY <3>1, <4>3, <4>4 DEF ProxyClean
      <4>5. CASE i - 2 \in 1..Len(Bundles) /\ i = 2 + (i - 2)
        <5> DEFINE b == Bundles[i - 2]
                   words == <<b>>
        <5>1. vs[2 + (i - 2)] = Mount(words, "/upstream-ca")
          BY <3>1, <4>5 DEF WithBundles
        <5>2. vs[i].source = words
          BY <4>5, <5>1 DEF Mount
        <5>3. b \in GoodBundles
          BY <3>1, <4>5
        <5> HIDE DEF b
        <5>4. Range(words) = {b}
          BY DEF Range
        <5>5. b \notin Placeholders
          <6>1. GoodBundles \cap Placeholders = {}
            BY InvocationsAssumption
          <6> QED BY <5>3, <6>1
        <5> HIDE DEF words
        <5> QED BY <5>2, <5>4, <5>5
      <4> QED BY <4>2, <4>4, <4>5
    <3> HIDE DEF content
    <3>7. ~Unexpanded(content)
      BY <3>2, <3>5, <3>6 DEF Unexpanded, p
    <3> QED BY <2>1, <3>7 DEF content
  <2>7. f \in {"Dockerfile.app", "devcontainer.json", "app-user-init.sh"} \/ f = "compose-all.yml"
        \/ f = "devbox.stack.json" \/ f = "compose-proxy.yml"
    BY DEF GeneratedFiles, Template
  <2> QED BY <2>3, <2>4, <2>5, <2>6, <2>7
<1> QED BY <1>1, Typed, Generation, PTL

(* The proxy in any state: its template, or with bundles that were valid.  *)
ProxyInv ==
  LET content == tree["compose-proxy.yml"]
  IN  "proxy" \in DOMAIN content =>
        \E b \in Seq(GoodBundles) : WithBundles(content.proxy, b)

LEMMA CutOffFiles ==
  "proxy" \notin DOMAIN CutOff /\ "proxy" \notin DOMAIN NotThere
  /\ "compose" \notin DOMAIN CutOff /\ "compose" \notin DOMAIN NotThere
BY DEF CutOff, NotThere

LEMMA ProxyInvStep ==
  ASSUME TypeInv, TypeInv', GenInv, ProxyInv, [Next]_vars
  PROVE  ProxyInv'
<1> DEFINE f == "compose-proxy.yml"
<1>1. RunInv /\ RunInv' /\ FilesInv /\ FilesInv' /\ f \in AllFiles /\ f \in TreeFiles
  BY DEF TypeInv, AllFiles, GeneratedFiles, Template, TreeFiles
<1>2. CASE tree'[f] = tree[f]
  BY <1>2 DEF ProxyInv
<1>3. CASE tree' = tree
  BY <1>3 DEF ProxyInv
<1>4. CASE Command
  <2>1. (\E k : Makes(k)) \/ Reads10 \/ Saves16 \/ Settings \/ Blocks \/ Ends
    BY <1>1, <1>4, CommandCases
  <2>2. ASSUME NEW k, Makes(k)
        PROVE  ProxyInv'
    <3>1. /\ k \in 1..18 /\ Whose' = Whose /\ Generates(Whose) /\ Gen + 1 = k /\ k \in 1..Gens(Whose)
          /\ tree' = [tree EXCEPT ![GenStep(k)[2]] = Generated(GenStep(k), tree, Whose, Bundles)]
          /\ ~Idle
      BY <2>2 DEF Makes, Gens, Advances
    <3>2. CASE GenStep(k)[2] # f
      <4>1. tree'[f] = tree[f]
        <5> DEFINE new == Generated(GenStep(k), tree, Whose, Bundles)
        <5> HIDE DEF new
        <5>1. tree' = [tree EXCEPT ![GenStep(k)[2]] = new]
          BY <3>1 DEF new
        <5> QED BY <1>1, <3>2, <5>1 DEF FilesInv
      <4> QED BY <1>2, <4>1
    <3>3. CASE GenStep(k)[2] = f
      <4>1. k \in {4, 14, 15}
        BY <3>1, <3>3, Writers
      <4>2. GeneratedUpTo(k - 1, Whose)
        <5>1. Pos \in Nat /\ Gens(Whose) \in {17, 18}
          BY <1>1, <3>1, Walk DEF Gens
        <5>2. Gen = k - 1 /\ Gen >= 0 /\ Gen <= Gens(Whose)
          <6>1. Gen \in Int
            BY <5>1 DEF Gen, Offset
          <6> DEFINE g == Gen
                     m == Gens(Whose)
          <6>2. g \in Int /\ g + 1 = k /\ k \in 1..m /\ m \in Int
            BY <3>1, <5>1, <6>1
          <6> HIDE DEF g, m
          <6>3. g = k - 1 /\ g >= 0 /\ g <= m
            BY <6>2
          <6> QED BY <6>3 DEF g, m
        <5> QED BY <3>1, <5>2 DEF GenInv
      <4>3. GeneratedUpTo(k, Whose)'
        BY <1>1, <2>2, <3>1, <4>2, MakesNext
      <4>4. Begun(f, k) /\ Begun(f, k)'
        BY <4>1 DEF Begun
      <4>5. tree'[f] = Stage(f, k, Whose, Bundles')
        BY <1>1, <3>1, <4>3, <4>4 DEF GeneratedUpTo
      <4>6. PICK B : Bundles' \in Seq(B)
        <5>1. Bundles' = Bundles
          BY <2>2 DEF Makes, Bundles
        <5> QED BY <1>1, <5>1, BundlesListed
      <4>7. Whose.agent \in AgentNames
        BY <1>1, <3>1, Walk, ChosenIs DEF Generates
      <4> DEFINE ch == Whose
                 bundles == Bundles'
                 content == tree'[f]
      <4>8. /\ content = Proxy(content.proxy)
            /\ WithBundles(content.proxy, IF k >= 15 THEN bundles ELSE << >>)
        <5>1. k \in 4..18 /\ ch.agent \in AgentNames /\ bundles \in Seq(B)
          BY <4>1, <4>6, <4>7
        <5>2. content = Stage(f, k, ch, bundles)
          BY <4>5
        <5> HIDE DEF ch, bundles, content
        <5> QED BY <5>1, <5>2, ProxyStage
      <4>9. (IF k >= 15 THEN bundles ELSE << >>) \in Seq(GoodBundles)
        <5>1. k >= 15 => Range(bundles) \subseteq GoodBundles
          BY <4>3 DEF GeneratedUpTo
        <5>2. bundles \in Seq(B)
          BY <4>6
        <5> HIDE DEF bundles
        <5>3. ASSUME Range(bundles) \subseteq GoodBundles
              PROVE  bundles \in Seq(GoodBundles)
          <6>1. \A i \in DOMAIN bundles : bundles[i] \in GoodBundles
            BY <5>3 DEF Range
          <6> QED BY <5>2, <6>1
        <5> QED BY <5>1, <5>3
      <4> HIDE DEF content
      <4>10. \E b \in Seq(GoodBundles) : WithBundles(content.proxy, b)
        BY <4>8, <4>9
      <4> QED BY <4>10 DEF ProxyInv, content
    <3> QED BY <3>2, <3>3
  <2>3. CASE Saves16
    <3> DEFINE new == Compose(FinishedCompose(doc, Whose))
    <3>1. tree' = [tree EXCEPT !["compose-all.yml"] = new]
      BY <2>3 DEF Saves16
    <3> HIDE DEF new
    <3>2. tree'[f] = tree[f]
      BY <1>1, <3>1 DEF FilesInv
    <3> QED BY <1>2, <3>2
  <2>4. CASE Ends
    <3>1. tree' = tree \/ \E g \in AllFiles : tree' = [tree EXCEPT ![g] = CutOff]
      BY <2>4 DEF Ends
    <3>2. ASSUME NEW g \in AllFiles, tree' = [tree EXCEPT ![g] = CutOff]
          PROVE  ProxyInv'
      <4>1. tree'[f] = tree[f] \/ tree'[f] = CutOff
        BY <1>1, <3>2 DEF FilesInv
      <4>2. CASE tree'[f] = CutOff
        BY <4>2, CutOffFiles DEF ProxyInv
      <4> QED BY <1>2, <4>1, <4>2
    <3> QED BY <1>3, <3>1, <3>2
  <2>5. CASE Reads10 \/ Settings \/ Blocks
    BY <1>3, <2>5 DEF Reads10, Settings, Blocks, files
  <2> QED BY <2>1, <2>2, <2>3, <2>4, <2>5
<1>5. Command \/ tree' = tree
  BY DEF Next, Begin, UserEdit, vars, files
<1> QED BY <1>3, <1>4, <1>5

LEMMA ProxyInvInit ==
  ASSUME Init
  PROVE  ProxyInv
<1>1. tree["compose-proxy.yml"] = NotThere
  BY DEF Init, AllFiles, GeneratedFiles, Template
<1> QED BY <1>1, CutOffFiles DEF ProxyInv

(* In any state, within a run or after a failed one, the proxy's file has  *)
(* its fixed parts and, in order, bundles that have passed validation.     *)
THEOREM ProxyKnown == Spec => []ProxyInv
BY Typed, Generation, ProxyInvInit, ProxyInvStep, PTL DEF Spec

(* The proxy never mounts a bundle that was not validated, and installs    *)
(* what it mounts before anything else.                                    *)
THEOREM OnlyTrusted == Spec => []BundlesTrusted
<1>1. ASSUME NEW p, NEW b \in Seq(GoodBundles), WithBundles(p, b)
      PROVE  LET ofCa == {i \in DOMAIN p.volumes : p.volumes[i].target = "/upstream-ca"}
             IN  /\ ofCa = 3..(2 + Len(b))
                 /\ \A i \in ofCa : p.volumes[i].source[1] \in GoodBundles
                 /\ ofCa # {} <=> Contains(p.entrypoint, CaInstall)
                 /\ ofCa # {} => p.entrypoint[1] = CaInstall
                 /\ Len(p.volumes) = 2 + Len(b) /\ Len(b) \in Nat
                 /\ \A i \in DOMAIN b : p.volumes[2 + i].source = <<b[i]>>
  <2> DEFINE vs   == p.volumes
             n    == Len(b)
             ofCa == {i \in DOMAIN vs : vs[i].target = "/upstream-ca"}
             own  == ProxyTemplate.entrypoint
  <2>1. /\ n \in Nat /\ DOMAIN b = 1..n /\ \A i \in 1..n : b[i] \in GoodBundles
    OBVIOUS
  <2>2. /\ Len(vs) = 2 + n /\ DOMAIN vs = 1..(2 + n)
        /\ vs[1].target # "/upstream-ca" /\ vs[2].target # "/upstream-ca"
        /\ \A i \in 1..n : vs[2 + i] = Mount(<<b[i]>>, "/upstream-ca")
    BY <1>1 DEF WithBundles
  <2>3. n = 0 <=> b = << >>
    OBVIOUS
  <2>4. p.entrypoint = IF b = << >> THEN own ELSE <<CaInstall>> \o own
    BY <1>1 DEF WithBundles
  <2> HIDE DEF vs, n
  <2>5. \A i \in 1..n : vs[2 + i].target = "/upstream-ca" /\ vs[2 + i].source = <<b[i]>>
    <3> TAKE i \in 1..n
    <3> DEFINE m == Mount(<<b[i]>>, "/upstream-ca")
    <3>1. m.source = <<b[i]>> /\ m.target = "/upstream-ca"
      BY DEF Mount
    <3> HIDE DEF m
    <3>2. vs[2 + i] = m
      BY <2>2 DEF m
    <3> QED BY <3>1, <3>2
  <2>6. \A i \in 3..(2 + n) : /\ i - 2 \in 1..n /\ i = 2 + (i - 2)
                              /\ vs[i].target = "/upstream-ca" /\ vs[i].source = <<b[i - 2]>>
    <3> TAKE i \in 3..(2 + n)
    <3>1. i - 2 \in 1..n /\ i = 2 + (i - 2)
      BY <2>1
    <3> QED BY <2>5, <3>1
  <2>7. ofCa = 3..(2 + n)
    <3>1. \A i : i \in ofCa <=> i \in 3..(2 + n)
      <4> TAKE i
      <4>1. i \in 3..(2 + n) => i \in ofCa
        BY <2>1, <2>2, <2>6
      <4>2. i \in 1..(2 + n) => i = 1 \/ i = 2 \/ i \in 3..(2 + n)
        BY <2>1
      <4> QED BY <2>2, <4>1, <4>2
    <3> HIDE DEF ofCa
    <3> QED BY <3>1
  <2> HIDE DEF ofCa
  <2>8. \A i \in ofCa : vs[i].source[1] \in GoodBundles
    <3> TAKE i \in ofCa
    <3> DEFINE j == i - 2
    <3>1. j \in 1..n /\ vs[i].source = <<b[j]>>
      BY <2>6, <2>7
    <3> HIDE DEF j
    <3>2. b[j] \in GoodBundles
      BY <2>1, <3>1
    <3>3. vs[i].source[1] = b[j]
      BY <3>1
    <3> QED BY <3>2, <3>3
  <2>9. ofCa # {} <=> n # 0
    <3>1. n = 0 => 3..(2 + n) = {}
      OBVIOUS
    <3>2. n # 0 => 3 \in 3..(2 + n)
      BY <2>1
    <3> QED BY <2>7, <3>1, <3>2
  <2>10. DOMAIN own = 1..2 /\ own[1] # CaInstall /\ own[2] # CaInstall
    BY DEF ProxyTemplate, CaInstall
  <2>14. CaInstall \notin Range(own)
    <3> HIDE DEF own
    <3> QED BY <2>10 DEF Range
  <2>11. own \in Seq(Range(own))
    <3>1. own = [i \in 1..2 |-> own[i]]
      BY DEF ProxyTemplate
    <3> HIDE DEF own
    <3>2. \A i \in 1..2 : own[i] \in Range(own)
      BY <2>10 DEF Range
    <3> QED BY <2>10, <3>1, <3>2, ListOf
  <2> HIDE DEF own
  <2>12. b = << >> => ~Contains(p.entrypoint, CaInstall)
    BY <2>4, <2>14 DEF Contains, Range
  <2>13. b # << >> => Contains(p.entrypoint, CaInstall) /\ p.entrypoint[1] = CaInstall
    <3> DEFINE ep == <<CaInstall>> \o own
    <3>1. 1 \in DOMAIN ep /\ ep[1] = CaInstall
      BY <2>11
    <3> HIDE DEF ep
    <3>2. Contains(ep, CaInstall)
      BY <3>1 DEF Contains
    <3> QED BY <2>4, <3>1, <3>2 DEF ep
  <2> QED BY <2>1, <2>2, <2>3, <2>5, <2>7, <2>8, <2>9, <2>12, <2>13 DEF ofCa, vs, n
<1>2. ASSUME TypeInv, GenInv, ProxyInv
      PROVE  BundlesTrusted
  <2> DEFINE content == tree["compose-proxy.yml"]
             p  == content.proxy
             vs == p.volumes
             ofCa == {i \in DOMAIN vs : vs[i].target = "/upstream-ca"}
             others == Len(vs) - Len(Bundles)
  <2> SUFFICES ASSUME "proxy" \in DOMAIN content
               PROVE  /\ \A i \in ofCa : vs[i].source[1] \in GoodBundles
                      /\ ofCa # {} <=> Contains(p.entrypoint, CaInstall)
                      /\ ofCa # {} => p.entrypoint[1] = CaInstall
                      /\ Generates(done) =>
                           /\ ofCa = (others + 1)..Len(vs)
                           /\ \A i \in DOMAIN Bundles : vs[others + i].source = <<Bundles[i]>>
    BY DEF BundlesTrusted
  <2>1. PICK b \in Seq(GoodBundles) : WithBundles(p, b)
    BY <1>2 DEF ProxyInv
  <2>2. /\ \A i \in ofCa : vs[i].source[1] \in GoodBundles
        /\ ofCa # {} <=> Contains(p.entrypoint, CaInstall)
        /\ ofCa # {} => p.entrypoint[1] = CaInstall
    BY <1>1, <2>1
  <2>3. ASSUME Generates(done)
        PROVE  /\ ofCa = (others + 1)..Len(vs)
               /\ \A i \in DOMAIN Bundles : vs[others + i].source = <<Bundles[i]>>
    <3>1. WithBundles(p, Bundles) /\ Bundles \in Seq(GoodBundles)
      BY <1>2, <2>3, ProxyMade
    <3>2. /\ ofCa = 3..(2 + Len(Bundles)) /\ Len(vs) = 2 + Len(Bundles) /\ Len(Bundles) \in Nat
          /\ \A i \in DOMAIN Bundles : vs[2 + i].source = <<Bundles[i]>>
      BY <1>1, <3>1
    <3>3. others = 2
      BY <3>2
    <3> HIDE DEF ofCa, vs
    <3>4. ofCa = (others + 1)..Len(vs)
      BY <3>2, <3>3
    <3> HIDE DEF others
    <3> QED BY <3>2, <3>3, <3>4
  <2> QED BY <2>2, <2>3
<1> QED BY <1>2, Typed, Generation, ProxyKnown, PTL

(* Once they are there, the user settings stay, and after its step they    *)
(* have the key for the token.                                             *)
TokenInv ==
  Whose.command = "init" =>
    /\ Pos >= 1 => Exists(user)
    /\ Pos >= 4 /\ Whose.provider # "none" => ~Absent(user.obj, TokenKey[Whose.provider])

(* init has checked the provider.                                          *)
LEMMA ProviderOfInit ==
  ASSUME NEW ch, Chooses(ch), ch.command = "init"
  PROVE  ch.provider = "none" \/ ch.provider \in DOMAIN TokenKey
<1>1. PICK inv \in Invocations : Valid(inv) /\ ch = Options(inv)
  BY DEF Chooses
<1>2. /\ ch.command = inv.command
      /\ ch.provider = IF inv.onePassword THEN "1password"
                       ELSE IF inv.provider = "" THEN "none" ELSE inv.provider
  BY <1>1 DEF Options
<1>3. inv.provider = "" \/ inv.provider \in {"none", "1password", "protonpass"}
  BY <1>1, <1>2 DEF Valid, ValidSecretProvider
<1>4. DOMAIN TokenKey = {"1password", "protonpass"}
  BY DEF TokenKey
<1> QED BY <1>2, <1>3, <1>4

LEMMA SettingsGrow ==
  ASSUME TypeInv, Command, Advances
  PROVE  \/ user' = user
         \/ At("create") /\ user' = CreateUserSettings(user, chosen.agent)
         \/ /\ At("defaults") /\ user' = ApplyAgentDefaults(user, chosen.agent)
            /\ chosen.agent \in Seeded => ~EditFails(user)
         \/ /\ At("token") /\ user' = AddSecretProviderToken(user, chosen.provider)
            /\ chosen.provider # "none" => ~EditFails(user)
<1>1. ~Quit
  <2>1. RunInv /\ ~Idle /\ Whose' = Whose
    BY DEF TypeInv, Advances
  <2>2. Whose' # NoOptions
    BY <2>1, Walk, ChosenIs
  <2> QED BY <2>1, <2>2, QuitLeaves
<1>2. CASE UserStep
  BY <1>1, <1>2 DEF UserStep, CreateUserSettingsStep, ApplyAgentDefaultsStep,
    AddSecretProviderTokenStep, WriteUser, CutShort
<1>3. CASE ~UserStep
  BY <1>3 DEF Command, EditUserSettingsFails, EnsureHostConfigPathsStep,
    WriteProjectSettings, WriteLocalSettings, GenerateStep, GenerateFails, LoadCompose,
    SaveCompose, NoSettingsFile, ManageGitignore, Interrupt, files
<1> QED BY <1>2, <1>3

LEMMA TokenStep ==
  ASSUME TypeInv, TokenInv, [Next]_vars
  PROVE  TokenInv'
<1>0. RunInv /\ SettingsFile(user)
  BY DEF TypeInv, FilesInv
<1>1. CASE UNCHANGED vars
  <2>1. Whose' = Whose /\ Pos' = Pos /\ user' = user
    BY <1>1 DEF vars, files, run, Whose, Pos, Idle
  <2> QED BY <2>1 DEF TokenInv
<1>2. CASE Pos' = 0
  BY <1>2 DEF TokenInv
<1>3. CASE Whose' = NoOptions
  BY <1>3 DEF TokenInv, NoOptions
<1>4. CASE Advances /\ Command
  <2>1. /\ Whose' = Whose /\ Pos' = Pos + 1 /\ Whose = chosen /\ Pos \in Nat /\ ~Idle
        /\ Chooses(chosen)
    BY <1>0, <1>4, Walk DEF Advances
  <2> SUFFICES ASSUME Whose.command = "init"
               PROVE  /\ Pos + 1 >= 1 => Exists(user')
                      /\ Pos + 1 >= 4 /\ Whose.provider # "none" =>
                           ~Absent(user'.obj, TokenKey[Whose.provider])
    BY <2>1 DEF TokenInv
  <2>2. /\ At("create") => Pos = 0
        /\ At("defaults") => Pos = 1
        /\ At("token") => Pos = 3
    BY <1>0, <2>1, Places
  <2>3. chosen.agent \in AgentNames
    BY <2>1, ChosenIs
  <2>4. Pos >= 1 => Exists(user)
    BY DEF TokenInv
  <2>5. Pos >= 4 /\ Whose.provider # "none" => ~Absent(user.obj, TokenKey[Whose.provider])
    BY DEF TokenInv
  <2>6. Pos = 0 => At("create")
    <3>1. Pos < 6 => At(EarlySteps[Pos + 1][1])
      BY <1>0, <1>4, EarlyAt
    <3>2. EarlySteps[1][1] = "create"
      BY DEF EarlySteps
    <3> SUFFICES ASSUME Pos = 0
                 PROVE  At("create")
      OBVIOUS
    <3>3. Pos < 6 /\ Pos + 1 = 1
      OBVIOUS
    <3> QED BY <3>1, <3>2, <3>3
  <2>7. Pos = 3 => AddSecretProviderTokenStep
    <3>1. Pos = 3 => Pos < 6
      BY <2>1
    <3> QED BY <1>0, <1>4, <3>1, EarlyAt
  <2>8. CASE Pos = 0
    <3>1. At("create") /\ CreateUserSettingsStep
      <4>1. ~Quit
        BY <1>0, <2>1, QuitLeaves, Walk, ChosenIs
      <4> QED BY <1>4, <2>6, <2>8, <4>1 DEF At, Command, UserStep, ApplyAgentDefaultsStep,
            AddSecretProviderTokenStep, EnsureHostConfigPathsStep, EditUserSettingsFails,
            WriteProjectSettings, WriteLocalSettings, GenerateStep, GenerateFails, LoadCompose,
            SaveCompose, NoSettingsFile, ManageGitignore, Interrupt
    <3>2. user' = CreateUserSettings(user, chosen.agent)
      <4>1. ~Quit
        BY <1>0, <2>1, QuitLeaves, Walk, ChosenIs
      <4> QED BY <3>1, <4>1 DEF CreateUserSettingsStep, WriteUser, CutShort
    <3>3. Exists(user')
      BY <1>0, <2>3, <3>2, UserFileTyped
    <3>4. ~(Pos + 1 >= 4)
      BY <2>8
    <3> QED BY <3>3, <3>4
  <2>9. CASE Pos >= 1 /\ Pos # 3
    <3>1. Exists(user')
      <4>1. CASE user' = user
        BY <2>4, <2>9, <4>1
      <4>2. CASE At("defaults") /\ user' = ApplyAgentDefaults(user, chosen.agent)
        <5>1. ApplyAgentDefaults(user, chosen.agent) = user
              \/ \E o : ApplyAgentDefaults(user, chosen.agent) = Saved(o)
          BY DEF ApplyAgentDefaults, EditUserSettings
        <5> QED BY <2>4, <2>9, <4>2, <5>1, KindsDiffer
      <4>3. ~At("create") /\ ~At("token")
        BY <2>2, <2>9
      <4> QED BY <1>4, <4>1, <4>2, <4>3, SettingsGrow
    <3>2. Pos + 1 >= 4 => Pos >= 4 /\ ~At("create") /\ ~At("defaults") /\ ~At("token")
      BY <2>1, <2>2, <2>9
    <3>3. Pos + 1 >= 4 => user' = user
      BY <1>4, <3>2, SettingsGrow
    <3> QED BY <2>5, <3>1, <3>2, <3>3
  <2>10. CASE Pos = 3
    <3>1. AddSecretProviderTokenStep
      BY <2>7, <2>10
    <3>2. /\ user' = AddSecretProviderToken(user, chosen.provider)
          /\ chosen.provider # "none" => ~EditFails(user)
      <4>1. ~Quit
        BY <1>0, <2>1, QuitLeaves, Walk, ChosenIs
      <4> QED BY <3>1, <4>1 DEF AddSecretProviderTokenStep, WriteUser, CutShort
    <3>3. Exists(user)
      BY <2>4, <2>10
    <3>4. chosen.provider = "none" \/ chosen.provider \in DOMAIN TokenKey
      BY <2>1, ProviderOfInit
    <3>5. CASE chosen.provider = "none"
      <4>1. "none" \notin DOMAIN TokenKey
        BY DEF TokenKey
      <4>2. user' = user
        BY <3>2, <3>5, <4>1 DEF AddSecretProviderToken
      <4> QED BY <2>1, <3>3, <3>5, <4>2
    <3>6. CASE chosen.provider \in DOMAIN TokenKey
      <4>1. chosen.provider # "none" => ~EditFails(user)
        BY <3>2
      <4>2. Loads(user') /\ ~Absent(user'.obj, TokenKey[chosen.provider])
        BY <1>0, <3>2, <3>3, <3>6, <4>1, TokenTyped
      <4> QED BY <2>1, <4>2, KindsDiffer
    <3> QED BY <3>4, <3>5, <3>6
  <2>11. Pos = 0 \/ (Pos >= 1 /\ Pos # 3) \/ Pos = 3
    BY <2>1
  <2> QED BY <2>8, <2>9, <2>10, <2>11
<1> QED BY <1>0, <1>1, <1>2, <1>3, <1>4, EachStep

LEMMA TokenInit ==
  ASSUME Init
  PROVE  TokenInv
<1>1. Whose = NoOptions
  BY DEF Init, Whose, Idle
<1> QED BY <1>1 DEF TokenInv, NoOptions

(* From its step on, a running init has put the provider's key into the    *)
(* user settings, and no later step takes it out.                          *)
THEOREM TokenThere == Spec => []TokenInv
BY Typed, TokenInit, TokenStep, PTL DEF Spec

(* The proxy is given the image and the credential of one provider, that   *)
(* of the last successful run, and the settings have the key for it.       *)
THEOREM ProviderIsWired == Spec => []ProviderWired
<1>1. ASSUME TypeInv, GenInv, TokenInv
      PROVE  ProviderWired
  <2> DEFINE p == tree["compose-proxy.yml"].proxy
             x == done.provider
             plain == <<"mitmproxy/mitmproxy", MitmproxyVersion>>
             op == <<"sandcat-mitmproxy-op", MitmproxyVersion>>
             pass == <<"sandcat-mitmproxy-pass", MitmproxyVersion>>
  <2> SUFFICES ASSUME Generates(done)
               PROVE  /\ p.image[2] = MitmproxyVersion
                      /\ p.environment =
                           CASE p.image[1] = "sandcat-mitmproxy-op"   -> <<"OP_SERVICE_ACCOUNT_TOKEN">>
                             [] p.image[1] = "sandcat-mitmproxy-pass" -> <<"PROTON_PASS_PERSONAL_ACCESS_TOKEN">>
                             [] OTHER -> << >>
                      /\ (p.image[1] = "mitmproxy/mitmproxy") = (x = "none")
                      /\ done.command = "init" /\ x # "none" => ~Absent(user.obj, TokenKey[x])
    BY DEF ProviderWired
  <2>1. p.image = ProviderImage(x) /\ p.environment = ProviderVariable(x) /\ ValidSecretProvider(x)
    BY <1>1, ProxyMade
  <2>2. done # NoOptions
    <3>1. ~Generates(NoOptions)
      BY DEF Generates, NoOptions
    <3> QED BY <3>1
  <2>3. done.command = "init" /\ x # "none" => ~Absent(user.obj, TokenKey[x])
    <3> SUFFICES ASSUME done.command = "init", x # "none"
                 PROVE  ~Absent(user.obj, TokenKey[x])
      OBVIOUS
    <3>1. Whose = done /\ Pos >= 6 /\ Pos \in Nat
      BY <1>1, <2>2, AllTaken DEF TypeInv
    <3>2. Pos >= 4
      BY <3>1
    <3> QED BY <1>1, <3>1, <3>2 DEF TokenInv
  <2> HIDE DEF p
  <2>4. plain[1] = "mitmproxy/mitmproxy" /\ plain[2] = MitmproxyVersion
    OBVIOUS
  <2>5. op[1] = "sandcat-mitmproxy-op" /\ op[2] = MitmproxyVersion
    OBVIOUS
  <2>6. pass[1] = "sandcat-mitmproxy-pass" /\ pass[2] = MitmproxyVersion
    OBVIOUS
  <2> HIDE DEF plain, op, pass, x
  <2>7. CASE x = "none"
    <3>1. p.image = plain /\ p.environment = << >>
      BY <2>1, <2>7 DEF ProviderImage, ProviderVariable, plain
    <3> QED BY <2>3, <2>4, <2>7, <3>1
  <2>8. CASE x = "1password"
    <3>1. p.image = op /\ p.environment = <<"OP_SERVICE_ACCOUNT_TOKEN">>
      BY <2>1, <2>8 DEF ProviderImage, ProviderVariable, op
    <3> QED BY <2>3, <2>5, <2>8, <3>1
  <2>9. CASE x = "protonpass"
    <3>1. p.image = pass /\ p.environment = <<"PROTON_PASS_PERSONAL_ACCESS_TOKEN">>
      BY <2>1, <2>9 DEF ProviderImage, ProviderVariable, pass
    <3> QED BY <2>3, <2>6, <2>9, <3>1
  <2> QED BY <2>1, <2>7, <2>8, <2>9 DEF ValidSecretProvider
<1> QED BY <1>1, Typed, Generation, TokenThere, PTL

(***************************************************************************)
(* compose-all.yml                                                         *)
(***************************************************************************)

ComposeFields ==
  {"name", "environment", "workingDir", "volumes", "caps", "external", "mitmVolumes"}

(* A document whose volumes are a sequence of entries.                     *)
HasVolumes(d) ==
  /\ DOMAIN d = ComposeFields
  /\ \E T : d.volumes \in Seq(T)
  /\ \A i \in DOMAIN d.volumes : DOMAIN d.volumes[i] = {"mount", "foot"}

MountsOf(d) == {d.volumes[i].mount : i \in DOMAIN d.volumes}

(* d is before but for the mounts in added, and for what no property reads.*)
Adds(d, before, added) ==
  /\ HasVolumes(d) /\ d.volumes # << >>
  /\ MountsOf(d) = MountsOf(before) \cup added
  /\ d.name = before.name /\ d.workingDir = before.workingDir /\ d.external = before.external

LEMMA VolumesReplaced ==
  ASSUME NEW d, HasVolumes(d), NEW volumes, NEW T, volumes \in Seq(T), volumes # << >>, NEW added,
         \A i \in DOMAIN volumes : DOMAIN volumes[i] = {"mount", "foot"},
         \A x : (x \in MountsOf(d) \/ x \in added) <=> \E i \in DOMAIN volumes : x = volumes[i].mount
  PROVE  Adds([d EXCEPT !.volumes = volumes], d, added)
<1> DEFINE r == [d EXCEPT !.volumes = volumes]
<1>1. DOMAIN d = ComposeFields /\ DOMAIN r = ComposeFields
  BY DEF HasVolumes
<1>2. r.volumes = volumes
  BY <1>1 DEF ComposeFields
<1>3. r.name = d.name /\ r.workingDir = d.workingDir /\ r.external = d.external
  BY <1>1 DEF ComposeFields
<1> HIDE DEF r
<1>4. HasVolumes(r)
  BY <1>1, <1>2 DEF HasVolumes
<1>5. MountsOf(r) = MountsOf(d) \cup added
  <2> DEFINE A == MountsOf(r)
             B == MountsOf(d)
  <2>1. \A x : x \in A <=> \E i \in DOMAIN r.volumes : x = r.volumes[i].mount
    BY DEF MountsOf
  <2>2. \A x : x \in A <=> \E i \in DOMAIN volumes : x = volumes[i].mount
    BY <1>2, <2>1
  <2> HIDE DEF A
  <2>3. \A x : x \in A <=> (x \in B \/ x \in added)
    BY <2>2
  <2> HIDE DEF B
  <2> QED BY <2>3 DEF A, B
<1>6. Adds(r, d, added)
  BY <1>2, <1>3, <1>4, <1>5 DEF Adds
<1> QED BY <1>6 DEF r

(* Active entries are appended.                                            *)
LEMMA EntriesAppended ==
  ASSUME NEW d, HasVolumes(d), NEW S, NEW mounts \in Seq(S), mounts # << >> \/ d.volumes # << >>
  PROVE  Adds(AddVolumeEntries(d, mounts, TRUE), d, Range(mounts))
<1> DEFINE more == [i \in DOMAIN mounts |-> [mount |-> mounts[i], foot |-> << >>]]
           old  == d.volumes
           volumes == old \o more
<1>1. PICK T0 : old \in Seq(T0)
  BY DEF HasVolumes
<1>2. DOMAIN mounts = 1..Len(mounts) /\ Len(mounts) \in Nat
  OBVIOUS
<1>3. DOMAIN more = DOMAIN mounts
  OBVIOUS
<1>4. \A i \in DOMAIN mounts : DOMAIN more[i] = {"mount", "foot"} /\ more[i].mount = mounts[i]
  OBVIOUS
<1> DEFINE T == T0 \cup Range(more)
<1>5. more \in Seq(T)
  <2> HIDE DEF more
  <2>1. \A i \in DOMAIN mounts : more[i] \in T
    BY <1>3 DEF Range
  <2>2. more = [i \in 1..Len(mounts) |-> more[i]]
    <3>1. more = [i \in DOMAIN mounts |-> more[i]]
      BY DEF more
    <3> QED BY <1>2, <3>1
  <2> QED BY <1>2, <2>1, <2>2
<1>6. old \in Seq(T)
  <2>1. T0 \subseteq T
    OBVIOUS
  <2> HIDE DEF old, T
  <2>2. \A i \in 1..Len(old) : old[i] \in T
    BY <1>1, <2>1
  <2>3. old = [i \in 1..Len(old) |-> old[i]] /\ Len(old) \in Nat
    BY <1>1
  <2> QED BY <2>2, <2>3
<1>7. AddVolumeEntries(d, mounts, TRUE) = [d EXCEPT !.volumes = volumes]
  BY DEF AddVolumeEntries, HasVolumes, ComposeFields
<1>8. \A i \in DOMAIN old : DOMAIN old[i] = {"mount", "foot"}
  BY DEF HasVolumes
<1>9. MountsOf(d) = {old[i].mount : i \in DOMAIN old}
  BY DEF MountsOf
<1>10. mounts # << >> \/ old # << >>
  OBVIOUS
<1> HIDE DEF more, old, T
<1>11. /\ volumes \in Seq(T) /\ Len(volumes) = Len(old) + Len(more)
       /\ Len(old) \in Nat /\ Len(more) \in Nat
       /\ DOMAIN old = 1..Len(old) /\ DOMAIN more = 1..Len(more)
       /\ \A i \in 1..Len(old) : volumes[i] = old[i]
       /\ \A i \in 1..Len(more) : volumes[Len(old) + i] = more[i]
  BY <1>5, <1>6
<1>12. Len(more) = Len(mounts)
  BY <1>2, <1>3, <1>11
<1> HIDE DEF volumes
<1> DEFINE n == Len(old)
           m == Len(more)
<1>13. DOMAIN volumes = 1..(n + m)
  BY <1>11
<1>14. \A i \in 1..(n + m) : i \in 1..n \/ (i - n \in 1..m /\ i = n + (i - n))
  BY <1>11
<1>15. \A i \in DOMAIN volumes : DOMAIN volumes[i] = {"mount", "foot"}
  <2> SUFFICES ASSUME NEW i \in DOMAIN volumes
               PROVE  DOMAIN volumes[i] = {"mount", "foot"}
    OBVIOUS
  <2>1. CASE i \in 1..n
    BY <1>8, <1>11, <2>1
  <2>2. CASE i - n \in 1..m /\ i = n + (i - n)
    <3>1. volumes[i] = more[i - n]
      BY <1>11, <2>2
    <3> QED BY <1>3, <1>4, <1>11, <2>2, <3>1
  <2> QED BY <1>13, <1>14, <2>1, <2>2
<1>16. \A x : (x \in MountsOf(d) \/ x \in Range(mounts)) <=> \E i \in DOMAIN volumes : x = volumes[i].mount
  <2> DEFINE B == MountsOf(d)
             C == Range(mounts)
  <2>1. \A x : x \in B <=> \E i \in 1..n : x = old[i].mount
    BY <1>9, <1>11
  <2>2. \A x : x \in C <=> \E i \in 1..m : x = mounts[i]
    BY <1>2, <1>12 DEF Range
  <2>4. \A i \in 1..n : i \in 1..(n + m) /\ volumes[i].mount = old[i].mount
    BY <1>11
  <2>5. \A i \in 1..m : n + i \in 1..(n + m) /\ volumes[n + i].mount = mounts[i]
    <3>1. \A i \in 1..m : more[i].mount = mounts[i]
      BY <1>3, <1>4, <1>11
    <3> QED BY <1>11, <3>1
  <2> HIDE DEF B, C
  <2>6. \A x : (x \in B \/ x \in C) <=> \E i \in 1..(n + m) : x = volumes[i].mount
    <3> TAKE x
    <3>1. x \in B \/ x \in C => \E i \in 1..(n + m) : x = volumes[i].mount
      BY <2>1, <2>2, <2>4, <2>5
    <3>2. ASSUME NEW i \in 1..(n + m), x = volumes[i].mount
          PROVE  x \in B \/ x \in C
      <4>1. CASE i \in 1..n
        BY <2>1, <2>4, <3>2, <4>1
      <4>2. CASE i - n \in 1..m /\ i = n + (i - n)
        <5>1. x = mounts[i - n]
          BY <2>5, <3>2, <4>2
        <5> QED BY <2>2, <4>2, <5>1
      <4> QED BY <1>14, <4>1, <4>2
    <3> QED BY <3>1, <3>2
  <2> QED BY <1>13, <2>6 DEF B, C
<1>17. volumes # << >>
  <2>1. n + m > 0
    <3>1. n = 0 => old = << >>
      BY <1>6, <1>11, EmptySeq
    <3>2. m = 0 => mounts = << >>
      BY <1>12, EmptySeq
    <3> QED BY <1>10, <1>11, <3>1, <3>2
  <2> QED BY <1>11, <2>1
<1>18. volumes \in Seq(T)
  BY <1>11
<1>19. Adds([d EXCEPT !.volumes = volumes], d, Range(mounts))
  BY <1>15, <1>16, <1>17, <1>18, VolumesReplaced
<1> QED BY <1>7, <1>19

(* A comment at the foot of an entry is not a mount.                       *)
LEMMA FootChanged ==
  ASSUME NEW d, HasVolumes(d), d.volumes # << >>, NEW foot
  PROVE  Adds([d EXCEPT !.volumes = [d.volumes EXCEPT ![Len(d.volumes)] =
                                       [d.volumes[Len(d.volumes)] EXCEPT !.foot = foot]]], d, {})
<1> DEFINE old == d.volumes
           n == Len(old)
           entry == [old[n] EXCEPT !.foot = foot]
           volumes == [old EXCEPT ![n] = entry]
<1>1. PICK T0 : old \in Seq(T0)
  BY DEF HasVolumes
<1>2. n \in Nat /\ DOMAIN old = 1..n /\ n \in 1..n
  BY <1>1
<1>3. DOMAIN old[n] = {"mount", "foot"} /\ \A i \in 1..n : DOMAIN old[i] = {"mount", "foot"}
  BY <1>2 DEF HasVolumes
<1>4. DOMAIN entry = {"mount", "foot"} /\ entry.mount = old[n].mount
  BY <1>3
<1>6. MountsOf(d) = {old[i].mount : i \in DOMAIN old}
  BY DEF MountsOf
<1>5. SUFFICES Adds([d EXCEPT !.volumes = volumes], d, {})
  OBVIOUS
<1> HIDE DEF entry, old, n
<1>7. DOMAIN volumes = 1..n /\ \A i \in 1..n : volumes[i] = IF i = n THEN entry ELSE old[i]
  BY <1>2
<1> DEFINE T == T0 \cup {entry}
<1>8. volumes \in Seq(T)
  <2>1. \A i \in 1..n : old[i] \in T0
    BY <1>1, <1>2
  <2>2. \A i \in 1..n : volumes[i] \in T
    BY <1>7, <2>1
  <2>3. volumes = [i \in 1..n |-> volumes[i]]
    BY <1>2, <1>7
  <2> HIDE DEF volumes, T
  <2> QED BY <1>2, <2>2, <2>3
<1> HIDE DEF volumes, T
<1>9. \A i \in DOMAIN volumes : DOMAIN volumes[i] = {"mount", "foot"}
  BY <1>3, <1>4, <1>7
<1>10. \A x : (x \in MountsOf(d) \/ x \in {}) <=> \E i \in DOMAIN volumes : x = volumes[i].mount
  <2>1. \A i \in 1..n : volumes[i].mount = old[i].mount
    BY <1>4, <1>7
  <2>2. \A x : x \in MountsOf(d) <=> \E i \in 1..n : x = old[i].mount
    BY <1>2, <1>6
  <2> QED BY <1>7, <2>1, <2>2
<1>11. volumes # << >>
  BY <1>2, <1>7
<1> QED BY <1>5, <1>8, <1>9, <1>10, <1>11, VolumesReplaced

LEMMA EntriesAdded ==
  ASSUME NEW d, HasVolumes(d), NEW S, NEW mounts \in Seq(S), d.volumes # << >>, NEW active
  PROVE  Adds(AddVolumeEntries(d, mounts, active), d, IF active THEN Range(mounts) ELSE {})
<1> DEFINE n == Len(d.volumes)
           foot == d.volumes[n].foot \o mounts
           r == AddVolumeEntries(d, mounts, active)
<1>1. CASE active
  <2>1. r = AddVolumeEntries(d, mounts, TRUE)
    BY <1>1 DEF AddVolumeEntries
  <2>2. Adds(r, d, Range(mounts))
    BY <2>1, EntriesAppended
  <2> HIDE DEF r
  <2>3. Adds(r, d, IF active THEN Range(mounts) ELSE {})
    BY <1>1, <2>2
  <2> QED BY <2>3 DEF r
<1>2. CASE ~active
  <2>1. r = [d EXCEPT !.volumes = [d.volumes EXCEPT ![n] = [d.volumes[n] EXCEPT !.foot = foot]]]
    BY <1>2 DEF AddVolumeEntries
  <2>2. Adds(r, d, {})
    <3> HIDE DEF foot, r
    <3> QED BY <2>1, FootChanged
  <2> HIDE DEF r
  <2>3. Adds(r, d, IF active THEN Range(mounts) ELSE {})
    BY <1>2, <2>2
  <2> QED BY <2>3 DEF r
<1> QED BY <1>1, <1>2

LEMMA EntryAdded ==
  ASSUME NEW d, HasVolumes(d), NEW mount, d.volumes # << >>, NEW active
  PROVE  Adds(AddVolumeEntry(d, mount, active), d, IF active THEN {mount} ELSE {})
<1> DEFINE n == Len(d.volumes)
           foot == Append(d.volumes[n].foot, mount)
           r == AddVolumeEntry(d, mount, active)
<1>1. CASE active
  <2> DEFINE old == d.volumes
             entry == [mount |-> mount, foot |-> << >>]
             volumes == Append(old, entry)
  <2>1. PICK T0 : old \in Seq(T0)
    BY DEF HasVolumes
  <2>2. r = [d EXCEPT !.volumes = volumes]
    BY <1>1 DEF AddVolumeEntry
  <2>3. /\ DOMAIN entry = {"mount", "foot"} /\ entry.mount = mount
        /\ \A i \in DOMAIN old : DOMAIN old[i] = {"mount", "foot"}
    BY DEF HasVolumes
  <2>4. \A x : x \in MountsOf(d) <=> \E i \in DOMAIN old : x = old[i].mount
    BY DEF MountsOf
  <2> DEFINE T == T0 \cup {entry}
  <2>5. old \in Seq(T) /\ entry \in T
    <3>1. T0 \subseteq T /\ entry \in T
      OBVIOUS
    <3> HIDE DEF old, T, entry
    <3>2. \A i \in 1..Len(old) : old[i] \in T
      BY <2>1, <3>1
    <3>3. old = [i \in 1..Len(old) |-> old[i]] /\ Len(old) \in Nat
      BY <2>1
    <3> QED BY <3>1, <3>2, <3>3
  <2> HIDE DEF old, T, entry
  <2>6. /\ volumes \in Seq(T) /\ Len(volumes) = Len(old) + 1 /\ Len(old) \in Nat
        /\ DOMAIN old = 1..Len(old) /\ DOMAIN volumes = 1..(Len(old) + 1) /\ volumes # << >>
        /\ \A i \in 1..Len(old) : volumes[i] = old[i]
        /\ volumes[Len(old) + 1] = entry
    BY <2>5
  <2> HIDE DEF volumes
  <2>7. \A i \in 1..(Len(old) + 1) : i \in 1..Len(old) \/ i = Len(old) + 1
    BY <2>6
  <2>8. \A i \in DOMAIN volumes : DOMAIN volumes[i] = {"mount", "foot"}
    BY <2>3, <2>6, <2>7
  <2>9. \A x : (x \in MountsOf(d) \/ x \in {mount}) <=> \E i \in DOMAIN volumes : x = volumes[i].mount
    <3>1. \A i \in 1..Len(old) : i \in DOMAIN volumes /\ volumes[i].mount = old[i].mount
      BY <2>6
    <3>2. Len(old) + 1 \in DOMAIN volumes /\ volumes[Len(old) + 1].mount = mount
      BY <2>3, <2>6
    <3> QED BY <2>4, <2>6, <2>7, <3>1, <3>2
  <2>10. volumes \in Seq(T) /\ volumes # << >>
    BY <2>6
  <2>11. Adds([d EXCEPT !.volumes = volumes], d, {mount})
    BY <2>8, <2>9, <2>10, VolumesReplaced
  <2>12. Adds(r, d, {mount})
    BY <2>2, <2>11
  <2> HIDE DEF r
  <2>13. Adds(r, d, IF active THEN {mount} ELSE {})
    BY <1>1, <2>12
  <2> QED BY <2>13 DEF r
<1>2. CASE ~active
  <2>1. r = [d EXCEPT !.volumes = [d.volumes EXCEPT ![n] = [d.volumes[n] EXCEPT !.foot = foot]]]
    BY <1>2 DEF AddVolumeEntry, AppendFootComment
  <2>2. Adds(r, d, {})
    <3> HIDE DEF foot, r
    <3> QED BY <2>1, FootChanged
  <2> HIDE DEF r
  <2>3. Adds(r, d, IF active THEN {mount} ELSE {})
    BY <1>2, <2>2
  <2> QED BY <2>3 DEF r
<1> QED BY <1>1, <1>2

(* A stack caches nothing, or what the JVM's build tools cache.            *)
LEMMA StackCaches ==
  ASSUME NEW name
  PROVE  StackByName(name).caches \in Seq(Range(jvmCaches))
<1> DEFINE C == Range(jvmCaches)
<1>1. << >> \in Seq(C) /\ jvmCaches \in Seq(C)
  <2>1. jvmCaches = [i \in 1..6 |-> jvmCaches[i]] /\ DOMAIN jvmCaches = 1..6
    BY DEF jvmCaches
  <2>2. \A i \in 1..6 : jvmCaches[i] \in C
    BY <2>1 DEF Range
  <2> HIDE DEF C
  <2> QED BY <2>1, <2>2
<1> HIDE DEF C
<1>2. CASE name \notin StackNames
  <2> DEFINE none == Stack("", << >>, << >>, "", "", << >>, << >>)
  <2>1. none.caches = << >>
    BY DEF Stack
  <2>2. StackByName(name) =
          IF name \in StackNames THEN CHOOSE s \in Range(AllStacks) : s.name = name ELSE none
    BY DEF StackByName
  <2> HIDE DEF none
  <2> QED BY <1>1, <1>2, <2>1, <2>2 DEF C
<1>3. CASE name \in StackNames
  <2>1. \E s \in Range(AllStacks) : s.name = name
    BY <1>3 DEF StackNames, Range
  <2>2. StackByName(name) \in Range(AllStacks)
    BY <1>3, <2>1 DEF StackByName
  <2>3. \A i \in DOMAIN AllStacks : AllStacks[i].caches \in Seq(C)
    <3>0. DOMAIN AllStacks = 1..9
      BY DEF AllStacks
    <3>1. AllStacks[1].caches = << >>
      BY DEF AllStacks, Stack
    <3>2. AllStacks[2].caches = << >>
      BY DEF AllStacks, Stack
    <3>3. AllStacks[3].caches = jvmCaches
      BY DEF AllStacks, Stack
    <3>4. AllStacks[4].caches = << >>
      BY DEF AllStacks, Stack
    <3>5. AllStacks[5].caches = << >>
      BY DEF AllStacks, Stack
    <3>6. AllStacks[6].caches = << >>
      BY DEF AllStacks, Stack
    <3>7. AllStacks[7].caches = << >>
      BY DEF AllStacks, Stack
    <3>8. AllStacks[8].caches = << >>
      BY DEF AllStacks, Stack
    <3>9. AllStacks[9].caches = << >>
      BY DEF AllStacks, Stack
    <3>10. \A i \in 1..9 : i = 1 \/ i = 2 \/ i = 3 \/ i = 4 \/ i = 5 \/ i = 6 \/ i = 7 \/ i = 8 \/ i = 9
      OBVIOUS
    <3> QED BY <1>1, <3>0, <3>1, <3>2, <3>3, <3>4, <3>5, <3>6, <3>7, <3>8, <3>9, <3>10
  <2> QED BY <2>2, <2>3 DEF Range, C
<1> QED BY <1>2, <1>3

LEMMA CachesListed ==
  ASSUME NEW R, NEW resolved \in Seq(R)
  PROVE  SharedCaches(resolved) \in Seq(Range(jvmCaches))
<1> DEFINE C == Range(jvmCaches)
           ss == [i \in DOMAIN resolved |-> StackByName(resolved[i]).caches]
<1>1. \A name : StackByName(name).caches \in Seq(C)
  BY StackCaches
<1>2. DOMAIN resolved = 1..Len(resolved) /\ Len(resolved) \in Nat
  OBVIOUS
<1>3. SharedCaches(resolved) = FirstSeen(FlattenSeq(ss))
  BY DEF SharedCaches
<1> HIDE DEF C
<1>4. ss \in Seq(Seq(C))
  <2>1. ss \in [1..Len(resolved) -> Seq(C)]
    BY <1>1, <1>2
  <2> HIDE DEF ss
  <2> QED BY <1>2, <2>1
<1> HIDE DEF ss
<1>5. FlattenSeq(ss) \in Seq(C)
  BY <1>4, FlattenedElements
<1>6. FirstSeen(FlattenSeq(ss)) \in Seq(C)
  BY <1>5, FirstSeenElements
<1> QED BY <1>3, <1>6 DEF C

(* The workspace is mounted, no cache is yet, and the name is still to be  *)
(* set.                                                                    *)
Working(d, name) ==
  /\ HasVolumes(d) /\ d.volumes # << >>
  /\ d.workingDir = Workspace(name) /\ d.external = << >>
  /\ Mount(Above(<< >>), Workspace(name)) \in MountsOf(d)
  /\ \A m \in MountsOf(d) : m.source[1] # "volume"

LEMMA StillWorking ==
  ASSUME NEW before, NEW name, Working(before, name), NEW added, NEW d,
         Adds(d, before, added), \A m \in added : m.source[1] # "volume"
  PROVE  Working(d, name)
BY DEF Working, Adds

LEMMA Sources ==
  /\ \A path, target : Mount(Above(path), target).source[1] # "volume"
  /\ \A path, target : Mount(<<"~", path>>, target).source[1] # "volume"
  /\ \A path : AtHome(path).source[1] # "volume"
  /\ \A c : CacheMount(c).source[1] = "volume"
  /\ \A c, e : CacheMount(c) = CacheMount(e) => c = e
<1>1. \A path, target : Mount(Above(path), target).source[1] = ".."
  BY DEF Mount, Above
<1>2. \A path, target : Mount(<<"~", path>>, target).source[1] = "~"
  BY DEF Mount
<1>3. \A path : AtHome(path).source[1] = "~"
  BY <1>2 DEF AtHome
<1>4. \A c : CacheMount(c).source[1] = "volume" /\ CacheMount(c).source[2][1] = c
  BY DEF CacheMount, Mount
<1>5. "~" # "volume" /\ ".." # "volume"
  OBVIOUS
<1> QED BY <1>1, <1>2, <1>3, <1>4, <1>5

LEMMA AgentMountsListed ==
  ASSUME NEW agent \in AgentNames, NEW name
  PROVE  \E S : /\ AgentMounts(agent, name) \in Seq(S)
                /\ \A m \in Range(AgentMounts(agent, name)) : m.source[1] # "volume"
<1> DEFINE mounts == AgentMounts(agent, name)
           Away(m) == m.source[1] # "volume"
<1>1. SUFFICES /\ mounts \in Seq(Range(mounts))
               /\ \A i \in DOMAIN mounts : Away(mounts[i])
  BY DEF Range
<1>2. \A path : Away(AtHome(path))
  BY Sources
<1>3. \A path, target : Away(Mount(<<"~", path>>, target))
  BY Sources
<1> HIDE DEF Away
<1>4. CASE agent = "claude"
  <2> DEFINE a == AtHome(<<".claude/CLAUDE.md">>)
             b == AtHome(<<".claude/agents">>)
             c == AtHome(<<".claude/commands">>)
  <2>1. mounts = <<a, b, c>>
    BY <1>4 DEF AgentMounts
  <2>2. Away(a) /\ Away(b) /\ Away(c)
    BY <1>2
  <2> HIDE DEF a, b, c, mounts
  <2> QED BY <2>1, <2>2 DEF Range
<1>5. CASE agent = "codex"
  <2> DEFINE a == Mount(<<"~", <<".codex/AGENTS.md">>>>, <<"/home/vscode", <<".codex-host/AGENTS.md">>>>)
             b == AtHome(<<".codex/skills">>)
             c == AtHome(<<".codex/commands">>)
  <2>1. mounts = <<a, b, c>>
    BY <1>5 DEF AgentMounts
  <2>2. Away(a) /\ Away(b) /\ Away(c)
    BY <1>2, <1>3
  <2> HIDE DEF a, b, c, mounts
  <2> QED BY <2>1, <2>2 DEF Range
<1>6. CASE agent = "copilot"
  <2> DEFINE a == AtHome(<<".copilot/mcp-config.json">>)
             b == AtHome(<<".copilot/session-state">>)
  <2>1. mounts = <<a, b>>
    BY <1>6 DEF AgentMounts
  <2>2. Away(a) /\ Away(b)
    BY <1>2
  <2> HIDE DEF a, b, mounts
  <2> QED BY <2>1, <2>2 DEF Range
<1>7. CASE agent = "cursor"
  <2> DEFINE a == AtHome(<<".cursor/AGENTS.md">>)
             b == AtHome(<<".cursor/rules">>)
             c == AtHome(<<".cursor/skills">>)
             d == AtHome(<<".cursor/commands">>)
             e == AtHome(<<".cursor/hooks.json">>)
             f == AtHome(<<".cursor/hooks">>)
             g == AtHome(<<".cursor/agents">>)
             h == AtHome(<<".cursor/mcp.json">>)
             p == AtHome(<<".cursor/projects", CursorWorkspaceProjectID(name)>>)
  <2>1. mounts = <<a, b, c, d, e, f, g, h, p>>
    BY <1>7 DEF AgentMounts
  <2>2. Away(a) /\ Away(b) /\ Away(c) /\ Away(d) /\ Away(e) /\ Away(f) /\ Away(g) /\ Away(h) /\ Away(p)
    BY <1>2
  <2> HIDE DEF a, b, c, d, e, f, g, h, p, mounts
  <2> QED BY <2>1, <2>2 DEF Range
<1> QED BY <1>4, <1>5, <1>6, <1>7 DEF AgentNames

LEMMA WorkspaceSet ==
  ASSUME NEW entries, NEW more, NEW name
  PROVE  Working(AddSettingsVolume(SetWorkspace(
           MergeAgentEnvironment(MergeAgentEnvironment(ComposeTemplate, entries), more), name)), name)
<1> DEFINE d0 == MergeAgentEnvironment(MergeAgentEnvironment(ComposeTemplate, entries), more)
           d1 == [d0 EXCEPT !.workingDir = Workspace(name)]
           a == Mount(Above(<< >>), Workspace(name))
           b == Mount(Above(<<".devcontainer">>), <<"/workspaces", name, ".devcontainer">>)
           c == Mount(Above(<<".snadcat">>), <<"/workspaces", name, ".snadcat">>)
           mounts == <<a, b, c>>
           d2 == AddVolumeEntries(d1, mounts, TRUE)
           d3 == AddSettingsVolume(d2)
<1>1. DOMAIN d1 = ComposeFields /\ d1.volumes = << >> /\ d1.external = << >> /\ d1.workingDir = Workspace(name)
  <2>1. /\ DOMAIN ComposeTemplate = ComposeFields /\ ComposeTemplate.volumes = << >>
        /\ ComposeTemplate.external = << >>
    BY DEF ComposeTemplate, ComposeFields
  <2>2. DOMAIN d0 = ComposeFields /\ d0.volumes = << >> /\ d0.external = << >>
    BY <2>1 DEF MergeAgentEnvironment, ComposeFields
  <2> HIDE DEF d0
  <2> QED BY <2>2 DEF ComposeFields
<1>2. SetWorkspace(d0, name) = d2
  BY DEF SetWorkspace
<1>3. a.source[1] # "volume" /\ b.source[1] # "volume" /\ c.source[1] # "volume"
  BY Sources
<1> HIDE DEF d0, d1, a, b, c
<1>4. mounts \in Seq(Range(mounts)) /\ mounts # << >> /\ a \in Range(mounts)
      /\ \A m \in Range(mounts) : m = a \/ m = b \/ m = c
  BY DEF Range
<1>5. HasVolumes(d1) /\ MountsOf(d1) = {}
  <2>1. d1.volumes \in Seq({}) /\ DOMAIN d1.volumes = {}
    BY <1>1
  <2> QED BY <1>1, <2>1 DEF HasVolumes, MountsOf
<1> HIDE DEF mounts
<1>6. Adds(d2, d1, Range(mounts))
  BY <1>4, <1>5, EntriesAppended
<1> HIDE DEF d2
<1>7. /\ HasVolumes(d2) /\ d2.volumes # << >> /\ d2.workingDir = Workspace(name) /\ d2.external = << >>
      /\ MountsOf(d2) = Range(mounts)
  BY <1>1, <1>5, <1>6 DEF Adds
<1>8. /\ DOMAIN d3 = ComposeFields /\ d3.volumes = d2.volumes /\ d3.workingDir = d2.workingDir
      /\ d3.external = d2.external
  BY <1>7 DEF AddSettingsVolume, HasVolumes, ComposeFields
<1> HIDE DEF d3
<1>9. HasVolumes(d3) /\ MountsOf(d3) = MountsOf(d2)
  BY <1>7, <1>8 DEF HasVolumes, MountsOf
<1>10. a \in MountsOf(d3) /\ \A m \in MountsOf(d3) : m.source[1] # "volume"
  BY <1>3, <1>4, <1>7, <1>9
<1>11. Working(d3, name)
  BY <1>7, <1>8, <1>9, <1>10 DEF Working, a
<1> QED BY <1>2, <1>11 DEF d0, d3

(* What the invariant says of a document that is complete.                 *)
Consistent(d) ==
  /\ d.name # ""
  /\ Mount(Above(<< >>), d.workingDir) \in MountsOf(d)
  /\ Range(ExternalCacheVolumes(d)) = {c \in Range(jvmCaches) : CacheMount(c) \in MountsOf(d)}

(* The caches are mounted and declared, or neither.                        *)
LEMMA CachesDeclared ==
  ASSUME NEW before, NEW name, Working(before, name), NEW active, NEW R, NEW resolved \in Seq(R)
  PROVE  LET d == AddSharedCacheVolumes(before, active, resolved)
         IN  /\ DOMAIN d = ComposeFields
             /\ Mount(Above(<< >>), d.workingDir) \in MountsOf(d)
             /\ Range(d.external) = {c \in Range(jvmCaches) : CacheMount(c) \in MountsOf(d)}
<1> DEFINE C == Range(jvmCaches)
           caches == SharedCaches(resolved)
           mounts == [i \in DOMAIN caches |-> CacheMount(caches[i])]
           mounted == AddVolumeEntries(before, mounts, active)
           d == AddSharedCacheVolumes(before, active, resolved)
           added == IF active THEN Range(mounts) ELSE {}
<1>1. caches \in Seq(C)
  BY CachesListed
<1>2. d = IF active THEN [mounted EXCEPT !.external = @ \o caches] ELSE mounted
  BY DEF AddSharedCacheVolumes
<1> HIDE DEF caches, d
<1>3. DOMAIN caches = 1..Len(caches) /\ Len(caches) \in Nat /\ \A i \in DOMAIN caches : caches[i] \in C
  BY <1>1
<1>4. mounts \in Seq({CacheMount(c) : c \in C}) /\ \A m : m \in Range(mounts) <=> \E c \in Range(caches) : m = CacheMount(c)
  <2>1. mounts \in [1..Len(caches) -> {CacheMount(c) : c \in C}]
    BY <1>3
  <2>2. \A m : m \in Range(mounts) <=> \E c \in Range(caches) : m = CacheMount(c)
    BY <1>3 DEF Range
  <2> HIDE DEF mounts, C
  <2> QED BY <1>3, <2>1, <2>2
<1> HIDE DEF mounts
<1>5. HasVolumes(before) /\ before.volumes # << >> /\ before.external = << >>
  BY DEF Working
<1>6. Adds(mounted, before, added)
  BY <1>4, <1>5, EntriesAdded
<1> HIDE DEF mounted, added
<1>7. /\ DOMAIN mounted = ComposeFields /\ MountsOf(mounted) = MountsOf(before) \cup added
      /\ mounted.workingDir = before.workingDir /\ mounted.external = << >>
  BY <1>5, <1>6 DEF Adds, HasVolumes
<1>8. /\ DOMAIN d = ComposeFields /\ d.volumes = mounted.volumes /\ d.workingDir = mounted.workingDir
      /\ d.external = IF active THEN caches ELSE << >>
  <2>1. << >> \o caches = caches
    BY <1>1
  <2>2. CASE active
    <3>1. d = [mounted EXCEPT !.external = mounted.external \o caches]
      BY <1>2, <2>2
    <3>2. d = [mounted EXCEPT !.external = caches]
      BY <1>7, <2>1, <3>1
    <3> QED BY <1>7, <2>2, <3>2 DEF ComposeFields
  <2>3. CASE ~active
    BY <1>2, <1>7, <2>3
  <2> QED BY <2>2, <2>3
<1>9. MountsOf(d) = MountsOf(mounted)
  BY <1>8 DEF MountsOf
<1>10. Mount(Above(<< >>), d.workingDir) \in MountsOf(d)
  BY <1>7, <1>8, <1>9 DEF Working
<1>11. \A c \in C : CacheMount(c) \in MountsOf(d) <=> CacheMount(c) \in added
  <2>1. \A m \in MountsOf(before) : m.source[1] # "volume"
    BY DEF Working
  <2>2. \A c : CacheMount(c).source[1] = "volume"
    BY Sources
  <2>3. \A c : CacheMount(c) \notin MountsOf(before)
    BY <2>1, <2>2
  <2> QED BY <1>7, <1>9, <2>3
<1>12. Range(caches) \subseteq C
  BY <1>3 DEF Range
<1>13. \A c, e : CacheMount(c) = CacheMount(e) => c = e
  BY Sources
<1>14. \A c : CacheMount(c) \in Range(mounts) <=> c \in Range(caches)
  BY <1>4, <1>13
<1>15. Range(d.external) = {c \in C : CacheMount(c) \in MountsOf(d)}
  <2>1. CASE active
    <3>1. d.external = caches /\ added = Range(mounts)
      BY <1>8, <2>1 DEF added
    <3> DEFINE A == Range(caches)
               M == MountsOf(d)
    <3>2. \A c : c \in A <=> c \in C /\ CacheMount(c) \in M
      BY <1>11, <1>12, <1>14, <3>1
    <3> HIDE DEF A, M, C
    <3>3. A = {c \in C : CacheMount(c) \in M}
      BY <3>2
    <3> QED BY <3>1, <3>3 DEF A, M
  <2>2. CASE ~active
    <3>1. d.external = << >> /\ added = {}
      BY <1>8, <2>2 DEF added
    <3>2. Range(d.external) = {}
      BY <3>1 DEF Range
    <3> QED BY <1>11, <3>1, <3>2
  <2> QED BY <2>1, <2>2
<1> QED BY <1>8, <1>10, <1>15 DEF d, C

LEMMA ComposeFinished ==
  ASSUME NEW ch, Chooses(ch), Generates(ch)
  PROVE  Consistent(FinishedCompose(Loaded(ch), ch))
<1> DEFINE env   == MergeAgentEnvironment(Loaded(ch), ComposeEnvironment(ch.agent))
           d1    == AddSettingsVolume(SetWorkspace(env, ch.name))
           d2    == AddAgentConfigVolumes(d1, ch.agent, ch.mounts.agentConfig, ch.name)
           d3    == AddGitReadonlyVolume(d2, ch.mounts.git)
           idea  == ch.mounts.idea \/ ch.ide = "jetbrains"
           d4    == AddIdeaReadonlyVolume(d3, idea)
           d5    == AddSharedCacheVolumes(d4, ch.mounts.cache, ch.stacks)
           d6    == IF ch.ide = "jetbrains" THEN AddJetBrainsCapabilities(d5) ELSE d5
           d7    == SetProjectName(d6, ch.name)
<1>1. ch.agent \in AgentNames /\ ch.name # ""
  BY ChosenIs DEF Generates
<1>2. FinishedCompose(Loaded(ch), ch) = d7
  BY DEF FinishedCompose, Customize
<1>3. PICK R : ch.stacks \in Seq(R)
  BY StacksAreListed
<1>4. Working(d1, ch.name)
  BY WorkspaceSet DEF Loaded
<1> HIDE DEF d1
<1>5. Working(d2, ch.name)
  <2> DEFINE mounts == AgentMounts(ch.agent, ch.name)
             active == ch.mounts.agentConfig
             added  == IF active THEN Range(mounts) ELSE {}
  <2>1. PICK S : mounts \in Seq(S) /\ \A m \in Range(mounts) : m.source[1] # "volume"
    BY <1>1, AgentMountsListed
  <2>2. d2 = AddVolumeEntries(d1, mounts, active)
    BY DEF AddAgentConfigVolumes
  <2>3. HasVolumes(d1) /\ d1.volumes # << >>
    BY <1>4 DEF Working
  <2> HIDE DEF mounts, active, d2
  <2>4. Adds(d2, d1, added)
    BY <2>1, <2>2, <2>3, EntriesAdded
  <2>5. \A m \in added : m.source[1] # "volume"
    BY <2>1
  <2> HIDE DEF added
  <2> QED BY <1>4, <2>4, <2>5, StillWorking
<1> HIDE DEF d2
<1>6. Working(d3, ch.name)
  <2> DEFINE m == Mount(Above(<<".git">>), <<"/workspace", ".git">>)
             active == ch.mounts.git
             added  == IF active THEN {m} ELSE {}
  <2>1. d3 = AddVolumeEntry(d2, m, active)
    BY DEF AddGitReadonlyVolume
  <2>2. HasVolumes(d2) /\ d2.volumes # << >> /\ m.source[1] # "volume"
    BY <1>5, Sources DEF Working
  <2> HIDE DEF m, active, d3
  <2>3. Adds(d3, d2, added)
    BY <2>1, <2>2, EntryAdded
  <2>4. \A x \in added : x.source[1] # "volume"
    BY <2>2
  <2> HIDE DEF added
  <2> QED BY <1>5, <2>3, <2>4, StillWorking
<1> HIDE DEF d3
<1>7. Working(d4, ch.name)
  <2> DEFINE m == Mount(Above(<<".idea">>), <<"/workspace", ".idea">>)
             added == IF idea THEN {m} ELSE {}
  <2>1. d4 = AddVolumeEntry(d3, m, idea)
    BY DEF AddIdeaReadonlyVolume
  <2>2. HasVolumes(d3) /\ d3.volumes # << >> /\ m.source[1] # "volume"
    BY <1>6, Sources DEF Working
  <2> HIDE DEF m, idea, d4
  <2>3. Adds(d4, d3, added)
    BY <2>1, <2>2, EntryAdded
  <2>4. \A x \in added : x.source[1] # "volume"
    BY <2>2
  <2> HIDE DEF added
  <2> QED BY <1>6, <2>3, <2>4, StillWorking
<1> HIDE DEF d4
<1>8. /\ DOMAIN d5 = ComposeFields /\ Mount(Above(<< >>), d5.workingDir) \in MountsOf(d5)
      /\ Range(d5.external) = {c \in Range(jvmCaches) : CacheMount(c) \in MountsOf(d5)}
  BY <1>3, <1>7, CachesDeclared
<1> HIDE DEF d5
<1>9. /\ DOMAIN d6 = ComposeFields /\ d6.volumes = d5.volumes /\ d6.workingDir = d5.workingDir
      /\ d6.external = d5.external
  BY <1>8 DEF AddJetBrainsCapabilities, ComposeFields
<1> HIDE DEF d6
<1>10. /\ d7.volumes = d5.volumes /\ d7.workingDir = d5.workingDir
       /\ d7.external = d5.external /\ d7.name = ch.name
  BY <1>8, <1>9 DEF SetProjectName, ComposeFields
<1> HIDE DEF d7
<1>11. MountsOf(d7) = MountsOf(d5)
  BY <1>10 DEF MountsOf
<1> QED BY <1>1, <1>2, <1>8, <1>10, <1>11 DEF Consistent, ExternalCacheVolumes

LEMMA ComposeStep ==
  ASSUME TypeInv, TypeInv', GenInv, ComposeConsistent, [Next]_vars
  PROVE  ComposeConsistent'
<1> DEFINE f == "compose-all.yml"
           bare == {NotThere, CutOff, Compose(ComposeTemplate)}
<1>1. RunInv /\ RunInv' /\ FilesInv /\ FilesInv' /\ f \in AllFiles
  BY DEF TypeInv, AllFiles, GeneratedFiles, Template
<1>2. CASE tree'[f] = tree[f]
  BY <1>2 DEF ComposeConsistent
<1>3. CASE tree' = tree
  BY <1>3 DEF ComposeConsistent
<1>4. CASE tree'[f] \in bare
  BY <1>4 DEF ComposeConsistent
<1>5. CASE Command
  <2>1. (\E k : Makes(k)) \/ Reads10 \/ Saves16 \/ Settings \/ Blocks \/ Ends
    BY <1>1, <1>5, CommandCases
  <2>2. ASSUME NEW k, Makes(k)
        PROVE  ComposeConsistent'
    <3> DEFINE new == Generated(GenStep(k), tree, Whose, Bundles)
    <3>1. k \in 1..18 /\ k \notin {10, 16} /\ tree' = [tree EXCEPT ![GenStep(k)[2]] = new]
      BY <2>2 DEF Makes, Gens
    <3>2. CASE k = 2
      <4>1. GenStep(k)[2] = f /\ new = Template[f]
        BY <3>1, <3>2, Writers, GeneratedBy, TemplateOf
      <4>2. Template[f] = Compose(ComposeTemplate)
        BY DEF Template
      <4> HIDE DEF new
      <4>3. tree'[f] = Compose(ComposeTemplate)
        BY <1>1, <3>1, <4>1, <4>2 DEF FilesInv
      <4> QED BY <1>4, <4>3
    <3>3. CASE k # 2
      <4>1. GenStep(k)[2] # f
        BY <3>1, <3>3, Writers
      <4> HIDE DEF new
      <4>2. tree'[f] = tree[f]
        BY <1>1, <3>1, <4>1 DEF FilesInv
      <4> QED BY <1>2, <4>2
    <3> QED BY <3>2, <3>3
  <2>3. CASE Saves16
    <3> DEFINE made == FinishedCompose(Loaded(Whose), Whose)
               new  == Compose(FinishedCompose(doc, Whose))
    <3>1. ~Idle /\ Generates(Whose) /\ Gen + 1 = 16 /\ tree' = [tree EXCEPT ![f] = new]
      BY <2>3 DEF Saves16, Advances
    <3>2. Chooses(Whose) /\ Pos \in Nat
      <4>1. Whose = chosen /\ Pos \in Nat
        BY <1>1, <3>1, Walk
      <4>2. Whose # NoOptions
        BY <1>1, <3>1, <4>1 DEF RunInv
      <4> QED BY <1>1, <4>1, <4>2 DEF RunInv
    <3>3. doc = Loaded(Whose)
      <4>1. Gens(Whose) \in {17, 18} /\ Gen \in Int
        BY <3>2 DEF Gens, Gen, Offset
      <4>2. Gen = 15
        BY <3>1, <4>1
      <4>3. GeneratedUpTo(15, Whose)
        BY <3>1, <4>1, <4>2 DEF GenInv
      <4> QED BY <4>3 DEF GeneratedUpTo
    <3>4. Consistent(made)
      BY <3>1, <3>2, ComposeFinished
    <3> HIDE DEF made
    <3>5. new = Compose(made)
      BY <3>3 DEF made
    <3> HIDE DEF new
    <3>6. tree'[f] = Compose(made)
      BY <1>1, <3>1, <3>5 DEF FilesInv
    <3>7. tree'[f].compose = made
      BY <3>6 DEF Compose
    <3> QED BY <3>4, <3>7 DEF ComposeConsistent, Consistent, MountsOf
  <2>4. CASE Ends
    <3>1. tree' = tree \/ \E g \in AllFiles : tree' = [tree EXCEPT ![g] = CutOff]
      BY <2>4 DEF Ends
    <3>2. ASSUME NEW g \in AllFiles, tree' = [tree EXCEPT ![g] = CutOff]
          PROVE  ComposeConsistent'
      <4>1. tree'[f] = tree[f] \/ tree'[f] = CutOff
        BY <1>1, <3>2 DEF FilesInv
      <4> QED BY <1>2, <1>4, <4>1
    <3> QED BY <1>3, <3>1, <3>2
  <2>5. CASE Reads10 \/ Settings \/ Blocks
    BY <1>3, <2>5 DEF Reads10, Settings, Blocks, files
  <2> QED BY <2>1, <2>2, <2>3, <2>4, <2>5
<1>6. Command \/ tree' = tree
  BY DEF Next, Begin, UserEdit, vars, files
<1> QED BY <1>3, <1>5, <1>6

(* compose-all.yml is never half-made: it is the template, or it has its   *)
(* name and its workspace, and declares exactly the caches it mounts.      *)
THEOREM ComposeStays == Spec => []ComposeConsistent
<1>1. ASSUME Init
      PROVE  ComposeConsistent
  <2>1. tree["compose-all.yml"] = NotThere
    BY <1>1 DEF Init, AllFiles, GeneratedFiles, Template
  <2> QED BY <2>1 DEF ComposeConsistent
<1> QED BY <1>1, Typed, Generation, ComposeStep, PTL DEF Spec
=============================================================================
