------------------------- MODULE ProjectCommandsProofs -------------------------
(***************************************************************************)
(* Theorems about ProjectCommands, for any shells, any tree of projects,   *)
(* any commands and faults, and any number of edits.                       *)
(***************************************************************************)
EXTENDS ProjectCommands, WellFoundedInduction, TLAPS

USE DEF dockerVars, fileVars

(***************************************************************************)
(* Type correctness                                                        *)
(***************************************************************************)

FilesOK ==
  /\ entries \in [Dirs -> SUBSET {".snadcat", ".git", ".devcontainer", "compose-all.yml"}]
  /\ \A d \in Dirs : HasComposeFile(d) => ".devcontainer" \in entries[d] /\ d \in Projects
  /\ version \in [Dirs -> 0..MaxEdits]

DockerOK ==
  /\ \A c \in containers : c.owner \in Shells \cup {"stack"} /\ c.version \in 0..MaxEdits
  /\ volumes \subseteq {DeriveName(d) : d \in Projects}
  /\ caches \subseteq AllCaches /\ labelled \subseteq caches

(* A destroy that waits for its answer knows where it was called, and the  *)
(* root that was found.                                                    *)
Resolvable(j) == j.verb = "destroy" /\ j.at = "prompt" => j.cwd \in Dirs /\ j.root \in Dirs

JobsOK ==
  /\ job \in [Shells -> Job] /\ \A s \in Shells : Resolvable(job[s])
  /\ contended \subseteq Dirs

(* TypeOK, that only projects ever have a compose file, and Resolvable.    *)
TypeInv == FilesOK /\ DockerOK /\ JobsOK

(* A path that has a marked directory has an innermost one.                *)
LEMMA RootIsDir ==
  ASSUME NEW cwd \in Dirs
  PROVE  FindRoot(cwd) \in Dirs \cup {None}
<1> DEFINE marked == {i \in DOMAIN Path[cwd] :
                        entries[Path[cwd][i]] \cap {".snadcat", ".git", ".devcontainer"} # {}}
<1>1. Path[cwd] \in Seq(Dirs)
  BY DirsAssumption
<1>2. marked \subseteq Nat /\ \A i \in marked : Path[cwd][i] \in Dirs
  BY <1>1
<1>3. CASE marked = {}
  BY <1>3 DEF FindRoot
<1>4. CASE marked # {}
  <2>1. \E i \in marked : \A j \in marked : ~(<<j, i>> \in OpToRel(<, Nat))
    BY <1>2, <1>4, NatLessThanWellFounded, WFMin
  <2>2. \E i \in marked : \A j \in marked : i <= j
    <3>1. PICK i \in marked : \A j \in marked : ~(<<j, i>> \in OpToRel(<, Nat))
      BY <2>1
    <3>2. ASSUME NEW j \in marked PROVE i <= j
      <4>1. i \in Nat /\ j \in Nat
        BY <1>2, <3>1, <3>2
      <4>2. <<j, i>> \notin {ss \in Nat \X Nat : ss[1] < ss[2]}
        BY <3>1, <3>2 DEF OpToRel
      <4>3. ~(j < i)
        BY <4>1, <4>2
      <4> QED BY <4>1, <4>3
    <3> QED BY <3>2
  <2>3. (CHOOSE i \in marked : \A j \in marked : i <= j) \in marked
    BY <2>2
  <2> QED BY <1>2, <1>4, <2>3 DEF FindRoot
<1> QED BY <1>3, <1>4

LEMMA ComposeFileIsDir ==
  ASSUME FilesOK, NEW cwd \in Dirs, FindComposeFile(cwd) # None
  PROVE  FindComposeFile(cwd) \in Dirs /\ FindComposeFile(cwd) \in Projects
BY RootIsDir DEF FindComposeFile, HasComposeFile, FilesOK

(* The records a command goes through.                                     *)
LEMMA NoJobType == NoJob \in Job
BY DirsAssumption DEF NoJob, Job, Verb, Phase, Result

LEMMA SetJobType ==
  ASSUME JobsOK, NEW s \in Shells, NEW new \in Job, Resolvable(new),
         job' = [job EXCEPT ![s] = new], contended' = contended \/ contended' \subseteq Dirs
  PROVE  JobsOK'
BY DEF JobsOK, Resolvable

LEMMA EndType ==
  ASSUME JobsOK, NEW s \in Shells, NEW r \in Result, End(s, r)
  PROVE  JobsOK'
<1>1. "exit" \in Phase
  BY DEF Phase
<1> DEFINE left == [NoJob EXCEPT !.verb = job[s].verb, !.at = "exit", !.root = job[s].root,
                                 !.result = r]
<1>2. left \in Job /\ left.at = "exit"
  BY <1>1, NoJobType DEF Job, NoJob, JobsOK
<1>3. job' = [job EXCEPT ![s] = left] /\ contended' = contended
  BY DEF End
<1> HIDE DEF left
<1> QED BY <1>2, <1>3, SetJobType DEF Resolvable

LEMMA GoType ==
  ASSUME JobsOK, NEW s \in Shells, NEW at \in Phase \ {"prompt"}, Go(s, at)
  PROVE  JobsOK'
<1>1. [job[s] EXCEPT !.at = at] \in Job
  BY DEF Job, JobsOK
<1>2. job' = [job EXCEPT ![s] = [job[s] EXCEPT !.at = at]] /\ contended' = contended
  BY DEF Go, JobsOK
<1>3. [job[s] EXCEPT !.at = at].at = at
  BY DEF Job, JobsOK
<1> QED BY <1>1, <1>2, <1>3, SetJobType DEF Resolvable

(* The command that run runs inside is over, or could not be started.      *)
LEMMA ToDownType ==
  ASSUME JobsOK, NEW s \in Shells, NEW failed \in BOOLEAN,
         job' = [job EXCEPT ![s].at = "down", ![s].failed = failed], UNCHANGED contended
  PROVE  JobsOK'
<1> DEFINE next == [job[s] EXCEPT !.at = "down", !.failed = failed]
<1>1. next \in Job /\ next.at = "down"
  <2>1. job[s] \in Job /\ "down" \in Phase
    BY DEF JobsOK, Phase
  <2> QED BY <2>1 DEF Job
<1>2. job' = [job EXCEPT ![s] = next]
  BY DEF JobsOK
<1> HIDE DEF next
<1> QED BY <1>1, <1>2, SetJobType DEF Resolvable

LEMMA BeginType ==
  ASSUME JobsOK, FilesOK, DockerOK, NEW s \in Shells, NEW new \in Job, Resolvable(new),
         Begin(s, new)
  PROVE  TypeInv'
<1>1. JobsOK'
  BY SetJobType DEF Begin, JobsOK
<1> QED BY <1>1 DEF Begin, TypeInv, FilesOK, DockerOK, HasComposeFile

(* What compose does to containers and volumes keeps the types.            *)
LEMMA ComposeType ==
  ASSUME FilesOK, DockerOK, NEW dir \in Dirs \cup {None}, HasComposeFile(dir), NEW s \in Shells,
         \/ ComposeUp(dir) \/ ComposeRun(dir, s)
         \/ \E withVolumes \in BOOLEAN : ComposeDown(dir, withVolumes)
  PROVE  DockerOK'
<1>1. dir \in Dirs /\ dir \in Projects /\ version[dir] \in 0..MaxEdits
  BY DEF HasComposeFile, FilesOK
<1>2. \A c \in {Stack(dir), OneOff(dir, s)} :
        c.owner \in Shells \cup {"stack"} /\ c.version \in 0..MaxEdits
  BY <1>1 DEF Stack, OneOff
<1>3. containers' \subseteq containers \cup {Stack(dir), OneOff(dir, s)}
  BY DEF ComposeUp, ComposeRun, ComposeDown
<1>4. volumes' \subseteq volumes \cup {DeriveName(dir)} /\ UNCHANGED <<caches, labelled>>
  BY DEF ComposeUp, ComposeRun, ComposeDown
<1> QED BY <1>1, <1>2, <1>3, <1>4 DEF DockerOK

LEMMA DownFailsType ==
  ASSUME DockerOK, NEW dir \in Dirs \cup {None}, ComposeDownFails(dir)
  PROVE  DockerOK'
<1>1. containers' \subseteq containers /\ UNCHANGED <<volumes, caches, labelled>>
  BY DEF ComposeDownFails
<1> QED BY <1>1 DEF DockerOK

LEMMA RemoveType ==
  ASSUME FilesOK, NEW dir \in Dirs \cup {None}, NEW gone, Remove(dir, gone),
         ".devcontainer" \in gone => "compose-all.yml" \in gone
  PROVE  FilesOK'
<1>1. entries' = [d \in Dirs |-> IF d = dir THEN entries[d] \ gone ELSE entries[d]]
  BY DEF FilesOK, Remove
<1>2. \A d \in Dirs : HasComposeFile(d)' => HasComposeFile(d) /\ ".devcontainer" \in entries'[d]
  BY <1>1 DEF HasComposeFile, FilesOK
<1>3. entries' \in [Dirs -> SUBSET {".snadcat", ".git", ".devcontainer", "compose-all.yml"}]
  BY <1>1 DEF FilesOK
<1> QED BY <1>2, <1>3 DEF FilesOK, Remove

LEMMA StaysTyped ==
  ASSUME TypeInv
  PROVE  /\ UNCHANGED fileVars => FilesOK'
         /\ UNCHANGED dockerVars => DockerOK'
BY DEF TypeInv, FilesOK, DockerOK, HasComposeFile

(***************************************************************************)
(* One lemma for each command                                              *)
(***************************************************************************)

LEMMA ForCwdType ==
  ASSUME TypeInv, NEW s \in Shells, NEW verb \in Verb \ {"destroy"}, NEW at \in Phase,
         ComposeForCwd(s, verb, at)
  PROVE  TypeInv'
<1>1. PICK cwd \in Cwds[s] :
        /\ FindComposeFile(cwd) # None
        /\ Begin(s, [NoJob EXCEPT !.verb = verb, !.at = at, !.root = FindComposeFile(cwd),
                                  !.file = FindComposeFile(cwd),
                                  !.seen = IF verb = "edit" THEN version[FindComposeFile(cwd)] ELSE 0])
  BY DEF ComposeForCwd
<1>2. FindComposeFile(cwd) \in Dirs
  BY <1>1, DirsAssumption, ComposeFileIsDir DEF TypeInv
<1>3. version[FindComposeFile(cwd)] \in 0..MaxEdits /\ 0 \in 0..MaxEdits
  BY <1>2, DirsAssumption DEF TypeInv, FilesOK
<1>4. [NoJob EXCEPT !.verb = verb, !.at = at, !.root = FindComposeFile(cwd),
                    !.file = FindComposeFile(cwd),
                    !.seen = IF verb = "edit" THEN version[FindComposeFile(cwd)] ELSE 0] \in Job
  BY <1>2, <1>3, NoJobType DEF Job, NoJob
<1>5. [NoJob EXCEPT !.verb = verb, !.at = at, !.root = FindComposeFile(cwd),
                    !.file = FindComposeFile(cwd),
                    !.seen = IF verb = "edit" THEN version[FindComposeFile(cwd)] ELSE 0].verb = verb
  BY DEF NoJob
<1> QED BY <1>1, <1>4, <1>5, BeginType DEF TypeInv, Resolvable

LEMMA BeginAnyType ==
  ASSUME TypeInv, NEW s \in Shells, BeginAny(s)
  PROVE  TypeInv'
<1> USE DEF Verb, Phase
<1>1. CASE Run(s) \/ Compose(s) \/ EditCompose(s)
  BY <1>1, ForCwdType DEF Run, Compose, EditCompose
<1>2. CASE Destroy(s)
  <2>1. PICK cwd \in Cwds[s] :
          /\ FindRoot(cwd) # None
          /\ Begin(s, [NoJob EXCEPT !.verb = "destroy", !.at = "prompt", !.cwd = cwd,
                                    !.root = FindRoot(cwd)])
    BY <1>2 DEF Destroy
  <2>2. cwd \in Dirs /\ FindRoot(cwd) \in Dirs
    BY <2>1, DirsAssumption, RootIsDir
  <2> QED BY <2>1, <2>2, NoJobType, BeginType DEF Job, NoJob, TypeInv, Resolvable
<1>3. CASE CacheList(s)
  <2>1. labelled \subseteq AllCaches
    BY DEF TypeInv, DockerOK
  <2> QED BY <1>3, <2>1, NoJobType, BeginType DEF CacheList, CacheVolumeNames, Job, NoJob, TypeInv, Resolvable
<1>4. CASE CacheRm(s)
  <2>1. PICK targets \in SUBSET AllCaches, force \in BOOLEAN :
          Begin(s, [NoJob EXCEPT !.verb = "rm", !.at = "prompt", !.targets = targets,
                                 !.force = force])
    BY <1>4 DEF CacheRm, CacheVolumeNames, TypeInv, DockerOK
  <2> QED BY <2>1, NoJobType, BeginType DEF Job, NoJob, TypeInv, Resolvable
<1> QED BY <1>1, <1>2, <1>3, <1>4 DEF BeginAny

LEMMA ContinueType ==
  ASSUME TypeInv, NEW s \in Shells, Continue(s)
  PROVE  TypeInv'
<1> USE DEF Phase, Result, ChildExit
<1>0. /\ job[s].file \in Dirs \cup {None} /\ job[s].root \in Dirs \cup {None}
      /\ job[s].targets \subseteq AllCaches
      /\ FilesOK /\ DockerOK /\ JobsOK
  BY DEF TypeInv, JobsOK, Job
<1>1. CASE EnsureSharedCacheVolumes(s)
  <2>1. /\ caches' \subseteq caches \cup AllCaches /\ labelled' \subseteq caches'
        /\ UNCHANGED <<containers, volumes>>
    BY <1>0, <1>1 DEF EnsureSharedCacheVolumes, HasComposeFile, FilesOK, AllCaches, DockerOK
  <2>2. DockerOK'
    BY <1>0, <2>1 DEF DockerOK
  <2> QED BY <1>0, <1>1, <2>2, GoType, StaysTyped DEF EnsureSharedCacheVolumes, TypeInv
<1>2. CASE RunStart(s)
  <2>1. DockerOK'
    BY <1>0, <1>2, ComposeType DEF RunStart, CanStart
  <2> QED BY <1>0, <1>2, <2>1, GoType, StaysTyped DEF RunStart, TypeInv
<1>3. CASE RunStartFails(s)
  <2>1. DockerOK'
    BY <1>0, <1>3, ComposeType, StaysTyped DEF RunStartFails, CanStart, ComposeUpFails
  <2>2. JobsOK'
    BY <1>0, <1>3, ToDownType DEF RunStartFails
  <2> QED BY <1>3, <2>1, <2>2, StaysTyped DEF RunStartFails, TypeInv
<1>4. CASE RunEnds(s)
  <2>1. DockerOK'
    BY <1>0, <1>4 DEF RunEnds, DockerOK
  <2>2. JobsOK'
    BY <1>0, <1>4, ToDownType DEF RunEnds
  <2> QED BY <1>4, <2>1, <2>2, StaysTyped DEF RunEnds, TypeInv
<1>5. CASE RunDown(s) \/ ComposeDownDone(s)
  <2>1. DockerOK'
    BY <1>0, <1>5, ComposeType, DownFailsType DEF RunDown, ComposeDownDone
  <2>2. JobsOK'
    BY <1>0, <1>5, EndType DEF RunDown, ComposeDownDone
  <2> QED BY <1>5, <2>1, <2>2, StaysTyped DEF RunDown, ComposeDownDone, TypeInv
<1>6. CASE ComposeUpDone(s) \/ EditUp(s)
  <2>1. DockerOK'
    BY <1>0, <1>6, ComposeType, StaysTyped DEF ComposeUpDone, EditUp, CanStart, ComposeUpFails
  <2>2. JobsOK'
    BY <1>0, <1>6, EndType DEF ComposeUpDone, EditUp
  <2> QED BY <1>6, <2>1, <2>2, StaysTyped DEF ComposeUpDone, EditUp, TypeInv
<1>7. CASE DestroyConfirmed(s)
  <2>1. CASE FindComposeFile(job[s].cwd) = None
    <3>1. JobsOK'
      BY <1>0, <1>7, <2>1, EndType DEF DestroyConfirmed
    <3> QED BY <1>7, <3>1, StaysTyped DEF DestroyConfirmed, TypeInv
  <2>2. CASE FindComposeFile(job[s].cwd) # None
    <3>1. FindComposeFile(job[s].cwd) \in Dirs \cup {None}
      BY <1>0, <1>7, <2>2, ComposeFileIsDir DEF DestroyConfirmed, At, JobsOK, Resolvable
    <3> DEFINE next == [job[s] EXCEPT !.at = "down", !.file = FindComposeFile(job[s].cwd)]
    <3>2. next \in Job /\ next.at = "down"
      <4>1. job[s] \in Job /\ "down" \in Phase
        BY <1>0 DEF JobsOK, Phase
      <4> QED BY <3>1, <4>1 DEF Job
    <3>3. job' = [job EXCEPT ![s] = next] /\ UNCHANGED contended
      BY <1>0, <1>7, <2>2 DEF DestroyConfirmed, JobsOK
    <3> HIDE DEF next
    <3>4. JobsOK'
      BY <1>0, <3>2, <3>3, SetJobType DEF Resolvable, JobsOK
    <3> QED BY <1>7, <3>4, StaysTyped DEF DestroyConfirmed, TypeInv
  <2> QED BY <2>1, <2>2
<1>8. CASE DestroyDeclined(s)
  BY <1>0, <1>8, EndType, StaysTyped DEF DestroyDeclined, TypeInv
<1>9. CASE DestroyDown(s)
  <2>1. DockerOK'
    BY <1>0, <1>9, ComposeType, DownFailsType DEF DestroyDown
  <2>2. JobsOK'
    BY <1>0, <1>9, EndType, GoType DEF DestroyDown
  <2> QED BY <1>9, <2>1, <2>2, StaysTyped DEF DestroyDown, TypeInv
<1>10. CASE RemoveSnadcat(s)
  <2>1. FilesOK'
    BY <1>0, <1>10, RemoveType, StaysTyped DEF RemoveSnadcat
  <2>2. JobsOK'
    BY <1>0, <1>10, EndType, GoType DEF RemoveSnadcat
  <2> QED BY <1>10, <2>1, <2>2, StaysTyped DEF RemoveSnadcat, TypeInv
<1>11. CASE RemoveDevcontainer(s)
  <2>1. FilesOK'
    BY <1>0, <1>11, RemoveType DEF RemoveDevcontainer
  <2>2. JobsOK'
    BY <1>0, <1>11, EndType DEF RemoveDevcontainer
  <2> QED BY <1>11, <2>1, <2>2, StaysTyped DEF RemoveDevcontainer, TypeInv
<1>12. CASE EditorCloses(s)
  <2>1. FilesOK'
    <3>1. version' \in [Dirs -> 0..MaxEdits] /\ UNCHANGED entries
      <4>1. CASE UNCHANGED version
        BY <1>0, <1>12, <4>1 DEF EditorCloses, FilesOK
      <4>2. CASE /\ version[job[s].file] < MaxEdits
                 /\ version' = [version EXCEPT ![job[s].file] = @ + 1]
        <5>1. \A d \in Dirs : d = job[s].file => version[d] + 1 \in 0..MaxEdits
          BY <1>0, <4>2, DirsAssumption DEF FilesOK
        <5> QED BY <1>0, <1>12, <4>2, <5>1 DEF EditorCloses, FilesOK
      <4> QED BY <1>12, <4>1, <4>2 DEF EditorCloses
    <3> QED BY <1>0, <3>1 DEF FilesOK, HasComposeFile
  <2>2. JobsOK'
    BY <1>0, <1>12, EndType, GoType DEF EditorCloses
  <2> QED BY <1>12, <2>1, <2>2, StaysTyped DEF EditorCloses, TypeInv
<1>13. CASE EditCompared(s)
  <2>1. JobsOK'
    BY <1>0, <1>13, EndType, GoType DEF EditCompared
  <2> QED BY <1>13, <2>1, StaysTyped DEF EditCompared, TypeInv
<1>14. CASE CacheMeasured(s)
  <2>1. DockerOK'
    BY <1>0, <1>14 DEF CacheMeasured, DockerOK
  <2>2. JobsOK'
    BY <1>0, <1>14, EndType DEF CacheMeasured
  <2> QED BY <1>14, <2>1, <2>2, StaysTyped DEF CacheMeasured, TypeInv
<1>15. CASE CacheRemoved(s)
  <2>1. DockerOK'
    BY <1>0, <1>15 DEF CacheRemoved, DockerOK
  <2>2. JobsOK'
    BY <1>0, <1>15, EndType DEF CacheRemoved
  <2> QED BY <1>15, <2>1, <2>2, StaysTyped DEF CacheRemoved, TypeInv
<1>16. CASE Killed(s)
  BY <1>0, <1>16, EndType, StaysTyped DEF Killed, TypeInv
<1>17. CASE Exit(s)
  <2>1. JobsOK'
    BY <1>0, <1>17, NoJobType, SetJobType DEF Exit, Resolvable, NoJob
  <2> QED BY <1>17, <2>1, StaysTyped DEF Exit, TypeInv
<1> QED
  BY <1>1, <1>2, <1>3, <1>4, <1>5, <1>6, <1>7, <1>8, <1>9, <1>10, <1>11, <1>12, <1>13,
     <1>14, <1>15, <1>16, <1>17 DEF Continue

LEMMA InitType ==
  ASSUME Init
  PROVE  TypeInv
<1>1. FilesOK
  <2>1. \A d \in Dirs : /\ FileEntries(d) \subseteq
                                {".snadcat", ".git", ".devcontainer", "compose-all.yml"}
                        /\ "compose-all.yml" \in FileEntries(d) =>
                             ".devcontainer" \in FileEntries(d) /\ d \in Projects
    BY DEF FileEntries
  <2>2. 0 \in 0..MaxEdits
    BY DirsAssumption
  <2> QED BY <2>1, <2>2 DEF Init, FilesOK, HasComposeFile
<1>2. DockerOK
  BY DEF Init, DockerOK
<1>3. JobsOK
  BY NoJobType DEF Init, JobsOK, Resolvable, NoJob
<1> QED BY <1>1, <1>2, <1>3 DEF TypeInv

LEMMA ReinitialiseType ==
  ASSUME TypeInv, NEW s \in Shells, NEW dir \in Projects, Reinitialise(s, dir)
  PROVE  TypeInv'
<1>1. dir \in Dirs /\ 0 \in 0..MaxEdits
  BY DirsAssumption
<1>2. entries' = [d \in Dirs |->
        IF d = dir THEN entries[d] \cup {".snadcat", ".devcontainer", "compose-all.yml"}
        ELSE entries[d]]
  BY <1>1 DEF Reinitialise, TypeInv, FilesOK
<1>3. version' \in [Dirs -> 0..MaxEdits]
  BY <1>1 DEF Reinitialise, TypeInv, FilesOK
<1>4. FilesOK'
  BY <1>1, <1>2, <1>3 DEF TypeInv, FilesOK, HasComposeFile
<1>5. \A r \in WaitingBelow(dir) : job[r].root \in Dirs
  BY DEF WaitingBelow, At, TypeInv, JobsOK, Resolvable
<1>6. contended' \subseteq Dirs /\ UNCHANGED job
  BY <1>5 DEF Reinitialise, TypeInv, JobsOK
<1> QED BY <1>4, <1>6, StaysTyped DEF Reinitialise, TypeInv, DockerOK, JobsOK

LEMMA NextType ==
  ASSUME TypeInv, [Next]_vars
  PROVE  TypeInv'
<1>1. CASE Next
  BY <1>1, BeginAnyType, ContinueType, ReinitialiseType DEF Next
<1>2. CASE UNCHANGED vars
  <2>1. FilesOK' /\ DockerOK'
    BY <1>2, StaysTyped DEF vars
  <2> QED BY <1>2, <2>1 DEF vars, TypeInv, JobsOK
<1> QED BY <1>1, <1>2

(* Every file, container, volume and job of a reachable state is of its    *)
(* type, for any directories, shells and faults (project.go, simple.go,    *)
(* passthrough.go, cache.go).                                              *)
THEOREM CommandsTypeCorrect == Spec => []TypeOK
<1>1. TypeInv => TypeOK
  BY DEF TypeInv, FilesOK, DockerOK, JobsOK, TypeOK
<1> QED BY <1>1, InitType, NextType, PTL DEF Spec

(***************************************************************************)
(* The steps of a command                                                  *)
(***************************************************************************)

LEMMA Begins ==
  ASSUME NEW s \in Shells, BeginAny(s)
  PROVE  \E new : Begin(s, new) /\ new.at \notin {"idle", "exit", "snadcat", "devcontainer"}
<1>1. ASSUME NEW verb, NEW at \in {"ensure", "compose", "editor"}, ComposeForCwd(s, verb, at)
      PROVE  \E new : Begin(s, new) /\ new.at \notin {"idle", "exit", "snadcat", "devcontainer"}
  <2>1. PICK root, seen : Begin(s, [NoJob EXCEPT !.verb = verb, !.at = at, !.root = root,
                                                 !.file = root, !.seen = seen])
    BY <1>1 DEF ComposeForCwd
  <2>2. [NoJob EXCEPT !.verb = verb, !.at = at, !.root = root, !.file = root, !.seen = seen].at = at
    BY DEF NoJob
  <2> QED BY <2>1, <2>2
<1>2. CASE Run(s) \/ Compose(s) \/ EditCompose(s)
  BY <1>1, <1>2 DEF Run, Compose, EditCompose
<1>3. CASE Destroy(s)
  <2>1. PICK cwd : Begin(s, [NoJob EXCEPT !.verb = "destroy", !.at = "prompt", !.cwd = cwd,
                                          !.root = FindRoot(cwd)])
    BY <1>3 DEF Destroy
  <2>2. [NoJob EXCEPT !.verb = "destroy", !.at = "prompt", !.cwd = cwd,
                      !.root = FindRoot(cwd)].at = "prompt"
    BY DEF NoJob
  <2> QED BY <2>1, <2>2
<1>4. CASE CacheList(s)
  <2>1. [NoJob EXCEPT !.verb = "list", !.at = "measure", !.targets = CacheVolumeNames].at = "measure"
    BY DEF NoJob
  <2> QED BY <1>4, <2>1 DEF CacheList
<1>5. CASE CacheRm(s)
  <2>1. PICK targets, force : Begin(s, [NoJob EXCEPT !.verb = "rm", !.at = "prompt",
                                                     !.targets = targets, !.force = force])
    BY <1>5 DEF CacheRm
  <2>2. [NoJob EXCEPT !.verb = "rm", !.at = "prompt", !.targets = targets,
                      !.force = force].at = "prompt"
    BY DEF NoJob
  <2> QED BY <2>1, <2>2
<1> QED BY <1>2, <1>3, <1>4, <1>5 DEF BeginAny

(* A command goes on in its own shell, and in the root it began with.      *)
Follows(s) ==
  \E new : job' = [job EXCEPT ![s] = new] /\ (new.at = "idle" \/ new.root = job[s].root)

LEMMA Continues ==
  ASSUME TypeInv, NEW s \in Shells, Continue(s)
  PROVE  ~Idle(s) /\ UNCHANGED contended /\ Follows(s)
<1>0. JobsOK /\ job[s] \in Job
  BY DEF TypeInv, JobsOK
<1>1. ASSUME NEW at, NEW x,
             \/ job' = [job EXCEPT ![s].at = at]
             \/ job' = [job EXCEPT ![s].at = at, ![s].failed = x]
             \/ job' = [job EXCEPT ![s].at = at, ![s].file = x]
      PROVE  Follows(s)
  <2>1. \/ job' = [job EXCEPT ![s] = [job[s] EXCEPT !.at = at]]
        \/ job' = [job EXCEPT ![s] = [job[s] EXCEPT !.at = at, !.failed = x]]
        \/ job' = [job EXCEPT ![s] = [job[s] EXCEPT !.at = at, !.file = x]]
    BY <1>0, <1>1 DEF JobsOK
  <2>2. /\ [job[s] EXCEPT !.at = at].root = job[s].root
        /\ [job[s] EXCEPT !.at = at, !.failed = x].root = job[s].root
        /\ [job[s] EXCEPT !.at = at, !.file = x].root = job[s].root
    BY <1>0 DEF Job
  <2> QED BY <2>1, <2>2 DEF Follows
<1>2. ASSUME NEW result, End(s, result)
      PROVE  UNCHANGED contended /\ Follows(s)
  <2>1. [NoJob EXCEPT !.verb = job[s].verb, !.at = "exit", !.root = job[s].root,
                      !.result = result].root = job[s].root
    BY DEF NoJob
  <2> QED BY <1>2, <2>1 DEF End, Follows
<1>3. ASSUME NEW at, Go(s, at)
      PROVE  UNCHANGED contended /\ Follows(s)
  BY <1>1, <1>3 DEF Go
<1>4. CASE RunStartFails(s) \/ RunEnds(s)
  BY <1>1, <1>4 DEF RunStartFails, RunEnds, At, Idle
<1>5. CASE DestroyConfirmed(s)
  <2>1. \/ End(s, "failed")
        \/ /\ job' = [job EXCEPT ![s].at = "down", ![s].file = FindComposeFile(job[s].cwd)]
           /\ UNCHANGED contended
    BY <1>5 DEF DestroyConfirmed
  <2> QED BY <1>1, <1>2, <1>5, <2>1 DEF DestroyConfirmed, At, Idle
<1>6. CASE Exit(s)
  <2>1. NoJob.at = "idle" /\ job' = [job EXCEPT ![s] = NoJob]
    BY <1>6 DEF Exit, NoJob
  <2> QED BY <1>6, <2>1 DEF Exit, Idle, Follows
<1> QED
  BY <1>2, <1>3, <1>4, <1>5, <1>6 DEF Continue, ChildExit, EnsureSharedCacheVolumes, RunStart,
     RunDown, ComposeUpDone, ComposeDownDone, DestroyDeclined, DestroyDown, RemoveSnadcat,
     RemoveDevcontainer, EditorCloses, EditCompared, EditUp, CacheMeasured, CacheRemoved, Killed,
     At, Idle

(* The step that ends the command of a shell is one of its own.            *)
LEMMA EndsItself ==
  ASSUME TypeInv, [Next]_vars, NEW s \in Shells, job[s].at # "exit", job'[s].at = "exit"
  PROVE  Continue(s)
<1> SUFFICES ASSUME ~Continue(s) PROVE FALSE
  OBVIOUS
<1>1. ASSUME NEW r \in Shells, NEW new, job' = [job EXCEPT ![r] = new], new.at # "exit" \/ r # s
      PROVE  FALSE
  BY <1>1 DEF TypeInv, JobsOK
<1>2. \A r \in Shells : ~BeginAny(r)
  BY <1>1, Begins DEF Begin
<1>3. \A r \in Shells : ~Continue(r)
  BY <1>1, Continues DEF Follows
<1> QED BY <1>2, <1>3 DEF Next, Reinitialise, vars

(* ... and it gives the status.                                            *)
LEMMA EndStatus ==
  ASSUME TypeInv, NEW s \in Shells
  PROVE  /\ \A at : Go(s, at) => job'[s].at = at
         /\ \A r : End(s, r) =>
              job'[s].verb = job[s].verb /\ job'[s].at = "exit" /\ job'[s].result = r
<1>0. job \in [Shells -> Job]
  BY DEF TypeInv, JobsOK
<1>1. ASSUME NEW at, Go(s, at)
      PROVE  job'[s].at = at
  BY <1>0, <1>1 DEF Go, Job
<1>2. ASSUME NEW r, End(s, r)
      PROVE  job'[s].verb = job[s].verb /\ job'[s].at = "exit" /\ job'[s].result = r
  BY <1>0, <1>2 DEF End, NoJob
<1> QED BY <1>1, <1>2

(* The verb of a command never changes while it lasts.                     *)
LEMMA SameVerb ==
  ASSUME TypeInv, NEW s \in Shells, Continue(s), job[s].at # "exit"
  PROVE  job'[s].verb = job[s].verb
<1>0. JobsOK /\ job[s] \in Job
  BY DEF TypeInv, JobsOK
<1>1. \A at : Go(s, at) => job'[s].verb = job[s].verb
  BY <1>0 DEF Go, JobsOK, Job
<1>2. CASE RunStartFails(s) \/ RunEnds(s) \/ DestroyConfirmed(s)
  BY <1>0, <1>2, EndStatus DEF RunStartFails, RunEnds, DestroyConfirmed, JobsOK, Job
<1> QED BY <1>1, <1>2, EndStatus DEF Continue, ChildExit, EnsureSharedCacheVolumes, RunStart, RunDown,
       ComposeUpDone, ComposeDownDone, DestroyDeclined, DestroyDown, RemoveSnadcat, Exit,
       RemoveDevcontainer, EditorCloses, EditCompared, EditUp, CacheMeasured, CacheRemoved, Killed

LEMMA ExitOnly ==
  ASSUME NEW s \in Shells, Continue(s), job[s].at = "exit"
  PROVE  Exit(s)
BY DEF Continue, EnsureSharedCacheVolumes, RunStart, RunStartFails, RunEnds, RunDown,
   ComposeUpDone, ComposeDownDone, DestroyConfirmed, DestroyDeclined, DestroyDown, RemoveSnadcat,
   RemoveDevcontainer, EditorCloses, EditCompared, EditUp, CacheMeasured, CacheRemoved, Killed, At
(***************************************************************************)
(* What a step does to containers, volumes and caches                      *)
(***************************************************************************)

(* A step that brings up the project of its command.                       *)
Starts(s) ==
  /\ job[s].verb # "destroy" /\ ~Idle(s) /\ job[s].at # "exit"
  /\ job[s].file \in Dirs
  /\ CanStart(job[s].file)
  /\ ComposeUp(job[s].file) \/ ComposeRun(job[s].file, s)
  /\ UNCHANGED fileVars

(* After any other, nothing runs or exists that did not before.            *)
OnlyStops == containers' \subseteq containers /\ volumes' \subseteq volumes

LEMMA ContinueStarts ==
  ASSUME TypeInv, NEW s \in Shells, Continue(s)
  PROVE  Starts(s) \/ (OnlyStops /\ (caches \subseteq caches' \/ CacheRemoved(s)))
<1> USE DEF OnlyStops, At
<1>1. ASSUME NEW dir, \/ \E withVolumes \in BOOLEAN : ComposeDown(dir, withVolumes)
                      \/ ComposeDownFails(dir)
      PROVE  OnlyStops /\ caches \subseteq caches'
  BY <1>1 DEF ComposeDown, ComposeDownFails
<1>2. CASE RunStart(s) \/ RunStartFails(s) \/ ComposeUpDone(s) \/ EditUp(s)
  <2>1. \/ UNCHANGED dockerVars
        \/ CanStart(job[s].file) /\ (ComposeUp(job[s].file) \/ ComposeRun(job[s].file, s))
    BY <1>2 DEF RunStart, RunStartFails, ComposeUpDone, EditUp, ComposeUpFails
  <2>2. CanStart(job[s].file) => job[s].file \in Dirs
    BY DEF CanStart, HasComposeFile, TypeInv, JobsOK, Job
  <2>3. job[s].verb # "destroy" /\ ~Idle(s) /\ job[s].at # "exit" /\ UNCHANGED fileVars
    BY <1>2 DEF RunStart, RunStartFails, ComposeUpDone, EditUp, Idle
  <2> QED BY <2>1, <2>2, <2>3 DEF Starts
<1>3. CASE RunDown(s) \/ ComposeDownDone(s) \/ DestroyDown(s)
  BY <1>1, <1>3 DEF RunDown, ComposeDownDone, DestroyDown
<1>4. CASE \/ EnsureSharedCacheVolumes(s) \/ RunEnds(s) \/ DestroyConfirmed(s)
           \/ DestroyDeclined(s) \/ RemoveSnadcat(s) \/ RemoveDevcontainer(s)
           \/ EditorCloses(s) \/ EditCompared(s) \/ CacheMeasured(s) \/ CacheRemoved(s)
           \/ Killed(s) \/ Exit(s)
  BY <1>4 DEF EnsureSharedCacheVolumes, RunEnds, DestroyConfirmed, DestroyDeclined,
     RemoveSnadcat, RemoveDevcontainer, EditorCloses, EditCompared, CacheMeasured, CacheRemoved,
     Killed, Exit
<1> QED BY <1>2, <1>3, <1>4 DEF Continue

(* What begins a command or initialises a project leaves docker alone.     *)
LEMMA OthersKeepDocker ==
  ASSUME NEW s \in Shells, \/ BeginAny(s) \/ \E d \in Projects : Reinitialise(s, d)
                           \/ UNCHANGED vars
  PROVE  UNCHANGED dockerVars
BY DEF BeginAny, Run, Compose, Destroy, EditCompose, ComposeForCwd, CacheList, CacheRm, Begin,
   Reinitialise, vars

LEMMA StartsOnly ==
  ASSUME NEW s \in Shells, Starts(s), NEW d
  PROVE  /\ ContainersOf(d)' # {} /\ DeriveName(d) # DeriveName(job[s].file) => ContainersOf(d) # {}
         /\ DeriveName(d) \in volumes' \ volumes => DeriveName(d) = DeriveName(job[s].file)
         /\ UNCHANGED caches
<1>1. \A c \in containers' \ containers : c.project = DeriveName(job[s].file)
  BY DEF Starts, ComposeUp, ComposeRun, Stack, OneOff
<1> QED BY <1>1 DEF Starts, ComposeUp, ComposeRun, ContainersOf, DeriveName

(***************************************************************************)
(* Contended projects                                                      *)
(***************************************************************************)

(* Two commands that work in one directory make it contended.              *)
Alone ==
  \A r, s \in Shells :
    r # s /\ ~Idle(r) /\ ~Idle(s) /\ job[r].root = job[s].root => job[s].root \notin Dirs \ contended

LEMMA ContendedGrows ==
  ASSUME TypeInv, [Next]_vars
  PROVE  contended \subseteq contended'
BY Begins, Continues DEF Next, Begin, Reinitialise, vars

LEMMA NextAlone ==
  ASSUME TypeInv, Alone, [Next]_vars
  PROVE  Alone'
<1>0. JobsOK /\ contended \subseteq contended'
  BY ContendedGrows DEF TypeInv
<1>1. ASSUME NEW s \in Shells, NEW new, Begin(s, new)
      PROVE  Alone'
  <2>1. job' = [job EXCEPT ![s] = new] /\ Idle(s)
    BY <1>1 DEF Begin
  <2>2. ASSUME NEW r \in Shells \ {s}, ~Idle(r), job[r].root = new.root
        PROVE  new.root \notin Dirs \ contended'
    BY <1>1, <2>2 DEF Begin
  <2> QED BY <1>0, <2>1, <2>2 DEF Alone, Idle, JobsOK
<1>2. ASSUME NEW s \in Shells, Continue(s)
      PROVE  Alone'
  BY <1>0, <1>2, Continues DEF Alone, Idle, JobsOK, Follows
<1>3. UNCHANGED job => Alone'
  BY <1>0 DEF Alone, Idle
<1> QED BY <1>1, <1>2, <1>3, Begins DEF Next, Reinitialise, vars

(* A directory that is not contended is worked on by one command.          *)
LEMMA OnlyOne ==
  ASSUME Alone, NEW r \in Shells, NEW s \in Shells, ~Idle(r), ~Idle(s),
         job[r].root = job[s].root, job[s].root \in Dirs \ contended
  PROVE  r = s
BY DEF Alone

(***************************************************************************)
(* A project is taken down only by its own commands                        *)
(***************************************************************************)

(* dir is the innermost directory on the path of cwd with a marker.        *)
Innermost(files, cwd, dir) ==
  \E i \in DOMAIN Path[cwd] :
    /\ Path[cwd][i] = dir
    /\ files[dir] \cap {".snadcat", ".git", ".devcontainer"} # {}
    /\ \A j \in DOMAIN Path[cwd] :
         j < i => files[Path[cwd][j]] \cap {".snadcat", ".git", ".devcontainer"} = {}

(* The compose file a command works with is in the root it began with,     *)
(* except for a destroy in a contended one, whose second search may have   *)
(* ended elsewhere; any other destroy would find its root again.           *)
Owned(j, files, shared) ==
  /\ \/ j.file = None \/ j.file = j.root
     \/ j.verb = "destroy" /\ j.root \in shared /\ j.file \in OnPath(j.cwd)
  /\ j.verb = "run" /\ j.at \notin {"idle", "exit"} => j.file # None
  /\ j.verb = "destroy" /\ j.at = "prompt" /\ j.root \notin shared =>
       Innermost(files, j.cwd, j.root)

OwnedInv == \A s \in Shells : Owned(job[s], entries, contended)

(* FindRoot ends at the innermost marked directory ...                     *)
LEMMA RootIsInnermost ==
  ASSUME NEW cwd \in Dirs, FindRoot(cwd) # None
  PROVE  Innermost(entries, cwd, FindRoot(cwd))
<1> DEFINE marked == {i \in DOMAIN Path[cwd] :
                        entries[Path[cwd][i]] \cap {".snadcat", ".git", ".devcontainer"} # {}}
           first == CHOOSE i \in marked : \A j \in marked : i <= j
<1>1. Path[cwd] \in Seq(Dirs)
  BY DirsAssumption
<1>2. marked \subseteq Nat /\ marked \subseteq DOMAIN Path[cwd] /\ DOMAIN Path[cwd] \subseteq Nat
  BY <1>1
<1>3. marked # {} /\ FindRoot(cwd) = Path[cwd][first]
  BY DEF FindRoot
<1>4. \E i \in marked : \A j \in marked : i <= j
  <2>1. \E i \in marked : \A j \in marked : ~(<<j, i>> \in OpToRel(<, Nat))
    BY <1>2, <1>3, NatLessThanWellFounded, WFMin
  <2>2. PICK i \in marked : \A j \in marked : ~(<<j, i>> \in OpToRel(<, Nat))
    BY <2>1
  <2>3. ASSUME NEW j \in marked PROVE i <= j
    <3>1. i \in Nat /\ j \in Nat
      BY <1>2, <2>2, <2>3
    <3>2. <<j, i>> \notin {ss \in Nat \X Nat : ss[1] < ss[2]}
      BY <2>2, <2>3 DEF OpToRel
    <3>3. ~(j < i)
      BY <3>1, <3>2
    <3> QED BY <3>1, <3>3
  <2> QED BY <2>3
<1>5. first \in marked /\ \A j \in marked : first <= j
  BY <1>4
<1> HIDE DEF first
<1>6. ASSUME NEW j \in DOMAIN Path[cwd], j < first
      PROVE  j \notin marked
  BY <1>2, <1>5, <1>6
<1> QED BY <1>3, <1>5, <1>6 DEF Innermost

(* ... and at no other.                                                    *)
LEMMA InnermostIsRoot ==
  ASSUME NEW cwd \in Dirs, NEW dir \in Dirs, Innermost(entries, cwd, dir)
  PROVE  FindRoot(cwd) = dir
<1> DEFINE marked == {i \in DOMAIN Path[cwd] :
                        entries[Path[cwd][i]] \cap {".snadcat", ".git", ".devcontainer"} # {}}
           first == CHOOSE i \in marked : \A j \in marked : i <= j
<1>1. Path[cwd] \in Seq(Dirs)
  BY DirsAssumption
<1>2. marked \subseteq DOMAIN Path[cwd] /\ DOMAIN Path[cwd] \subseteq Nat
  BY <1>1
<1>3. PICK i \in DOMAIN Path[cwd] :
        /\ Path[cwd][i] = dir
        /\ entries[dir] \cap {".snadcat", ".git", ".devcontainer"} # {}
        /\ \A j \in DOMAIN Path[cwd] :
             j < i => entries[Path[cwd][j]] \cap {".snadcat", ".git", ".devcontainer"} = {}
  BY DEF Innermost
<1>4. i \in marked /\ \A j \in marked : ~(j < i)
  BY <1>3
<1>5. \A j \in marked : i <= j
  BY <1>2, <1>4
<1>6. first \in marked /\ first <= i
  BY <1>4, <1>5
<1>7. first = i
  BY <1>2, <1>4, <1>6
<1>8. FindRoot(cwd) = Path[cwd][first]
  BY <1>4 DEF FindRoot
<1> HIDE DEF first
<1> QED BY <1>3, <1>7, <1>8

(* Only these steps change files.                                          *)
LEMMA FilesChange ==
  ASSUME [Next]_vars
  PROVE  \/ UNCHANGED entries
         \/ \E s \in Shells : RemoveSnadcat(s) \/ RemoveDevcontainer(s)
         \/ \E s \in Shells, dir \in Projects : Reinitialise(s, dir)
<1>1. ASSUME NEW s \in Shells, Continue(s), ~RemoveSnadcat(s), ~RemoveDevcontainer(s)
      PROVE  UNCHANGED entries
  BY <1>1 DEF Continue, EnsureSharedCacheVolumes, RunStart, RunStartFails, RunEnds, RunDown,
     ComposeUpDone, ComposeDownDone, DestroyConfirmed, DestroyDeclined, DestroyDown,
     EditorCloses, EditCompared, EditUp, CacheMeasured, CacheRemoved, Killed, Exit
<1>2. ASSUME NEW s \in Shells, BeginAny(s)
      PROVE  UNCHANGED entries
  BY <1>2, Begins DEF Begin
<1> QED BY <1>1, <1>2 DEF Next, vars

(* A removal takes its entries from the root of its destroy only.          *)
LEMMA Removes ==
  ASSUME TypeInv, NEW s \in Shells, RemoveSnadcat(s) \/ RemoveDevcontainer(s)
  PROVE  /\ job[s].verb = "destroy" /\ job[s].at \in {"snadcat", "devcontainer"}
         /\ \A d \in Dirs : entries'[d] \subseteq entries[d]
         /\ \A d \in Dirs : d # job[s].root => entries'[d] = entries[d]
         /\ RemoveSnadcat(s) =>
              \A d \in Dirs : "compose-all.yml" \in entries[d] => "compose-all.yml" \in entries'[d]
<1>1. \/ UNCHANGED entries
      \/ \E gone : entries' = [entries EXCEPT ![job[s].root] = @ \ gone]
                   /\ (RemoveSnadcat(s) => gone = {".snadcat"})
  <2>1. CASE RemoveSnadcat(s)
    BY <2>1 DEF RemoveSnadcat, Remove
  <2>2. CASE RemoveDevcontainer(s) /\ ~RemoveSnadcat(s)
    BY <2>2 DEF RemoveDevcontainer, Remove
  <2> QED BY <2>1, <2>2
<1>2. job[s].verb = "destroy" /\ job[s].at \in {"snadcat", "devcontainer"}
  BY DEF RemoveSnadcat, RemoveDevcontainer, At
<1>3. entries \in [Dirs -> SUBSET {".snadcat", ".git", ".devcontainer", "compose-all.yml"}]
  BY DEF TypeInv, FilesOK
<1> QED BY <1>1, <1>2, <1>3

(* While a destroy waits alone, the root it found stays the one to find.   *)
LEMMA StaysInnermost ==
  ASSUME TypeInv, Alone, OwnedInv, [Next]_vars, NEW r \in Shells,
         job[r].verb = "destroy", job[r].at = "prompt", job[r].root \notin contended'
  PROVE  Innermost(entries', job[r].cwd, job[r].root)
<1> DEFINE cwd == job[r].cwd
           dir == job[r].root
<1>0. /\ cwd \in Dirs /\ dir \in Dirs /\ ~Idle(r) /\ contended \subseteq contended'
      /\ entries \in [Dirs -> SUBSET {".snadcat", ".git", ".devcontainer", "compose-all.yml"}]
  BY ContendedGrows DEF TypeInv, JobsOK, Resolvable, Idle, FilesOK
<1>1. Path[cwd] \in Seq(Dirs)
  BY <1>0, DirsAssumption
<1>2. \A i \in DOMAIN Path[cwd] : Path[cwd][i] \in Dirs
  BY <1>1
<1>3. Innermost(entries, cwd, dir)
  BY <1>0 DEF OwnedInv, Owned
<1>4. (\A d \in Dirs : d \in OnPath(cwd) => entries'[d] \subseteq entries[d]) /\ entries'[dir] = entries[dir]
      => Innermost(entries', cwd, dir)
  <2> HIDE DEF cwd, dir
  <2>1. \A i \in DOMAIN Path[cwd] : Path[cwd][i] \in OnPath(cwd)
    BY DEF OnPath
  <2> QED BY <1>2, <1>3, <2>1 DEF Innermost
<1>5. ASSUME NEW s \in Shells, RemoveSnadcat(s) \/ RemoveDevcontainer(s)
      PROVE  Innermost(entries', cwd, dir)
  <2>1. s # r /\ ~Idle(s)
    BY <1>5, Removes DEF Idle
  <2>2. job[s].root # dir
    BY <1>0, <2>1, OnlyOne
  <2> QED BY <1>0, <1>4, <1>5, <2>2, Removes
<1>6. ASSUME NEW s \in Shells, NEW new \in Projects, Reinitialise(s, new)
      PROVE  Innermost(entries', cwd, dir)
  <2>1. new \notin OnPath(cwd)
    <3>1. new \in OnPath(cwd) => r \in WaitingBelow(new)
      BY DEF WaitingBelow, At
    <3> QED BY <1>6, <3>1 DEF Reinitialise
  <2>2. \A d \in Dirs : d # new => entries'[d] = entries[d]
    BY <1>0, <1>6 DEF Reinitialise
  <2>3. dir \in OnPath(cwd)
    BY <1>3 DEF Innermost, OnPath
  <2> QED BY <1>0, <1>4, <2>1, <2>2, <2>3
<1>7. CASE UNCHANGED entries
  BY <1>3, <1>7
<1> QED BY <1>5, <1>6, <1>7, FilesChange

(* What a step leaves alone of other commands.                             *)
LEMMA SetJobOwned ==
  ASSUME TypeInv, Alone, OwnedInv, [Next]_vars, NEW s \in Shells, NEW new,
         Owned(new, entries', contended'), job' = [job EXCEPT ![s] = new]
  PROVE  OwnedInv'
<1>0. JobsOK /\ contended \subseteq contended'
  BY ContendedGrows DEF TypeInv
<1>1. ASSUME NEW r \in Shells, r # s
      PROVE  Owned(job[r], entries', contended')
  <2>1. Owned(job[r], entries, contended)
    BY DEF OwnedInv
  <2> QED BY <1>0, <2>1, StaysInnermost DEF Owned
<1> QED BY <1>0, <1>1 DEF OwnedInv, JobsOK

LEMMA NoJobOwned ==
  ASSUME NEW files, NEW shared
  PROVE  Owned(NoJob, files, shared)
BY DEF Owned, NoJob

(* A command begins with a root found from where it is called.             *)
LEMMA BeginOwned ==
  ASSUME TypeInv, Alone, OwnedInv, [Next]_vars, NEW s \in Shells, BeginAny(s)
  PROVE  OwnedInv'
<1>1. ASSUME NEW verb \in Verb \ {"destroy"}, NEW at, ComposeForCwd(s, verb, at)
      PROVE  OwnedInv'
  <2>1. PICK cwd \in Cwds[s] :
          /\ FindComposeFile(cwd) # None
          /\ Begin(s, [NoJob EXCEPT !.verb = verb, !.at = at, !.root = FindComposeFile(cwd),
                                    !.file = FindComposeFile(cwd),
                                    !.seen = IF verb = "edit" THEN version[FindComposeFile(cwd)] ELSE 0])
    BY <1>1 DEF ComposeForCwd
  <2> DEFINE new == [NoJob EXCEPT !.verb = verb, !.at = at, !.root = FindComposeFile(cwd),
                                  !.file = FindComposeFile(cwd),
                                  !.seen = IF verb = "edit" THEN version[FindComposeFile(cwd)] ELSE 0]
  <2>2. \A files, shared : Owned(new, files, shared)
    BY <2>1 DEF Owned, NoJob
  <2>3. job' = [job EXCEPT ![s] = new]
    BY <2>1 DEF Begin
  <2> HIDE DEF new
  <2> QED BY <2>2, <2>3, SetJobOwned
<1>2. CASE Run(s) \/ Compose(s) \/ EditCompose(s)
  BY <1>1, <1>2 DEF Run, Compose, EditCompose, Verb
<1>3. CASE Destroy(s)
  <2>1. PICK cwd \in Cwds[s] :
          /\ FindRoot(cwd) # None
          /\ Begin(s, [NoJob EXCEPT !.verb = "destroy", !.at = "prompt", !.cwd = cwd,
                                    !.root = FindRoot(cwd)])
    BY <1>3 DEF Destroy
  <2> DEFINE new == [NoJob EXCEPT !.verb = "destroy", !.at = "prompt", !.cwd = cwd,
                                  !.root = FindRoot(cwd)]
  <2>2. Innermost(entries, cwd, FindRoot(cwd)) /\ UNCHANGED entries
    BY <2>1, DirsAssumption, RootIsInnermost DEF Begin
  <2>3. Innermost(entries', cwd, FindRoot(cwd))
    BY <2>2
  <2>4. Owned(new, entries', contended')
    BY <2>3 DEF Owned, NoJob
  <2>5. job' = [job EXCEPT ![s] = new]
    BY <2>1 DEF Begin
  <2> HIDE DEF new
  <2> QED BY <2>4, <2>5, SetJobOwned
<1>4. CASE CacheList(s)
  <2> DEFINE new == [NoJob EXCEPT !.verb = "list", !.at = "measure", !.targets = CacheVolumeNames]
  <2>1. (\A files, shared : Owned(new, files, shared)) /\ job' = [job EXCEPT ![s] = new]
    BY <1>4 DEF CacheList, Begin, Owned, NoJob
  <2> HIDE DEF new
  <2> QED BY <2>1, SetJobOwned
<1>5. CASE CacheRm(s)
  <2>1. PICK targets, force :
          job' = [job EXCEPT ![s] = [NoJob EXCEPT !.verb = "rm", !.at = "prompt",
                                                  !.targets = targets, !.force = force]]
    BY <1>5 DEF CacheRm, Begin
  <2> DEFINE new == [NoJob EXCEPT !.verb = "rm", !.at = "prompt", !.targets = targets,
                                  !.force = force]
  <2>2. \A files, shared : Owned(new, files, shared)
    BY DEF Owned, NoJob
  <2> HIDE DEF new
  <2> QED BY <2>1, <2>2, SetJobOwned DEF new
<1> QED BY <1>2, <1>3, <1>4, <1>5 DEF BeginAny

LEMMA MoveOwned ==
  ASSUME TypeInv, Alone, OwnedInv, [Next]_vars, NEW s \in Shells,
         job[s].at \notin {"idle", "exit"},
         NEW at \in Phase \ {"prompt"}, NEW failed \in BOOLEAN,
         \/ Go(s, at)
         \/ job' = [job EXCEPT ![s].at = at, ![s].failed = failed]
  PROVE  OwnedInv'
<1>0. /\ JobsOK /\ job[s] \in Job /\ Owned(job[s], entries, contended)
      /\ contended \subseteq contended'
  BY ContendedGrows DEF TypeInv, OwnedInv, JobsOK
<1> DEFINE new(f) == [job[s] EXCEPT !.at = at, !.failed = f]
<1>1. \A f \in BOOLEAN : /\ new(f).at = at /\ new(f).verb = job[s].verb
                         /\ new(f).file = job[s].file /\ new(f).root = job[s].root
                         /\ new(f).cwd = job[s].cwd
  BY <1>0 DEF Job
<1>2. \E f \in BOOLEAN : job' = [job EXCEPT ![s] = new(f)]
  <2>1. CASE Go(s, at)
    <3>1. job[s].failed \in BOOLEAN /\ [job[s] EXCEPT !.at = at] = new(job[s].failed)
      BY <1>0 DEF Job
    <3>2. job' = [job EXCEPT ![s] = new(job[s].failed)]
      BY <1>0, <2>1, <3>1 DEF Go, JobsOK
    <3> QED BY <3>1, <3>2
  <2>2. CASE job' = [job EXCEPT ![s].at = at, ![s].failed = failed]
    <3>1. job' = [job EXCEPT ![s] = new(failed)]
      BY <1>0, <2>2 DEF JobsOK
    <3> QED BY <3>1
  <2> QED BY <2>1, <2>2
<1> HIDE DEF new
<1>3. \A f \in BOOLEAN : Owned(new(f), entries', contended')
  BY <1>0, <1>1 DEF Owned
<1>4. PICK f \in BOOLEAN : job' = [job EXCEPT ![s] = new(f)]
  BY <1>2
<1> QED BY <1>3, <1>4, SetJobOwned

LEMMA EndOwned ==
  ASSUME TypeInv, Alone, OwnedInv, [Next]_vars, NEW s \in Shells, NEW r \in Result, End(s, r)
  PROVE  OwnedInv'
<1> DEFINE left == [NoJob EXCEPT !.verb = job[s].verb, !.at = "exit", !.root = job[s].root,
                                 !.result = r]
<1>1. Owned(left, entries', contended')
  BY DEF Owned, NoJob
<1>2. job' = [job EXCEPT ![s] = left]
  BY DEF End
<1> HIDE DEF left
<1> QED BY <1>1, <1>2, SetJobOwned

(* A second search that ends elsewhere does so in a contended project.     *)
LEMMA ConfirmedOwned ==
  ASSUME TypeInv, Alone, OwnedInv, [Next]_vars, NEW s \in Shells, DestroyConfirmed(s)
  PROVE  OwnedInv'
<1>0. /\ JobsOK /\ job[s] \in Job /\ Owned(job[s], entries, contended)
      /\ job[s].cwd \in Dirs /\ job[s].root \in Dirs
      /\ job[s].verb = "destroy" /\ job[s].at = "prompt"
  BY DEF TypeInv, OwnedInv, JobsOK, Resolvable, DestroyConfirmed, At
<1> DEFINE file == FindComposeFile(job[s].cwd)
<1>1. CASE file = None
  BY <1>1, EndOwned DEF DestroyConfirmed, Result
<1>2. CASE file # None
  <2> DEFINE new == [job[s] EXCEPT !.at = "down", !.file = file]
  <2>1. file = FindRoot(job[s].cwd) /\ FindRoot(job[s].cwd) # None
    BY <1>2 DEF FindComposeFile, HasComposeFile
  <2>2. job[s].root \notin contended => file = job[s].root
    BY <1>0, <2>1, InnermostIsRoot DEF Owned
  <2>3. file \in OnPath(job[s].cwd)
    BY <1>0, <2>1, RootIsInnermost DEF Innermost, OnPath
  <2>4. /\ new.file = file /\ new.root = job[s].root /\ new.cwd = job[s].cwd
        /\ new.verb = "destroy" /\ new.at = "down"
    BY <1>0 DEF Job
  <2>5. job' = [job EXCEPT ![s] = new] /\ UNCHANGED contended
    BY <1>0, <1>2 DEF DestroyConfirmed, JobsOK
  <2> HIDE DEF new, file
  <2>6. Owned(new, entries', contended')
    BY <2>2, <2>3, <2>4, <2>5 DEF Owned
  <2> QED BY <2>5, <2>6, SetJobOwned
<1> QED BY <1>1, <1>2

LEMMA ContinueOwned ==
  ASSUME TypeInv, Alone, OwnedInv, [Next]_vars, NEW s \in Shells, Continue(s)
  PROVE  OwnedInv'
<1> USE DEF Phase, Result, ChildExit, At
<1>1. CASE EnsureSharedCacheVolumes(s)
  BY <1>1, MoveOwned DEF EnsureSharedCacheVolumes
<1>2. CASE RunStart(s) \/ RunStartFails(s) \/ RunEnds(s)
  <2>1. CASE RunStart(s)
    BY <2>1, MoveOwned DEF RunStart
  <2>2. CASE RunStartFails(s)
    BY <2>2, MoveOwned DEF RunStartFails
  <2>3. CASE RunEnds(s)
    <3>1. PICK failed \in BOOLEAN : job' = [job EXCEPT ![s].at = "down", ![s].failed = failed]
      BY <2>3 DEF RunEnds
    <3>2. job[s].at = "inside"
      BY <2>3 DEF RunEnds
    <3> QED BY <3>1, <3>2, MoveOwned
  <2> QED BY <1>2, <2>1, <2>2, <2>3
<1>3. CASE RunDown(s) \/ ComposeUpDone(s) \/ ComposeDownDone(s) \/ DestroyDeclined(s)
  BY <1>3, EndOwned DEF RunDown, ComposeUpDone, ComposeDownDone, DestroyDeclined
<1>4. CASE DestroyConfirmed(s)
  BY <1>4, ConfirmedOwned
<1>5. CASE DestroyDown(s) \/ RemoveSnadcat(s)
  BY <1>5, MoveOwned, EndOwned DEF DestroyDown, RemoveSnadcat
<1>6. CASE RemoveDevcontainer(s) \/ CacheMeasured(s) \/ CacheRemoved(s) \/ EditUp(s) \/ Killed(s)
  BY <1>6, EndOwned DEF RemoveDevcontainer, CacheMeasured, CacheRemoved, EditUp, Killed
<1>7. CASE EditorCloses(s) \/ EditCompared(s)
  BY <1>7, MoveOwned, EndOwned DEF EditorCloses, EditCompared
<1>8. CASE Exit(s)
  BY <1>8, NoJobOwned, SetJobOwned DEF Exit
<1> QED BY <1>1, <1>2, <1>3, <1>4, <1>5, <1>6, <1>7, <1>8 DEF Continue

LEMMA NextOwned ==
  ASSUME TypeInv, Alone, OwnedInv, [Next]_vars
  PROVE  OwnedInv'
<1>1. ASSUME UNCHANGED job, NEW r \in Shells
      PROVE  Owned(job[r], entries', contended')
  <2>1. Owned(job[r], entries, contended) /\ contended \subseteq contended'
    BY ContendedGrows DEF OwnedInv
  <2> QED BY <2>1, StaysInnermost DEF Owned
<1>2. UNCHANGED job => OwnedInv'
  BY <1>1 DEF OwnedInv
<1> QED BY <1>2, BeginOwned, ContinueOwned DEF Next, Reinitialise, vars

(* Compose takes containers and volumes away from projects of the name it  *)
(* is called for only.                                                     *)
LEMMA ComposeLoses ==
  ASSUME NEW d \in Dirs, NEW dir \in Dirs, NEW s, LosesSandbox(d),
         \/ ComposeUp(dir) \/ ComposeRun(dir, s)
         \/ \E withVolumes \in BOOLEAN : ComposeDown(dir, withVolumes)
         \/ ComposeDownFails(dir)
         \/ /\ \E own \in SUBSET ContainersOf(dir) : containers' = containers \ own
            /\ UNCHANGED volumes
  PROVE  DeriveName(d) = DeriveName(dir)
<1>1. containers \ ContainersOf(dir) \subseteq containers'
  BY DEF ComposeUp, ComposeRun, ComposeDown, ComposeDownFails, ContainersOf
<1>2. volumes \ {DeriveName(dir)} \subseteq volumes'
  BY DEF ComposeUp, ComposeRun, ComposeDown, ComposeDownFails
<1>3. ContainersOf(d) \cap ContainersOf(dir) # {} \/ DeriveName(d) = DeriveName(dir)
  BY <1>1, <1>2 DEF LosesSandbox, ContainersOf
<1> QED BY <1>3 DEF ContainersOf

LEMMA KeptLosesNothing ==
  ASSUME NEW d \in Dirs, UNCHANGED <<containers, volumes>>
  PROVE  ~LosesSandbox(d)
BY DEF LosesSandbox, ContainersOf

(* What a step of a command takes away is its own project's.               *)
LEMMA ContinueLoses ==
  ASSUME TypeInv, OwnedInv, NEW s \in Shells, Continue(s), NEW d \in Dirs, LosesSandbox(d)
  PROVE  WorksFor(s, d) \/ MayHaveStrayed(s, d)
<1> USE DEF At
<1>0. /\ Owned(job[s], entries, contended) /\ job[s] \in Job /\ job[s].file \in Dirs \cup {None}
      /\ job[s].verb # "destroy" /\ job[s].file # None => job[s].file = job[s].root
  BY DEF TypeInv, JobsOK, OwnedInv, Owned, Job
<1>1. /\ ~EnsureSharedCacheVolumes(s) /\ ~DestroyConfirmed(s) /\ ~DestroyDeclined(s)
      /\ ~EditorCloses(s) /\ ~EditCompared(s) /\ ~CacheMeasured(s) /\ ~CacheRemoved(s)
      /\ ~RemoveSnadcat(s) /\ ~RemoveDevcontainer(s) /\ ~Killed(s) /\ ~Exit(s)
  BY KeptLosesNothing DEF EnsureSharedCacheVolumes, DestroyConfirmed, DestroyDeclined,
     EditorCloses, EditCompared, CacheMeasured, CacheRemoved, RemoveSnadcat, RemoveDevcontainer,
     Killed, Exit
<1>2. CASE RunStart(s) \/ RunStartFails(s)
  <2>1. /\ HasComposeFile(job[s].file) /\ ~Idle(s) /\ job[s].verb = "run"
        /\ ComposeUp(job[s].file) \/ ComposeRun(job[s].file, s)
    BY <1>2, KeptLosesNothing DEF RunStart, RunStartFails, CanStart, ComposeUpFails, Idle
  <2>2. job[s].file \in Dirs /\ job[s].file = job[s].root
    BY <1>0, <2>1 DEF HasComposeFile
  <2> QED BY <2>1, <2>2, ComposeLoses DEF WorksFor
<1>3. CASE RunEnds(s)
  <2>1. job[s].file \in Dirs /\ job[s].file = job[s].root
    BY <1>0, <1>3 DEF RunEnds, Owned
  <2>2. /\ \E own \in SUBSET ContainersOf(job[s].file) : containers' = containers \ own
        /\ UNCHANGED volumes /\ ~Idle(s)
    BY <1>3 DEF RunEnds, Idle
  <2> QED BY <2>1, <2>2, ComposeLoses DEF WorksFor
<1>4. CASE RunDown(s) \/ ComposeDownDone(s) \/ DestroyDown(s)
  <2>1. /\ ~Idle(s) /\ (job[s].verb = "destroy" => job[s].at = "down")
        /\ \/ /\ HasComposeFile(job[s].file)
              /\ \E withVolumes \in BOOLEAN : ComposeDown(job[s].file, withVolumes)
           \/ ComposeDownFails(job[s].file)
    BY <1>4 DEF RunDown, ComposeDownDone, DestroyDown, Idle
  <2>2. HasComposeFile(job[s].file)
    BY <2>1, KeptLosesNothing DEF ComposeDownFails
  <2>3. job[s].file \in Dirs /\ job[s].file # None
    BY <1>0, <2>2 DEF HasComposeFile
  <2>4. DeriveName(d) = DeriveName(job[s].file)
    BY <2>1, <2>3, ComposeLoses
  <2>5. CASE job[s].file = job[s].root
    BY <2>1, <2>3, <2>4, <2>5 DEF WorksFor
  <2>6. CASE job[s].file # job[s].root
    <3>1. job[s].verb = "destroy" /\ job[s].root \in contended /\ job[s].file \in OnPath(job[s].cwd)
      BY <1>0, <2>3, <2>6 DEF Owned
    <3> QED BY <2>1, <2>4, <3>1 DEF MayHaveStrayed
  <2> QED BY <2>5, <2>6
<1>5. CASE ComposeUpDone(s) \/ EditUp(s)
  <2>1. /\ HasComposeFile(job[s].file) /\ ~Idle(s) /\ job[s].verb # "destroy"
        /\ ComposeUp(job[s].file)
    BY <1>5, KeptLosesNothing DEF ComposeUpDone, EditUp, CanStart, ComposeUpFails, Idle
  <2>2. job[s].file \in Dirs /\ job[s].file = job[s].root
    BY <1>0, <2>1 DEF HasComposeFile
  <2> QED BY <2>1, <2>2, ComposeLoses DEF WorksFor
<1> QED BY <1>1, <1>2, <1>3, <1>4, <1>5 DEF Continue

CommandsInv == TypeInv /\ Alone /\ OwnedInv

LEMMA CommandsInductive ==
  /\ Init => CommandsInv
  /\ CommandsInv /\ [Next]_vars => CommandsInv'
<1>1. ASSUME Init PROVE CommandsInv
  <2>1. Alone
    BY <1>1 DEF Init, Alone, Idle, NoJob
  <2>2. OwnedInv
    BY <1>1, NoJobOwned DEF Init, OwnedInv
  <2> QED BY <1>1, <2>1, <2>2, InitType DEF CommandsInv
<1>2. ASSUME CommandsInv, [Next]_vars PROVE CommandsInv'
  BY <1>2, NextType, NextAlone, NextOwned DEF CommandsInv
<1> QED BY <1>1, <1>2

(* However projects are nested and named, with and without a .git of their *)
(* own, a step removes files of a project only for a destroy called in it, *)
(* and takes containers or volumes only of projects named as the one its   *)
(* command was called in.  The one exception is named in the statement:    *)
(* the down of a destroy in a project that two commands have worked in at  *)
(* once, or on whose path init ran while it waited; it may reach another   *)
(* directory of its path (simple.go, passthrough.go).                      *)
THEOREM OwnProjectKept == Spec => OwnProject
<1>1. ASSUME CommandsInv, [Next]_vars, NEW d \in Dirs, LosesFiles(d)
      PROVE  \E s \in Shells : ~Idle(s) /\ job[s].verb = "destroy" /\ job[s].root = d
  <2>1. ~UNCHANGED entries
    BY <1>1 DEF LosesFiles
  <2>2. \A s \in Shells, dir \in Projects : ~Reinitialise(s, dir)
    BY <1>1 DEF Reinitialise, LosesFiles, CommandsInv, TypeInv, FilesOK
  <2>3. PICK s \in Shells : RemoveSnadcat(s) \/ RemoveDevcontainer(s)
    BY <1>1, <2>1, <2>2, FilesChange
  <2> QED BY <1>1, <2>3, Removes DEF LosesFiles, CommandsInv, Idle
<1>2. ASSUME CommandsInv, [Next]_vars, NEW d \in Dirs, LosesSandbox(d)
      PROVE  \E s \in Shells : WorksFor(s, d) \/ MayHaveStrayed(s, d)
  <2>1. ~UNCHANGED dockerVars
    BY <1>2, KeptLosesNothing
  <2>2. PICK s \in Shells : Continue(s)
    BY <1>2, <2>1, OthersKeepDocker DEF Next, vars
  <2> QED BY <1>2, <2>2, ContinueLoses DEF CommandsInv
<1>3. CommandsInv /\ [Next]_vars =>
        [\A d \in Dirs :
           /\ LosesFiles(d) =>
                \E s \in Shells : ~Idle(s) /\ job[s].verb = "destroy" /\ job[s].root = d
           /\ LosesSandbox(d) =>
                \E s \in Shells : WorksFor(s, d) \/ MayHaveStrayed(s, d)]_vars
  BY <1>1, <1>2
<1> QED BY <1>3, CommandsInductive, PTL DEF Spec, OwnProject

(***************************************************************************)
(* Nothing outlives its compose file                                       *)
(***************************************************************************)

(* A destroy that removes files, after its down.                           *)
Removing(s, dir) ==
  job[s].verb = "destroy" /\ job[s].at \in {"snadcat", "devcontainer"} /\ job[s].root = dir

Reachable(dir) ==
  dir \in contended \/ (HasComposeFile(dir) /\ \A s \in Shells : ~Removing(s, dir))

Occupied(dir) == ContainersOf(dir) # {} \/ DeriveName(dir) \in volumes

(* What docker holds under a name belongs to a compose file that no        *)
(* destroy is about to remove: NoOrphans, made inductive.                  *)
Reached ==
  \A d \in Dirs :
    Occupied(d) => \E e \in Dirs : DeriveName(e) = DeriveName(d) /\ Reachable(e)

(* Only the down of a destroy lets it go on to remove files, and it leaves *)
(* nothing of the name in docker, unless it went to another directory.     *)
LEMMA BeginsRemoving ==
  ASSUME CommandsInv, NEW s \in Shells, Continue(s), NEW e \in Dirs \ contended,
         ~Removing(s, e), Removing(s, e)'
  PROVE  ~Occupied(e)'
<1>0. JobsOK /\ Owned(job[s], entries, contended)
  BY DEF CommandsInv, TypeInv, OwnedInv
<1>1. job[s].root = e /\ job[s].verb = "destroy"
  <2>1. PICK new : job' = [job EXCEPT ![s] = new] /\ (new.at = "idle" \/ new.root = job[s].root)
    BY Continues DEF Follows, CommandsInv
  <2>2. job[s].at # "exit"
    BY <1>0, ExitOnly DEF Exit, NoJob, JobsOK, Removing
  <2> QED BY <1>0, <2>1, <2>2, SameVerb DEF JobsOK, Removing, CommandsInv
<1>2. DestroyDown(s)
  <2>1. /\ ~DestroyDeclined(s) /\ ~RemoveDevcontainer(s) /\ ~Killed(s)
        /\ ~DestroyConfirmed(s) /\ ~Exit(s)
    BY <1>0, EndStatus DEF DestroyDeclined, RemoveDevcontainer, Killed, DestroyConfirmed, Exit,
       NoJob, JobsOK, Job, Removing, CommandsInv
  <2>2. ~RemoveSnadcat(s)
    BY <1>1 DEF RemoveSnadcat, At, Removing
  <2> QED BY <1>1, <2>1, <2>2 DEF Continue, EnsureSharedCacheVolumes, RunStart, RunStartFails,
       RunEnds, RunDown, ComposeUpDone, ComposeDownDone, EditorCloses, EditCompared, EditUp,
       CacheMeasured, CacheRemoved, At
<1>3. HasComposeFile(job[s].file) /\ ComposeDown(job[s].file, TRUE)
  BY <1>2, EndStatus DEF DestroyDown, ChildExit, Removing, CommandsInv
<1>4. job[s].file = e
  BY <1>0, <1>1, <1>3 DEF HasComposeFile, Owned
<1> QED BY <1>3, <1>4 DEF ComposeDown, ContainersOf, Occupied

(* What reaches a sandbox goes on to do so while there is something left.  *)
LEMMA ReachableKept ==
  ASSUME CommandsInv, [Next]_vars, NEW e \in Dirs, Reachable(e), Occupied(e)'
  PROVE  Reachable(e)'
<1>0. JobsOK /\ FilesOK /\ contended \subseteq contended' /\ e # None
  BY ContendedGrows, DirsAssumption DEF CommandsInv, TypeInv
<1>1. CASE e \in contended
  BY <1>0, <1>1 DEF Reachable
<1>2. CASE e \notin contended
  <2>1. HasComposeFile(e) /\ \A s \in Shells : ~Removing(s, e)
    BY <1>2 DEF Reachable
  <2>2. HasComposeFile(e)'
    <3>1. CASE UNCHANGED entries
      BY <2>1, <3>1 DEF HasComposeFile
    <3>2. ASSUME NEW s \in Shells, RemoveSnadcat(s) \/ RemoveDevcontainer(s)
          PROVE  HasComposeFile(e)'
      <4>1. job[s].root # e
        BY <2>1, <3>2, Removes DEF Removing, CommandsInv
      <4> QED BY <2>1, <3>2, <4>1, Removes DEF HasComposeFile, CommandsInv
    <3>3. ASSUME NEW s \in Shells, NEW dir \in Projects, Reinitialise(s, dir)
          PROVE  HasComposeFile(e)'
      BY <1>0, <2>1, <3>3 DEF Reinitialise, HasComposeFile, FilesOK
    <3> QED BY <3>1, <3>2, <3>3, FilesChange
  <2>3. ASSUME NEW s \in Shells, Removing(s, e)'
        PROVE  FALSE
    <3>1. ~Continue(s)
      BY <1>2, <2>1, <2>3, BeginsRemoving
    <3>2. job'[s] = job[s]
      <4>1. ASSUME NEW r \in Shells, BeginAny(r)
            PROVE  job'[s] = job[s]
        <5>1. PICK new : job' = [job EXCEPT ![r] = new] /\ new.at \notin {"snadcat", "devcontainer"}
          BY <4>1, Begins DEF Begin
        <5> QED BY <1>0, <2>3, <5>1 DEF JobsOK, Removing
      <4>2. ASSUME NEW r \in Shells, Continue(r)
            PROVE  job'[s] = job[s]
        <5>1. r # s
          BY <3>1, <4>2
        <5>2. PICK new : job' = [job EXCEPT ![r] = new]
          BY <4>2, Continues DEF Follows, CommandsInv
        <5> QED BY <1>0, <5>1, <5>2 DEF JobsOK
      <4> QED BY <4>1, <4>2 DEF Next, Reinitialise, vars
    <3> QED BY <2>1, <2>3, <3>2 DEF Removing
  <2> QED BY <2>2, <2>3 DEF Reachable
<1> QED BY <1>1, <1>2

(* What brings a sandbox up has its compose file, and no destroy removes it*)
(* while only one command works in the project.                            *)
LEMMA StartedReachable ==
  ASSUME CommandsInv, [Next]_vars, NEW s \in Shells, Starts(s)
  PROVE  job[s].file \in Dirs /\ Reachable(job[s].file)
<1>1. job[s].file \in Dirs /\ job[s].file = job[s].root /\ HasComposeFile(job[s].file)
  BY DirsAssumption DEF Starts, CanStart, CommandsInv, OwnedInv, Owned
<1>2. ASSUME NEW r \in Shells, Removing(r, job[s].file), job[s].file \notin contended
      PROVE  FALSE
  <2>1. ~Idle(r) /\ ~Idle(s) /\ job[r].root = job[s].root
    BY <1>1, <1>2 DEF Removing, Idle, Starts
  <2>2. r = s
    BY <1>1, <1>2, <2>1, OnlyOne DEF CommandsInv
  <2> QED BY <1>2, <2>2 DEF Removing, Starts
<1> QED BY <1>1, <1>2 DEF Reachable

LEMMA NextReached ==
  ASSUME CommandsInv, Reached, [Next]_vars
  PROVE  Reached'
<1> SUFFICES ASSUME NEW d \in Dirs, Occupied(d)'
             PROVE  \E e \in Dirs : DeriveName(e) = DeriveName(d) /\ Reachable(e)'
  BY DEF Reached, DeriveName
<1>1. ASSUME NEW e \in Dirs, DeriveName(e) = DeriveName(d), Reachable(e)
      PROVE  \E f \in Dirs : DeriveName(f) = DeriveName(d) /\ Reachable(f)'
  <2>1. Occupied(e)'
    BY <1>1 DEF Occupied, ContainersOf, DeriveName
  <2> QED BY <1>1, <2>1, ReachableKept
<1>2. CASE Occupied(d)
  BY <1>1, <1>2 DEF Reached
<1>3. ASSUME NEW s \in Shells, Starts(s), ~Occupied(d)
      PROVE  \E e \in Dirs : DeriveName(e) = DeriveName(d) /\ Reachable(e)
  <2>1. DeriveName(job[s].file) = DeriveName(d)
    BY <1>3, StartsOnly DEF Occupied
  <2> QED BY <1>3, <2>1, StartedReachable
<1>4. OnlyStops \/ UNCHANGED dockerVars => Occupied(d)
  BY DEF OnlyStops, ContainersOf, Occupied
<1> QED BY <1>1, <1>2, <1>3, <1>4, ContinueStarts, OthersKeepDocker DEF Next, vars, CommandsInv

(* Where no two commands have been at work in a project at once, nothing   *)
(* in docker outlives the compose file it is reached by, at whichever step *)
(* destroy fails, is killed or ends, whatever happens in other projects,   *)
(* nested ones and ones of the same name included (simple.go).             *)
THEOREM NothingOrphaned == Spec => []NoOrphans
<1>1. Init => Reached
  BY DEF Init, Reached, Occupied, ContainersOf
<1>2. Reached => NoOrphans
  BY DEF Reached, Reachable, Occupied, NoOrphans
<1> QED BY <1>1, <1>2, CommandsInductive, NextReached, PTL DEF Spec

(***************************************************************************)
(* Shared caches                                                           *)
(***************************************************************************)

LEMMA NextMounted ==
  ASSUME \A d, e \in Projects : Base[d] = Base[e] => CachesOf[d] = CachesOf[e],
         TypeInv, MountedKept, [Next]_vars
  PROVE  MountedKept'
<1> SUFFICES ASSUME NEW d \in Projects, ContainersOf(d)' # {}, NEW c \in CachesOf[d]
             PROVE  c \in caches'
  BY DEF MountedKept
<1>1. CASE ContainersOf(d) # {} /\ caches \subseteq caches'
  BY <1>1 DEF MountedKept
<1>2. ASSUME NEW s \in Shells, Starts(s)
      PROVE  c \in caches'
  <2>1. CASE DeriveName(d) = DeriveName(job[s].file)
    <3>1. job[s].file \in Projects /\ CachesOf[job[s].file] \subseteq caches
      BY <1>2 DEF Starts, CanStart, TypeInv, FilesOK
    <3>2. CachesOf[d] = CachesOf[job[s].file]
      BY <2>1, <3>1 DEF DeriveName
    <3> QED BY <1>2, <3>1, <3>2, StartsOnly
  <2>2. CASE DeriveName(d) # DeriveName(job[s].file)
    BY <1>1, <1>2, <2>2, StartsOnly
  <2> QED BY <2>1, <2>2
<1>3. ASSUME NEW s \in Shells, CacheRemoved(s)
      PROVE  c \in caches'
  <2>1. ContainersOf(d) # {} /\ c \in caches
    BY <1>3 DEF CacheRemoved, ContainersOf, MountedKept
  <2>2. CacheVolumeContainers(c) # {}
    BY <2>1 DEF CacheVolumeContainers, ContainersOf
  <2> QED BY <1>3, <2>1, <2>2 DEF CacheRemoved
<1>4. OnlyStops => ContainersOf(d) # {}
  BY DEF OnlyStops, ContainersOf
<1>5. UNCHANGED dockerVars => ContainersOf(d) # {} /\ caches \subseteq caches'
  BY DEF ContainersOf
<1> QED BY <1>1, <1>2, <1>3, <1>4, <1>5, ContinueStarts, OthersKeepDocker DEF Next, vars

(* No command takes a shared cache from a running sandbox, whatever others *)
(* start between the check or the prompt of a cache rm and its docker      *)
(* volume rm; projects that docker cannot tell apart by name must declare  *)
(* the same caches (cache.go, passthrough.go).                             *)
THEOREM CachesStayMounted ==
  ASSUME \A d, e \in Projects : Base[d] = Base[e] => CachesOf[d] = CachesOf[e]
  PROVE  Spec => []MountedKept
<1>1. Init => MountedKept
  BY DEF Init, MountedKept, ContainersOf
<1>2. TypeInv /\ MountedKept /\ [Next]_vars => MountedKept'
  BY NextMounted
<1> QED BY <1>1, <1>2, InitType, NextType, PTL DEF Spec

(***************************************************************************)
(* The exit status of run and of edit compose                              *)
(***************************************************************************)

(* A run exits with 0 only when its command has and nothing of the project *)
(* is left: the status of the down that follows is not lost, nor does a    *)
(* down that succeeds hide the failure of the command (passthrough.go).    *)
THEOREM RunTellsFailure == Spec => RunReports
<1>1. ASSUME TypeInv, [Next]_vars, NEW s \in Shells, NEW d \in Dirs, job[s].file = d,
             job[s].at # "exit", At(s, "run", "exit")', job'[s].result = "ok"
      PROVE  ~job[s].failed /\ ContainersOf(d)' = {}
  <2>1. Continue(s) /\ job[s].verb = "run"
    BY <1>1, EndsItself, SameVerb DEF At
  <2>2. ~Killed(s) /\ ~Exit(s)
    BY <1>1, EndStatus DEF Killed, Exit
  <2>3. /\ ~EnsureSharedCacheVolumes(s) /\ ~RunStart(s) /\ ~RunStartFails(s) /\ ~RunEnds(s)
    BY <1>1, EndStatus DEF EnsureSharedCacheVolumes, RunStart, RunStartFails, RunEnds, At, TypeInv, JobsOK, Job
  <2>4. RunDown(s)
    BY <2>1, <2>2, <2>3 DEF Continue, ComposeUpDone, ComposeDownDone, DestroyConfirmed,
       DestroyDeclined, DestroyDown, RemoveSnadcat, RemoveDevcontainer, EditorCloses, EditCompared,
       EditUp, CacheMeasured, CacheRemoved, At
  <2>5. ComposeDown(d, FALSE) /\ ChildExit(s, job[s].failed)
    <3>1. ~ChildExit(s, TRUE)
      <4>1. ChildExit(s, TRUE) => End(s, "failed")
        BY DEF ChildExit
      <4>2. TypeInv
        BY <1>1
      <4>3. End(s, "failed") => job'[s].result = "failed"
        BY <4>2, EndStatus
      <4> QED BY <1>1, <4>1, <4>3
    <3> QED BY <1>1, <2>4, <3>1 DEF RunDown
  <2>6. End(s, IF job[s].failed THEN "failed" ELSE "ok")
    BY <2>5 DEF ChildExit
  <2>7. ASSUME job[s].failed PROVE FALSE
    <3>1. End(s, "failed")
      BY <2>6, <2>7
    <3> QED BY <1>1, <3>1, EndStatus
  <2> QED BY <2>5, <2>7 DEF ComposeDown, ContainersOf
<1>2. TypeInv /\ [Next]_vars =>
        [\A s \in Shells, d \in Dirs :
           job[s].file = d /\ job[s].at # "exit" /\ At(s, "run", "exit")' /\ job'[s].result = "ok" =>
             ~job[s].failed /\ ContainersOf(d)' = {}]_vars
  BY <1>1
<1> QED BY <1>2, InitType, NextType, PTL DEF Spec, RunReports

(* When edit compose succeeds and neither finds the file unchanged nor is  *)
(* told not to restart, no service of the project runs an older version of *)
(* the file, whatever other shells did between the editor, the question    *)
(* and the up; docker must be able to tell what is running (simple.go).    *)
THEOREM EditReachesServices ==
  ASSUME "ps" \notin Faults
  PROVE  Spec => EditApplied
<1>1. ASSUME TypeInv, [Next]_vars, NEW s \in Shells, NEW d \in Dirs, job[s].file = d,
             job[s].at # "exit", At(s, "edit", "exit")', job'[s].result = "ok",
             NEW c \in ContainersOf(d)', c.owner = "stack"
      PROVE  c.version = version[d]
  <2>1. Continue(s) /\ job[s].verb = "edit"
    BY <1>1, EndsItself, SameVerb DEF At
  <2>2. ~Killed(s) /\ ~Exit(s) /\ ~EditorCloses(s)
    BY <1>1, EndStatus DEF Killed, Exit, EditorCloses, At
  <2>3. EditCompared(s) \/ EditUp(s)
    BY <2>1, <2>2 DEF Continue, EnsureSharedCacheVolumes, RunStart, RunStartFails, RunEnds, RunDown,
       ComposeUpDone, ComposeDownDone, DestroyConfirmed, DestroyDeclined, DestroyDown,
       RemoveSnadcat, RemoveDevcontainer, CacheMeasured, CacheRemoved, At
  <2>4. CASE EditCompared(s)
    <3>1. RunningServices(d) = {} /\ UNCHANGED containers
      BY <1>1, <2>4, EndStatus DEF EditCompared, At
    <3> QED BY <1>1, <3>1 DEF RunningServices, ContainersOf
  <2>5. CASE EditUp(s)
    <3>1. ComposeUp(d)
      BY <1>1, <2>5, EndStatus DEF EditUp, ChildExit
    <3> QED BY <1>1, <3>1 DEF ComposeUp, ContainersOf, Stack
  <2> QED BY <2>3, <2>4, <2>5
<1>2. TypeInv /\ [Next]_vars =>
        [\A s \in Shells, d \in Dirs :
           job[s].file = d /\ job[s].at # "exit" /\ At(s, "edit", "exit")' /\ job'[s].result = "ok" =>
             \A c \in ContainersOf(d)' : c.owner = "stack" => c.version = version[d]]_vars
  BY <1>1
<1> QED BY <1>2, InitType, NextType, PTL DEF Spec, EditApplied
=============================================================================
