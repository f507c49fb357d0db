---------------------------- MODULE ProjectCommands ----------------------------
(***************************************************************************)
(* The commands that work on an initialised project, from several shells   *)
(* and in projects that may be nested: run, compose, destroy, edit compose,*)
(* cache list and cache rm.  Docker is external: what compose run, up and  *)
(* down and volume create, ls and rm do to containers and volumes.         *)
(*                                                                         *)
(* A command is resolved from a working directory and then goes through    *)
(* the phases at of its job, one for each docker invocation or removal;    *)
(* between two of them other shells go on.                                 *)
(***************************************************************************)
EXTENDS Integers, Sequences, FiniteSets

CONSTANTS
  Shells,    (* terminals                                                 *)
  Dirs,      (* directories that commands are run in                      *)
  None,      (* no directory                                              *)
  Path,      (* directory -> itself and those above it, innermost first   *)
  Repos,     (* directories with a .git                                   *)
  Projects,  (* directories that are initialised                          *)
  Base,      (* directory -> its last path element                        *)
  CachesOf,  (* directory -> shared caches its compose file declares      *)
  Cwds,      (* shell -> directories it runs commands in                  *)
  Verbs,     (* shell -> commands it runs; "init", "kill" (it is closed)   *)
  MaxEdits,  (* bound on the versions of a compose file                   *)
  Faults     (* "docker", "disk", "ps"                            *)

ASSUME DirsAssumption ==
  /\ None \notin Dirs
  /\ Repos \subseteq Dirs /\ Projects \subseteq Dirs
  /\ Path \in [Dirs -> Seq(Dirs)]
  /\ Cwds \in [Shells -> SUBSET Dirs]
  /\ "stack" \notin Shells
  /\ MaxEdits \in Nat

VARIABLES
  entries,     (* directory -> what of the project it holds               *)
  version,     (* directory -> version of its compose-all.yml             *)
  containers,  (* the containers that run                                 *)
  volumes,     (* compose projects whose own named volumes exist          *)
  caches,      (* shared cache volumes that exist                         *)
  labelled,    (* those of them that carry the label                      *)
  job,         (* shell -> its command, or how the last one ended         *)
  contended    (* history: directories two commands have worked on at once,*)
               (* or whose destroy waited while init ran on its path      *)

dockerVars == <<containers, volumes, caches, labelled>>
fileVars   == <<entries, version>>
vars == <<entries, version, containers, volumes, caches, labelled, job, contended>>

AllCaches == UNION {CachesOf[d] : d \in Projects}

(* The default name of the compose project.                                *)
DeriveName(dir) == Base[dir]

(***************************************************************************)
(* Finding the project                                                     *)
(***************************************************************************)

OnPath(cwd) == {Path[cwd][i] : i \in DOMAIN Path[cwd]}

(* The innermost directory, from cwd upwards, with one of the markers.     *)
FindRoot(cwd) ==
  LET marked == {i \in DOMAIN Path[cwd] :
                   entries[Path[cwd][i]] \cap {".snadcat", ".git", ".devcontainer"} # {}}
  IN  IF marked = {} THEN None
      ELSE Path[cwd][CHOOSE i \in marked : \A j \in marked : i <= j]

HasComposeFile(dir) == dir # None /\ "compose-all.yml" \in entries[dir]

(* Mutant: the search goes on where the root has no compose file.          *)
FindComposeFileAbove(cwd) ==
  LET having == {i \in DOMAIN Path[cwd] : HasComposeFile(Path[cwd][i])}
  IN  IF having = {} THEN None
      ELSE Path[cwd][CHOOSE i \in having : \A j \in having : i <= j]

(* The directory whose compose file is used.                               *)
FindComposeFile(cwd) ==
  IF HasComposeFile(FindRoot(cwd)) THEN FindRoot(cwd) ELSE None

(***************************************************************************)
(* Docker                                                                  *)
(***************************************************************************)

ContainersOf(dir) == {c \in containers : c.project = DeriveName(dir)}

(* The services of the stack, as opposed to the container of a run.        *)
Stack(dir) ==
  [project |-> DeriveName(dir), owner |-> "stack", version |-> version[dir]]

OneOff(dir, s) ==
  [project |-> DeriveName(dir), owner |-> s, version |-> version[dir]]

(* Compose refuses a file that is not there, and a missing external volume.*)
CanStart(dir) == HasComposeFile(dir) /\ CachesOf[dir] \subseteq caches

(* Mutant: compose restart, which does not recreate.                       *)
ComposeRestart(dir) ==
  /\ volumes' = volumes \cup {DeriveName(dir)}
  /\ UNCHANGED <<containers, caches, labelled>>

(* compose up -d: services whose configuration has changed are recreated.  *)
ComposeUp(dir) ==
  /\ containers' = {c \in containers : c \notin ContainersOf(dir) \/ c.owner # "stack"}
                     \cup {Stack(dir)}
  /\ volumes' = volumes \cup {DeriveName(dir)}
  /\ UNCHANGED <<caches, labelled>>

ComposeUpFails(dir) ==
  /\ ~CanStart(dir) \/ "docker" \in Faults
  /\ UNCHANGED dockerVars

(* compose run --rm agent: what the agent depends on is brought up, too.   *)
ComposeRun(dir, s) ==
  /\ containers' = {c \in containers : c \notin ContainersOf(dir) \/ c.owner # "stack"}
                     \cup {Stack(dir), OneOff(dir, s)}
  /\ volumes' = volumes \cup {DeriveName(dir)}
  /\ UNCHANGED <<caches, labelled>>

(* Mutant: the caches are not declared external.                           *)
ComposeDownTakesCaches(dir, withVolumes) ==
  /\ containers' = containers \ ContainersOf(dir)
  /\ volumes' = IF withVolumes THEN volumes \ {DeriveName(dir)} ELSE volumes
  /\ caches' = IF withVolumes THEN caches \ CachesOf[dir] ELSE caches
  /\ labelled' = labelled \cap caches'

(* compose down: every container of the compose project, those of runs in  *)
(* other shells included; external volumes are never removed.              *)
ComposeDown(dir, withVolumes) ==
  /\ containers' = containers \ ContainersOf(dir)
  /\ volumes' = IF withVolumes THEN volumes \ {DeriveName(dir)} ELSE volumes
  /\ UNCHANGED <<caches, labelled>>

(* A compose command that fails may have got part of the way.              *)
ComposeDownFails(dir) ==
  /\ ~HasComposeFile(dir) \/ "docker" \in Faults
  /\ IF HasComposeFile(dir)
       THEN \E gone \in SUBSET ContainersOf(dir) : containers' = containers \ gone
       ELSE UNCHANGED containers
  /\ UNCHANGED <<volumes, caches, labelled>>

(* compose ps --status running; a failure looks as if nothing ran.         *)
RunningServices(dir) ==
  IF "ps" \in Faults THEN {} ELSE {c \in ContainersOf(dir) : c.owner = "stack"}

CacheVolumeContainers(cache) ==
  {c \in containers : \E d \in Projects : c.project = DeriveName(d) /\ cache \in CachesOf[d]}

(***************************************************************************)
(* Jobs                                                                    *)
(***************************************************************************)

Result == {"ok", "unchanged", "warned", "failed", "killed"}

Verb == {"none", "run", "compose up", "compose down", "destroy", "edit", "list", "rm"}

Phase ==
  {"idle", "ensure", "start", "inside", "down", "compose", "prompt", "snadcat", "devcontainer",
   "editor", "stat", "up", "measure", "exit"}

Job ==
  [verb    : Verb,
   at      : Phase,
   cwd     : Dirs \cup {None},
   root    : Dirs \cup {None},
   file    : Dirs \cup {None},
   seen    : 0..MaxEdits,
   targets : SUBSET AllCaches,
   failed  : BOOLEAN,
   force   : BOOLEAN,
   result  : Result]

NoJob ==
  [verb |-> "none", at |-> "idle", cwd |-> None, root |-> None, file |-> None, seen |-> 0,
   targets |-> {}, failed |-> FALSE, force |-> FALSE, result |-> "ok"]

Idle(s) == job[s].at = "idle"
At(s, verb, at) == job[s].verb = verb /\ job[s].at = at

(* A command begins; root is where it takes its project to be.             *)
Begin(s, new) ==
  /\ new.verb \in Verbs[s]
  /\ Idle(s)
  /\ job' = [job EXCEPT ![s] = new]
  /\ contended' = IF \E r \in Shells \ {s} : ~Idle(r) /\ job[r].root = new.root
                    THEN contended \cup ({new.root} \cap Dirs) ELSE contended
  /\ UNCHANGED <<fileVars, dockerVars>>

Go(s, at) == job' = [job EXCEPT ![s].at = at] /\ UNCHANGED contended

(* The command is over; what is left of it is its result.                  *)
End(s, result) ==
  /\ job' = [job EXCEPT ![s] = [NoJob EXCEPT !.verb = job[s].verb, !.at = "exit",
                                             !.root = job[s].root, !.result = result]]
  /\ UNCHANGED contended

(* main turns the result into the exit status.                             *)
Exit(s) ==
  /\ job[s].at = "exit"
  /\ job' = [job EXCEPT ![s] = NoJob]
  /\ UNCHANGED <<fileVars, dockerVars, contended>>

(* The status of a docker child becomes the command's own.                 *)
ChildExit(s, failed) == End(s, IF failed THEN "failed" ELSE "ok")

(* composeForCwd: without a compose file the command is an error and has   *)
(* no effect.                                                              *)
ComposeForCwd(s, verb, at) ==
  \E cwd \in Cwds[s] :
    /\ FindComposeFile(cwd) # None
    /\ LET file == FindComposeFile(cwd)
       IN  Begin(s, [NoJob EXCEPT !.verb = verb, !.at = at, !.root = file, !.file = file,
                                  !.seen = IF verb = "edit" THEN version[file] ELSE 0])

(***************************************************************************)
(* run                                                                     *)
(***************************************************************************)

Run(s) == ComposeForCwd(s, "run", "ensure")

(* Best effort: what cannot be created surfaces in compose run.            *)
EnsureSharedCacheVolumes(s) ==
  LET declared == IF HasComposeFile(job[s].file) THEN CachesOf[job[s].file] ELSE {}
  IN  /\ At(s, "run", "ensure")
      /\ \E made \in {declared} \cup (IF "docker" \in Faults THEN {{}} ELSE {}) :
           /\ caches' = caches \cup made
           /\ labelled' = labelled \cup (made \ caches)   \* create is idempotent
      /\ Go(s, "start")
      /\ UNCHANGED <<fileVars, containers, volumes>>

RunStart(s) ==
  /\ At(s, "run", "start")
  /\ CanStart(job[s].file)
  /\ ComposeRun(job[s].file, s)
  /\ Go(s, "inside")
  /\ UNCHANGED fileVars

(* Compose fails, perhaps after it has brought up some of the services.    *)
RunStartFails(s) ==
  /\ At(s, "run", "start")
  /\ \/ ComposeUpFails(job[s].file)
     \/ "docker" \in Faults /\ CanStart(job[s].file) /\ ComposeUp(job[s].file)
  /\ job' = [job EXCEPT ![s].at = "down", ![s].failed = TRUE]
  /\ UNCHANGED <<fileVars, contended>>

(* The command inside ends, or has been ended by the removal of its        *)
(* container, which is a failure.                                          *)
RunEnds(s) ==
  LET own == {c \in ContainersOf(job[s].file) : c.owner = s}
  IN  /\ At(s, "run", "inside")
      /\ \E failed \in {TRUE} \cup {own = {}} :
           job' = [job EXCEPT ![s].at = "down", ![s].failed = failed]
      /\ containers' = containers \ own
      /\ UNCHANGED <<fileVars, volumes, caches, labelled, contended>>

(* Mutant: the status of the down is not looked at.                        *)
RunDownUnchecked(s) ==
  /\ At(s, "run", "down")
  /\ \/ HasComposeFile(job[s].file) /\ ComposeDown(job[s].file, FALSE)
     \/ ComposeDownFails(job[s].file)
  /\ ChildExit(s, job[s].failed)
  /\ UNCHANGED fileVars

(* down follows in any case; of two failures the command's is reported.    *)
RunDown(s) ==
  /\ At(s, "run", "down")
  /\ \/ /\ HasComposeFile(job[s].file)
        /\ ComposeDown(job[s].file, FALSE)
        /\ ChildExit(s, job[s].failed)
     \/ /\ ComposeDownFails(job[s].file)
        /\ ChildExit(s, TRUE)
  /\ UNCHANGED fileVars

(***************************************************************************)
(* compose                                                                 *)
(***************************************************************************)

Compose(s) == \E verb \in {"compose up", "compose down"} : ComposeForCwd(s, verb, "compose")

ComposeUpDone(s) ==
  /\ At(s, "compose up", "compose")
  /\ \/ CanStart(job[s].file) /\ ComposeUp(job[s].file) /\ ChildExit(s, FALSE)
     \/ ComposeUpFails(job[s].file) /\ ChildExit(s, TRUE)
  /\ UNCHANGED fileVars

ComposeDownDone(s) ==
  /\ At(s, "compose down", "compose")
  /\ \/ /\ HasComposeFile(job[s].file)
        /\ ComposeDown(job[s].file, FALSE)
        /\ ChildExit(s, FALSE)
     \/ ComposeDownFails(job[s].file) /\ ChildExit(s, TRUE)
  /\ UNCHANGED fileVars

(***************************************************************************)
(* destroy                                                                 *)
(***************************************************************************)

Destroy(s) ==
  \E cwd \in Cwds[s] :
    /\ FindRoot(cwd) # None
    /\ Begin(s, [NoJob EXCEPT !.verb = "destroy", !.at = "prompt", !.cwd = cwd,
                              !.root = FindRoot(cwd)])

(* After a yes the compose file is looked for again, from the same place.  *)
DestroyConfirmed(s) ==
  /\ At(s, "destroy", "prompt")
  /\ IF FindComposeFile(job[s].cwd) = None
       THEN End(s, "failed")
       ELSE /\ job' = [job EXCEPT ![s].at = "down", ![s].file = FindComposeFile(job[s].cwd)]
            /\ UNCHANGED contended
  /\ UNCHANGED <<fileVars, dockerVars>>

DestroyDeclined(s) ==
  /\ At(s, "destroy", "prompt")
  /\ End(s, "ok")
  /\ UNCHANGED <<fileVars, dockerVars>>

(* Mutant: the directories are removed whatever became of the down.        *)
DestroyDownUnchecked(s) ==
  /\ At(s, "destroy", "down")
  /\ \/ HasComposeFile(job[s].file) /\ ComposeDown(job[s].file, TRUE)
     \/ ComposeDownFails(job[s].file)
  /\ Go(s, "snadcat")
  /\ UNCHANGED fileVars

DestroyDown(s) ==
  /\ At(s, "destroy", "down")
  /\ \/ HasComposeFile(job[s].file) /\ ComposeDown(job[s].file, TRUE) /\ Go(s, "snadcat")
     \/ ComposeDownFails(job[s].file) /\ ChildExit(s, TRUE)
  /\ UNCHANGED fileVars

Remove(dir, gone) == entries' = [entries EXCEPT ![dir] = @ \ gone] /\ UNCHANGED version

(* RemoveAll, which may fail and leave the directory, emptied or not.      *)
RemoveSnadcat(s) ==
  /\ At(s, "destroy", "snadcat")
  /\ \/ Remove(job[s].root, {".snadcat"}) /\ Go(s, "devcontainer")
     \/ "disk" \in Faults /\ UNCHANGED fileVars /\ End(s, "failed")
  /\ UNCHANGED dockerVars

(* Mutant: the removal stops at the directory entry.                       *)
RemoveDevcontainerEntry(s) ==
  /\ At(s, "destroy", "devcontainer")
  /\ \/ Remove(job[s].root, {".devcontainer"}) /\ End(s, "ok")
     \/ "disk" \in Faults /\ Remove(job[s].root, {"compose-all.yml"}) /\ End(s, "failed")
  /\ UNCHANGED dockerVars

RemoveDevcontainer(s) ==
  /\ At(s, "destroy", "devcontainer")
  /\ \/ Remove(job[s].root, {".devcontainer", "compose-all.yml"}) /\ End(s, "ok")
     \/ "disk" \in Faults /\ Remove(job[s].root, {"compose-all.yml"}) /\ End(s, "failed")
  /\ UNCHANGED dockerVars

(***************************************************************************)
(* edit compose                                                            *)
(***************************************************************************)

(* The time of modification is taken before the editor opens.              *)
EditCompose(s) == ComposeForCwd(s, "edit", "editor")

(* The user leaves the editor, with or without saving; or it fails.        *)
EditorCloses(s) ==
  /\ At(s, "edit", "editor")
  /\ \/ /\ HasComposeFile(job[s].file)
        /\ version[job[s].file] < MaxEdits
        /\ version' = [version EXCEPT ![job[s].file] = @ + 1]
     \/ UNCHANGED version
  /\ Go(s, "stat") \/ End(s, "failed")
  /\ UNCHANGED <<entries, dockerVars>>

(* What is made of a change: nothing without running services; a warning,  *)
(* if the user asked not to restart; otherwise up -d.                      *)
EditCompared(s) ==
  LET file == job[s].file
  IN  /\ At(s, "edit", "stat")
      /\ \/ ~HasComposeFile(file) /\ End(s, "failed")
         \/ /\ HasComposeFile(file) /\ version[file] = job[s].seen
            /\ End(s, "unchanged")
         \/ /\ HasComposeFile(file) /\ version[file] # job[s].seen
            /\ RunningServices(file) = {}
            /\ End(s, "ok")
         \/ /\ HasComposeFile(file) /\ version[file] # job[s].seen
            /\ RunningServices(file) # {}
            /\ End(s, "warned") \/ Go(s, "up")
      /\ UNCHANGED <<fileVars, dockerVars>>

EditUp(s) ==
  /\ At(s, "edit", "up")
  /\ \/ CanStart(job[s].file) /\ ComposeUp(job[s].file) /\ ChildExit(s, FALSE)
     \/ ComposeUpFails(job[s].file) /\ ChildExit(s, TRUE)
  /\ UNCHANGED fileVars

(***************************************************************************)
(* cache list (and size), cache rm                                         *)
(***************************************************************************)

CacheVolumeNames == labelled

CacheList(s) ==
  /\ CacheVolumeNames # {}
  /\ Begin(s, [NoJob EXCEPT !.verb = "list", !.at = "measure", !.targets = CacheVolumeNames])

(* docker run -v <name>:/mnt alpine du creates a volume that has gone since*)
(* it was listed, without the label.                                       *)
CacheMeasured(s) ==
  /\ At(s, "list", "measure")
  /\ caches' = caches \cup job[s].targets
  /\ End(s, "ok")
  /\ UNCHANGED <<fileVars, containers, volumes, labelled>>

(* Without --force a volume in use is an error, before the prompt.         *)
CacheRm(s) ==
  \E targets \in ({CacheVolumeNames} \cup {{c} : c \in AllCaches}) \ {{}}, force \in BOOLEAN :
    /\ force \/ \A c \in targets : CacheVolumeContainers(c) = {}
    /\ Begin(s, [NoJob EXCEPT !.verb = "rm", !.at = "prompt", !.targets = targets,
                              !.force = force])

(* docker volume rm: what is in use stays, and then, or when a volume is   *)
(* missing and --force was not given, the status is a failure.             *)
CacheRemoved(s) ==
  LET free == {c \in job[s].targets : CacheVolumeContainers(c) = {}}
  IN  /\ At(s, "rm", "prompt")
      /\ \/ /\ caches' = caches \ free
            /\ labelled' = labelled \ free
            /\ ChildExit(s, free # job[s].targets
                            \/ (~job[s].force /\ ~(job[s].targets \subseteq caches)))
         \/ UNCHANGED <<caches, labelled>> /\ End(s, "ok")   \* "Cancelled."
      /\ UNCHANGED <<fileVars, containers, volumes>>

(***************************************************************************)
(* Specification                                                           *)
(***************************************************************************)

(* The terminal is closed: snadcat ignores Ctrl-C while a child runs, but  *)
(* no other signal; containers stay as they are.                           *)
Killed(s) ==
  /\ "kill" \in Verbs[s]
  /\ job[s].at \notin {"idle", "exit"}
  /\ End(s, "killed")
  /\ UNCHANGED <<fileVars, dockerVars>>

(* The destroys whose second search will pass through dir.                 *)
WaitingBelow(dir) ==
  {s \in Shells : At(s, "destroy", "prompt") /\ dir \in OnPath(job[s].cwd)}

(* snadcat init in a directory that has been destroyed.                    *)
Reinitialise(s, dir) ==
  /\ "init" \in Verbs[s]
  /\ Idle(s)
  /\ ~HasComposeFile(dir)
  /\ \A r \in Shells : ~Idle(r) => job[r].root # dir
  /\ entries' = [entries EXCEPT ![dir] = @ \cup {".snadcat", ".devcontainer", "compose-all.yml"}]
  /\ version' = [version EXCEPT ![dir] = 0]
  /\ contended' = contended \cup {job[r].root : r \in WaitingBelow(dir)}
  /\ UNCHANGED <<dockerVars, job>>

FileEntries(dir) ==
  (IF dir \in Repos THEN {".git"} ELSE {}) \cup
  (IF dir \in Projects THEN {".snadcat", ".devcontainer", "compose-all.yml"} ELSE {})

Init ==
  /\ entries = [d \in Dirs |-> FileEntries(d)]
  /\ version = [d \in Dirs |-> 0]
  /\ containers = {} /\ volumes = {} /\ caches = {} /\ labelled = {}
  /\ job = [s \in Shells |-> NoJob]
  /\ contended = {}

BeginAny(s) ==
  Run(s) \/ Compose(s) \/ Destroy(s) \/ EditCompose(s) \/ CacheList(s) \/ CacheRm(s)

Continue(s) ==
  \/ EnsureSharedCacheVolumes(s) \/ RunStart(s) \/ RunStartFails(s) \/ RunEnds(s) \/ RunDown(s)
  \/ ComposeUpDone(s) \/ ComposeDownDone(s)
  \/ DestroyConfirmed(s) \/ DestroyDeclined(s) \/ DestroyDown(s)
  \/ RemoveSnadcat(s) \/ RemoveDevcontainer(s)
  \/ EditorCloses(s) \/ EditCompared(s) \/ EditUp(s)
  \/ CacheMeasured(s) \/ CacheRemoved(s)
  \/ Killed(s) \/ Exit(s)

Next ==
  \E s \in Shells :
    BeginAny(s) \/ Continue(s) \/ \E d \in Projects : Reinitialise(s, d)

Spec == Init /\ [][Next]_vars

(***************************************************************************)
(* Properties                                                              *)
(***************************************************************************)

TypeOK ==
  /\ entries \in [Dirs -> SUBSET {".snadcat", ".git", ".devcontainer", "compose-all.yml"}]
  /\ \A d \in Dirs : HasComposeFile(d) => ".devcontainer" \in entries[d]
  /\ version \in [Dirs -> 0..MaxEdits]
  /\ \A c \in containers : c.owner \in Shells \cup {"stack"} /\ c.version \in 0..MaxEdits
  /\ volumes \subseteq {DeriveName(d) : d \in Projects}
  /\ caches \subseteq AllCaches /\ labelled \subseteq caches
  /\ job \in [Shells -> Job]
  /\ contended \subseteq Dirs

(* A step takes something away from a directory or from its sandbox.       *)
LosesFiles(dir) == ~(entries[dir] \subseteq entries'[dir])

LosesSandbox(dir) ==
  \/ ~(ContainersOf(dir) \subseteq containers')
  \/ DeriveName(dir) \in volumes \ volumes'

(* s works for a project of the same name as dir, the only name docker     *)
(* knows dir by.                                                           *)
WorksFor(s, dir) ==
  ~Idle(s) /\ job[s].root \in Dirs /\ DeriveName(job[s].root) = DeriveName(dir)

(* s is the down of a destroy in a contended project: its second search    *)
(* may have ended in another directory of its path.                        *)
MayHaveStrayed(s, dir) ==
  /\ At(s, "destroy", "down") /\ job[s].root \in contended
  /\ \E e \in OnPath(job[s].cwd) : DeriveName(e) = DeriveName(dir)

(* Files of a project are removed by a destroy called in that project      *)
(* only.  Its containers and volumes are taken by a command called in a    *)
(* project of its name, with one exception: a destroy in a project that    *)
(* two commands have worked in at once, then or earlier, or that waited    *)
(* while init ran on its path.  So although destroy looks for the project  *)
(* before its prompt and again after it, and a RemoveAll that failed       *)
(* half-way leaves a root without a compose file inside another project,   *)
(* commands that never were at work in one project at once do not take     *)
(* down another (simple.go).                                               *)
OwnProject ==
  [][\A d \in Dirs :
       /\ LosesFiles(d) =>
            \E s \in Shells : ~Idle(s) /\ job[s].verb = "destroy" /\ job[s].root = d
       /\ LosesSandbox(d) =>
            \E s \in Shells : WorksFor(s, d) \/ MayHaveStrayed(s, d)]_vars

(* The exception of OwnProject left out: what a step takes from a project  *)
(* is taken by a command called in it.  Expected to fail: of two destroys  *)
(* that wait at their prompts in one nested project without a .git, the    *)
(* second finds the enclosing project after the first is done (simple.go). *)
NoneOfAnother ==
  [][\A d \in Dirs : LosesFiles(d) \/ LosesSandbox(d) =>
       \E s \in Shells : ~Idle(s) /\ job[s].root = d]_vars

(* run exits with 0 only if its command did, in a container that nobody    *)
(* took down under it, and the stack it brought up is gone: a failure of   *)
(* the down is not lost, nor is that of a command the down succeeded after *)
(* (passthrough.go).                                                       *)
RunReports ==
  [][\A s \in Shells, d \in Dirs :
       job[s].file = d /\ job[s].at # "exit" /\ At(s, "run", "exit")' /\ job'[s].result = "ok" =>
         ~job[s].failed /\ ContainersOf(d)' = {}]_vars

(* As long as no two commands have been at work in a project at once, its  *)
(* containers and volumes never outlive the compose file they are reached  *)
(* by, its own or one of a project that docker cannot tell from it: at     *)
(* whichever step destroy fails or is killed, nothing is left running that *)
(* no command of the tool can stop any more (simple.go).                   *)
NoOrphans ==
  \A d \in Dirs :
    ContainersOf(d) # {} \/ DeriveName(d) \in volumes =>
      \E e \in Dirs : DeriveName(e) = DeriveName(d) /\ (HasComposeFile(e) \/ e \in contended)

(* A changed compose file is applied, whatever other shells have started,  *)
(* stopped or removed meanwhile: when edit compose succeeds and says       *)
(* neither that nothing changed nor how to apply the change, no service    *)
(* runs an older version (simple.go).                                      *)
EditApplied ==
  [][\A s \in Shells, d \in Dirs :
       job[s].file = d /\ job[s].at # "exit" /\ At(s, "edit", "exit")' /\ job'[s].result = "ok" =>
         \A c \in ContainersOf(d)' : c.owner = "stack" => c.version = version[d]]_vars

(* No command takes a shared cache away from a running sandbox: not the    *)
(* down --volumes of another project, nor a cache rm whose check and       *)
(* prompt preceded the start of the sandbox (cache.go).                    *)
MountedKept ==
  \A d \in Projects : ContainersOf(d) # {} => CachesOf[d] \subseteq caches
=============================================================================
