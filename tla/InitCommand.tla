----------------------------- MODULE InitCommand -----------------------------
(***************************************************************************)
(* snadcat init, init settings and init devcontainer, write by write.      *)
(*                                                                         *)
(* A command validates what it was given, then works through the list      *)
(* todo of its steps; but for the paths on the host, each step writes at   *)
(* most one file.  It can end at any step: with an error, or because it is *)
(* interrupted, also in the middle of a write or of the host's paths.      *)
(* Commands are run again and again, over what earlier ones and the user   *)
(* have left.                                                              *)
(***************************************************************************)
EXTENDS UserSettings, GitignoreBlock, Devcontainer, NetworkPolicy

CONSTANTS
  Projects,     (* what there may be before the first command               *)
  Invocations,  (* the command lines, each with its environment             *)
  UserEdits,    (* what the user may write into which settings file         *)
  GoodBundles,  (* CA bundles that are readable PEM files                   *)
  Glob,         (* host pattern of a settings file -> set of hosts          *)
  Interrupts    (* verbs of the steps at which a command may be interrupted *)

(* A settings file is missing, does not parse, or holds an object; the     *)
(* elements of an array are in order.                                      *)
SettingsFile(file) ==
  /\ file = Missing \/ file = Malformed \/ IsObj(file)
  /\ Loads(file) => LET listed == EnsureArray(file.obj, "upstream_ca_bundles")
                    IN  listed \in Seq(Range(listed))

(* A text file is missing, or the sequence of its lines.                   *)
TextFile(file) ==
  file = NoFile \/ (file = Text(file.lines) /\ file.lines \in Seq(Range(file.lines)))

ASSUME FilesAssumption ==
  /\ \A given \in Projects :
       /\ DOMAIN given = {"user", "host", "local", "tools", "ignore", "git"}
       /\ SettingsFile(given.user) /\ SettingsFile(given.local) /\ TextFile(given.ignore)
       /\ given.tools = NotThere \/ DOMAIN given.tools = {"packages"}
  /\ \A edit \in UserEdits : SettingsFile(edit.content)
  /\ \A agent \in AgentNames : SettingsFile(Saved(UserTemplate[agent]))

(* A project has a name, from its directory; neither it nor the name of a  *)
(* bundle that is accepted is one of the generator's placeholders.         *)
ASSUME InvocationsAssumption ==
  /\ \A inv \in Invocations :
       /\ inv.command \in {"init", "init settings", "init devcontainer"}
       /\ inv.name \notin {""} \cup Placeholders
       /\ inv.stacks \in Seq(Range(inv.stacks))
  /\ GoodBundles \cap Placeholders = {}

(* NETWORK_PRESETS has a preset for every stack.                           *)
ASSUME PresetsAssumption == StackNames \subseteq DOMAIN Presets

VARIABLES
  user,     (* ~/.config/snadcat/settings.json                              *)
  host,     (* agent configuration below the user's home: path -> content   *)
  project,  (* .snadcat/settings.json                                       *)
  local,    (* .snadcat/settings.local.json                                 *)
  tree,     (* .devcontainer: file -> content                               *)
  ignore,   (* .gitignore                                                   *)
  origin,   (* history: what there was before the first command             *)
  cut,      (* history: a write of .gitignore has been cut short            *)
  todo,     (* steps the command still has to take                          *)
  chosen,   (* its options                                                  *)
  doc,      (* compose-all.yml as the command holds it in memory            *)
  done      (* choices of the last command, if it succeeded                 *)

files   == <<user, host, project, local, tree, ignore>>
history == <<origin, cut>>
run     == <<todo, chosen, doc, done>>
vars    == <<files, history, run>>

(***************************************************************************)
(* Command lines                                                           *)
(***************************************************************************)

FeatureNames == {"tui", "no-shared-cache", "no-gitignore", "no-rtk", "strict-network"}

(* init checks everything before it writes anything; its subcommands check *)
(* next to nothing.  An answer to a prompt is a flag with a valid value.   *)
Valid(inv) ==
  CASE inv.command = "init" ->
         /\ ~(inv.onePassword /\ inv.provider # "")
         /\ inv.agent \in AgentNames
         /\ inv.ide \in {"vscode", "jetbrains", "none"}
         /\ inv.provider = "" \/ ValidSecretProvider(inv.provider)
         /\ inv.features \subseteq FeatureNames
         /\ inv.proxy \in {"", "web", "tui"}
         /\ ValidStacks(inv.stacks)
    [] inv.command = "init devcontainer" -> inv.agent \in AgentNames
    [] OTHER -> TRUE

(* A feature wins over the environment.  The subcommands take the stacks   *)
(* as they are given, and have their own rules for a strict policy and for *)
(* rtk.                                                                    *)
Options(inv) ==
  LET On(feature)  == feature \in inv.features
      mounts       == MountOptions(inv.agent, inv.env)
  IN  [command   |-> inv.command,
       name      |-> inv.name,
       agent     |-> inv.agent,
       ide       |-> inv.ide,
       requested |-> inv.stacks,
       stacks    |-> IF inv.command = "init" THEN Resolve(inv.stacks) ELSE inv.stacks,
       provider  |-> IF inv.onePassword THEN "1password"
                    ELSE IF inv.provider = "" THEN "none" ELSE inv.provider,
       tui       |-> inv.proxy = "tui" \/ On("tui"),
       gitignore |-> Toggle(inv.env, "SNADCAT_GITIGNORE", TRUE) /\ ~On("no-gitignore"),
       strict    |-> On("strict-network")
                    \/ (inv.command = "init" /\ Toggle(inv.env, "SNADCAT_STRICT_NETWORK", FALSE)),
       rtk       |-> IF inv.command = "init"
                       THEN Toggle(inv.env, "SNADCAT_RTK", TRUE) /\ ~On("no-rtk")
                       ELSE "SNADCAT_RTK" \in DOMAIN inv.env => inv.env["SNADCAT_RTK"] # "false",
       mounts    |-> [mounts EXCEPT !.cache = @ /\ ~On("no-shared-cache")],
       env       |-> inv.env]

ProjectSteps == << <<"project", "settings.json">>, <<"local", "settings.local.json">> >>

Steps(ch) ==
  CASE ch.command = "init" ->
         << <<"create", "user">>, <<"defaults", "user">>, <<"paths", "home">>,
            <<"token", "user">> >>
         \o ProjectSteps \o GenerateSteps(ch) \o << <<"block", ".gitignore">> >>
    [] ch.command = "init settings"     -> ProjectSteps
    [] ch.command = "init devcontainer" -> GenerateSteps(ch)

(***************************************************************************)
(* Running a command                                                       *)
(***************************************************************************)

NoOptions == [command |-> "none"]

Init ==
  /\ origin \in Projects /\ cut = FALSE
  /\ user = origin.user /\ host = origin.host /\ local = origin.local
  /\ ignore = origin.ignore
  /\ project = Missing
  /\ tree = [f \in AllFiles |-> IF f = "devbox.tools.json" THEN origin.tools ELSE NotThere]
  /\ todo = << >> /\ chosen = NoOptions /\ doc = ComposeTemplate /\ done = NoOptions

Idle == todo = << >>
At(verb) == ~Idle /\ Head(todo)[1] = verb
Interruptible == ~Idle /\ Head(todo)[1] \in Interrupts

Begin ==
  /\ Idle
  /\ \E inv \in Invocations :
       /\ Valid(inv)
       /\ chosen' = Options(inv)
       /\ todo' = Steps(Options(inv))
  /\ done' = NoOptions
  /\ UNCHANGED <<files, history, doc>>

(* The step is done; after the last one the command reports success.  The  *)
(* choices are forgotten, and with them the document in memory.            *)
Proceed ==
  /\ todo' = Tail(todo)
  /\ IF Len(todo) = 1
       THEN chosen' = NoOptions /\ done' = chosen /\ doc' = ComposeTemplate
       ELSE UNCHANGED <<chosen, done, doc>>

(* The command ends with an error, or is interrupted.                      *)
Quit ==
  /\ todo' = << >> /\ chosen' = NoOptions /\ doc' = ComposeTemplate
  /\ UNCHANGED done

(* Files that do not load contribute nothing.                              *)
BundlesOf(file) ==
  IF ~Loads(file) THEN << >>
  ELSE LET listed == EnsureArray(file.obj, "upstream_ca_bundles")
       IN  Without([i \in DOMAIN listed |-> IF IsStr(listed[i]) THEN listed[i].str ELSE ""], {""})

Bundles == BundlesOf(user) \o BundlesOf(local)

(* The step writes something, be it the same bytes again.                  *)
Writes ==
  CASE At("create")   -> ~Exists(user)
    [] At("defaults") -> chosen.agent \in Seeded /\ Exists(user)
    [] At("paths")    -> MountEnabled(chosen.agent, chosen.env)
    [] At("token")    -> chosen.provider # "none"
    [] At("local")    -> ~Exists(local)
    [] At("tools")    -> tree["devbox.tools.json"] = NotThere
    [] At("proxy")    -> chosen.tui \/ chosen.provider # "none" \/ Bundles # << >>
    [] OTHER          -> TRUE

(* os.WriteFile truncates first: interrupted, it leaves a file cut off.    *)
CutShort == Interruptible /\ Writes /\ Quit

WriteUser(content) ==
  \/ user' = content /\ Proceed
  \/ user' = Malformed /\ CutShort

CreateUserSettingsStep ==
  /\ At("create")
  /\ WriteUser(CreateUserSettings(user, chosen.agent))
  /\ UNCHANGED <<host, project, local, tree, ignore, history>>

ApplyAgentDefaultsStep ==
  /\ At("defaults")
  /\ chosen.agent \in Seeded => ~EditFails(user)
  /\ WriteUser(ApplyAgentDefaults(user, chosen.agent))
  /\ UNCHANGED <<host, project, local, tree, ignore, history>>

(* The paths are made ready one after the other: some may be, the last of  *)
(* them a file still without its content, when it fails or is interrupted. *)
EnsureHostConfigPathsStep ==
  /\ At("paths")
  /\ \/ host' = EnsureHostConfigPaths(host, chosen.agent, chosen.name, chosen.env) /\ Proceed
     \/ /\ \E k \in DOMAIN HostConfigPaths(chosen.agent, chosen.name) :
             host' \in PathsCutShort(host, chosen.agent, chosen.name, k)
        /\ CutShort
  /\ UNCHANGED <<user, project, local, tree, ignore, history>>

AddSecretProviderTokenStep ==
  /\ At("token")
  /\ chosen.provider # "none" => ~EditFails(user)
  /\ WriteUser(AddSecretProviderToken(user, chosen.provider))
  /\ UNCHANGED <<host, project, local, tree, ignore, history>>

(* The user settings do not load: the edit, and with it init, fails.       *)
EditUserSettingsFails ==
  /\ \/ At("defaults") /\ chosen.agent \in Seeded
     \/ At("token") /\ chosen.provider # "none"
  /\ EditFails(user)
  /\ Quit
  /\ UNCHANGED <<files, history>>

WriteProjectSettings ==
  /\ At("project")
  /\ \/ project' = ProjectSettings(chosen.strict, chosen.stacks) /\ Proceed
     \/ project' = Malformed /\ CutShort
  /\ UNCHANGED <<user, host, local, tree, ignore, history>>

WriteLocalSettings ==
  /\ At("local")
  /\ \/ local' = LocalSettings(local) /\ Proceed
     \/ local' = Malformed /\ CutShort
  /\ UNCHANGED <<user, host, project, tree, ignore, history>>

ProxyEditFails ==
  /\ At("proxy")
  /\ ~ValidSecretProvider(chosen.provider) \/ ~(Range(Bundles) \subseteq GoodBundles)

WriteTree(file, content) ==
  \/ tree' = [tree EXCEPT ![file] = content] /\ Proceed
  \/ tree' = [tree EXCEPT ![file] = CutOff] /\ CutShort

(* copyTemplates, and the edits of single files.                           *)
GenerateStep ==
  /\ \E verb \in {"copy", "stacks", "tools", "devbox", "agent", "proxy", "ide", "plugins"} :
       At(verb)
  /\ ~ProxyEditFails
  /\ WriteTree(Head(todo)[2], Generated(Head(todo), tree, chosen, Bundles))
  /\ UNCHANGED <<user, host, project, local, ignore, history>>

(* An unknown provider or a bad bundle: the document is not saved.         *)
GenerateFails ==
  /\ ProxyEditFails
  /\ Quit
  /\ UNCHANGED <<files, history>>

LoadCompose ==
  /\ At("load")
  /\ doc' = MergeAgentEnvironment(tree["compose-all.yml"].compose, EnvEntries(chosen.stacks))
  /\ todo' = Tail(todo)
  /\ UNCHANGED <<files, history, chosen, done>>

(* The settings file is mounted, so it must exist (VerifyRelativePath).    *)
SaveCompose ==
  /\ At("save")
  /\ Exists(project)
  /\ WriteTree("compose-all.yml", Compose(FinishedCompose(doc, chosen)))
  /\ UNCHANGED <<user, host, project, local, ignore, history>>

NoSettingsFile ==
  /\ At("save")
  /\ ~Exists(project)
  /\ Quit
  /\ UNCHANGED <<files, history>>

(* Errors are only reported; without .git the step is skipped.             *)
Managed ==
  IF ~origin.git THEN ignore
  ELSE IF chosen.gitignore THEN Update(ignore) ELSE RemoveBlock(ignore)

(* A write that is cut short loses what the user had in the file.          *)
ManageGitignore ==
  /\ At("block")
  /\ \/ ignore' = Managed /\ Proceed /\ UNCHANGED cut
     \/ /\ Managed \notin {ignore, NoFile}
        /\ ignore' = Text(<< >>) /\ cut' = TRUE
        /\ CutShort
  /\ UNCHANGED <<user, host, project, local, tree, origin>>

Interrupt ==
  /\ Interruptible
  /\ Quit
  /\ UNCHANGED <<files, history>>

(* Between two commands the user writes a settings file anew.              *)
UserEdit ==
  /\ Idle
  /\ \E edit \in UserEdits :
       \/ edit.file = "user" /\ user' = edit.content /\ UNCHANGED local
       \/ edit.file = "local" /\ local' = edit.content /\ UNCHANGED user
  /\ done' = NoOptions
  /\ UNCHANGED <<host, project, tree, ignore, history, todo, chosen, doc>>

UserStep == CreateUserSettingsStep \/ ApplyAgentDefaultsStep \/ AddSecretProviderTokenStep

Command ==
  \/ UserStep \/ EditUserSettingsFails \/ EnsureHostConfigPathsStep
  \/ WriteProjectSettings \/ WriteLocalSettings
  \/ GenerateStep \/ GenerateFails \/ LoadCompose \/ SaveCompose \/ NoSettingsFile
  \/ ManageGitignore \/ Interrupt

Next == Begin \/ Command \/ UserEdit

Spec == Init /\ [][Next]_vars

(***************************************************************************)
(* Properties                                                              *)
(***************************************************************************)

TypeOK ==
  /\ user = Missing \/ user = Malformed \/ IsObj(user)
  /\ project = Missing \/ project = Malformed \/ IsObj(project)
  /\ local = Missing \/ local = Malformed \/ IsObj(local)
  /\ DOMAIN tree = AllFiles
  /\ \A f \in AllFiles :
       \/ tree[f] \in {NotThere, CutOff}
       \/ f \in DOMAIN Template /\ DOMAIN tree[f] = DOMAIN Template[f]
       \/ f \notin DOMAIN Template /\ DOMAIN tree[f] = {"packages"}
  /\ TextFile(ignore) /\ cut \in BOOLEAN
  /\ Idle <=> chosen = NoOptions
  /\ done # NoOptions => Idle

(* Whatever the user owns outlives every step of a command, one that fails *)
(* or is interrupted included: settings.local.json, devbox.tools.json and  *)
(* the agent's configuration are never written once they exist, user       *)
(* settings that do not load are left for the user to repair, and          *)
(* .gitignore keeps the user's rules in order, with one exception: an      *)
(* interrupt in the middle of writing it, which leaves it empty.           *)
OwnFilesKept ==
  [][~Idle =>
       /\ Exists(local) => local' = local
       /\ tree["devbox.tools.json"] # NotThere =>
            tree'["devbox.tools.json"] = tree["devbox.tools.json"]
       /\ \A path \in DOMAIN host : host[path] # "empty" => host'[path] = host[path]
       /\ user = Malformed => user' = user
       /\ UserRules(ignore') = UserRules(ignore) \/ (At("block") /\ CutShort)]_vars

(* "Rules outside the sandcat markers are always preserved": the same of   *)
(* .gitignore without the exception.  It does not hold.                    *)
RulesPreserved == [][~Idle => UserRules(ignore') = UserRules(ignore)]_vars

(* The user layer as the addon reads it: its rules, and the secrets that   *)
(* name exactly one source.                                                *)
Rules(o) ==
  LET entries == EnsureArray(o, "network")
  IN  ExpandNetworkPresets(
        [i \in DOMAIN entries |->
           LET e == entries[i].obj
           IN  IF "preset" \in DOMAIN e THEN [preset |-> String(e, "preset")]
               ELSE [action |-> String(e, "action"), host |-> Glob[String(e, "host")],
                     method |-> IF "method" \in DOMAIN e THEN String(e, "method") ELSE None]])

OneSource(o) ==
  LET secrets == EnsureObject(o, "secrets")
  IN  {name \in DOMAIN secrets :
         Cardinality({"value", "op", "pass"} \cap DOMAIN secrets[name].obj) = 1}

(* What the user settings decide stays decided that way when defaults are  *)
(* seeded into them: the first rule for a request, also where presets give *)
(* it, and the single source a secret is read from.                        *)
ChoicesKept ==
  [][~Idle /\ user' # user /\ Loads(user) /\ Loads(user') =>
       /\ \A m \in Methods, h \in Hosts :
            LET rules == Rules(user.obj)
            IN  (\E i \in DOMAIN rules : FirstMatch(rules, m, h, i)) =>
                  IsRequestAllowed(Rules(user'.obj), m, h) = IsRequestAllowed(rules, m, h)
       /\ OneSource(user.obj) \subseteq OneSource(user'.obj)]_vars

Generates(ch) == ch.command \in {"init", "init devcontainer"}

(* The generated files of a run that starts from an empty directory.       *)
Fresh(ch) ==
  LET steps == GenerateSteps(ch)
      made[k \in 0..Len(steps)] ==
        IF k = 0 THEN [f \in AllFiles |-> NotThere]
        ELSE LET before == made[k - 1]
             IN  IF steps[k][1] \in {"load", "save"} THEN before
                 ELSE [before EXCEPT ![steps[k][2]] = Generated(steps[k], before, ch, Bundles)]
      compose == FinishedCompose(MergeAgentEnvironment(ComposeTemplate, EnvEntries(ch.stacks)), ch)
  IN  [made[Len(steps)] EXCEPT !["compose-all.yml"] = Compose(compose)]

(* A run that succeeds leaves what it would have generated in an empty     *)
(* directory, without a placeholder, whatever earlier runs with other      *)
(* options, failed or interrupted, have left there.                        *)
Regenerated ==
  Generates(done) =>
    LET fresh == Fresh(done)
    IN  \A f \in GeneratedFiles : tree[f] = fresh[f] /\ ~Unexpanded(tree[f])

(* At every moment compose-all.yml is the bare template, or complete: it   *)
(* has its name and workspace, and the external volumes are exactly those  *)
(* the agent mounts, as compose refuses an undeclared one and run creates  *)
(* what is declared.                                                       *)
ComposeConsistent ==
  LET content == tree["compose-all.yml"]
  IN  content \notin {NotThere, CutOff, Compose(ComposeTemplate)} =>
        LET volumes == content.compose.volumes
            mounts  == {volumes[i].mount : i \in DOMAIN volumes}
        IN  /\ content.compose.name # ""
            /\ Mount(Above(<< >>), content.compose.workingDir) \in mounts
            /\ Range(ExternalCacheVolumes(content.compose)) =
                 {c \in Range(jvmCaches) : CacheMount(c) \in mounts}

(* The proxy only ever mounts CA bundles that passed validation, all those *)
(* configured and in order once init has succeeded, and installs them      *)
(* before anything else of its entrypoint runs.                            *)
BundlesTrusted ==
  LET content == tree["compose-proxy.yml"]
      volumes == content.proxy.volumes
      ofCa    == {i \in DOMAIN volumes : volumes[i].target = "/upstream-ca"}
      others  == Len(volumes) - Len(Bundles)
  IN  "proxy" \in DOMAIN content =>
        /\ \A i \in ofCa : volumes[i].source[1] \in GoodBundles
        /\ ofCa # {} <=> Contains(content.proxy.entrypoint, CaInstall)
        /\ ofCa # {} => content.proxy.entrypoint[1] = CaInstall
        /\ Generates(done) =>
             /\ ofCa = (others + 1)..Len(volumes)
             /\ \A i \in DOMAIN Bundles : volumes[others + i].source = <<Bundles[i]>>

(* init prepares on the host whatever an active mount of the agent's       *)
(* configuration binds; Docker would make a directory of a missing file.   *)
(* A JSON file of Cursor's is not left empty, also if an earlier run was   *)
(* cut short when it had created the file: Cursor could not parse it.      *)
MountsPrepared ==
  done.command = "init" /\ done.mounts.agentConfig =>
    \A i \in DOMAIN AgentMounts(done.agent, done.name) :
      \E path \in DOMAIN host :
        /\ AtHome(path).source = AgentMounts(done.agent, done.name)[i].source
        /\ DefaultContent(path) = "minimal" => host[path] # "empty"

(* The project's policy after a strict init: one preset, known to the      *)
(* addon, for each stack asked for and for what it depends on, and nothing *)
(* else; otherwise the template's.                                         *)
StrictPolicy ==
  done.command = "init" =>
    LET network == EnsureArray(project.obj, "network")
        asked   == Range(done.requested)
    IN  IF ~done.strict THEN project = Saved(ProjectTemplate)
        ELSE /\ \A i \in DOMAIN network :
                  ~BadPreset([preset |-> String(network[i].obj, "preset")])
             /\ {String(network[i].obj, "preset") : i \in DOMAIN network} =
                  asked \cup UNION {Range(StackByName(s).deps) : s \in asked}

(* What the user has in .gitignore: nothing, once a write was cut short.   *)
OwnIgnore == IF cut THEN Text(<< >>) ELSE origin.ignore

(* However often the block was switched on and off before, also by runs    *)
(* that failed half-way: switched off, .gitignore is what it was without   *)
(* the block; switched on, that followed by a blank line and one block.    *)
(* After a write that was cut short the same holds of the empty file it    *)
(* has left.                                                               *)
IgnoreConverges ==
  done.command = "init" /\ ~HasBlock(OwnIgnore) =>
    LET own == LinesOf(OwnIgnore)
    IN  LinesOf(ignore) =
          IF ~origin.git \/ ~done.gitignore THEN own
          ELSE (IF own = << >> THEN own ELSE Append(own, "")) \o Block

(* The image and the credential the proxy gets are those of the provider   *)
(* chosen last, the image in the pinned version, and the user settings     *)
(* have the key for the token.                                             *)
ProviderWired ==
  Generates(done) =>
    LET proxy == tree["compose-proxy.yml"].proxy
    IN  /\ proxy.image[2] = MitmproxyVersion
        /\ proxy.environment =
             CASE proxy.image[1] = "sandcat-mitmproxy-op"   -> <<"OP_SERVICE_ACCOUNT_TOKEN">>
               [] proxy.image[1] = "sandcat-mitmproxy-pass" -> <<"PROTON_PASS_PERSONAL_ACCESS_TOKEN">>
               [] OTHER -> << >>
        /\ (proxy.image[1] = "mitmproxy/mitmproxy") = (done.provider = "none")
        /\ done.command = "init" /\ done.provider # "none" =>
             ~Absent(user.obj, TokenKey[done.provider])
=============================================================================
