------------------------------ MODULE ComposeFile ------------------------------
(***************************************************************************)
(* The two compose documents that snadcat init edits, as trees of nodes:   *)
(* what of them the generator touches, and the edits it makes.             *)
(*                                                                         *)
(* compose-all.yml   name, and of services.agent the environment, working  *)
(*                   directory, volumes and capabilities; the top-level    *)
(*                   external volumes; mitmproxy's additional volumes      *)
(* compose-proxy.yml of services.mitmproxy the image, command, entrypoint, *)
(*                   ports, environment and volumes                        *)
(*                                                                         *)
(* A mount is [source, target], each a place and a path below it; its mode *)
(* and the comments that explain it are layout.  A disabled mount is a     *)
(* comment at the foot of the last active one.  A command line is the      *)
(* sequence of its words.                                                  *)
(***************************************************************************)
EXTENDS Registries

Mount(source, target) == [source |-> source, target |-> target]

ComposeTemplate ==
  [name |-> "", environment |-> << >>, workingDir |-> << >>, volumes |-> << >>,
   caps |-> << >>, external |-> << >>, mitmVolumes |-> << >>]

(* The top-level name, "" when unset.                                      *)
ProjectName(doc) == doc.name

SetProjectName(doc, name) == [doc EXCEPT !.name = name]

(* No entries, no key: compose rejects an empty mapping.                   *)
MergeAgentEnvironment(doc, entries) == [doc EXCEPT !.environment = @ \o entries]

(* Adding text below an empty sequence is an error in the code; here every *)
(* edit follows SetWorkspace, which leaves the sequence non-empty.         *)
AppendFootComment(seq, mount) == [seq EXCEPT ![Len(seq)].foot = Append(@, mount)]

AddVolumeEntry(doc, mount, active) ==
  IF active
    THEN [doc EXCEPT !.volumes = Append(@, [mount |-> mount, foot |-> << >>])]
    ELSE [doc EXCEPT !.volumes = AppendFootComment(@, mount)]

(* One after the other.                                                    *)
AddVolumeEntries(doc, mounts, active) ==
  IF active
    THEN [doc EXCEPT !.volumes =
            @ \o [i \in DOMAIN mounts |-> [mount |-> mounts[i], foot |-> << >>]]]
    ELSE [doc EXCEPT !.volumes[Len(doc.volumes)].foot = @ \o mounts]

Workspace(project) == <<"/workspaces", project>>

Above(path) == <<"..", path>>

SetWorkspace(doc, project) ==
  AddVolumeEntries([doc EXCEPT !.workingDir = Workspace(project)],
    << Mount(Above(<< >>), Workspace(project)),
       Mount(Above(<<".devcontainer">>), <<"/workspaces", project, ".devcontainer">>),
       Mount(Above(<<".snadcat">>), <<"/workspaces", project, ".snadcat">>) >>, TRUE)

(* The project's .snadcat is a directory of the addon's settings layers.   *)
AddSettingsVolume(doc) ==
  [doc EXCEPT !.mitmVolumes = Append(@, Mount(Above(<<".snadcat">>), <<"/config/project">>))]

AtHome(path) == Mount(<<"~", path>>, <<"/home/vscode", path>>)

AgentMounts(agent, project) ==
  CASE agent = "claude" ->
         << AtHome(<<".claude/CLAUDE.md">>), AtHome(<<".claude/agents">>), AtHome(<<".claude/commands">>) >>
    [] agent = "codex" ->
         << Mount(<<"~", <<".codex/AGENTS.md">>>>, <<"/home/vscode", <<".codex-host/AGENTS.md">>>>),
            AtHome(<<".codex/skills">>), AtHome(<<".codex/commands">>) >>
    [] agent = "copilot" ->
         << AtHome(<<".copilot/mcp-config.json">>), AtHome(<<".copilot/session-state">>) >>
    [] agent = "cursor" ->
         << AtHome(<<".cursor/AGENTS.md">>), AtHome(<<".cursor/rules">>), AtHome(<<".cursor/skills">>),
            AtHome(<<".cursor/commands">>), AtHome(<<".cursor/hooks.json">>), AtHome(<<".cursor/hooks">>),
            AtHome(<<".cursor/agents">>), AtHome(<<".cursor/mcp.json">>),
            AtHome(<<".cursor/projects", CursorWorkspaceProjectID(project)>>) >>

AddAgentConfigVolumes(doc, agent, active, project) ==
  AddVolumeEntries(doc, AgentMounts(agent, project), active)

AddGitReadonlyVolume(doc, active) ==
  AddVolumeEntry(doc, Mount(Above(<<".git">>), <<"/workspace", ".git">>), active)

AddIdeaReadonlyVolume(doc, active) ==
  AddVolumeEntry(doc, Mount(Above(<<".idea">>), <<"/workspace", ".idea">>), active)

(* A named volume, mounted at the cache's directory.                       *)
CacheMount(cache) == Mount(<<"volume", <<cache>>>>, <<"cache directory", cache>>)

(* Mutant: the volumes are declared even when nothing mounts them.         *)
DeclareSharedCaches(doc, active, resolved) ==
  LET caches == SharedCaches(resolved)
  IN  [AddVolumeEntries(doc, [i \in DOMAIN caches |-> CacheMount(caches[i])], active)
       EXCEPT !.external = @ \o caches]

(* The caches of the stacks, mounted and declared external, or neither.    *)
AddSharedCacheVolumes(doc, active, resolved) ==
  LET caches  == SharedCaches(resolved)
      mounted == AddVolumeEntries(doc, [i \in DOMAIN caches |-> CacheMount(caches[i])], active)
  IN  IF active THEN [mounted EXCEPT !.external = @ \o caches] ELSE mounted

AddJetBrainsCapabilities(doc) ==
  [doc EXCEPT !.caps = @ \o <<"DAC_OVERRIDE", "CHOWN", "FOWNER">>]

(* The toggles: a default, which only "true" keeps or turns on.            *)
Toggle(env, name, def) == IF name \in DOMAIN env THEN env[name] = "true" ELSE def

MountOptions(agent, env) ==
  [agentConfig |-> Toggle(env, MountEnvVar[agent], TRUE),
   git         |-> Toggle(env, "SNADCAT_MOUNT_GIT_READONLY", FALSE),
   idea        |-> Toggle(env, "SNADCAT_MOUNT_IDEA_READONLY", FALSE),
   cache       |-> Toggle(env, "SNADCAT_MOUNT_SHARED_CACHE", TRUE)]

(* Everything init does to services.agent.volumes, in its order.  JetBrains*)
(* turns the .idea mount on, whatever the toggle says.                     *)
Customize(doc, project, agent, ide, resolved, mounts) ==
  LET workspace == AddSettingsVolume(SetWorkspace(doc, project))
      config    == AddAgentConfigVolumes(workspace, agent, mounts.agentConfig, project)
      git       == AddGitReadonlyVolume(config, mounts.git)
      idea      == AddIdeaReadonlyVolume(git, mounts.idea \/ ide = "jetbrains")
      caches    == AddSharedCacheVolumes(idea, mounts.cache, resolved)
  IN  IF ide = "jetbrains" THEN AddJetBrainsCapabilities(caches) ELSE caches

(* The external volumes run creates before it starts anything.             *)
ExternalCacheVolumes(doc) == doc.external

(***************************************************************************)
(* compose-proxy.yml                                                       *)
(***************************************************************************)

MitmproxyVersion == "12.2.3"

(* What the generator finds in the template.                               *)
ProxyTemplate ==
  [image       |-> <<"mitmproxy/mitmproxy", "__MITMPROXY_VERSION__">>,
   command     |-> <<"mitmweb", "--web-host", "web_password", "__MITM_HTTP2__",
                     "__AGENT_MITM_STREAMING_FLAGS__", "__AGENT_MITM_ADDON__">>,
   entrypoint  |-> <<"chown && rm && (wait && publish CA) &", "exec docker-entrypoint.sh">>,
   ports       |-> <<"8081">>,
   environment |-> << >>,
   volumes     |-> << Mount(<<"./scripts", "__AGENT_MITM_ADDON__">>, "/scripts"),
                      Mount(<<"~/.config/sandcat/settings.json">>, "/config/settings.json") >>]

(* mitmdump has neither a web interface nor a port for it.                 *)
SetProxyTUIMode(doc) ==
  [doc EXCEPT !.command = Without([@ EXCEPT ![1] = "mitmdump"],
                                  {"--web-host", "web_password"}),
              !.ports = << >>]

ValidSecretProvider(provider) == provider \in {"none", "1password", "protonpass"}

(* Mutant: the token of the other provider is passed through.              *)
SwapSecretProvider(doc, provider) ==
  IF provider = "none" THEN doc
  ELSE [doc EXCEPT
          !.image = <<IF provider = "1password" THEN "sandcat-mitmproxy-op"
                      ELSE "sandcat-mitmproxy-pass", MitmproxyVersion>>,
          !.environment = <<"OP_SERVICE_ACCOUNT_TOKEN">>]

(* The provider's image, and the one credential it reads.                  *)
ApplySecretProvider(doc, provider) ==
  CASE provider = "1password"  ->
         [doc EXCEPT !.image = <<"sandcat-mitmproxy-op", MitmproxyVersion>>,
                     !.environment = <<"OP_SERVICE_ACCOUNT_TOKEN">>]
    [] provider = "protonpass" ->
         [doc EXCEPT !.image = <<"sandcat-mitmproxy-pass", MitmproxyVersion>>,
                     !.environment = <<"PROTON_PASS_PERSONAL_ACCESS_TOKEN">>]
    [] OTHER -> doc

CaInstall == "install /upstream-ca/*.crt || exit 1"

(* Mutant: the install is part of the list that runs in the background.    *)
InstallCaLast(doc, bundles) ==
  IF bundles = << >> THEN doc
  ELSE [doc EXCEPT
          !.volumes = @ \o [i \in DOMAIN bundles |-> Mount(<<bundles[i]>>, "/upstream-ca")],
          !.entrypoint = Append(@, CaInstall)]

(* The bundles have been validated; their installation is prepended to the *)
(* entrypoint, before anything else runs.                                  *)
ApplyUpstreamCABundles(doc, bundles) ==
  IF bundles = << >> THEN doc
  ELSE [doc EXCEPT
          !.volumes = @ \o [i \in DOMAIN bundles |-> Mount(<<bundles[i]>>, "/upstream-ca")],
          !.entrypoint = <<CaInstall>> \o @]
=============================================================================
