------------------------------ MODULE Registries ------------------------------
(***************************************************************************)
(* The tables of stacks and agents, and the lookups made in them.          *)
(***************************************************************************)
EXTENDS Lists

(***************************************************************************)
(* Stacks                                                                  *)
(***************************************************************************)

Stack(name, deps, packages, extension, plugin, env, caches) ==
  [name |-> name, deps |-> deps, packages |-> packages, extension |-> extension,
   plugin |-> plugin, env |-> env, caches |-> caches]

jvmCaches ==
  <<"snadcat-cache-maven", "snadcat-cache-coursier", "snadcat-cache-gradle",
    "snadcat-cache-gradle-wrapper", "snadcat-cache-ivy", "snadcat-cache-sbt-boot">>

(* In the order of the picker; "" and << >> where a stack has none.        *)
AllStacks == <<
  Stack("node", << >>, <<"nodejs">>, "", "", << >>, << >>),
  Stack("python", << >>, <<"python">>, "ms-python.python", "PythonCore",
        <<"UV_SYSTEM_CERTS">>, << >>),
  Stack("java", << >>, <<"temurin-bin-25">>, "redhat.java", "", << >>, jvmCaches),
  Stack("rust", << >>, <<"rustc", "cargo">>, "rust-lang.rust-analyzer", "", << >>, << >>),
  Stack("go", << >>, <<"go">>, "golang.go", "org.jetbrains.plugins.go", << >>, << >>),
  Stack("scala", <<"java">>, <<"scala", "sbt", "scala-cli">>, "scalameta.metals",
        "org.intellij.scala", << >>, << >>),
  Stack("ruby", << >>, <<"ruby">>, "shopify.ruby-lsp", "org.jetbrains.plugins.ruby",
        << >>, << >>),
  Stack("dotnet", << >>, <<"dotnet-sdk">>, "ms-dotnettools.csdevkit", "", << >>, << >>),
  Stack("zig", << >>, <<"zig">>, "ziglang.vscode-zig", "com.falsepattern.zigbrains",
        << >>, << >>) >>

StackNames == {AllStacks[i].name : i \in DOMAIN AllStacks}

(* An unknown name is not an error here: it stands for a stack that brings *)
(* nothing.                                                                *)
StackByName(name) ==
  IF name \in StackNames THEN CHOOSE s \in Range(AllStacks) : s.name = name
  ELSE Stack("", << >>, << >>, "", "", << >>, << >>)

ValidStacks(names) == Range(names) \subseteq StackNames

(* Mutant: dependencies are not pulled in.                                 *)
ResolveNothing(names) == FirstSeen(names)

(* Dependencies come before what depends on them, each stack once.         *)
Resolve(names) ==
  FirstSeen(FlattenSeq([i \in DOMAIN names |-> Append(StackByName(names[i]).deps, names[i])]))

SharedCaches(resolved) ==
  FirstSeen(FlattenSeq([i \in DOMAIN resolved |-> StackByName(resolved[i]).caches]))

DevboxPackages(resolved) ==
  FlattenSeq([i \in DOMAIN resolved |-> StackByName(resolved[i]).packages])

EnvEntries(resolved) ==
  FlattenSeq([i \in DOMAIN resolved |-> StackByName(resolved[i]).env])

NonEmpty(names) == Without(names, {""})

Extensions(resolved) ==
  NonEmpty([i \in DOMAIN resolved |-> StackByName(resolved[i]).extension])

JetBrainsPlugins(resolved) ==
  NonEmpty([i \in DOMAIN resolved |-> StackByName(resolved[i]).plugin])

BaselinePackages == <<"fd", "fzf", "gh", "jq", "ripgrep", "tmux", "vim">>

StackJson(resolved) == BaselinePackages \o DevboxPackages(resolved)

(***************************************************************************)
(* Agents                                                                  *)
(***************************************************************************)

AgentNames == {"claude", "cursor", "codex", "copilot"}

(* The environment variable that turns the agent's config mounts off.      *)
MountEnvVar ==
  [claude |-> "SNADCAT_MOUNT_CLAUDE_CONFIG", cursor |-> "SNADCAT_MOUNT_CURSOR_CONFIG",
   codex |-> "SNADCAT_MOUNT_CODEX_CONFIG", copilot |-> "SNADCAT_MOUNT_COPILOT_CONFIG"]

VSCodeExtension ==
  [claude |-> "anthropic.claude-code", cursor |-> "anysphere.cursor",
   codex |-> "openai.chatgpt", copilot |-> "GitHub.copilot"]

ComposeEnvironment(agent) ==
  IF agent = "claude" THEN <<"CLAUDE_CODE_DISABLE_NONESSENTIAL_TRAFFIC">> ELSE << >>

(* Only Cursor's traffic needs flags.                                      *)
MitmStreamingFlags(agent) == IF agent = "cursor" THEN <<"stream_large_bodies">> ELSE << >>

(* Cursor's name for the directory of a workspace, its path with hyphens   *)
(* for slashes: the words between the hyphens.                             *)
CursorWorkspaceProjectID(project) == <<"workspaces", project>>

(* What the optional mounts bind, below the user's home directory, in the  *)
(* order in which it is made ready; a path is a sequence.                  *)
HostConfigPaths(agent, project) ==
  CASE agent = "claude"  ->
         << <<".claude/agents">>, <<".claude/commands">>, <<".claude/CLAUDE.md">> >>
    [] agent = "cursor"  ->
         << <<".cursor/rules">>, <<".cursor/skills">>, <<".cursor/commands">>, <<".cursor/agents">>,
            <<".cursor/hooks">>, <<".cursor/projects", CursorWorkspaceProjectID(project)>>,
            <<".cursor/AGENTS.md">>, <<".cursor/hooks.json">>, <<".cursor/mcp.json">> >>
    [] agent = "codex"   ->
         << <<".codex/AGENTS.md">>, <<".codex/skills">>, <<".codex/commands">> >>
    [] agent = "copilot" ->
         << <<".copilot/mcp-config.json">>, <<".copilot/session-state">> >>

(* Those that are files; the others are directories.                       *)
HostFiles ==
  {<<".claude/CLAUDE.md">>, <<".codex/AGENTS.md">>, <<".copilot/mcp-config.json">>,
   <<".cursor/AGENTS.md">>, <<".cursor/hooks.json">>, <<".cursor/mcp.json">>}

(* A new JSON file of Cursor's is a minimal document, not an empty file.   *)
DefaultContent(path) ==
  IF path \in {<<".cursor/hooks.json">>, <<".cursor/mcp.json">>} THEN "minimal" ELSE "empty"

(* Mutant: without the variable there is nothing to prepare.               *)
MountEnabledIfSet(agent, env) ==
  MountEnvVar[agent] \in DOMAIN env /\ env[MountEnvVar[agent]] = "true"

(* Unset means on; otherwise only "true" does.                             *)
MountEnabled(agent, env) ==
  MountEnvVar[agent] \in DOMAIN env => env[MountEnvVar[agent]] = "true"

(* A file that is missing or has no bytes is written.                      *)
EnsureFile(host, path) ==
  IF path \in DOMAIN host /\ host[path] # "empty" THEN host[path] ELSE DefaultContent(path)

(* host: path below the home directory -> what is there.                   *)
EnsurePaths(host, paths) ==
  [p \in DOMAIN host \cup paths |->
     CASE p \in paths \cap HostFiles -> EnsureFile(host, p)
       [] p \in DOMAIN host \ (paths \cap HostFiles) -> host[p]
       [] OTHER -> "directory"]

EnsureHostConfigPaths(host, agent, project, env) ==
  IF ~MountEnabled(agent, env) THEN host
  ELSE EnsurePaths(host, Range(HostConfigPaths(agent, project)))

(* Only the first k paths are ready; the last of them may be a file that   *)
(* has been created, or emptied, and not yet written.                      *)
PathsCutShort(host, agent, project, k) ==
  LET paths == HostConfigPaths(agent, project)
      ready == EnsurePaths(host, {paths[i] : i \in 1..k})
  IN  {ready} \cup
      {[ready EXCEPT ![p] = "empty"] :
         p \in {q \in HostFiles \cap {paths[k]} : q \notin DOMAIN host \/ host[q] = "empty"}}
=============================================================================
