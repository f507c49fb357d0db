---------------------------- MODULE MCInitCommand ----------------------------
(***************************************************************************)
(* Constants of InitCommand for TLC.  Templates, presets and stacks are    *)
(* the real ones, cut down to the hosts of the model.                      *)
(***************************************************************************)
EXTENDS InitSettings

MCHosts == {"github.com", "api.openai.com", "registry.npmjs.org", "pypi.org"}

MCGlob == [pattern \in {"*", "github.com", "*.anthropic.com", "pypi.org", "api.openai.com"} |->
             IF pattern = "*" THEN MCHosts ELSE {pattern} \cap MCHosts]

(* NETWORK_PRESETS of the addon has these names.                           *)
MCPresets ==
  [name \in {"python", "node", "java", "scala", "go", "rust", "ruby", "dotnet", "zig", "nix",
            "vscode", "jetbrains", "github", "anthropic", "openai"} |->
     CASE name = "python" -> <<{"pypi.org"}>>
       [] name = "node"   -> <<{"registry.npmjs.org"}>>
       [] OTHER           -> <<{}>>]

strings(seq) == Arr([i \in DOMAIN seq |-> Str(seq[i])])
rule(action, pattern) == Obj([action |-> Str(action), host |-> Str(pattern)])
ruleFor(action, pattern, method) ==
  Obj([action |-> Str(action), host |-> Str(pattern), method |-> Str(method)])
preset(name) == Obj([preset |-> Str(name)])
secret(value, hosts) == Obj([value |-> Str(value), hosts |-> strings(hosts)])

MCUserTemplate ==
  [agent \in AgentNames |->
     [env     |-> Obj(<< >>),
      secrets |-> Obj([GITHUB_TOKEN |-> secret("", <<"github.com">>)]),
      network |-> Arr(<<rule("allow", "github.com"),
                        IF agent = "codex" THEN rule("allow", "api.openai.com")
                        ELSE rule("allow", "*.anthropic.com")>>)]]

MCProjectTemplate == [network |-> Arr(<<ruleFor("allow", "*", "GET")>>)]

(***************************************************************************)
(* What the user writes                                                    *)
(***************************************************************************)

(* Opinions on everything the agents' defaults touch.                      *)
Own ==
  Saved([network |-> Arr(<<ruleFor("deny", "api.openai.com", "POST"), preset("node"),
                           rule("deny", "pypi.org")>>),
         secrets |-> Obj([OPENAI_API_KEY |-> secret("mine", <<"my.proxy">>)]),
         cursor  |-> Obj([cli |-> Obj([network |-> Obj([useHttp1ForAgent |-> Lit("false")])])]),
         op_service_account_token |-> Lit("null"),
         upstream_ca_bundles |-> strings(<<"/good.pem">>)])

BadBundle == Saved([upstream_ca_bundles |-> strings(<<"/bad.pem">>)])

(* Two presets, and a secret read with op.                                 *)
TwoPresets ==
  Saved([network |-> Arr(<<preset("node"), preset("python")>>),
         secrets |-> Obj([OPENAI_API_KEY |-> Obj([op |-> Str("op://vault/item")])])])

(***************************************************************************)
(* Scenarios                                                               *)
(***************************************************************************)

given(userFile, hostFiles, localFile, tools, ignoreFile, git) ==
  [user |-> userFile, host |-> hostFiles, local |-> localFile, tools |-> tools,
   ignore |-> ignoreFile, git |-> git]

(* A repository on a new machine; one with files of the user's everywhere  *)
(* and a block in .gitignore that is not closed; one outside a repository. *)
MCProjects ==
  {given(Missing, << >>, Missing, NotThere, Text(<<"node_modules", "", "*.log">>), TRUE),
   given(Own, [p \in {<<".codex/AGENTS.md">>} |-> "user"],
         Saved([upstream_ca_bundles |-> strings(<<"/other.pem">>)]),
         Packages(<<"a tool of the user's">>), Text(<<"build", StartMarker, "*.log">>), TRUE),
   given(Malformed, << >>, Missing, NotThere, Text(<<"build">>), FALSE)}

invoke(command, agent, ide, provider, features, stacks, env) ==
  [command |-> command, name |-> "app", agent |-> agent, ide |-> ide, provider |-> provider,
   onePassword |-> FALSE, features |-> features, proxy |-> "", stacks |-> stacks, env |-> env]

MCInvocations ==
  {invoke("init", "claude", "vscode", "none", {}, <<"scala">>,
          [SNADCAT_MOUNT_CLAUDE_CONFIG |-> "false"]),
   invoke("init", "codex", "jetbrains", "protonpass",
          {"tui", "strict-network", "no-shared-cache", "no-gitignore"},
          <<"scala", "python">>, << >>),
   invoke("init", "cursor", "none", "1password", {"no-rtk"}, << >>,
          [SNADCAT_MOUNT_CURSOR_CONFIG |-> "false", SNADCAT_MOUNT_GIT_READONLY |-> "true"]),
   invoke("init devcontainer", "codex", "vscode", "vault", {}, << >>, << >>),
   invoke("init devcontainer", "claude", "none", "", {}, <<"java", "cobol">>,
          [SNADCAT_MOUNT_CLAUDE_CONFIG |-> "false"]),
   invoke("init settings", "claude", "none", "", {"strict-network"}, <<"java", "scala", "python">>, << >>),
   invoke("init", "claude", "vscode", "none", {"no-cache"}, << >>, << >>)}

MCUserEdits == {[file |-> "local", content |-> BadBundle]}
MCGoodBundles == {"/good.pem", "/other.pem"}

(* The interrupted steps: user settings, the paths on the host, the local  *)
(* layer, three of the generated tree and .gitignore.                      *)
MCInterrupts == {"paths", "token", "project", "local", "tools", "save", "block"}

(* A .gitignore with rules of the user's.                                  *)
CutProjects == {given(Missing, << >>, Missing, NotThere, Text(<<"node_modules">>), TRUE)}

(* One codex project after another.                                        *)
ReseedProjects == {given(TwoPresets, << >>, Missing, NotThere, NoFile, TRUE)}
ReseedInvocations == {invoke("init", "codex", "none", "none", {}, << >>, << >>)}
=============================================================================
