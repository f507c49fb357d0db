----------------------------- MODULE Devcontainer -----------------------------
(***************************************************************************)
(* The steps in which a .devcontainer directory is generated, as functions *)
(* from the tree of files and the choices made to the next content of one  *)
(* file.  The module InitCommand takes the steps.                          *)
(*                                                                         *)
(* A text file is its sequence of lines, a line the sequence of its words, *)
(* of which only placeholders and what replaces them are kept.             *)
(***************************************************************************)
EXTENDS ComposeFile

Lines(ls)     == [lines |-> ls]
Packages(ps)  == [packages |-> ps]
Compose(doc)  == [compose |-> doc]
Proxy(doc)    == [proxy |-> doc]
NotThere      == [file |-> "missing"]
CutOff        == [file |-> "malformed"]    \* its writing was interrupted

(***************************************************************************)
(* Placeholders                                                            *)
(***************************************************************************)

(* A line that holds a token is replaced by the lines of its replacement,  *)
(* of which there may be none.  (No line holds two tokens of one call.)    *)
ApplyLinePlaceholders(lines, pairs) ==
  FlattenSeq([i \in DOMAIN lines |->
    LET tokens == {t \in DOMAIN pairs : Contains(lines[i], t)}
    IN  IF tokens = {} THEN <<lines[i]>> ELSE pairs[CHOOSE t \in tokens : TRUE]])

(* Every occurrence of a token is replaced within its line.                *)
ApplyInlinePlaceholders(words, pairs) ==
  FlattenSeq([i \in DOMAIN words |->
    IF words[i] \in DOMAIN pairs THEN pairs[words[i]] ELSE <<words[i]>>])

OneLine(word) == << <<word>> >>
EachLine(words) == [i \in DOMAIN words |-> <<words[i]>>]

(***************************************************************************)
(* Templates                                                               *)
(***************************************************************************)

Template ==
  [f \in {"Dockerfile.app", "compose-all.yml", "devcontainer.json", "compose-proxy.yml",
          "app-user-init.sh"} |->
     CASE f = "Dockerfile.app" ->
            Lines(<< <<"__AGENT_DOCKER_INSTALL__">>, <<"__DEVBOX_INSTALL__">>,
                     <<"__AGENT_DOCKER_HOME_PREP__">> >>)
       [] f = "compose-all.yml" -> Compose(ComposeTemplate)
       [] f = "devcontainer.json" ->
            Lines(<< <<"name", "__PROJECT_NAME__">>, <<"__CUSTOMIZATIONS_START__">>,
                     <<"__AGENT_EXTENSION__">>, <<"__STACK_EXTENSIONS__">>,
                     <<"__AGENT_SETTINGS__">>, <<"__CUSTOMIZATIONS_END__">> >>)
       [] f = "compose-proxy.yml" -> Proxy(ProxyTemplate)
       [] f = "app-user-init.sh" -> Lines(OneLine("__AGENT_USER_INIT__"))]

TemplateOrder ==
  <<"Dockerfile.app", "compose-all.yml", "devcontainer.json", "compose-proxy.yml",
    "app-user-init.sh">>

(* devbox.tools.json is the user's once it exists.                         *)
GeneratedFiles == DOMAIN Template \cup {"devbox.stack.json"}
AllFiles == GeneratedFiles \cup {"devbox.tools.json"}

(***************************************************************************)
(* Blocks                                                                  *)
(***************************************************************************)

RtkLine(rtk) == IF rtk THEN OneLine("install rtk") ELSE << >>

DockerInstallBlock(agent, rtk) == << <<"install", agent>> >> \o RtkLine(rtk)

DockerHomePrepBlock(agent) == << <<"home", agent>> >>

(* rtk has a profile for two agents only.                                  *)
UserInitBlock(agent, rtk) ==
  << <<"init", agent>> >> \o
  IF rtk /\ agent \in {"claude", "cursor"} THEN OneLine("init rtk") ELSE << >>

DevcontainerSettingsBlock(agent) ==
  IF agent \in {"claude", "cursor"} THEN << <<"settings", agent>> >> ELSE << >>

DevboxBlock == OneLine("install devbox")

(***************************************************************************)
(* Editing devcontainer.json                                               *)
(***************************************************************************)

StackExtensionLines(resolved) == EachLine(Extensions(resolved))

AgentExtensionLine(agent) == OneLine(VSCodeExtension[agent])

NoPlugins == "plugins: []"

(* A line that begins the block does not end it.                           *)
IsEnd(line) ==
  Contains(line, "__CUSTOMIZATIONS_END__") /\ ~Contains(line, "__CUSTOMIZATIONS_START__")

(* A line above line i begins the block, and none between them ends it.    *)
InCustomizations(lines, i) ==
  \E s \in 1..(i - 1) :
    /\ Contains(lines[s], "__CUSTOMIZATIONS_START__")
    /\ \A k \in s..(i - 1) : ~IsEnd(lines[k])

(* The bracketed block stays for vscode, becomes that of JetBrains, or     *)
(* goes; the marker lines go in any case.                                  *)
ApplyIDECustomizations(lines, ide) ==
  FlattenSeq([i \in DOMAIN lines |->
    CASE Contains(lines[i], "__CUSTOMIZATIONS_START__") ->
           IF ide = "jetbrains" THEN OneLine(NoPlugins) ELSE << >>
      [] IsEnd(lines[i]) -> << >>
      [] OTHER -> IF InCustomizations(lines, i) /\ ide # "vscode" THEN << >> ELSE <<lines[i]>>])

CustomizeJSON(lines, project, ide) ==
  ApplyIDECustomizations(
    [i \in DOMAIN lines |->
       ApplyInlinePlaceholders(lines[i], [t \in {"__PROJECT_NAME__"} |-> <<project>>])], ide)

(* Without plugins the empty array stays.                                  *)
CustomizePlugins(lines, resolved) ==
  LET ids == JetBrainsPlugins(resolved)
  IN  IF ids = << >> THEN lines
      ELSE [i \in DOMAIN lines |->
              ApplyInlinePlaceholders(lines[i], [t \in {NoPlugins} |-> <<"plugins:">> \o ids])]

(***************************************************************************)
(* Steps                                                                   *)
(***************************************************************************)

(* c: the choices of one run, see InitCommand.  The devbox block expands   *)
(* before the agent's blocks of the same file; the last step is taken only *)
(* for JetBrains with stacks.                                              *)
GenerateSteps(c) ==
  [i \in DOMAIN TemplateOrder |-> <<"copy", TemplateOrder[i]>>] \o
  << <<"stacks", "devcontainer.json">>,
     <<"stacks", "devbox.stack.json">>, <<"tools", "devbox.tools.json">>,
     <<"devbox", "Dockerfile.app">>, <<"load", "compose-all.yml">>,
     <<"agent", "devcontainer.json">>, <<"agent", "Dockerfile.app">>,
     <<"agent", "app-user-init.sh">>, <<"agent", "compose-proxy.yml">>,
     <<"proxy", "compose-proxy.yml">>, <<"save", "compose-all.yml">>,
     <<"ide", "devcontainer.json">> >> \o
  IF c.ide = "jetbrains" /\ c.stacks # << >>
    THEN << <<"plugins", "devcontainer.json">> >> ELSE << >>

InlineProxy(doc, agent) ==
  LET pairs == [t \in {"__AGENT_MITM_ADDON__", "__MITM_HTTP2__",
                       "__AGENT_MITM_STREAMING_FLAGS__", "__MITMPROXY_VERSION__"} |->
                  CASE t = "__AGENT_MITM_ADDON__" -> <<"mitmproxy_addon", agent>>
                    [] t = "__MITM_HTTP2__" -> <<"http2=true">>
                    [] t = "__AGENT_MITM_STREAMING_FLAGS__" -> MitmStreamingFlags(agent)
                    [] t = "__MITMPROXY_VERSION__" -> <<MitmproxyVersion>>]
  IN  [doc EXCEPT !.image = ApplyInlinePlaceholders(@, pairs),
                  !.command = ApplyInlinePlaceholders(@, pairs),
                  !.volumes = [i \in DOMAIN @ |->
                     Mount(ApplyInlinePlaceholders(@[i].source, pairs), @[i].target)]]

(* The placeholders the steps "stacks", "devbox" and "agent" replace.      *)
LinePairs(verb, file, c) ==
  CASE verb = "stacks" ->
         [t \in {"__STACK_EXTENSIONS__"} |-> StackExtensionLines(c.stacks)]
    [] verb = "devbox" -> [t \in {"__DEVBOX_INSTALL__"} |-> DevboxBlock]
    [] verb = "agent" /\ file = "devcontainer.json" ->
         [t \in {"__AGENT_EXTENSION__", "__AGENT_SETTINGS__"} |->
            IF t = "__AGENT_EXTENSION__" THEN AgentExtensionLine(c.agent)
            ELSE DevcontainerSettingsBlock(c.agent)]
    [] verb = "agent" /\ file = "Dockerfile.app" ->
         [t \in {"__AGENT_DOCKER_INSTALL__", "__AGENT_DOCKER_HOME_PREP__"} |->
            IF t = "__AGENT_DOCKER_INSTALL__" THEN DockerInstallBlock(c.agent, c.rtk)
            ELSE DockerHomePrepBlock(c.agent)]
    [] verb = "agent" /\ file = "app-user-init.sh" ->
         [t \in {"__AGENT_USER_INIT__"} |-> UserInitBlock(c.agent, c.rtk)]

(* compose-proxy.yml is loaded and saved only if there is something to do. *)
EditProxy(doc, c, bundles) ==
  ApplyUpstreamCABundles(
    ApplySecretProvider(IF c.tui THEN SetProxyTUIMode(doc) ELSE doc, c.provider), bundles)

(* Mutant: a file that is there, and not cut off, is kept.                 *)
CopyMissing(file, old) == IF old \in {NotThere, CutOff} THEN Template[file] ELSE old

(* Mutant: a file gets the text of the one that follows.                   *)
CopyFollowing(file, old) ==
  LET i == CHOOSE i \in DOMAIN TemplateOrder : TemplateOrder[i] = file
  IN  Template[TemplateOrder[(i % Len(TemplateOrder)) + 1]]

(* Whatever is there is overwritten.                                       *)
CopyTemplate(file, old) == Template[file]

(* Written once, then the user's.                                          *)
ToolsJson(old) == IF old # NotThere THEN old ELSE Packages(<< >>)

(* What a step makes of its file; "load" and "save" are InitCommand's.     *)
Generated(step, tree, c, bundles) ==
  LET verb == step[1]
      file == step[2]
      old  == tree[file]
  IN  CASE verb = "copy"  -> CopyTemplate(file, old)
        [] step = <<"stacks", "devbox.stack.json">> -> Packages(StackJson(c.stacks))
        [] verb = "tools" -> ToolsJson(old)
        [] step = <<"agent", "compose-proxy.yml">> -> Proxy(InlineProxy(old.proxy, c.agent))
        [] verb = "proxy"   -> Proxy(EditProxy(old.proxy, c, bundles))
        [] verb = "ide"     -> Lines(CustomizeJSON(old.lines, c.name, c.ide))
        [] verb = "plugins" -> Lines(CustomizePlugins(old.lines, c.stacks))
        [] OTHER -> Lines(ApplyLinePlaceholders(old.lines, LinePairs(verb, file, c)))

(* services.agent of compose-all.yml: the stacks' environment before the   *)
(* agent's, then volumes and, last, the name.                              *)
FinishedCompose(doc, c) ==
  SetProjectName(
    Customize(MergeAgentEnvironment(doc, ComposeEnvironment(c.agent)),
              c.name, c.agent, c.ide, c.stacks, c.mounts), c.name)

(* A placeholder is left somewhere in the file.                            *)
Placeholders ==
  {"__PROJECT_NAME__", "__CUSTOMIZATIONS_START__", "__CUSTOMIZATIONS_END__",
   "__AGENT_EXTENSION__", "__STACK_EXTENSIONS__", "__AGENT_SETTINGS__",
   "__AGENT_DOCKER_INSTALL__", "__DEVBOX_INSTALL__", "__AGENT_DOCKER_HOME_PREP__",
   "__AGENT_USER_INIT__", "__AGENT_MITM_ADDON__", "__MITM_HTTP2__",
   "__AGENT_MITM_STREAMING_FLAGS__", "__MITMPROXY_VERSION__"}

Unexpanded(content) ==
  CASE "lines" \in DOMAIN content ->
         \E i \in DOMAIN content.lines : Range(content.lines[i]) \cap Placeholders # {}
    [] "proxy" \in DOMAIN content ->
         \/ Range(content.proxy.image \o content.proxy.command) \cap Placeholders # {}
         \/ \E i \in DOMAIN content.proxy.volumes :
              Range(content.proxy.volumes[i].source) \cap Placeholders # {}
    [] OTHER -> FALSE
=============================================================================
