# snadcat, specified

snadcat runs a coding agent in a sandbox of three containers. All traffic of the
agent goes through a WireGuard tunnel into mitmproxy, where an addon decides
which requests may pass and replaces placeholders of secrets by their values.
This directory holds TLA+ modules that model the program, TLC configurations
that check them on small instances, and proofs that hold for every instance.

Contents: [the system](#the-system), [modules](#modules),
[runs](#runs-and-what-they-show), [fairness](#fairness), [proofs](#proofs),
[disagreements](#where-code-and-text-disagree), [plan](#plan),
[what is not modelled](#what-is-not-modelled).

## The system

Paths are relative to `src/`; `sandcat/` stands for
`src/cli/templates/devcontainer/sandcat/`.

| component | source | state it keeps | operations | what makes it correct |
|---|---|---|---|---|
| mitmproxy container | `sandcat/compose-proxy.yml` | the main process, a background list of the entrypoint, sidecar files in two volumes, Docker's health | start, remove stale sentinels, publish the CA, `load()`, crash, probe | healthy means that *this* start's `load()` has written `dns.conf` |
| wg-client container | `sandcat/scripts/wg-client-init.sh`, `dnsmasq-ready` | network namespace, kill switch, dnsmasq and its upstreams, hosts block, `/tmp/wg-ready` | the phases of `main()`, supervision, policy restart, probe | confined before it forwards; dnsmasq comes back without a new namespace |
| agent container | `sandcat/scripts/app-init.sh`, `compose-agent.yml` | the namespace it joined, its `resolv.conf`, CA, environment, home volume | adopt the resolver, install the CA, source `sandcat.env`, sync the snapshot | never on a dead or unconfined namespace; environment of the promised settings |
| stack commands | `internal/cli/simple.go`, `passthrough.go`, `internal/dockercli` | none of their own beyond a running command | `restart`, `compose up -d`, `compose down`, `run` | "New settings are now active" is true when it is printed |
| addon: policy | `sandcat/scripts/mitmproxy_addon_common.py` | `network_rules` | merge the layers, expand presets, decide requests and DNS queries | the highest layer with a rule decides; DNS is not wider than HTTP |
| addon: secrets | same, and `mitmproxy_addon_cursor.py` | `secrets`, the pass-cli session | log in, verify, resolve, substitute, block leaks | values go only to listed hosts, placeholders to none |
| settings seeding | `internal/config`, `internal/jsonfile` | the user's settings file and the project's two | create, seed an agent's defaults, add the provider's token | adds defaults and overrides nothing |
| `init` and its subcommands | `internal/initialize`, `internal/cli` | options, the compose document in memory | check the options, then write file by file | a run that succeeds leaves what a run in an empty directory would; nothing of the user's is lost |
| managed `.gitignore` block | `internal/gitignore` | one file | `Update`, `RemoveBlock` | toggling converges; user lines stay |
| devcontainer and compose generation | `internal/devcontainer`, `internal/compose` | the generated tree | copy templates, replace placeholders, edit mounts, volumes and the proxy | mounts, declared volumes, prepared host paths and configured bundles agree |
| project commands | `simple.go`, `passthrough.go`, `internal/project` | project directories, containers and volumes in Docker | `run`, `compose`, `destroy`, `edit compose` | a command touches its own project only, or it is known when not, and can be repeated after it failed half-way |
| shared caches | `cache.go`, `dockercli/volumes.go` | volumes and their label | created by `run`; `cache list`, `cache rm` | no cache is taken away from a running sandbox |
| registries | `internal/stacks`, `internal/agents`, `devbox`, `rtk` | tables | lookup, dependency resolution | every stack and agent has what the generator and the addon expect of it |
| the bash implementation | `cli/libexec`, `cli/lib` | - | the same commands | agrees with the Go one (differential tests) |

**How they interact.** Settings files on the host are read by the addon once per
start of the proxy. It leaves sidecar files in volumes: `sandcat.env` for the
agent, `dns.conf` and `extra_hosts` for wg-client. wg-client publishes a
`resolv.conf` for the agent and owns the network namespace the agent joins when
*it* starts. Docker reports each container's health from files; `depends_on`
and `up --wait` gate on it, plain `restart` does not. Volumes outlive every
container, and a container's file system outlives its restarts: each consumer
is exposed to files of an earlier start. `init` writes everything the others read:
the settings layers, the compose files with their mounts, the host paths those
mounts bind. The project commands find a project by walking up from the working
directory and act on Docker by the project's *name*; between two docker
invocations of one command, commands of other shells go on.

**What is hard.** The order in which three independently started containers
write and read these files; restarts that stop half-way; crashes and the
restart policy of one of the three; a namespace replaced under a running agent;
several commands that answer secret by secret and may fail or hang; rule lists
and dictionaries merged in opposite orders; placeholders that hide in
encodings, or in each other; a dozen files written one after the other over
what earlier runs, other options, failures and the user have left; projects
inside projects, worked on from several shells. `PROJECT.json` lists these
hazards line by line, with the properties that cover them.

## Modules

| module | models | composed from |
|---|---|---|
| `SandboxVolumes` | settings files and sidecar files | - |
| `MitmproxyContainer` | entrypoint, the files `load()` writes, health check | `SandboxVolumes` |
| `WgClient` | `wg-client-init.sh`, dnsmasq, health check | `SandboxVolumes` |
| `AgentContainer` | the shared-file half of `app-init.sh` | `SandboxVolumes` |
| `SandboxStack` | Docker's part, the commands, and the composition | the three containers |
| `NetworkPolicy` | rules, presets, decisions (pure operators) | - |
| `SandcatAddon` | `load()`, `request()`, `dns_request()` | `NetworkPolicy` |
| `RestartContract` | abstract: what a successful `restart` promises | - |
| `Lists` | two loops over a list: leave some elements out, keep first occurrences (pure) | - |
| `JsonFile` | JSON documents and the edits made on them, as jq would (pure) | - |
| `UserSettings` | seeding of the settings files (pure) | `JsonFile` |
| `GitignoreBlock` | `HasBlock`, `Update`, `RemoveBlock` on lines (pure) | `Lists` |
| `Registries` | the tables of stacks and agents, their lookups (pure) | `Lists` |
| `ComposeFile` | the edits of compose documents (pure) | `Registries` |
| `Devcontainer` | the steps of `Generate` on the files they write (pure) | `ComposeFile` |
| `InitCommand` | `init`, `init settings`, `init devcontainer`, write by write | `UserSettings`, `GitignoreBlock`, `Devcontainer`, `NetworkPolicy` |
| `InitSettings` | what seeding may do to a document (`SettingsKept`, by recursion into it) | `InitCommand` |
| `ProjectCommands` | `run`, `compose`, `destroy`, `edit compose`, `cache` from several shells | - |
| `MCSandboxStack`, `MCSandcatAddon`, `MCInitCommand`, `MCProjectCommands` | constants for TLC | |
| `SandboxStackProofs`, `RestartContractProofs`, `OneShellProofs` | theorems about the stack: any number of shells, the contract, one shell | |
| `SandcatAddonProofs`, `SettingsLayersProofs` | theorems about the addon: policy and sessions; layers and the loop over secrets | |
| `ProjectCommandsProofs` | theorems about the project commands: files, containers, volumes and caches | |
| `InitCommandProofs` | theorems about `init` and its subcommands | |
| `Iterations` | lemmas on recursive functions over 0..n, and on the folds and loops of the models | |

**Files are versions.** In the stack a file is the version of the settings it was
derived from (`Absent` = -1 when it does not exist); `EditSettings` makes a new
version. That is what "active", "stale" and "default" are about, and their
contents are not. `NoLayers` are versions in which no settings file exists, for
which `load()` takes its early return. What the addon *does* with the contents
is the subject of `SandcatAddon`, a separate model: between its start and its
stop the addon reads nothing the other containers write.

**Containers.** `proxyPc`, `wgPc` and `agentPc` are positions between the
externally visible effects of the three start-up scripts; a phase of the script
is one action. `proxyPc` goes boot, env, dns, hosts, serving (`load()` writes
`sandcat.env`, `dns.conf`, `extra_hosts` in that order, without the first when
there is no layer). `bgPc` is the parenthesised list of the entrypoint, which
the shell runs beside mitmweb. `wgPc` follows the sections of `main()`. A
restart of wg-client turns the agent's namespace from "live" to "dead". An
`OSError` in a sidecar write is caught in the code and leaves the old file
(`SidecarWrite`).

**Commands.** A command is a list of steps, as in `newRestartCmd`; a compose
invocation that covers several services is the list of what compose does for
each. "gate" is `depends_on: service_healthy`, which fails only on an unhealthy
or exited container; "wait" is `--wait --wait-timeout 60`, which may give up at
any time. `asked`, `failed` and `promised` are history: what a successful
restart has told the user.

**The contract.** `RestartContract` knows neither containers nor health checks:
versions are edited, a proxy serves one or none, and each shell's restart is
idle, asked, fresh (the old proxy is gone) or seen (a new one served settings no
older than those asked for). Only from "seen" may it report success.
`SandboxStack` implements it under a refinement mapping: `phase[s]` is read off
the steps that remain of the command of `s`, `serving` off the health and the
version of the proxy. A report on the strength of another shell's restart, of a
proxy that was healthy before, or of a stale sentinel would not be a step of it.

**The addon.** A glob is the set of hosts it matches. A request carries sets of
fragments on five surfaces: the URL, header names, header values, Basic
credentials (encoded) and the body. `Inside` says which placeholder is a
substring of which. Header names are scanned (`str(headers)`) and not
rewritten; the body is not scanned when streaming and not rewritten when not
textual (the Cursor variant). One iteration of the loop in `_load_secrets` or
`_substitute_secrets` is one action.

**init.** A JSON document is a record `[obj |-> ...]`, `[arr |-> ...]`, a string or
a literal; a file is such a document, `Missing` or `Malformed`. A compose file is
its mounts (active or commented out), environment, volumes and name. A command
line is checked (`Valid`), turned into options (`Options`: a feature wins over
the environment, which only `init` itself asks about strictness) and then into the
list `todo` of its steps, in the order of the code; the steps of `Generate` depend
on the options (`GenerateSteps`). Each step but one writes at most one file and ends in one of three ways: it proceeds;
it quits with the code's error (a settings file that does not load, a bad CA
bundle, an unknown provider, a missing settings file to mount); or it is
interrupted, before the write or in the middle of it, where `os.WriteFile` has
truncated the file. The other step makes the host paths of an agent ready one
after the other and may end after any of them, the last one created but still
empty (`PathsCutShort`). `doc` is the compose document that is loaded early and
saved late. Between two commands the user may rewrite a settings file. Three
variables are history and serve the properties only: `origin`, what there was
before the first command, never changes; `cut` says whether a write of
`.gitignore` was ever cut short; `done` has the options of the last command if it
succeeded.

**Project commands.** A directory holds some of `.snadcat`, `.git`, `.devcontainer`
and `compose-all.yml`; `FindRoot` walks up to the innermost with a marker, so a
command in a destroyed project may resolve to the enclosing one. A command is a
job with a phase, one phase per docker invocation, per removal or per prompt,
and one action per phase; `job[s].root` and `.file` are the two searches, made when
the code makes them (`destroy` searches once before its prompt and again after).
Docker is external: `compose up` recreates services of another version,
`compose down` removes the containers of the project's *name*, in a failing run
possibly only some, `--volumes` its volumes, and `volume rm` refuses a volume in
use. `contended` is history: the projects two commands were at work in at once, and
those whose `destroy` waited at its prompt while `init` ran in a directory of its
path. Only in these can the second search of a `destroy` end elsewhere than the first.

## Runs, and what they show

| run | instance | properties | result |
|---|---|---|---|
| `stack_commands` | one shell, up/restart/down, one edit; load errors, failed writes, agent exits, Ctrl-C | `TypeOK HealthyMeansLoaded PromisedDns PromisedEnv AgentRelinked AgentConfined CaGuaranteed RestartHonoured` | hold (1.1 M states) |
| `stack_crashes` | one shell, up/restart; mitmproxy, wg-client, dnsmasq crash at will; no settings layer; fairness | `HealthyMeansLoaded ConfinedBeforeUse AgentUsesDnsmasq CaGuaranteed RestartEnds DnsmasqRecovers` | hold (0.35 M states) |
| `addon` | 2 hosts, 2 methods, 3 secrets, 14 stacks of layers, up to 2 placeholders in a request | `TypeOK LayersDecide TopLayerDefines ResolvesReachable OnlyPatSecrets SecretsStayHome NothingLeftBehind LeaksBlocked Honoured` | hold (0.33 M states) |
| `init` | 7 command lines in any order and number, 3 starting points, errors, interrupts, an edit of the user's | `TypeOK Regenerated ComposeConsistent BundlesTrusted MountsPrepared StrictPolicy IgnoreConverges ProviderWired OwnFilesKept SettingsKept ChoicesKept` | hold (1.2 M states) |
| `commands` | 2 shells, 2 nested projects, each with a `.git`, a shared cache; docker and the disk fail, commands are killed | `TypeOK MountedKept RunReports EditApplied` | hold (0.31 M states) |
| `nested` | 2 shells, an inner project without a `.git` of its own; the same faults | `NoOrphans OwnProject` | hold (0.25 M states) |
| `cleanup_race` | no faults, `CleanupRaces = TRUE` | `HealthyMeansLoaded` | violated |
| `ready_survives` | no faults | `HealthyMeansInitDone` | violated |
| `placeholder_inside` | as `addon` | `HonouredAlways` | violated |
| `reseed` | one command line, user settings with two presets and an `op` secret | `ChoicesKept` | violated |
| `gitignore_cut` | the same command line, a `.gitignore` with one rule, interrupts | `RulesPreserved` | violated |
| `second_search` | as `nested` | `NoneOfAnother` | violated |

The stack and addon runs, and `reseed`, say `CHECK_DEADLOCK FALSE`: a sandbox
in which no command runs, no fault is left and no edit is allowed may stop, and
an addon whose `load()` raised has stopped. In the other runs of `init` and of the
project commands something can always be done, and deadlock is checked.

**Bounds of the stack**

* `MaxVersion = 1`: one edit distinguishes old from new, before, during or after
  any step; `stack_crashes` is about presence and absence of files,
  which version 0 and `Absent` already distinguish, and takes version 0 to be one without
  any settings file, so that `load()` takes its early return; `sandcat.env`, which it then
  does not write, plays no part in the properties of this run. Restarts, crashes
  and policy restarts are *not* bounded.
* One shell. With two, an `up` of one shell between the steps of a `restart` of
  the other can start an agent with the old environment, and nothing in the code
  promises otherwise. `RestartHonoured`, `HealthyMeansLoaded`, `ConfinedBeforeUse`
  and `AgentUsesDnsmasq` do hold for any number of shells: they are proved. The
  promises of a single shell are proved too, for every version and setting
  (`OneShellProofs`).
* Faults are split over two runs because some promises do not survive crashes:
  a wg-client restarted by Docker's policy while the proxy is still loading
  falls back to the built-in name servers, and no later `up` touches it
  (`PromisedDns`); a stale `/tmp/wg-ready` with a crashing dnsmasq lets restart
  re-link the agent early (`AgentRelinked`). They are listed as hazards.
* `CleanupRaces = FALSE` is a timing assumption, named and justified in
  `MitmproxyContainer`: the `rm` of the entrypoint is over before mitmweb has
  imported the addon and before Docker's first probe, 2 s after the start.
  `cleanup_race` drops it.

**Bounds of the addon**

* Two placeholders per request are the least that let one secret's leak hide
  behind another's substitution, and let one placeholder contain another
  (`Inside` relates two of the three secrets). The layers contain every kind of
  entry: presets, a broken preset, deny and allow by method and for all, a secret
  redefined with another source, one with two sources, one with no host.
* In `LeaksBlocked` and `Honoured` the hypothesis `Apart` leaves out requests
  with a placeholder inside another; `placeholder_inside` shows why it is
  needed. `SecretsStayHome` and `NothingLeftBehind` need no such hypothesis.

**Bounds of init**

* The command lines cover the three commands, the agents claude, codex and
  cursor, the three IDEs, both providers and none, TUI, strict network, shared
  caches, rtk and `.gitignore` on and off, stacks with dependencies, and what
  each command lets through or refuses: an unknown feature, an unknown stack in
  `init devcontainer`, an unknown provider that is only found while editing. Any
  number of commands follow one another; the state space is finite without a
  bound on them, and 132 steps deep.
* The starting points are a repository on a new machine; one in which the user owns every file
  init could touch, with an opinion on everything the defaults add; and one whose
  settings file does not parse, without `.git`. The user's edit brings a bundle
  that is not readable.
* In `init` a command may be interrupted at seven of its steps: those that write a
  file that a later run does not simply write again, three for the generated tree, at
  its beginning (settings), middle and end, and the host paths. Of the agents only
  codex has its mounts on, so that few paths are made: a file and two directories, with
  every way to stop between them, on a host where the file is the user's and on one
  where it is not. `HostPrepared` is proved for every agent.
* The `.gitignore`s have rules of the user's, with a blank line; a rule and a block
  that is not closed; and none that a command would touch, outside a repository. An
  interrupted write leaves an empty one, so a file that has nothing but the block, which
  `RemoveBlock` removes, occurs as well.
* `.gitignore` is written in place, so an interrupt in the middle of the write loses
  the user's rules. That is against what the documentation says: `RulesPreserved`
  states that, and `gitignore_cut` shows its violation. `OwnFilesKept` names this one
  step as its exception and no other, and `IgnoreConverges` speaks, once it has
  happened (`cut`), of the empty file that is left. What is after a start marker
  without an end is taken for part of the block, not for rules of the user's.
* `ChoicesKept` holds for settings with at most one preset and secrets read from
  "value"; `reseed` shows the rest.

**Bounds of the project commands**

* `commands`: the outer project, an inner one with its own `.git`, a plain directory
  `src`, one shared cache. `s1` runs, starts, edits, destroys and re-creates the inner
  project and may be killed; `s2` works in the inner project and in `src`, whose
  commands resolve to the outer one, with `run`, `compose down`, `destroy`, `cache
  list` and `cache rm`. Every pair of phases of two commands is interleaved; one
  edit tells old from new.
* `nested`: the same directories, but the inner project has no `.git`. Where `FindRoot`
  ends now depends on what `destroy` and `init` have done to the inner project: after
  a complete `destroy` a command called there works for the outer one, after one that
  failed in its last removal it stops there, without a compose file. Caches and edits play
  no part in this and are left out.
* `OwnProject` has one exception, stated in it as `MayHaveStrayed`: the `down` of a
  `destroy` in a contended project. `second_search` shows what it excepts: two
  `destroy`s wait at their prompts in the inner project, and the second one takes down
  the outer sandbox and its volumes. The property tells sandboxes apart by project
  name, as docker does. Neither a `.git` nor different names are assumed, in the run
  `nested` or in the proof.
* `NoOrphans` excepts contended projects: a `run` in one shell may start a container
  after the `down` of a `destroy` in the other.
* `EditApplied` assumes that `docker compose ps` works: the code takes its
  failure for "no service runs" and then says so.
* One docker invocation, one removal, one file write is one step.

Each property of a passing run is paired with a mutant, a plausible bug in the
mapped definition, with which TLC finds the property violated. Mutants stand
beside the definition they change, marked "Mutant".

## Fairness

`Spec` of `SandboxStack` has weak fairness of:

* the programs in the containers (`ProxyWork`, `WgWork`, `AgentWork`): they run,
  and every wait in them is a polling loop;
* Docker's passing probes, which are periodic (`interval: 2s`), and its restart
  policy, together with the `exit 1` after an exhausted `wait_until` (`WgRetry`);
* the steps of a command once begun (`StepDone`): a shell does not forget it.

There is none for users (`Edit`, `Up`, `Restart`, `Down`), faults, failing
probes or Ctrl-C. `RestartEnds` thus rests on the time-outs of `--wait` and of
`depends_on`, `DnsmasqRecovers` on the supervision loop. The safety theorems are
about `SafetySpec`, without fairness.

## Proofs

TLAPS checks eight modules, for every value of the constants that satisfies the
named assumptions (`VersionAssumption`, `CleanupAssumption`, `CommandsAssumption`,
`PolicyAssumption`, `AddonAssumption`, `LayersAssumption`, `DirsAssumption`,
`FilesAssumption`, `InvocationsAssumption`, `PresetsAssumption`). What a theorem needs
beyond them is a hypothesis in its statement. Every inductive
invariant named below was checked with TLC on the run of its component first.

`SandboxStackProofs`

* `TypeCorrect`: `TypeOK` is inductive; one lemma per container, one for the
  bookkeeping of commands.
* `Confined`: `ConfinedBeforeUse` is not inductive, because a probe may find
  `/tmp/wg-ready` of an earlier start. `ConfinedInv` adds that the phases after
  the firewall, a running dnsmasq and a healthy report each imply the kill
  switch; every start of wg-client resets all of them at once.
* `AgentResolves`: why does an agent never see a missing `resolv.conf`, although
  app-init would tolerate it? As long as none is published wg-client has not
  passed its resolver phase, so it has never touched `/tmp/wg-ready`, is never
  healthy, and every command still has a gate on it in front of each start of
  the agent. `UnpublishedInv` says this, `AgentGated` states the shape of the
  command lists, and `TailGated` is its preservation by a step.
* `HealthyLoaded`: under `CleanupRaces = FALSE`, while the clean-up is pending the
  proxy is not healthy and has not read its settings, and after it `dns.conf`
  is absent or of this start (`LoadedInv`).

`RestartContractProofs`

* `RestartRefines`: the stack implements the contract, for any number of shells,
  under `CleanupRaces = FALSE`. In what is left of a restart's steps the proxy's restart
  comes first, if it is still to come, its wait occurs once, and the last step is
  about another service (`WellFormed`, kept by `TailWellFormed`); the mapping reads the
  phase off this. The step that matters is the wait on the proxy: a
  proxy it finds healthy has, by `HealthyLoaded`, loaded its settings itself, and
  it was started after this command's own restart of it, so it has read settings
  no older than those asked for (`RestartInv`, `AwaitedServes`). Everything else is
  the environment's: the lemmas `...Simulated` take the steps in turn.

`OneShellProofs`, for any set `Shells` with one element

* All five theorems rest on the order of the steps that are left of a command
  (`PlanInv`, `Planned`): a start of the agent is the last step and has a wait for
  wg-client in front of it; whoever starts the proxy waits for it before any
  other start; and a restart is under way exactly as long as the restart of
  wg-client or of the agent is to come. `PlanGoesOn` shows that a tail of a plan is a plan;
  `OneShellMoves` lists what a step can be when there is one shell.
* `AgentStaysConfined`, `AgentStaysLinked`: while neither wg-client nor dnsmasq
  crashes, wg-client leaves its confined namespace only at a command's request,
  and while the agent is on a dead one its restart is still to come, or a command
  has failed (`LinkInv`). With either fault TLC finds both violated, through the stale
  `/tmp/wg-ready`; `ConfinedBeforeUse`, about the namespace only, holds with every fault.
* `CertificateThere`: a healthy proxy has published the certificate and removes it no
  more; otherwise a wait for the proxy is still to come before the agent starts
  (`CaInv`). `EnvironmentPromised`: once nothing of a restart is left that concerns the
  proxy, `sandcat.env` is no older than what was asked for (`EnvInv`, on top of
  `VersionInv` about what `load()` has read); if a version without any settings file
  is possible, `PromisedEnv` says nothing. `DnsPromised`: as long as no command has
  failed, a wg-client exists only beside a proxy that has written `dns.conf`, so also a
  wg-client that Docker restarts reads one (`DnsInv`). Hypotheses: the clean-up wins
  its race, as for `HealthyLoaded`, and for `DnsPromised` the proxy does not crash (see
  "Bounds of the stack"); TLC refutes each without them.

`ProjectCommandsProofs`

* `CommandsTypeCorrect`: a search ends at a directory, a compose file is only found
  in a project, and a job has a directory in every phase that needs one.
* `OwnProjectKept`: whatever a project loses, it loses to a command called in it, but
  for the exception named in `OwnProject`. There is no hypothesis on nesting, `.git` or
  names. `Alone` says that two jobs in one directory make it contended. By `OwnedInv` the
  compose file of a job is that of its root, unless it is a `destroy` in a contended
  project; and while a `destroy` in any other project waits at its prompt, its root is
  still the innermost directory with a marker on its path (`Innermost`): nobody but
  itself removes a marker there, and an `init` below its root would have made it
  contended. So its second search ends where the first did, or fails.
* `CachesStayMounted`: `MountedKept` is inductive: `docker volume rm` leaves a mounted
  volume alone, `down --volumes` skips external ones, and a container starts only where
  its caches exist. Hypothesis: directories with one project name declare the same caches,
  since docker tells containers apart by that name.
* `RunTellsFailure`: a `run` can only end well by its `down`, whose status counts, and
  `failed` remembers the failure of the command before it. `EndsItself` shows that
  the step that ends a command is its shell's own.
* `EditReachesServices`: an `edit compose` that ends well has asked `ps` in the same
  step and heard of no service, or has brought the stack up with the file as it
  is then. Hypothesis: `ps` does not fail.
* `NothingOrphaned`, without hypotheses either: on top of `CommandsInv`, what is in docker
  under a name can be reached through a directory of that name that has a compose
  file, is contended, or is being removed (`Reachable`); the `down` that precedes a
  removal has succeeded, and nothing is started in between in a project where its
  `destroy` is alone.
`SandcatAddonProofs`

* `StayHome`: every value in a request belongs to a secret that allows the host
  (`HomeInv`, over the loop); holds for every relation `Inside`.
* `OnlyPat`: the phases before "secrets" have resolved nothing, and a session in
  phase "secrets" is none or a personal access token's (`PatInv`).
* `DnsNeverWider`: if a query for a host is allowed, the first rule that matches it
  allows, and it decides a request with that rule's own method as well.
* `ConcatDecides`: the precedence of layers, for two lists of rules.

`SettingsLayersProofs`, for any number of layers, rules and secrets

* The folds of `_merge_settings` and of the presets are recursive functions, which
  the lemmas of `Iterations` make accessible.
* `TopLayerWins`: after k layers the dictionary holds, for each name defined so far,
  the entry of the highest of them, once. `HigherLayersDecide`: the rules in force
  are those of the layers, the highest first, with the presets expanded (`RulesInv`);
  `StackDecides` lifts `ConcatDecides` to a stack of any height.
  `AnswersReachable` is `DnsNeverWider` for these rules.
* `EveryPlaceholderGoes`, `EveryLeakBlocked`, `EverySecretHonoured`: one invariant of the
  loop of `_substitute_secrets`, `ScanInv`: a placeholder in the request is where it was
  sent (`Sent`), those of the secrets gone through are gone (`Cleared`), and, if no
  placeholder contains another, those of the others are where they were
  (`Waiting`), and a secret gone through was going to a host it lists and is in
  place (`Passed`).
* `AddonTyped`: the remaining half is that a preset expands into rules and that
  merging keeps entries entries.

`InitCommandProofs`, for any command lines with any stacks, agents, features and
environments, any files there may be before the first command, any edits of the
user and errors or interruptions at any step

* `TypeCorrect`: the heart is `RunInv`: what is left to do is the end of the list of
  steps of the running command, so the step at its head tells how far the
  command has come (`Places`). Every other proof of the module uses it.
* `Regenerates`: `Stage(f, k, ...)` is what the first k steps of the generator make of
  the template of file f. `GenInv`: after k steps each file copied by then is at
  that stage, and `compose-all.yml`, between its loading and its saving, is in memory
  what was loaded. Since a copy forgets what was there and no step looks at
  another file (`OwnFileOnly`), this holds of what earlier runs have left as of an
  empty directory (`FreshStages`), which is half of `Regenerated`. For the other half
  each placeholder is followed through the steps: the words of a file that are
  placeholders are, after each step, among those that later steps replace
  (`CleanText`, `TextsExpanded`), whatever the stacks bring in (`StackWords`).
* `ComposeStays`: `ComposeConsistent` is inductive on top of `GenInv`, and what is saved
  is consistent (`ComposeFinished`): each edit of the volumes adds the mounts it
  should, a disabled one none (`Adds`), and only the last adds caches.
* `OnlyTrusted`, `ProviderIsWired`: the proxy's file, in any state, has its fixed parts
  and some valid bundles (`ProxyInv`), as `GenInv` only speaks of running commands;
  how each edit changes it is stated by `InlinedProxy`, `TUIProxy`, `ProviderProxy` and
  `BundledProxy`. The key in the user settings is there from its step on (`TokenInv`).
* `OwnFilesStay`, `BlockConverges`: removal of the block, read line by line, drops
  exactly the lines from a start marker to its end (`Reading`, `RemoveKeepsRules`),
  and undoes `Update` where there was no block (`RemoveUndoes`); so `.gitignore` is
  what it was, or that and one block (`IgnoreInv`), after any number of runs. The
  only step that takes a rule away is the write of `.gitignore` that is cut short, which
  `OwnFilesKept` names; `IgnoreInv` then goes on from the empty file (`OwnIgnore`).
* `PolicyIsStrict`, `HostPrepared`: what the early steps of `init` write stays until
  the next command (`PolicyInv`, `HostInv`); the stacks of the policy are those asked
  for and their dependencies (`Resolved`), and each of the agent's mounts binds a path
  that is prepared (`MountsBind`, `Ready`), the two readings of the toggle agreeing; a
  Cursor file that an interrupted run left empty is filled by the one that succeeds.

`Iterations`

* `UpTo` gives induction up to a bound, by the least number for which a claim fails;
  `Iteration` proves that a function defined by recursion on 0..n exists and obeys
  its equation. From these follow what `FlattenSeq`, `Without` and `FirstSeen` return.

Only model-checked: liveness (`RestartEnds`, `DnsmasqRecovers`: TLAPS has no proof
rules for `ENABLED`); `SettingsKept`, which recurs into documents of any depth; and
`ChoicesKept`, which is false in general (`reseed`) and holds for the documents of the
run `init`. Every other property of a passing run is a theorem.

## Where code and text disagree

1. The comment "Delete the stale dns.conf sentinel before mitmweb starts": the
   `&` backgrounds the deletion too (`cleanup_race`).
2. "/tmp/wg-ready is touched once at end of init", on which restart relies for a
   "ready netns": the file survives restarts of the container (`ready_survives`).
3. `docs/configuration/secrets.md`: a placeholder is replaced if the host is on the
   allowlist; a placeholder that contains another one's text is blocked or
   garbled (`placeholder_inside`).
4. `ApplyAgentDefaults` is to seed defaults "without overriding anything the user
   set"; it adds a "value" to a secret read with `op` or `pass`, which the addon
   then refuses for its two sources, and its removal of duplicate rules takes all
   presets for one (`reseed`).
5. `docs/reference/cli.md`: `destroy` removes containers and volumes "from a project". It
   looks for the project before its prompt and for the compose file after it, and does
   not compare them: in a nested project without a `.git` it can take down the enclosing
   one (`second_search`).
6. `docs/configuration/gitignore.md`: rules outside the markers "are always preserved".
   The file is truncated before it is written; an interrupt in between loses them
   (`gitignore_cut`).

Four more show on reading a few lines next to each other, and have no run:

* The README tells the user to put API keys into `~/.config/snadcat/settings.json`,
  which init seeds (`internal/config/config.go:35`); the template of the proxy
  (`sandcat/compose-proxy.yml:70`) mounts `~/.config/sandcat/settings.json`, the path of
  the bash tool, and no step of `Generate` rewrites it. The user layer of the addon is
  then empty. `scripts/difftest.sh` normalises the two names, so the differential tests
  do not see it.
* `docs/configuration/secrets.md`, "Disabling": with no settings files "no network rules
  are enforced". `load()` returns early with an empty list of rules, and what no rule allows
  is denied, so every request is.
* `docs/agents/codex.md`: the agent's home is "per-sandbox isolated". The volume belongs
  to the compose project, whose name `DeriveName` (`internal/project/project.go:60`) makes
  of the last path element alone: projects of one name share it, and a `destroy` of one
  takes it from the other.
* The comment on the proxy's health check says that `dns.conf` is written last, and
  `load()` writes `extra_hosts` after it. A wg-client that starts between the two reads
  the `extra_hosts` of an earlier start.

## Plan

Done: the stack with its contract, the addon, `init` with all it composes, and
the project commands; and, as theorems, every safety property of the runs but
`SettingsKept` and `ChoicesKept`. What remains, most important first:

1. **What seeding keeps**: `SettingsKept` for documents of bounded depth, and for
   `ChoicesKept` the condition on the user's settings under which it holds, as a
   theorem in place of the bounds of the run.
2. **AgentHome**: the snapshot sync of `app-init.sh` under crashes, which only
   touches the agent's own volume.
3. **Two shells** in `SandboxStack`: which of the promises that hold for one shell
   remain, as properties of their own rather than as bounds.

## What is not modelled

* The text of files: iptables rules, the layout of YAML and JSON, comments and
  the order of keys, templates beyond the words that are replaced and what the
  edits look for.
* In `app-init.sh`, the sync of the snapshot into the agent's home and the loop that
  hands the caches to the user. In the addon, the merging of `env`, `dns_servers`,
  `extra_hosts` and of Cursor's CLI configuration, beyond being derived from one
  version of the settings, and the normalisation of header values of the variants.
* `attach`, `proxy`, `edit settings` and compose subcommands other than up and down,
  which change no state of a project; prompts, beyond their answers; logging,
  `version`, the summary of `init` and the sizes `cache list` prints.
* mitmweb, dnsmasq, WireGuard, Docker and the editor themselves, except for the
  behaviour the code relies on; what stands for them is marked external in
  `PROJECT.json`.
* The bash implementation, an older form of the same commands, and the build of
  images, the release and the installation, which have no protocol of their own.

The components that are partly or not modelled are listed with their reason in
`PROJECT.json`.
