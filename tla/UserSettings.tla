----------------------------- MODULE UserSettings -----------------------------
(***************************************************************************)
(* What snadcat init writes into settings files: the user's                *)
(* ~/.config/snadcat/settings.json, and .snadcat/settings.json and         *)
(* settings.local.json of the project.                                     *)
(***************************************************************************)
EXTENDS JsonFile

CONSTANTS
  UserTemplate,     (* agent -> object of settings-user-<agent>.json        *)
  ProjectTemplate   (* object of the template settings.json                 *)

(***************************************************************************)
(* ~/.config/snadcat/settings.json                                         *)
(***************************************************************************)

(* An existing file is left untouched, whatever it holds.                  *)
CreateUserSettings(file, agent) ==
  IF Exists(file) THEN file
  ELSE LET template == UserTemplate[agent]
           env      == EnsureObject(template, "env")
       IN  Saved(With(template, "env",
                      Obj(With(With(env, "GIT_USER_NAME", Str("name")),
                               "GIT_USER_EMAIL", Str("email")))))

(* A missing file is not edited, the edited document of another is saved;  *)
(* one that does not load is an error.                                     *)
EditFails(file) == Exists(file) /\ ~Loads(file)

EditUserSettings(file, edited) == IF Exists(file) THEN Saved(edited) ELSE file

(* The agent's secret, with "value" as its source unless there is one.     *)
SeedSecret(o, name, hosts) ==
  LET secrets == EnsureObject(o, "secrets")
      key     == SetDefault(EnsureObject(secrets, name), "value", Str(""))
      seeded  == With(key, "hosts", Arr(UniqueStrings(EnsureArray(key, "hosts"), hosts)))
  IN  With(With(o, "env", Obj(EnsureObject(o, "env"))),
           "secrets", Obj(With(secrets, name, Obj(seeded))))

(* Mutant: useHttp1ForAgent is defaulted like the other keys.              *)
CursorDefaultsWithAbsent(o) ==
  LET seeded  == SeedSecret(o, "CURSOR_API_KEY", <<Str("*.cursor.sh")>>)
      cursor  == EnsureObject(seeded, "cursor")
      cli     == SetDefault(EnsureObject(cursor, "cli"), "version", Lit("1"))
      network == SetDefault(EnsureObject(cli, "network"), "useHttp1ForAgent", Lit("true"))
  IN  With(seeded, "cursor", Obj(With(cursor, "cli", Obj(With(cli, "network", Obj(network))))))

(* useHttp1ForAgent is keyed on presence alone: false stays false.         *)
CursorDefaults(o) ==
  LET seeded  == SeedSecret(o, "CURSOR_API_KEY",
                   <<Str("api.cursor.sh"), Str("api2.cursor.sh"),
                     Str("*.cursor.sh"), Str("*.cursor.com")>>)
      cursor  == EnsureObject(seeded, "cursor")
      cli     == SetDefault(EnsureObject(cursor, "cli"), "version", Lit("1"))
      network == [useHttp1ForAgent |-> Lit("true")]
      kept    == EnsureObject(cli, "network") @@ network
  IN  With(seeded, "cursor", Obj(With(cursor, "cli", Obj(With(cli, "network", Obj(kept))))))

(* Host, method and action; "preset" is not part of the key.  (The code    *)
(* concatenates the three; no two triples of the model concatenate to the  *)
(* same string.)  Anything but an object is its own key.                   *)
NetworkRuleKey(v) ==
  IF IsObj(v)
    THEN <<String(v.obj, "host"), String(v.obj, "method"), String(v.obj, "action")>>
    ELSE <<v>>

OpenAiRule == Obj([action |-> Str("allow"), host |-> Str("api.openai.com")])

(* The keys of all rules that may meet in one list.                        *)
NetworkRuleKeys(rules) == [v \in Range(rules) \cup {OpenAiRule} |-> NetworkRuleKey(v)]

(* Mutant: the agent's own rule goes first.                                *)
CodexDefaultsFirst(o) ==
  LET seeded == SeedSecret(o, "OPENAI_API_KEY", <<Str("api.openai.com")>>)
      rules  == EnsureArray(seeded, "network")
  IN  With(seeded, "network", Arr(UniqueBy(<<OpenAiRule>>, NetworkRuleKeys(rules), rules)))

CodexDefaults(o) ==
  LET seeded == SeedSecret(o, "OPENAI_API_KEY", <<Str("api.openai.com")>>)
      rules  == EnsureArray(seeded, "network")
  IN  With(seeded, "network", Arr(UniqueBy(rules, NetworkRuleKeys(rules), <<OpenAiRule>>)))

(* Only these two agents have defaults to seed.                            *)
Seeded == {"cursor", "codex"}

ApplyAgentDefaults(file, agent) ==
  CASE agent = "cursor" -> EditUserSettings(file, CursorDefaults(file.obj))
    [] agent = "codex"  -> EditUserSettings(file, CodexDefaults(file.obj))
    [] OTHER            -> file

TokenKey == [x \in {"1password", "protonpass"} |->
               IF x = "1password" THEN "op_service_account_token" ELSE "proton_pass_token"]

AddSecretProviderToken(file, provider) ==
  IF provider \in DOMAIN TokenKey
    THEN EditUserSettings(file, SetDefault(file.obj, TokenKey[provider], Str("")))
    ELSE file

(***************************************************************************)
(* .snadcat/                                                               *)
(***************************************************************************)

(* Always rewritten.  A strict policy is one preset per stack, and nothing *)
(* else; the wildcard of the template is gone.                             *)
ProjectSettings(strict, stacks) ==
  IF strict
    THEN Saved(With(ProjectTemplate, "network",
                    Arr([i \in DOMAIN stacks |-> Obj([preset |-> Str(stacks[i])])])))
    ELSE Saved(ProjectTemplate)

(* Written once, then the user's.                                          *)
LocalSettings(file) == IF Exists(file) THEN file ELSE Saved(<< >>)
=============================================================================
