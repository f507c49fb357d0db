----------------------------- MODULE InitSettings -----------------------------
(***************************************************************************)
(* What init may do to a settings document of the user's.                  *)
(***************************************************************************)
EXTENDS InitCommand

(* Every value of a document is still there: objects keep their keys,      *)
(* arrays their elements, and only null gives way to a default.            *)
RECURSIVE Keeps(_, _)
Keeps(old, new) ==
  CASE IsObj(old) ->
         IsObj(new) /\ \A key \in DOMAIN old.obj :
                         key \in DOMAIN new.obj /\ Keeps(old.obj[key], new.obj[key])
    [] IsArr(old) -> IsArr(new) /\ Range(old.arr) \subseteq Range(new.arr)
    [] OTHER -> new = old \/ old = Lit("null")

(* Seeding adds to the user settings and overrides nothing, not even an    *)
(* explicit false of useHttp1ForAgent; only a write cut short may lose it. *)
SettingsKept ==
  [][~Idle /\ Loads(user) /\ user' # Malformed => Keeps(user, user')]_vars
=============================================================================
