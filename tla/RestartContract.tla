--------------------------- MODULE RestartContract ---------------------------
(***************************************************************************)
(* What "Proxy restarted. New settings are now active." promises, without  *)
(* containers, compose or health checks: a restart that says so has, after *)
(* it was asked for, taken the proxy down and then seen it serve settings  *)
(* no older than those it was asked to activate.  Any number of restarts   *)
(* may be under way, and the proxy may be restarted, or fail, at any time. *)
(***************************************************************************)
EXTENDS Integers

CONSTANTS
  Shells,   (* where restarts are asked for                               *)
  Version,  (* versions of the settings                                   *)
  Absent    (* no version                                                 *)

VARIABLES
  edited,    (* the newest version                                        *)
  serving,   (* the version a healthy proxy serves, else Absent           *)
  phase,     (* shell -> how far its restart is                           *)
  asked,     (* shell -> the version its restart is to activate           *)
  promised   (* the newest version reported active                        *)

vars == <<edited, serving, phase, asked, promised>>

Phase == {"idle", "asked", "fresh", "seen"}

Init ==
  /\ edited \in Version
  /\ serving = Absent
  /\ phase = [s \in Shells |-> "idle"]
  /\ asked = [s \in Shells |-> Absent]
  /\ promised = edited

(* The user, the proxy, and commands other than restart.                   *)
Environment ==
  /\ edited' \in Version /\ edited' >= edited
  /\ serving' \in Version \cup {Absent}
  /\ UNCHANGED <<phase, asked, promised>>

Move(s, from, to) == phase[s] \in from /\ phase' = [phase EXCEPT ![s] = to]

Ask(s) ==
  /\ Move(s, {"idle"}, "asked")
  /\ asked' = [asked EXCEPT ![s] = edited]
  /\ UNCHANGED <<edited, serving, promised>>

(* The old proxy, and whatever it was serving, is gone.                    *)
Refresh(s) ==
  /\ Move(s, {"asked"}, "fresh")
  /\ serving' = Absent
  /\ UNCHANGED <<edited, asked, promised>>

See(s) ==
  /\ Move(s, {"fresh"}, "seen")
  /\ serving # Absent /\ serving >= asked[s]
  /\ UNCHANGED <<edited, serving, asked, promised>>

Report(s) ==
  /\ Move(s, {"seen"}, "idle")
  /\ asked' = [asked EXCEPT ![s] = Absent]
  /\ promised' = IF asked[s] > promised THEN asked[s] ELSE promised
  /\ UNCHANGED <<edited, serving>>

(* A restart may fail in any phase, and then promises nothing.             *)
Fail(s) ==
  /\ Move(s, Phase \ {"idle"}, "idle")
  /\ asked' = [asked EXCEPT ![s] = Absent]
  /\ UNCHANGED <<edited, serving, promised>>

Next ==
  \/ Environment
  \/ \E s \in Shells : Ask(s) \/ Refresh(s) \/ See(s) \/ Report(s) \/ Fail(s)

Spec == Init /\ [][Next]_vars
=============================================================================
