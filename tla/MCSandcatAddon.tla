--------------------------- MODULE MCSandcatAddon ---------------------------
(***************************************************************************)
(* Constants of SandcatAddon for TLC: two hosts, two methods, one preset,  *)
(* three secrets and a handful of settings layers, stacked in several ways.*)
(***************************************************************************)
EXTENDS SandcatAddon

CONSTANTS api, web, tok, tok2, key

MCPresets == [github |-> <<{api}, {web}>>]

(* The placeholder of tok is a prefix of the placeholder of tok2.          *)
MCInside == {<<tok, tok2>>}

allow(hosts, method) == [action |-> "allow", host |-> hosts, method |-> method]
deny(hosts, method)  == [action |-> "deny", host |-> hosts, method |-> method]
entry(name, sources, hosts) == [name |-> name, sources |-> sources, hosts |-> hosts]

User == [network |-> <<[preset |-> "github"]>>,
         secrets |-> <<entry(tok, {"value"}, {api}), entry(tok2, {"op"}, {web}),
                     entry(key, {"pass"}, {api, web})>>]

(* GET from anywhere; one secret redefined, in the other order.            *)
Project == [network |-> <<allow({api, web}, "GET")>>,
            secrets |-> <<entry(tok2, {"pass"}, {api, web}), entry(tok, {"pass"}, {web})>>]

(* A denial for one method, and an entry with two sources.                 *)
Local == [network |-> <<deny({web}, "POST"), allow({web}, None)>>,
          secrets |-> <<entry(tok2, {"value", "op"}, {web})>>]

(* A blanket denial of one host; a secret nothing may receive.             *)
Strict == [network |-> <<deny({api}, None), [preset |-> "github"]>>,
           secrets |-> <<entry(key, {"op"}, {}), entry(tok, {"value"}, {api, web})>>]

(* A preset entry that also has a host: load() raises.                     *)
Broken == [network |-> <<[preset |-> "github", host |-> {api}]>>, secrets |-> << >>]

MCLayerStacks ==
  {<< >>, <<Broken>>, <<User, Broken>>}
  \cup {<<l>> : l \in {User, Project, Local, Strict}}
  \cup {<<User, l>> : l \in {Project, Local, Strict}}
  \cup {<<l, User>> : l \in {Project, Strict}}
  \cup {<<User, Project, Local>>, <<User, Project, Strict>>}
=============================================================================
