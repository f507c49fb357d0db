--------------------------- MODULE MCProjectCommands ---------------------------
(***************************************************************************)
(* A project with a .git, a directory of it that is a project, too, with a *)
(* .git of its own or without one, and another directory of it.  One shell *)
(* works in the inner project, the other in both.                          *)
(***************************************************************************)
EXTENDS ProjectCommands

CONSTANTS s1, s2

MCPath == [outer |-> <<"outer">>, inner |-> <<"inner", "outer">>, src |-> <<"src", "outer">>]

MCBase == [outer |-> "outer", inner |-> "inner", src |-> "src"]

MCCachesOf == [outer |-> {"maven"}, inner |-> {"maven"}, src |-> {}]

MCShells == {s1, s2}

MCCwds == [s \in MCShells |-> IF s = s1 THEN {"inner"} ELSE {"inner", "src"}]

MCVerbs ==
  [s \in MCShells |->
     IF s = s1 THEN {"run", "compose up", "destroy", "edit", "init", "kill"}
     ELSE {"run", "compose down", "destroy", "list", "rm"}]

MCNestedVerbs ==
  [s \in MCShells |->
     IF s = s1 THEN {"run", "destroy", "init", "kill"}
     ELSE {"compose up", "compose down", "destroy"}]

MCNoCaches == [outer |-> {}, inner |-> {}, src |-> {}]
=============================================================================
