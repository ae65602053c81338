------------------------- MODULE MCDependencyGraph -------------------------
(* Every graph over three services and a name that is none of them.         *)
EXTENDS DependencyGraph

MCServices == {"a", "b", "c"}
MCIds == MCServices \cup {"unknown"}
===========================================================================
