------------------------------ MODULE MCImages ------------------------------
(* Two nodes, one of them the operator's machine: n1 is "localhost", and    *)
(* only its id is a host name.                                             *)
EXTENDS ImageLifecycle

CONSTANTS n1, n2, r1, r2, s1

MCNodes == {n1, n2}
MCNamedHosts == {n1}
MCRefs == {r1, r2}
MCServices == {s1}
MCFreeSpace == {0, 100}

=============================================================================
