----------------------------- MODULE MCSettings -----------------------------
(* One section of two keys.  A tier says anything of the first: nothing, the *)
(* default, another valid value, one no validator accepts; of the second it *)
(* says nothing or the other value; a file may also leave the section empty. *)
EXTENDS LayeredSettings, TLC

CONSTANTS timeout, enabled, probe, default, other, bad

MCKeys == {timeout, enabled}
MCSections == {probe}
MCSectionOf == [k \in MCKeys |-> probe]
MCValues == {default, other, bad}
MCValid == {default, other}
MCDefault == [k \in MCKeys |-> default]

Says(first, second) == (timeout :> first) @@ (enabled :> second)
MCTiers == {Says(v, w) : v \in MCValues \cup {Unset}, w \in {Unset, other}}
MCFiles == MCTiers \cup {Says(Lost, Lost)}
MCCommandLines == {Says(v, Unset) : v \in MCValues \cup {Unset}}

=============================================================================
