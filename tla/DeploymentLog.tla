--------------------------- MODULE DeploymentLog ---------------------------
(***************************************************************************)
(* What the deployment history promises its readers, whatever way it is    *)
(* stored: the log of a service only ever grows, by one record of a         *)
(* finished deployment at a time, until it is lost as a whole; a lost log   *)
(* is never written again.                                                  *)
(***************************************************************************)
EXTENDS Sequences

CONSTANTS Services, Records, Lost

VARIABLE log   \* log[s]: the records of s, oldest first, or Lost

Init == log = [s \in Services |-> << >>]

AddRecord(s, rec) ==
    /\ log[s] # Lost
    /\ log' = [log EXCEPT ![s] = Append(@, rec)]

Lose(s) == log' = [log EXCEPT ![s] = Lost]

Next == \E s \in Services : Lose(s) \/ \E rec \in Records : AddRecord(s, rec)

Spec == Init /\ [][Next]_log

===========================================================================
