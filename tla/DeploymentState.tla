-------------------------- MODULE DeploymentState --------------------------
(***************************************************************************)
(* deployer/state.py: what the deployer keeps on the operator's disk for   *)
(* each service of a node, under .rw_blueprint/deployments: the history of  *)
(* deployments (<node>/<service>.json) and one stored quadlet file per     *)
(* artifact key.  The command line only ever stores under key "current".   *)
(* Files are written in place: a history is truncated, where it reads as   *)
(* Torn, and written from its start, which may leave it Garbled.           *)
(***************************************************************************)
EXTENDS Sequences, TargetNode

CONSTANT Garbled   \* a history with the rest of a longer one behind it

VARIABLES
    history,   \* history[s]: the records of s, oldest first, Torn or Garbled
    artifact,  \* artifact[s]: the file stored for s under key "current"
    stored,    \* ghost: every version ever stored for s
    clashed    \* ghost: services whose history two sessions wrote at once

stateVars == <<history, artifact, stored, clashed>>

(* A DeploymentRecord, cut down to its status and to the version it is     *)
(* about.  The code has no such version: it writes "1.0.0", image "local"  *)
(* and a hash of the topology's path into every record.                    *)
Record == [ver : Versions, status : {"healthy", "failed"}]

ASSUME StateAssumption ==
    /\ Torn \notin Seq(Record)
    /\ Garbled \notin Seq(Record)
    /\ Torn # Garbled

History == Seq(Record) \cup {Torn, Garbled}

StateTypeOK ==
    /\ history \in [Services -> History]
    /\ artifact \in [Services -> Content]
    /\ stored \in [Services -> SUBSET Versions]
    /\ clashed \subseteq Services

StateInit ==
    /\ history = [s \in Services |-> << >>]
    /\ artifact = [s \in Services |-> None]
    /\ stored = [s \in Services |-> {}]
    /\ clashed = {}

---------------------------------------------------------------------------

Readable(s) == history[s] \notin {Torn, Garbled}

HealthyAt(s) == {i \in DOMAIN history[s] : history[s][i].status = "healthy"}

(* get_previous_healthy finds one, and which: the latest, which may be the *)
(* deployment that is to be rolled back.                                   *)
HasHealthy(s) == HealthyAt(s) # {}

PreviousHealthy(s) ==
    history[s][CHOOSE i \in HealthyAt(s) : \A j \in HealthyAt(s) : j <= i]

(* store_artifact under key "current" replaces what was stored before.     *)
StoreArtifact(s, file) ==
    /\ artifact' = [artifact EXCEPT ![s] = file]
    /\ stored' = [stored EXCEPT ![s] = @ \cup ({file} \cap Versions)]
    /\ UNCHANGED <<history, clashed>>

(* Mutant of WriteBack: the new record replaces the old ones.               *)
WriteAlone(s, old, rec) ==
    /\ history' = [history EXCEPT ![s] = <<rec>>]
    /\ UNCHANGED <<artifact, stored, clashed>>

(* record() in the steps the file system sees: the history is read, the    *)
(* file truncated, and the old records written from its start with the new *)
(* one behind them.  `shared` says whether another writer of the file has  *)
(* truncated it too and is still to write.                                 *)
Truncate(s, shared) ==
    /\ history' = [history EXCEPT ![s] = Torn]
    /\ clashed' = IF shared THEN clashed \cup {s} ELSE clashed
    /\ UNCHANGED <<artifact, stored>>

(* What another has written since this writer truncated the file is still   *)
(* there, and shows behind a text that is shorter.  More records make a     *)
(* longer text; with as many, either may be the longer.                     *)
Covers(new, file) ==
    \/ file \in {Torn, Garbled}
    \/ file \in Seq(Record) /\ Len(file) <= Len(new)

Leaves(new, file) ==
    \/ file = Garbled
    \/ file \in Seq(Record) /\ Len(file) >= Len(new)

WriteBack(s, old, rec) ==
    LET new == Append(old, rec) IN
    /\ \/ /\ Covers(new, history[s])
          /\ history' = [history EXCEPT ![s] = new]
       \/ /\ Leaves(new, history[s])
          /\ history' = [history EXCEPT ![s] = Garbled]
    /\ UNCHANGED <<artifact, stored, clashed>>

===========================================================================
