-------------------------- MODULE TargetNodeProofs --------------------------
(***************************************************************************)
(* Facts about the commands of TargetNode: what they keep of the node's     *)
(* type, that no command brings a version onto the node that is not there   *)
(* already, and what no command takes away.                                 *)
(***************************************************************************)
EXTENDS TargetNode, TLAPS

(* Every version on node n for s is one of allowed[s].                      *)
Within(n, allowed) ==
    \A s \in Services : OnNode(n, s) \cap Versions \subseteq allowed[s]

---------------------------------------------------------------------------

(* What a command does to the node.                                        *)
LEMMA EffectType ==
    ASSUME NEW n \in Node, NEW cmd \in Command
    PROVE  Effect(n, cmd) \in Node
<1>1. Moved(n, cmd.svc) \in Node
  BY DEF Moved, Node, Command, Content
<1>2. Reloaded(n) \in Node
  BY DEF Reloaded, Node
<1>3. Started(n, cmd.svc) \in Node
  BY DEF Started, Node
<1>4. Stopped(n, cmd.svc) \in Node
  BY DEF Stopped, Node, Content
<1> QED
  BY <1>1, <1>2, <1>3, <1>4 DEF Effect

(* A unit pulls itself in.                                                 *)
LEMMA PulledSelf ==
    ASSUME NEW n, NEW s \in Services
    PROVE  s \in Pulled(n, s)
BY DEF Pulled

(* What a file copied to the node does to it.                              *)
LEMMA ReceivedType ==
    ASSUME NEW n \in Node, NEW s \in Services, NEW file \in Content
    PROVE  Received(n, s, file) \in Node
BY DEF Received, Node

(* A fault is counted.                                                     *)
LEMMA FaultType ==
    ASSUME faults \in 0..MaxFaults, Fault
    PROVE  faults' \in 0..MaxFaults
BY NodeAssumption DEF Fault

(* A remote command, whichever way it fails.                               *)
LEMMA ExecuteType ==
    ASSUME NodeTypeOK, NEW cmd \in Command, NEW outcome, Execute(cmd, outcome)
    PROVE  NodeTypeOK'
<1>1. Effect(node, cmd) \in Node
  BY EffectType DEF NodeTypeOK
<1> QED
  BY <1>1, FaultType DEF Execute, NodeTypeOK, nodeVars

(* A query, whichever way it fails.                                        *)
LEMMA QueryType ==
    ASSUME NodeTypeOK, NEW truth, NEW answer, NEW outcome,
           Query(truth, answer, outcome)
    PROVE  NodeTypeOK'
BY FaultType DEF Query, NodeTypeOK

(* A copy, whichever way it fails.                                         *)
LEMMA ScpType ==
    ASSUME NodeTypeOK, NEW s \in Services, NEW file \in Content, NEW outcome,
           Scp(s, file, outcome)
    PROVE  NodeTypeOK'
<1>1. /\ Received(node, s, file) \in Node
      /\ Received(node, s, Torn) \in Node
  BY ReceivedType DEF NodeTypeOK, Content
<1> QED
  BY <1>1, FaultType DEF Scp, NodeTypeOK

(* What the node does by itself.                                           *)
LEMMA NodeNextType ==
    ASSUME NodeTypeOK, NodeNext
    PROVE  NodeTypeOK'
<1>1. CASE LateEffect
  <2>1. PICK cmd \in late :
            /\ late' = late \ {cmd}
            /\ node' = IF Accepts(node, cmd) THEN Effect(node, cmd) ELSE node
            /\ UNCHANGED faults
    BY <1>1 DEF LateEffect
  <2>2. Effect(node, cmd) \in Node
    BY EffectType DEF NodeTypeOK
  <2> QED
    BY <2>1, <2>2 DEF NodeTypeOK
<1>2. CASE ContainerExits
  <2>1. PICK s \in Services : node' = [node EXCEPT !.running[s] = None]
    BY <1>2 DEF ContainerExits
  <2>2. node' \in Node
    BY <2>1 DEF NodeTypeOK, Node, Content
  <2> QED
    BY <1>2, <2>2, FaultType DEF ContainerExits, NodeTypeOK
<1> QED
  BY <1>1, <1>2 DEF NodeNext

---------------------------------------------------------------------------
(* Provenance.                                                             *)

(* A command puts nothing on the node that was not there in some form.     *)
LEMMA EffectWithin ==
    ASSUME NEW n \in Node, NEW cmd \in Command, NEW allowed, Within(n, allowed)
    PROVE  Within(Effect(n, cmd), allowed)
<1>1. Within(Moved(n, cmd.svc), allowed)
  BY NodeAssumption DEF Moved, Within, OnNode, Node, Command
<1>2. Within(Reloaded(n), allowed)
  BY DEF Reloaded, Within, OnNode, Node
<1>3. Within(Started(n, cmd.svc), allowed)
  BY DEF Started, Within, OnNode, Node
<1>4. Within(Stopped(n, cmd.svc), allowed)
  BY NodeAssumption DEF Stopped, Within, OnNode, Node
<1> QED
  BY <1>1, <1>2, <1>3, <1>4 DEF Effect

(* A copy puts the file copied on the node, and nothing else.              *)
LEMMA ReceivedWithin ==
    ASSUME NEW n \in Node, NEW s \in Services, NEW file, NEW allowed,
           Within(n, allowed), {file} \cap Versions \subseteq allowed[s]
    PROVE  Within(Received(n, s, file), allowed)
BY DEF Received, Within, OnNode, Node

(* The same of a remote command, whichever way it fails.                   *)
LEMMA ExecuteWithin ==
    ASSUME NodeTypeOK, NEW cmd \in Command, NEW outcome, NEW allowed,
           Execute(cmd, outcome), Within(node, allowed)
    PROVE  Within(node', allowed)
<1>1. Within(Effect(node, cmd), allowed)
  BY EffectWithin DEF NodeTypeOK
<1> QED
  BY <1>1 DEF Execute, nodeVars

(* The same of a copy, whichever way it fails.                             *)
LEMMA ScpWithin ==
    ASSUME NodeTypeOK, NEW s \in Services, NEW file, NEW outcome, NEW allowed,
           Scp(s, file, outcome), Within(node, allowed),
           {file} \cap Versions \subseteq allowed[s]
    PROVE  Within(node', allowed)
<1>1. /\ Within(Received(node, s, file), allowed)
      /\ Within(Received(node, s, Torn), allowed)
  BY ReceivedWithin, NodeAssumption DEF NodeTypeOK
<1> QED
  BY <1>1 DEF Scp

(* What the node does by itself brings nothing new to it.                  *)
LEMMA NodeNextWithin ==
    ASSUME NodeTypeOK, NEW allowed, NodeNext, Within(node, allowed)
    PROVE  Within(node', allowed)
<1>1. CASE LateEffect
  <2>1. PICK cmd \in late :
            node' = IF Accepts(node, cmd) THEN Effect(node, cmd) ELSE node
    BY <1>1 DEF LateEffect
  <2>2. Within(Effect(node, cmd), allowed)
    BY EffectWithin DEF NodeTypeOK
  <2> QED
    BY <2>1, <2>2
<1>2. CASE ContainerExits
  <2>1. PICK s \in Services : node' = [node EXCEPT !.running[s] = None]
    BY <1>2 DEF ContainerExits
  <2> QED
    BY <2>1, NodeAssumption DEF NodeTypeOK, Node, Within, OnNode
<1> QED
  BY <1>1, <1>2 DEF NodeNext

---------------------------------------------------------------------------
(* What stays on the node.  A late `mv` finds nothing in /tmp when the file *)
(* has been moved, and a late daemon-reload loads what is loaded already.   *)

(* A node m that has of s at least what n has, when /tmp holds nothing.     *)
Keeps(m, n, s) ==
    /\ m.tmp[s] \in {None, n.tmp[s]}
    /\ n.tmp[s] = None =>
        /\ m.installed[s] = n.installed[s]
        /\ n.loaded[s] = n.installed[s] => m.loaded[s] = n.loaded[s]

(* Every command leaves as much.                                           *)
LEMMA EffectKeeps ==
    ASSUME NEW n \in Node, NEW cmd \in Command, NEW s \in Services
    PROVE  Keeps(Effect(n, cmd), n, s)
<1>1. Keeps(Moved(n, cmd.svc), n, s)
  BY DEF Keeps, Moved, Node, Command
<1>2. Keeps(Reloaded(n), n, s)
  BY DEF Keeps, Reloaded, Node
<1>3. Keeps(Started(n, cmd.svc), n, s)
  BY DEF Keeps, Started, Node
<1>4. Keeps(Stopped(n, cmd.svc), n, s)
  BY DEF Keeps, Stopped, Node
<1>5. Keeps(n, n, s)
  BY DEF Keeps
<1> QED
  BY <1>1, <1>2, <1>3, <1>4, <1>5 DEF Effect

(* A remote command leaves as much, whichever way it fails.                *)
LEMMA ExecuteKeeps ==
    ASSUME NodeTypeOK, NEW cmd \in Command, NEW outcome, NEW s \in Services,
           Execute(cmd, outcome)
    PROVE  Keeps(node', node, s)
<1>1. node \in Node /\ Keeps(node, node, s)
  BY DEF NodeTypeOK, Keeps
<1> QED
  BY <1>1, EffectKeeps DEF Execute, nodeVars

(* And so does what the node does by itself.                               *)
LEMMA NodeNextKeeps ==
    ASSUME NodeTypeOK, NodeNext, NEW s \in Services
    PROVE  Keeps(node', node, s)
<1>1. CASE LateEffect
  BY <1>1, EffectKeeps DEF LateEffect, Keeps, NodeTypeOK
<1>2. CASE ContainerExits
  BY <1>2 DEF ContainerExits, Keeps, Node, NodeTypeOK
<1> QED
  BY <1>1, <1>2 DEF NodeNext

---------------------------------------------------------------------------
(* What gets installed: the file that is in /tmp, and nothing else.         *)
Installs(m, n, s) ==
    m.installed[s] # n.installed[s] =>
        n.tmp[s] # None /\ m.installed[s] = n.tmp[s]

LEMMA EffectInstalls ==
    ASSUME NEW n \in Node, NEW cmd \in Command, NEW s \in Services
    PROVE  Installs(Effect(n, cmd), n, s)
<1>1. Installs(Moved(n, cmd.svc), n, s)
  BY DEF Installs, Moved, Node, Command
<1>2. /\ Installs(Reloaded(n), n, s) /\ Installs(n, n, s)
      /\ Installs(Started(n, cmd.svc), n, s)
      /\ Installs(Stopped(n, cmd.svc), n, s)
  BY DEF Installs, Reloaded, Started, Stopped, Node
<1> QED
  BY <1>1, <1>2 DEF Effect

LEMMA ExecuteInstalls ==
    ASSUME NodeTypeOK, NEW cmd \in Command, NEW outcome, NEW s \in Services,
           Execute(cmd, outcome)
    PROVE  Installs(node', node, s)
<1>1. node \in Node /\ Installs(node, node, s)
  BY DEF NodeTypeOK, Installs
<1> QED
  BY <1>1, EffectInstalls DEF Execute, nodeVars

LEMMA ScpInstalls ==
    ASSUME NodeTypeOK, NEW t, NEW file, NEW outcome, NEW s, Scp(t, file, outcome)
    PROVE  Installs(node', node, s)
BY DEF Scp, Received, Installs, NodeTypeOK, Node

LEMMA NodeNextInstalls ==
    ASSUME NodeTypeOK, NodeNext, NEW s \in Services
    PROVE  Installs(node', node, s)
<1>1. CASE LateEffect
  BY <1>1, EffectInstalls DEF LateEffect, Installs, NodeTypeOK
<1>2. CASE ContainerExits
  BY <1>2 DEF ContainerExits, Installs, Node, NodeTypeOK
<1> QED
  BY <1>1, <1>2 DEF NodeNext


===========================================================================
