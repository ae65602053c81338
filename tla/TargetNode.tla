---------------------------- MODULE TargetNode ----------------------------
(***************************************************************************)
(* One target node as deployer/targets.py reaches it: every command goes   *)
(* through TargetManager.execute (ssh) or TargetManager.transfer_file      *)
(* (scp to /tmp, then `sudo mv`).  A command has three outcomes for its     *)
(* caller:                                                                 *)
(*                                                                         *)
(*   "ok"     exit status 0: the command took effect                       *)
(*   "fail"   RunResult(success=False): the node refused the command, the  *)
(*            connection broke, or the operator pressed Ctrl-C             *)
(*   "raise"  subprocess.TimeoutExpired, which execute() does not catch    *)
(*                                                                         *)
(* A command that fails without being refused took effect, or never will,  *)
(* or still runs on the node and takes effect later.                       *)
(*                                                                         *)
(* systemd and podman are external: their part is what the deployer's      *)
(* commands rely on.  A container's configuration is the version of the    *)
(* quadlet file it was started from.  Its unit is <service>.service; the    *)
(* code also says <service>.container, which quadlet makes no name of any   *)
(* unit, so Aliased is empty unless somebody set the node up that way.      *)
(***************************************************************************)
EXTENDS Naturals

CONSTANTS
    Services,   \* the node's services, by position in topology.yaml
    Versions,   \* contents a service's quadlet file can have
    None,       \* no file, no unit, no container
    Torn,       \* a file cut short by an interrupted write
    Needs,      \* Needs[s][f]: what the unit of s requires when generated from f
    Aliased,    \* services the node also knows as <service>.container
    MaxFaults   \* bound: failures the environment may inject

ASSUME NodeAssumption ==
    /\ Services \subseteq Nat
    /\ None \notin Versions
    /\ Torn \notin Versions
    /\ None # Torn
    /\ Needs \in [Services -> [Versions \cup {Torn} -> SUBSET Services]]
    /\ Aliased \subseteq Services
    /\ MaxFaults \in Nat

VARIABLES
    node,    \* the node's files and units, see Node below
    late,    \* commands whose ssh client is gone and that still run
    faults   \* failures injected so far, at most MaxFaults

nodeVars == <<node, late, faults>>

Content == Versions \cup {None, Torn}

(* tmp        /tmp/<service>.container, where transfer_file lands files     *)
(* installed  /etc/containers/systemd/<service>.container                  *)
(* loaded     the unit systemd generated at its last daemon-reload         *)
(* running    what the running container was started from                  *)
Node == [tmp : [Services -> Content], installed : [Services -> Content],
         loaded : [Services -> Content], running : [Services -> Content]]

Command == [op : {"mv", "reload", "start", "stop", "enable", "disable"},
            svc : Services]

NodeTypeOK ==
    /\ node \in Node
    /\ late \subseteq Command
    /\ faults \in 0..MaxFaults

NodeInit ==
    LET empty == [s \in Services |-> None]
    IN  /\ node = [tmp |-> empty, installed |-> empty,
                   loaded |-> empty, running |-> empty]
        /\ late = {}
        /\ faults = 0

---------------------------------------------------------------------------
(* What the commands do on the node.                                       *)

OnNode(n, s) == {n.tmp[s], n.installed[s], n.loaded[s], n.running[s]}

Active(n, s) == n.running[s] # None

Received(n, s, file) == [n EXCEPT !.tmp[s] = file]

Moved(n, s) == IF n.tmp[s] = None THEN n
               ELSE [n EXCEPT !.installed[s] = n.tmp[s], !.tmp[s] = None]

Reloaded(n) == [n EXCEPT !.loaded = n.installed]

(* Requires=, which the template renders from depends_on, as it is in the   *)
(* unit that is loaded: of the topology the file was rendered from, which   *)
(* need not be the one being deployed.                                      *)
Requires(n, s) == IF n.loaded[s] = None THEN {} ELSE Needs[s][n.loaded[s]]

(* s, and what it requires directly or through others.                      *)
Pulled(n, s) ==
    {t \in Services : \A S \in SUBSET Services :
        s \in S /\ (\A u \in S : Requires(n, u) \subseteq S) => t \in S}

(* Starting a unit starts what it pulls in; starting one that is active     *)
(* already changes nothing.                                                 *)
Started(n, s) ==
    [n EXCEPT !.running =
        [t \in Services |->
            IF t \in Pulled(n, s) /\ ~Active(n, t)
            THEN n.loaded[t] ELSE n.running[t]]]

(* Stopping a unit stops every unit that pulls it in.                      *)
Stopped(n, s) ==
    [n EXCEPT !.running =
        [t \in Services |->
            IF s \in Pulled(n, t) THEN None ELSE n.running[t]]]

Effect(n, cmd) ==
    IF cmd.op = "mv" THEN Moved(n, cmd.svc)
    ELSE IF cmd.op = "reload" THEN Reloaded(n)
    ELSE IF cmd.op \in {"start", "enable"} THEN Started(n, cmd.svc)
    ELSE IF cmd.op = "stop" THEN Stopped(n, cmd.svc)
    ELSE n

Loaded(n, S) == \A t \in S : n.loaded[t] # None

(* Whether the node can carry the command out: mv needs its source, start  *)
(* needs the units to exist.  Stop, enable and disable address              *)
(* <service>.container, which has to be a name of the unit.                *)
Accepts(n, cmd) ==
    LET s == cmd.svc IN
    CASE cmd.op = "mv"     -> n.tmp[s] # None
      [] cmd.op = "reload" -> TRUE
      [] cmd.op = "start"  -> Loaded(n, Pulled(n, s))
      [] cmd.op = "enable" -> s \in Aliased /\ Loaded(n, Pulled(n, s))
      [] cmd.op \in {"stop", "disable"} -> s \in Aliased /\ Loaded(n, {s})

---------------------------------------------------------------------------
(* TargetManager, as its callers see it.                                   *)

Fault == /\ faults < MaxFaults
         /\ faults' = faults + 1

(* execute() of a command that changes the node.                           *)
Execute(cmd, outcome) ==
    \/ /\ outcome = "ok"
       /\ Accepts(node, cmd)
       /\ node' = Effect(node, cmd)
       /\ UNCHANGED <<late, faults>>
    \/ /\ outcome = "fail"
       /\ ~Accepts(node, cmd)
       /\ UNCHANGED nodeVars
    \/ /\ outcome \in {"fail", "raise"}
       /\ Accepts(node, cmd)
       /\ Fault
       /\ node' \in {node, Effect(node, cmd)}
       /\ late' = late
    \/ /\ outcome \in {"fail", "raise"}
       /\ Fault
       /\ late' = late \cup {cmd}
       /\ UNCHANGED node

(* execute() of a command that only reads: `answer` is what its caller     *)
(* makes of it, FALSE when the command fails, and `truth` the right one.   *)
Query(truth, answer, outcome) ==
    /\ UNCHANGED <<node, late>>
    /\ \/ outcome = "ok" /\ answer = truth /\ UNCHANGED faults
       \/ outcome = "ok" /\ answer = FALSE /\ truth /\ Fault
       \/ outcome = "raise" /\ answer = FALSE /\ Fault

(* transfer_file(sudo=True) up to its `mv`: scp that fails or times out    *)
(* leaves the old file in /tmp, part of the new one, or all of it.         *)
Scp(s, file, outcome) ==
    /\ UNCHANGED late
    /\ \/ /\ outcome = "ok"
          /\ node' = Received(node, s, file)
          /\ UNCHANGED faults
       \/ /\ outcome \in {"fail", "raise"}
          /\ Fault
          /\ node' \in {node, Received(node, s, Torn), Received(node, s, file)}

(* A command that outlived its ssh client completes; one that the node no  *)
(* longer accepts fails with nobody to tell.                               *)
LateEffect ==
    \E cmd \in late :
        /\ late' = late \ {cmd}
        /\ node' = IF Accepts(node, cmd) THEN Effect(node, cmd) ELSE node
        /\ UNCHANGED faults

(* A container exits by itself.                                            *)
ContainerExits ==
    \E s \in Services :
        /\ Active(node, s)
        /\ Fault
        /\ node' = [node EXCEPT !.running[s] = None]
        /\ UNCHANGED late

NodeNext == LateEffect \/ ContainerExits

===========================================================================
