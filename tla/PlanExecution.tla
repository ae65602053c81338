---------------------------- MODULE PlanExecution ----------------------------
(***************************************************************************)
(* PlanGenerator.generate (deployer/plan.py) against what exists already,  *)
(* and DeployExecutor.execute (deployer/executor.py) of such a plan on one *)
(* node, Here, command by command.  The deploy command plans against       *)
(* existing={} (see Deployer); here are the updates and deletes that a     *)
(* caller gets who says what exists.  Such a caller goes round by round:   *)
(* it looks at the containers that run on Here, plans, executes.           *)
(***************************************************************************)
EXTENDS TargetNode

CONSTANTS
    Nodes,      \* the nodes of the topology
    Here,       \* the node the plan is executed on
    Compared,   \* Compared[s][v]: image, privileged and service_type of s in v
    Rendered,   \* services whose quadlet file is in output_dir
    MaxRounds   \* bound: plans generated

ASSUME PlanAssumption ==
    /\ Here \in Nodes
    /\ None \notin [at : Nodes, ver : Versions]
    /\ Rendered \subseteq Services
    /\ MaxRounds \in Nat

VARIABLES
    wanted,   \* wanted[s]: the service s in `desired`, or None
    found,    \* found[s]: the service s in `existing`, or None
    exec,     \* the call of execute(), see Execution below
    rounds,   \* plans generated so far, at most MaxRounds
    revived   \* ghost: what a late command started since the plan was made

vars == <<nodeVars, wanted, found, exec, rounds, revived>>

(* A service as plan.py compares them: where it is and what it looks like.  *)
Placed == [at : Nodes, ver : Versions]
Situation == [Services -> Placed \cup {None}]

---------------------------------------------------------------------------
(* plan.py.                                                                *)

Action == [svc : Services, node : Nodes, kind : {"create", "update", "delete"}]

(* _needs_update(): neither ports nor the node are compared.               *)
NeedsUpdate(s, desired, existing) ==
    Compared[s][desired.ver] # Compared[s][existing.ver]

Creates(desired, existing) ==
    {[svc |-> s, node |-> desired[s].at, kind |-> "create"] :
        s \in {t \in Services : desired[t] # None /\ existing[t] = None}}

Updates(desired, existing) ==
    {[svc |-> s, node |-> desired[s].at, kind |-> "update"] :
        s \in {t \in Services : /\ desired[t] # None
                                /\ existing[t] # None
                                /\ NeedsUpdate(t, desired[t], existing[t])}}

Deletes(desired, existing) ==
    {[svc |-> s, node |-> existing[s].at, kind |-> "delete"] :
        s \in {t \in Services : desired[t] = None /\ existing[t] # None}}

(* Mutant of Generate: an update deletes the old container first.           *)
GenerateByDelete(desired, existing) ==
    Creates(desired, existing) \cup Updates(desired, existing)
        \cup Deletes(desired, existing)
        \cup {[a EXCEPT !.kind = "delete"] : a \in Updates(desired, existing)}

Generate(desired, existing) ==
    Creates(desired, existing) \cup Updates(desired, existing)
        \cup Deletes(desired, existing)

---------------------------------------------------------------------------
(* executor.py.                                                            *)

Steps == {"next", "ports", "scp", "mv", "reload", "start",
          "stop", "disable", "unload"}

(* keep    continue_on_failure                                             *)
(* todo    actions of the plan for Here that execute() has still to visit  *)
(* cur     the action at hand                                              *)
(* skip    service_active or port_exists, for cur                          *)
(* done    actions_completed                                               *)
(* failed  whether errors holds anything                                   *)
Execution == [pc : Steps \cup {"idle", "ended"}, keep : BOOLEAN,
              todo : SUBSET Action, cur : Action \cup {None}, skip : BOOLEAN,
              done : SUBSET Action, failed : BOOLEAN,
              result : {"none", "success", "errors", "raised"}]

Idle == [pc |-> "idle", keep |-> FALSE, todo |-> {}, cur |-> None,
         skip |-> FALSE, done |-> {}, failed |-> FALSE, result |-> "none"]

Executing == exec.pc \in Steps

Init ==
    /\ NodeInit
    /\ wanted = [s \in Services |-> None]
    /\ found = [s \in Services |-> None]
    /\ exec = Idle
    /\ rounds = 0
    /\ revived = {}

PlanTypeOK ==
    /\ NodeTypeOK
    /\ wanted \in Situation
    /\ found \in Situation
    /\ exec \in Execution
    /\ rounds \in 0..MaxRounds
    /\ revived \subseteq Services

Goto(e, pc) == exec' = [e EXCEPT !.pc = pc]

(* A topology names every service that one of its services depends on, as   *)
(* it declares that service.                                                *)
WellFormed(topology) ==
    \A s \in Services : topology[s] # None =>
        \A t \in Needs[s][topology[s].ver] : topology[t] # None

(* What a caller who looks at Here puts into `existing`: the containers     *)
(* that run there, and of the others what it has heard of other nodes.      *)
Observed(s) ==
    IF node.running[s] \in Versions
    THEN {[at |-> Here, ver |-> node.running[s]]}
    ELSE {p \in Placed : p.at # Here} \cup {None}

(* generate(), and execute() up to its loop, where the actions of other     *)
(* nodes are passed over.                                                   *)
Begin ==
    /\ ~Executing
    /\ rounds < MaxRounds
    /\ rounds' = rounds + 1
    /\ \E desired \in Situation, existing \in Situation, keep \in BOOLEAN :
        /\ WellFormed(desired)
        /\ \A s \in Services : existing[s] \in Observed(s)
        /\ wanted' = desired
        /\ found' = existing
        /\ Goto([Idle EXCEPT
                    !.keep = keep,
                    !.todo = {a \in Generate(desired, existing) : a.node = Here}],
                "next")
    /\ revived' = {}
    /\ UNCHANGED nodeVars

(* Mutant of Erred: the failed action goes to the end of the plan.          *)
Requeued(e) ==
    Goto([e EXCEPT !.todo = @ \cup {e.cur}, !.cur = None, !.skip = FALSE], "next")

(* An exception in _deploy_service or _undeploy_service: collected, or the  *)
(* end of execute() with a RuntimeError.                                    *)
Erred(e) ==
    IF e.keep
    THEN Goto([e EXCEPT !.failed = TRUE, !.cur = None, !.skip = FALSE], "next")
    ELSE Goto([e EXCEPT !.failed = TRUE, !.cur = None, !.skip = FALSE,
                        !.todo = {}, !.result = "raised"], "ended")

Completed(e) ==
    Goto([e EXCEPT !.done = @ \cup {e.cur}, !.cur = None, !.skip = FALSE], "next")

(* The action the loop visits next: creates and updates in the order the    *)
(* topology declares their services, then deletes.                          *)
First(a, todo) ==
    /\ a \in todo
    /\ \A b \in todo : b.kind # "delete" =>
           a.kind # "delete" /\ a.svc <= b.svc

Round == UNCHANGED <<wanted, found, rounds, revived>>

(* Loop head of execute() for a create or an update, and `is-active`.       *)
CheckActive ==
    /\ exec.pc = "next"
    /\ \E a \in exec.todo, active \in BOOLEAN, outcome \in {"ok", "raise"} :
        /\ First(a, exec.todo)
        /\ a.kind # "delete"
        /\ Query(Active(node, a.svc), active, outcome)
        /\ LET e == [exec EXCEPT !.cur = a, !.todo = @ \ {a}, !.skip = active]
           IN  IF outcome = "ok" THEN Goto(e, "ports") ELSE Erred(e)
    /\ Round

(* Loop head of execute() for a delete.                                     *)
BeginDelete ==
    /\ exec.pc = "next"
    /\ \E a \in exec.todo :
        /\ First(a, exec.todo)
        /\ a.kind = "delete"
        /\ Goto([exec EXCEPT !.cur = a, !.todo = @ \ {a}], "stop")
    /\ Round
    /\ UNCHANGED nodeVars

(* `podman ps`: any port at all counts, and whose they are is up to others. *)
(* Then the quadlet file must be in output_dir.                             *)
CheckPorts ==
    /\ exec.pc = "ports"
    /\ \E truth, listed \in BOOLEAN, outcome \in {"ok", "raise"} :
        /\ Query(truth, listed, outcome)
        /\ LET e == [exec EXCEPT !.skip = @ \/ listed]
           IN  IF outcome = "ok" /\ exec.cur.svc \in Rendered
               THEN Goto(e, "scp") ELSE Erred(e)
    /\ Round

(* Mutant of Transfer: the service where its file belongs.                  *)
TransferService ==
    /\ exec.pc = "scp"
    /\ \E outcome \in {"ok", "fail"} :
        /\ Scp(exec.cur.svc, wanted[exec.cur.svc], outcome)
        /\ IF outcome = "ok" THEN Goto(exec, "mv") ELSE Erred(exec)
    /\ Round

Transfer ==
    /\ exec.pc = "scp"
    /\ \E outcome \in {"ok", "fail"} :
        /\ Scp(exec.cur.svc, wanted[exec.cur.svc].ver, outcome)
        /\ IF outcome = "ok" THEN Goto(exec, "mv") ELSE Erred(exec)
    /\ Round

(* One command about the service of the action at hand.                     *)
Remote(op, outcome) ==
    /\ Execute([op |-> op, svc |-> exec.cur.svc], outcome)
    /\ Round

(* A command that raises in its caller unless it succeeds.                  *)
Checked(pc, op, next) ==
    /\ exec.pc = pc
    /\ \E outcome \in {"ok", "fail", "raise"} :
        /\ Remote(op, outcome)
        /\ IF outcome = "ok" THEN Goto(exec, next) ELSE Erred(exec)

(* Mutant of Move: the result of `mv` is not looked at.                     *)
MoveUnchecked ==
    /\ exec.pc = "mv"
    /\ \E outcome \in {"ok", "fail", "raise"} :
        /\ Remote("mv", outcome)
        /\ Goto(exec, "reload")

Move == Checked("mv", "mv", "reload")

(* daemon-reload; what is active, or meets any port, is not started.        *)
Reload ==
    /\ exec.pc = "reload"
    /\ \E outcome \in {"ok", "fail", "raise"} :
        /\ Remote("reload", outcome)
        /\ IF outcome # "ok" THEN Erred(exec)
           ELSE IF exec.skip THEN Completed(exec)
           ELSE Goto(exec, "start")

Start ==
    /\ exec.pc = "start"
    /\ \E outcome \in {"ok", "fail", "raise"} :
        /\ Remote("start", outcome)
        /\ IF outcome = "ok" THEN Completed(exec) ELSE Erred(exec)

(* Mutant of Stop: the result of `stop` is not looked at.                   *)
StopUnchecked ==
    /\ exec.pc = "stop"
    /\ \E outcome \in {"ok", "fail", "raise"} :
        /\ Remote("stop", outcome)
        /\ Goto(exec, "disable")

Stop == Checked("stop", "stop", "disable")

Disable == Checked("disable", "disable", "unload")

(* The daemon-reload of _undeploy_service.  A delete that generate() made   *)
(* has no config_path, so the quadlet file is never removed before it.      *)
Unload ==
    /\ exec.pc = "unload"
    /\ \E outcome \in {"ok", "fail", "raise"} :
        /\ Remote("reload", outcome)
        /\ IF outcome = "ok" THEN Completed(exec) ELSE Erred(exec)

(* execute() returns its DeploymentResult.                                  *)
Return ==
    /\ exec.pc = "next"
    /\ exec.todo = {}
    /\ Goto([exec EXCEPT !.result = IF exec.failed THEN "errors" ELSE "success"],
            "ended")
    /\ Round
    /\ UNCHANGED nodeVars

(* What the node does by itself, and late commands.                         *)
Environment ==
    /\ NodeNext
    /\ revived' = revived \cup
           {s \in Services : ~Active(node, s) /\ node'.running[s] # None}
    /\ UNCHANGED <<wanted, found, exec, rounds>>

Progress ==
    \/ CheckActive \/ CheckPorts \/ Transfer \/ Move \/ Reload \/ Start
    \/ BeginDelete \/ Stop \/ Disable \/ Unload \/ Return

Next == Begin \/ Progress \/ Environment

(* Every command of execute() is bounded by a timeout, so it goes on by     *)
(* itself.                                                                  *)
Spec == Init /\ [][Next]_vars /\ WF_vars(Progress)

---------------------------------------------------------------------------
(* Properties.                                                             *)

(* When execute() reports success, every service the topology places on     *)
(* Here has its unit loaded from the topology's file, unless the caller     *)
(* found it already: on another node, or differing in nothing that is       *)
(* compared.                                                                *)
RoundDelivers ==
    exec.result = "success" =>
        \A s \in Services : wanted[s] # None /\ wanted[s].at = Here =>
            \/ node.loaded[s] = wanted[s].ver
            \/ /\ found[s] # None
               /\ ~NeedsUpdate(s, wanted[s], found[s])

(* When execute() reports success, what it deleted is down: no create or    *)
(* update of the same plan brought it back, only a command of an earlier    *)
(* round that was late can have.                                            *)
DeletedIsDown ==
    exec.result = "success" =>
        \A a \in exec.done : a.kind = "delete" /\ Active(node, a.svc) =>
            a.svc \in revived

(* A `stop` of an earlier round that was late takes s down with it.         *)
LateStopOf(s) ==
    \E cmd \in late \ late' : cmd.op = "stop" /\ cmd.svc \in Pulled(node, s)

(* Something s pulls in is wanted, and its unit on the node still requires  *)
(* what the topology has dropped from its depends_on.                       *)
OutOfDate(s) ==
    \E t \in Pulled(node, s) :
        /\ wanted[t] # None
        /\ ~ Requires(node, t) \subseteq Needs[t][wanted[t].ver]

(* Executing a plan takes a container down whose service the topology       *)
(* wants, on this node or another, in one case only: the `stop` of a delete *)
(* reaches it through a requirement that a loaded unit still has and the    *)
(* topology no longer, which _needs_update does not see.  No create and no  *)
(* update does, and no delete while the units are up to date; besides, only *)
(* its own failure or a `stop` of an earlier round that was late.           *)
WantedKeepRunning ==
    [][\A s \in Services : Executing /\ wanted[s] # None /\ Active(node, s) =>
          \/ node'.running[s] = node.running[s]
          \/ ContainerExits
          \/ LateStopOf(s)
          \/ exec.pc = "stop" /\ OutOfDate(s)]_vars

(* Every call of execute() ends, whichever commands fail or time out.       *)
RoundsEnd == Executing ~> ~Executing

===========================================================================
