---------------------------- MODULE DeploySystem ----------------------------
(***************************************************************************)
(* Deploy sessions and rollbacks on the same node and the same files.       *)
(* A rollback is deployer/rollback.py's RollbackExecutor.rollback, called   *)
(* with a TargetManager that knows the node, as the tests and the library's *)
(* users do; the command line's own wrapper never gets that far (see        *)
(* Deployer's Verify).                                                      *)
(***************************************************************************)
EXTENDS Deployer

CONSTANT Rollbacks   \* invocations of RollbackExecutor.rollback

VARIABLE rb   \* rb[r]: the rollback r, see Rollback below

sysVars == <<vars, rb>>

RollbackSteps == {"stop", "scp", "mv", "reload", "enable"}

(* prev is the version of the record get_previous_healthy returned; the     *)
(* code goes on to use nothing of that record but its image.                *)
Rollback == [pc : RollbackSteps \cup {"idle", "ended"},
             svc : Services \cup {None}, prev : Versions \cup {None},
             result : {"none", "success", "failed", "crashed"}]

RollingBack(r) == rb[r].pc \in RollbackSteps

SystemInit ==
    /\ Init
    /\ rb = [r \in Rollbacks |-> [pc |-> "idle", svc |-> None, prev |-> None,
                                  result |-> "none"]]

SystemTypeOK == TypeOK /\ rb \in [Rollbacks -> Rollback]

---------------------------------------------------------------------------

RbGoto(r, pc) == rb' = [rb EXCEPT ![r].pc = pc]

RbFinish(r, result) ==
    rb' = [rb EXCEPT ![r].pc = "ended", ![r].result = result]

(* get_previous_healthy, outside the try block: a torn history raises.      *)
RbBegin(r) ==
    /\ rb[r].pc = "idle"
    /\ Parallel \/ /\ \A c \in Sessions : ~Running(c)
                   /\ \A q \in Rollbacks : ~RollingBack(q)
    /\ \E s \in Services :
        IF ~Readable(s) THEN RbFinish(r, "crashed")
        ELSE IF ~HasHealthy(s) THEN RbFinish(r, "failed")
        ELSE rb' = [rb EXCEPT ![r] =
                       [pc |-> "stop", svc |-> s, result |-> "none",
                        prev |-> PreviousHealthy(s).ver]]
    /\ UNCHANGED vars

RbRemote(r, pc, outcome) ==
    /\ rb[r].pc = pc
    /\ Execute([op |-> pc, svc |-> rb[r].svc], outcome)
    /\ UNCHANGED <<stateVars, sess, generated>>

(* Mutant of RbStop: the service is not stopped first.                      *)
RbNoStop(r) == rb[r].pc = "stop" /\ RbGoto(r, "scp") /\ UNCHANGED vars

(* A command that fails returns at once and a timeout is caught by the try  *)
(* block: either way the rollback has failed, with whatever it has already  *)
(* done left as it is.                                                      *)
RbStop(r) ==
    \E outcome \in {"ok", "fail", "raise"} :
        /\ RbRemote(r, "stop", outcome)
        /\ IF outcome = "ok" THEN RbGoto(r, "scp") ELSE RbFinish(r, "failed")

(* Mutant of RbTransfer: restores the last generated file.                  *)
RbTransferGenerated(r) ==
    LET s == rb[r].svc IN
    /\ rb[r].pc = "scp"
    /\ \E outcome \in {"ok", "fail", "raise"} :
        /\ Scp(s, generated[s], outcome)
        /\ IF outcome = "ok" THEN RbGoto(r, "mv")
           ELSE IF outcome = "fail" THEN RbGoto(r, "reload")
           ELSE RbFinish(r, "failed")
    /\ UNCHANGED <<stateVars, sess, generated>>

(* The loop over artifact keys.  Only key "current" is ever stored, so a    *)
(* missing artifact or a transfer that fails leaves it with nothing         *)
(* restored; what follows does not look at that.                            *)
RbTransfer(r) ==
    LET s == rb[r].svc IN
    /\ rb[r].pc = "scp"
    /\ \/ /\ artifact[s] = None
          /\ RbGoto(r, "reload")
          /\ UNCHANGED nodeVars
       \/ /\ artifact[s] # None
          /\ \E outcome \in {"ok", "fail", "raise"} :
                /\ Scp(s, artifact[s], outcome)
                /\ IF outcome = "ok" THEN RbGoto(r, "mv")
                   ELSE IF outcome = "fail" THEN RbGoto(r, "reload")
                   ELSE RbFinish(r, "failed")
    /\ UNCHANGED <<stateVars, sess, generated>>

(* Mutant of RbMove: transfers until `restored`, which is never set.        *)
RbMoveAgain(r) ==
    \E outcome \in {"ok", "fail", "raise"} :
        /\ RbRemote(r, "mv", outcome)
        /\ IF outcome = "raise" THEN RbFinish(r, "failed")
           ELSE RbGoto(r, "scp")

RbMove(r) ==
    \E outcome \in {"ok", "fail", "raise"} :
        /\ RbRemote(r, "mv", outcome)
        /\ IF outcome = "raise" THEN RbFinish(r, "failed")
           ELSE RbGoto(r, "reload")

RbReload(r) ==
    \E outcome \in {"ok", "fail", "raise"} :
        /\ RbRemote(r, "reload", outcome)
        /\ IF outcome = "ok" THEN RbGoto(r, "enable")
           ELSE RbFinish(r, "failed")

(* systemctl enable --now                                                   *)
RbStart(r) ==
    \E outcome \in {"ok", "fail", "raise"} :
        /\ RbRemote(r, "enable", outcome)
        /\ RbFinish(r, IF outcome = "ok" THEN "success" ELSE "failed")

RbCrash(r) ==
    /\ RollingBack(r)
    /\ Fault
    /\ RbFinish(r, "crashed")
    /\ UNCHANGED <<node, late, stateVars, sess, generated>>

RbProgress(r) == \/ RbStop(r) \/ RbTransfer(r) \/ RbMove(r)
                 \/ RbReload(r) \/ RbStart(r)

(* Without Parallel, a deploy session starts only when no rollback runs.    *)
SessionNext ==
    /\ \E c \in Sessions :
        \/ Begin(c) /\ (Parallel \/ \A r \in Rollbacks : ~RollingBack(r))
        \/ Progress(c)
        \/ Crash(c)
    /\ UNCHANGED rb

RollbackNext == \E r \in Rollbacks : RbBegin(r) \/ RbProgress(r) \/ RbCrash(r)

SystemNext ==
    \/ SessionNext
    \/ RollbackNext
    \/ Environment /\ UNCHANGED rb

SystemFairness ==
    /\ \A c \in Sessions : WF_sysVars(Progress(c) /\ UNCHANGED rb)
    /\ \A r \in Rollbacks : WF_sysVars(RbProgress(r))

SystemSpec == SystemInit /\ [][SystemNext]_sysVars /\ SystemFairness

---------------------------------------------------------------------------
(* Properties.                                                             *)

(* While a rollback is under way nothing gets installed for its service     *)
(* that was not stored for it, whole or cut short by a failing transfer;    *)
(* and once its own transfer has succeeded, nothing but the stored          *)
(* artifact: neither a leftover in /tmp nor a late `mv` of an earlier       *)
(* session brings in another file.  (Before, a late `mv` may: of what a     *)
(* session left in /tmp when a later one has replaced the artifact.)        *)
RollbackInstallsArtifact ==
    [][\A r \in Rollbacks :
          LET s == rb[r].svc IN
          RollingBack(r) /\ node'.installed[s] # node.installed[s] =>
              /\ node'.installed[s] \in stored[s] \cup {Torn}
              /\ rb[r].pc = "mv" => node'.installed[s] = artifact[s]]_sysVars

(* With no failure so far, a rollback that reports success has its service  *)
(* running from the stored artifact: it was stopped, replaced, reloaded and *)
(* started, none of these left out or out of order.                         *)
CleanRollbackServes ==
    [][\A r \in Rollbacks :
          /\ rb[r].result # "success"
          /\ rb'[r].result = "success"
          /\ faults' = 0
          => node'.running[rb[r].svc] = artifact[rb[r].svc]]_sysVars

(* Every rollback ends, whichever of its commands fail or time out.         *)
RollbacksEnd == \A r \in Rollbacks : RollingBack(r) ~> ~RollingBack(r)

---------------------------------------------------------------------------
(* What the documentation says of a rollback; see the README.               *)

(* rollback.py: "Rollback a service to its previous healthy state".  The    *)
(* version of the record it selected should be running when it succeeds.    *)
RollbackRestoresPrevious ==
    [][\A r \in Rollbacks :
          rb[r].result # "success" /\ rb'[r].result = "success"
              => node'.running[rb[r].svc] = rb[r].prev]_sysVars

===========================================================================
