------------------------------ MODULE Deployer ------------------------------
(***************************************************************************)
(* `rw-blueprint deploy` (cli.py) with DeployExecutor, HealthVerifier and   *)
(* DeploymentState: one session per invocation, one step per command sent   *)
(* to the node and per file written on the operator's disk.  A session may  *)
(* be killed between any two steps.  Nothing in the code keeps two sessions *)
(* apart; Parallel says whether the operators do.                           *)
(***************************************************************************)
EXTENDS DeploymentState

CONSTANTS
    Sessions,  \* invocations of the deploy command
    Quadlets,  \* Quadlets[v]: services that topology v manages by quadlet
    Parallel   \* whether sessions may overlap

ASSUME DeployerAssumption ==
    /\ Quadlets \in [Versions -> SUBSET Services]
    /\ Parallel \in BOOLEAN

VARIABLES
    sess,      \* sess[c]: the session c, see Session below
    generated  \* generated[s]: docs/generated/quadlet/<s>.container

vars == <<nodeVars, stateVars, sess, generated>>

Steps == {"next", "ports", "store", "scp", "mv", "reload", "start",
          "verify", "record", "truncate", "write"}

Results == {"none", "success", "failed", "unhealthy", "crashed"}

(* ver     the topology being deployed                                     *)
(* plan    the services of the plan, one "create" action each              *)
(* todo    services the loop at hand has still to visit                     *)
(* cur     the service being handled                                        *)
(* skip    service_active or port_exists, for cur                           *)
(* done    actions_completed                                                *)
(* failed  whether errors holds anything                                    *)
(* copy    the history record() has read and will write back                *)
Session == [pc : Steps \cup {"idle", "ended"}, ver : Versions \cup {None},
            force : BOOLEAN, plan : SUBSET Services, todo : SUBSET Services,
            cur : Services \cup {None}, skip : BOOLEAN,
            done : SUBSET Services, failed : BOOLEAN, copy : Seq(Record),
            result : Results]

Idle == [pc |-> "idle", ver |-> None, force |-> FALSE, plan |-> {},
         todo |-> {}, cur |-> None, skip |-> FALSE, done |-> {},
         failed |-> FALSE, copy |-> << >>, result |-> "none"]

Running(c) == sess[c].pc \in Steps

Init ==
    /\ NodeInit
    /\ StateInit
    /\ sess = [c \in Sessions |-> Idle]
    /\ generated = [s \in Services |-> None]

TypeOK ==
    /\ NodeTypeOK
    /\ StateTypeOK
    /\ sess \in [Sessions -> Session]
    /\ generated \in [Services -> Versions \cup {None}]

---------------------------------------------------------------------------
(* Steps of a session.                                                     *)

Goto(c, r, pc) == sess' = [sess EXCEPT ![c] = [r EXCEPT !.pc = pc]]

(* The command ends; its locals go with it.                                *)
Finish(c, r, result) ==
    Goto(c, [r EXCEPT !.todo = {}, !.skip = FALSE, !.copy = << >>,
                      !.result = result], "ended")

(* Mutant of Erred: the failed action is tried again until it succeeds.     *)
RetriedForever(c, r) ==
    Goto(c, [r EXCEPT !.failed = TRUE, !.todo = @ \cup {r.cur}], "next")

(* An exception inside _deploy_service: continue_on_failure collects it    *)
(* and goes on with the next action.                                       *)
Erred(c, r) == Goto(c, [r EXCEPT !.failed = TRUE, !.skip = FALSE], "next")

Completed(c, r) ==
    Goto(c, [r EXCEPT !.done = @ \cup {r.cur}, !.skip = FALSE], "next")

(* The next service of a loop, in the order the topology declares them.    *)
First(s, S) == s \in S /\ \A t \in S : s <= t

(* generate(): writes the quadlet file of every service the topology       *)
(* manages by quadlet and leaves those of other services as they were.     *)
Generate(v) ==
    generated' = [s \in Services |->
                     IF s \in Quadlets[v] THEN v ELSE generated[s]]

(* deploy() up to the executor: load the topology, filter its services,    *)
(* plan them against existing={} (so only creates, no approval asked), and *)
(* write the quadlet files.                                                *)
Begin(c) ==
    /\ sess[c].pc = "idle"
    /\ Parallel \/ \A d \in Sessions : ~Running(d)
    /\ \E v \in Versions, plan \in SUBSET Services \ {{}}, force \in BOOLEAN :
        /\ Generate(v)
        /\ Goto(c, [Idle EXCEPT !.ver = v, !.plan = plan, !.todo = plan,
                                !.force = force], "next")
    /\ UNCHANGED <<nodeVars, stateVars>>

(* Loop head of execute() and `systemctl is-active <service>`.             *)
CheckActive(c) ==
    LET r == sess[c] IN
    /\ r.pc = "next"
    /\ \E s \in r.todo, active \in BOOLEAN, outcome \in {"ok", "raise"} :
        /\ First(s, r.todo)
        /\ Query(Active(node, s), active, outcome)
        /\ LET n == [r EXCEPT !.cur = s, !.todo = @ \ {s}, !.skip = active]
           IN  IF outcome = "ok" THEN Goto(c, n, "ports") ELSE Erred(c, n)
    /\ UNCHANGED <<stateVars, generated>>

(* `podman ps -a --format {{.Ports}}`, where any output at all counts.  It  *)
(* runs without sudo and lists the ssh user's own containers, never those   *)
(* the quadlets start; whether one of them publishes a port is up to others.*)
CheckPorts(c) ==
    LET r == sess[c] IN
    /\ r.pc = "ports"
    /\ \E truth, listed \in BOOLEAN, outcome \in {"ok", "raise"} :
        /\ Query(truth, listed, outcome)
        /\ LET n == [r EXCEPT !.skip = @ \/ listed]
           IN  IF outcome = "ok" THEN Goto(c, n, "store") ELSE Erred(c, n)
    /\ UNCHANGED <<stateVars, generated>>

(* Mutant of Store: the executor transfers without keeping the artifact.    *)
StoreNothing(c) ==
    /\ sess[c].pc = "store"
    /\ IF generated[sess[c].cur] # None THEN Goto(c, sess[c], "scp")
       ELSE Erred(c, sess[c])
    /\ UNCHANGED <<nodeVars, stateVars, generated>>

Store(c) ==
    LET r == sess[c] IN
    /\ r.pc = "store"
    /\ \/ /\ generated[r.cur] # None
          /\ StoreArtifact(r.cur, generated[r.cur])
          /\ Goto(c, r, "scp")
       \/ /\ generated[r.cur] = None
          /\ Erred(c, r)
          /\ UNCHANGED stateVars
    /\ UNCHANGED <<nodeVars, generated>>

(* transfer_file reads the generated file, not the stored artifact.        *)
Transfer(c) ==
    LET r == sess[c] IN
    /\ r.pc = "scp"
    /\ \E outcome \in {"ok", "fail"} :
        /\ Scp(r.cur, generated[r.cur], outcome)
        /\ IF outcome = "ok" THEN Goto(c, r, "mv") ELSE Erred(c, r)
    /\ UNCHANGED <<stateVars, generated>>

(* One command to the node; anything but "ok" raises in _deploy_service.   *)
Remote(c, op, outcome) ==
    /\ sess[c].pc = op
    /\ Execute([op |-> op, svc |-> sess[c].cur], outcome)
    /\ UNCHANGED <<stateVars, generated>>

(* Mutant of Move: the result of `mv` is not looked at.                     *)
MoveUnchecked(c) ==
    \E outcome \in {"ok", "fail", "raise"} :
        /\ Remote(c, "mv", outcome)
        /\ IF outcome = "raise" THEN Erred(c, sess[c])
           ELSE Goto(c, sess[c], "reload")

Move(c) ==
    \E outcome \in {"ok", "fail", "raise"} :
        /\ Remote(c, "mv", outcome)
        /\ IF outcome = "ok" THEN Goto(c, sess[c], "reload")
           ELSE Erred(c, sess[c])

(* daemon-reload, and the early return for a service that is active, or     *)
(* when any port was listed.                                               *)
Reload(c) ==
    \E outcome \in {"ok", "fail", "raise"} :
        /\ Remote(c, "reload", outcome)
        /\ IF outcome # "ok" THEN Erred(c, sess[c])
           ELSE IF sess[c].skip THEN Completed(c, sess[c])
           ELSE Goto(c, sess[c], "start")

Start(c) ==
    \E outcome \in {"ok", "fail", "raise"} :
        /\ Remote(c, "start", outcome)
        /\ IF outcome = "ok" THEN Completed(c, sess[c]) ELSE Erred(c, sess[c])

(* Mutant of Executed: collected errors do not end the command.             *)
ExecutedAnyway(c) ==
    /\ sess[c].pc = "next"
    /\ sess[c].todo = {}
    /\ Goto(c, [sess[c] EXCEPT !.todo = sess[c].done, !.failed = FALSE], "verify")
    /\ UNCHANGED <<nodeVars, stateVars, generated>>

(* execute() returns: any collected error ends the command with exit 1,    *)
(* before anything is verified or recorded.                                *)
Executed(c) ==
    LET r == sess[c] IN
    /\ r.pc = "next"
    /\ r.todo = {}
    /\ IF r.failed THEN Finish(c, r, "failed")
       ELSE Goto(c, [r EXCEPT !.todo = r.done], "verify")
    /\ UNCHANGED <<nodeVars, stateVars, generated>>

(* HealthVerifier.verify without a health_check, which the command line     *)
(* never passes: `systemctl is-active <service>.container`.                 *)
HealthCheck(s, healthy, outcome) ==
    Query(s \in Aliased /\ Active(node, s), healthy, outcome)

(* The health check of the next completed service.  An unhealthy one        *)
(* ends a session without --force: rollback_service builds TargetManager()  *)
(* without its argument, so the TypeError ends the command there.           *)
Verify(c) ==
    LET r == sess[c] IN
    /\ r.pc = "verify"
    /\ \E s \in r.todo, healthy \in BOOLEAN, outcome \in {"ok", "raise"} :
        /\ First(s, r.todo)
        /\ HealthCheck(s, healthy, outcome)
        /\ IF outcome = "raise" THEN Finish(c, r, "crashed")
           ELSE IF healthy \/ r.force
                THEN Goto(c, [r EXCEPT !.todo = @ \ {s}], "verify")
           ELSE Finish(c, [r EXCEPT !.cur = s], "unhealthy")
    /\ UNCHANGED <<stateVars, generated>>

Verified(c) ==
    LET r == sess[c] IN
    /\ r.pc = "verify"
    /\ r.todo = {}
    /\ Goto(c, [r EXCEPT !.todo = r.done], "record")
    /\ UNCHANGED <<nodeVars, stateVars, generated>>

(* Mutants of ReadHistory: a torn file taken for what it holds; the file    *)
(* opened for writing before it is read.                                    *)
ReadTornHistory(c) ==
    LET r == sess[c] IN
    /\ r.pc = "record"
    /\ \E s \in r.todo :
        /\ First(s, r.todo)
        /\ Goto(c, [r EXCEPT !.cur = s, !.todo = @ \ {s}, !.copy = history[s]],
                "truncate")
    /\ UNCHANGED <<nodeVars, stateVars, generated>>

ReadAfterTruncating(c) ==
    LET r == sess[c] IN
    /\ r.pc = "record"
    /\ \E s \in r.todo :
        /\ First(s, r.todo)
        /\ Readable(s)
        /\ Goto(c, [r EXCEPT !.cur = s, !.todo = @ \ {s}, !.copy = history[s]],
                "truncate")
        /\ Truncate(s, FALSE)
    /\ UNCHANGED <<nodeVars, generated>>

(* record() for the next completed service: a torn history does not parse  *)
(* and the JSONDecodeError ends the command.                               *)
ReadHistory(c) ==
    LET r == sess[c] IN
    /\ r.pc = "record"
    /\ \E s \in r.todo :
        /\ First(s, r.todo)
        /\ IF Readable(s)
           THEN Goto(c, [r EXCEPT !.cur = s, !.todo = @ \ {s},
                                  !.copy = history[s]], "truncate")
           ELSE Finish(c, r, "crashed")
    /\ UNCHANGED <<nodeVars, stateVars, generated>>

TruncateHistory(c) ==
    /\ sess[c].pc = "truncate"
    /\ Truncate(sess[c].cur,
                \E d \in Sessions \ {c} :
                    sess[d].pc = "write" /\ sess[d].cur = sess[c].cur)
    /\ Goto(c, sess[c], "write")
    /\ UNCHANGED <<nodeVars, generated>>

WriteHistory(c) ==
    LET r == sess[c] IN
    /\ r.pc = "write"
    /\ WriteBack(r.cur, r.copy,
                 [ver |-> r.ver,
                  status |-> IF r.failed THEN "failed" ELSE "healthy"])
    /\ Goto(c, [r EXCEPT !.copy = << >>], "record")
    /\ UNCHANGED <<nodeVars, generated>>

Recorded(c) ==
    /\ sess[c].pc = "record"
    /\ sess[c].todo = {}
    /\ Finish(c, sess[c], "success")
    /\ UNCHANGED <<nodeVars, stateVars, generated>>

(* The operator's machine or the process dies between two steps, or in the *)
(* middle of store_artifact's write.                                       *)
Crash(c) ==
    /\ Running(c)
    /\ Fault
    /\ Finish(c, sess[c], "crashed")
    /\ \/ UNCHANGED stateVars
       \/ /\ sess[c].pc = "store"
          /\ generated[sess[c].cur] # None
          /\ StoreArtifact(sess[c].cur, Torn)
    /\ UNCHANGED <<node, late, generated>>

---------------------------------------------------------------------------

Progress(c) ==
    \/ CheckActive(c) \/ CheckPorts(c) \/ Store(c) \/ Transfer(c) \/ Move(c)
    \/ Reload(c) \/ Start(c) \/ Executed(c) \/ Verify(c) \/ Verified(c)
    \/ ReadHistory(c) \/ TruncateHistory(c) \/ WriteHistory(c) \/ Recorded(c)

Environment == NodeNext /\ UNCHANGED <<stateVars, sess, generated>>

Next ==
    \/ \E c \in Sessions : Begin(c) \/ Progress(c) \/ Crash(c)
    \/ Environment

(* A session runs by itself once it is started: every command it waits for *)
(* carries a timeout.  Nobody has to start one, and nothing has to fail.   *)
Fairness == \A c \in Sessions : WF_vars(Progress(c))

Spec == Init /\ [][Next]_vars /\ Fairness

---------------------------------------------------------------------------
(* Properties.                                                             *)

(* store_artifact comes before transfer_file, so that a rollback has the    *)
(* file: no version of a quadlet is on the node, in /tmp, installed, loaded *)
(* or running, that was not stored for its service first.  (Sessions that   *)
(* overlap break this: one rewrites docs/generated between another's store  *)
(* and its transfer.)                                                       *)
WriteAhead ==
    \A s \in Services : OnNode(node, s) \cap Versions \subseteq stored[s]

(* As long as a session runs, every service in its actions_completed that   *)
(* its topology renders a quadlet for is loaded from that topology's file,  *)
(* whatever commands of earlier sessions still take effect on the node.     *)
CompletedIsLoaded ==
    \A c \in Sessions : Running(c) =>
        \A s \in sess[c].done \cap Quadlets[sess[c].ver] :
            node.loaded[s] = sess[c].ver

(* A step that puts a new record into a service's history belongs to a      *)
(* session whose whole plan succeeded, and whose every service, not only    *)
(* the recorded one, is loaded from the topology the record is about.       *)
RecordEarned(s) ==
    \E c \in Sessions :
        /\ sess[c].pc = "write"
        /\ sess[c].cur = s
        /\ sess[c].done = sess[c].plan
        /\ ~sess[c].failed
        /\ \A t \in sess[c].plan \cap Quadlets[sess[c].ver] :
                node.loaded[t] = sess[c].ver

RecordsAreEarned ==
    [][\A s \in Services :
          history'[s] # history[s] /\ history'[s] # Torn => RecordEarned(s)]_vars

(* A history that does not parse is empty, between the truncation of a      *)
(* session that is still to write or died before it did, or it is garbled,   *)
(* and then two sessions once were between truncating and writing that very  *)
(* file at the same time.  Sessions that overlap anywhere else, one reading  *)
(* what the other is about to replace included, leave it readable.           *)
UnreadableHasCause ==
    \A s \in Services :
        /\ history[s] = Torn =>
               \E c \in Sessions :
                   /\ sess[c].cur = s
                   /\ sess[c].pc = "write" \/ sess[c].result = "crashed"
        /\ history[s] = Garbled => s \in clashed

(* The history as its readers may count on it: while a session is between   *)
(* truncating and writing, the records it holds stand for the file's.       *)
Log == [s \in Services |->
            IF Readable(s) THEN history[s]
            ELSE IF \E c \in Sessions : sess[c].pc = "write" /\ sess[c].cur = s
                 THEN sess[CHOOSE c \in Sessions :
                            sess[c].pc = "write" /\ sess[c].cur = s].copy
                 ELSE Torn]

AbstractLog == INSTANCE DeploymentLog
                   WITH Records <- Record, Lost <- Torn, log <- Log

(* record() implements the append-only log when sessions do not overlap.    *)
HistoryIsLog == AbstractLog!Spec

(* Every session ends, whichever of its commands fail, time out or leave a  *)
(* late effect: no error path goes round for good.                          *)
SessionsEnd == \A c \in Sessions : Running(c) ~> ~Running(c)

(* Whatever sessions overlap: a record is only written by a session none of *)
(* whose services failed; one failed service keeps all of them out of the   *)
(* history.                                                                 *)
RecordsFollowSuccess ==
    [][\A s \in Services :
          history'[s] # history[s] /\ history'[s] # Torn =>
              \E c \in Sessions :
                  /\ sess[c].pc = "write"
                  /\ sess[c].cur = s
                  /\ sess[c].done = sess[c].plan
                  /\ ~sess[c].failed]_vars

===========================================================================
