------------------------- MODULE PlanExecutionProofs -------------------------
(***************************************************************************)
(* Proofs about PlanExecution, for every number of services, nodes,         *)
(* versions, rounds and faults: its type invariant, what a plan settles,    *)
(* and what a round delivers, deletes and leaves running.                   *)
(***************************************************************************)
EXTENDS PlanExecution, TargetNodeProofs

(* What generate() puts into a plan, one action a service: creates and      *)
(* updates of what is desired, where it is desired; deletes of the rest.    *)
LEMMA PlanSays ==
    ASSUME NEW desired \in Situation, NEW existing \in Situation
    PROVE  \A a \in Generate(desired, existing) :
               /\ a \in Action
               /\ a.kind # "delete" => desired[a.svc] \in Placed
               /\ a.kind = "delete" => desired[a.svc] = None
               /\ \A b \in Generate(desired, existing) :
                      a.svc = b.svc => a = b
<1>1. ASSUME NEW a \in Creates(desired, existing)
      PROVE  /\ a \in Action /\ a.kind = "create"
             /\ desired[a.svc] \in Placed /\ existing[a.svc] = None
             /\ a = [svc |-> a.svc, node |-> desired[a.svc].at, kind |-> "create"]
  BY DEF Creates, Action, Situation, Placed
<1>2. ASSUME NEW a \in Updates(desired, existing)
      PROVE  /\ a \in Action /\ a.kind = "update"
             /\ desired[a.svc] \in Placed /\ existing[a.svc] # None
             /\ a = [svc |-> a.svc, node |-> desired[a.svc].at, kind |-> "update"]
  BY DEF Updates, Action, Situation, Placed
<1>3. ASSUME NEW a \in Deletes(desired, existing)
      PROVE  /\ a \in Action /\ a.kind = "delete"
             /\ desired[a.svc] = None /\ existing[a.svc] # None
             /\ a = [svc |-> a.svc, node |-> existing[a.svc].at, kind |-> "delete"]
  BY DEF Deletes, Action, Situation, Placed
<1>4. None \notin Placed
  BY PlanAssumption DEF Placed
<1> QED
  BY <1>1, <1>2, <1>3, <1>4 DEF Generate

(* A desired service that does not exist, or differs in what is compared,   *)
(* is in the plan, where it is desired.                                     *)
LEMMA PlanCovers ==
    ASSUME NEW desired \in Situation, NEW existing \in Situation,
           NEW s \in Services, desired[s] # None,
           existing[s] = None \/ NeedsUpdate(s, desired[s], existing[s])
    PROVE  \E a \in Generate(desired, existing) :
               a.svc = s /\ a.kind # "delete" /\ a.node = desired[s].at
<1>1. CASE existing[s] = None
  <2> DEFINE a == [svc |-> s, node |-> desired[s].at, kind |-> "create"]
  <2>1. a \in Creates(desired, existing)
    BY <1>1 DEF Creates
  <2> QED
    BY <2>1 DEF Generate
<1>2. CASE existing[s] # None
  <2> DEFINE a == [svc |-> s, node |-> desired[s].at, kind |-> "update"]
  <2>1. a \in Updates(desired, existing)
    BY <1>2 DEF Updates
  <2> QED
    BY <2>1 DEF Generate
<1> QED
  BY <1>1, <1>2

(* The services there are once a plan is carried out.                       *)
Applied(desired, existing) ==
    {s \in Services :
        \/ \E a \in Creates(desired, existing) : a.svc = s
        \/ /\ existing[s] # None
           /\ ~ \E a \in Deletes(desired, existing) : a.svc = s}

(* Carrying a plan out leaves the services that are desired, and no others: *)
(* what existed, with what the plan creates and without what it deletes.    *)
THEOREM PlanReconciles ==
    ASSUME NEW desired \in Situation, NEW existing \in Situation
    PROVE  Applied(desired, existing) = {s \in Services : desired[s] # None}
<1>1. ASSUME NEW s \in Services
      PROVE  s \in Applied(desired, existing) <=> desired[s] # None
  <2>1. (\E a \in Creates(desired, existing) : a.svc = s)
            <=> desired[s] # None /\ existing[s] = None
    <3>1. ASSUME desired[s] # None, existing[s] = None
          PROVE  [svc |-> s, node |-> desired[s].at, kind |-> "create"]
                     \in Creates(desired, existing)
      BY <3>1 DEF Creates
    <3> QED
      BY <3>1 DEF Creates
  <2>2. (\E a \in Deletes(desired, existing) : a.svc = s)
            <=> desired[s] = None /\ existing[s] # None
    <3>1. ASSUME desired[s] = None, existing[s] # None
          PROVE  [svc |-> s, node |-> existing[s].at, kind |-> "delete"]
                     \in Deletes(desired, existing)
      BY <3>1 DEF Deletes
    <3> QED
      BY <3>1 DEF Deletes
  <2> QED
    BY <2>1, <2>2 DEF Applied
<1> QED
  BY <1>1 DEF Applied

(* Planning again once the plan is carried out finds nothing left to do.    *)
THEOREM PlanSettles ==
    ASSUME NEW desired \in Situation
    PROVE  Generate(desired, desired) = {}
BY DEF Generate, Creates, Updates, Deletes, NeedsUpdate

---------------------------------------------------------------------------
(* The inductive invariant's account of the call of execute().             *)

AtInstall == {"ports", "scp", "mv", "reload", "start"}
AtDelete == {"stop", "disable", "unload"}

Current == IF exec.pc \in AtInstall \cup AtDelete THEN {exec.cur} ELSE {}

Planned == {a \in Generate(wanted, found) : a.node = Here}

(* Nothing is lost of the plan and nothing is in it twice; the step at hand *)
(* is one for the action at hand; a success has everything done.            *)
Book ==
    /\ PlanTypeOK
    /\ WellFormed(wanted)
    /\ exec.todo \cup exec.done \cup Current \subseteq Planned
    /\ exec.todo \cap exec.done = {}
    /\ Current \cap (exec.todo \cup exec.done) = {}
    /\ ~exec.failed /\ exec.pc # "idle" =>
           Planned = exec.todo \cup exec.done \cup Current
    /\ exec.pc \in AtInstall => exec.cur.kind # "delete"
    /\ exec.pc \in AtDelete => exec.cur.kind = "delete"
    /\ exec.pc # "ended" => exec.result = "none"
    /\ exec.result = "success" => ~exec.failed /\ exec.todo = {}

(* What Book says of the action at hand.                                   *)
LEMMA AtHand ==
    ASSUME Book, exec.pc \in AtInstall \cup AtDelete
    PROVE  /\ exec.cur \in Planned /\ exec.cur \in Action
           /\ exec.cur.svc \in Services
           /\ Current = {exec.cur}
           /\ exec.cur \notin exec.todo /\ exec.cur \notin exec.done
           /\ exec.pc \in AtInstall => wanted[exec.cur.svc] \in Placed
           /\ exec.pc \in AtDelete => wanted[exec.cur.svc] = None
<1>1. exec.cur \in Planned /\ Current = {exec.cur}
  BY DEF Book, Current
<1>2. /\ exec.cur \in Action
      /\ exec.cur.kind # "delete" => wanted[exec.cur.svc] \in Placed
      /\ exec.cur.kind = "delete" => wanted[exec.cur.svc] = None
  BY <1>1, PlanSays DEF Planned, Book, PlanTypeOK
<1> QED
  BY <1>1, <1>2 DEF Book, Action

(* The plan stands while it is executed.                                   *)
LEMMA PlannedStands ==
    ASSUME Round
    PROVE  /\ Planned' = Planned
           /\ WellFormed(wanted') <=> WellFormed(wanted)
BY DEF Round, Planned, WellFormed, Generate, Creates, Updates, Deletes,
       NeedsUpdate

(* The step of an action leads to its next step.                           *)
LEMMA BookAdvance ==
    ASSUME Book, NodeTypeOK', Round,
           NEW pc, NEW next, NEW skip \in BOOLEAN, exec.pc = pc,
           \/ pc \in AtInstall /\ next \in AtInstall
           \/ pc \in AtDelete /\ next \in AtDelete,
           Goto([exec EXCEPT !.skip = skip], next)
    PROVE  Book'
<1>1. exec' = [exec EXCEPT !.skip = skip, !.pc = next]
  BY DEF Goto, Book, PlanTypeOK, Execution
<1>2. exec' \in Execution
  BY <1>1 DEF Book, PlanTypeOK, Execution, AtInstall, AtDelete, Steps
<1>3. Current' = Current
  BY <1>1 DEF Current, Book, PlanTypeOK, Execution
<1> QED
  BY <1>1, <1>2, <1>3, PlannedStands
  DEF Book, PlanTypeOK, Execution, AtInstall, AtDelete, Round

(* An action that failed is neither done nor to do.                        *)
LEMMA BookErred ==
    ASSUME Book, NodeTypeOK', Round, exec.pc \in Steps,
           NEW e \in Execution, e.todo \subseteq exec.todo,
           e.done = exec.done, e.keep = exec.keep, e.result = exec.result,
           Erred(e)
    PROVE  /\ Book'
           /\ exec'.pc \in {"next", "ended"}
           /\ exec'.done = exec.done
           /\ exec'.result # "success"
<1>1. /\ exec' \in Execution
      /\ exec'.pc \in {"next", "ended"}
      /\ exec'.failed
      /\ exec'.todo \subseteq exec.todo
      /\ exec'.done = exec.done
      /\ exec'.pc = "next" => exec'.result = exec.result
      /\ exec'.pc = "ended" => exec'.result = "raised"
  <2>1. CASE e.keep
    <3>1. exec' = [e EXCEPT !.failed = TRUE, !.cur = None, !.skip = FALSE,
                            !.pc = "next"]
      BY <2>1 DEF Erred, Goto, Execution
    <3> QED
      BY <3>1 DEF Execution, Steps
  <2>2. CASE ~e.keep
    <3>1. exec' = [e EXCEPT !.failed = TRUE, !.cur = None, !.skip = FALSE,
                            !.todo = {}, !.result = "raised", !.pc = "ended"]
      BY <2>2 DEF Erred, Goto, Execution
    <3> QED
      BY <3>1 DEF Execution
  <2> QED
    BY <2>1, <2>2
<1>2. Current' = {}
  BY <1>1 DEF Current, AtInstall, AtDelete
<1>3. exec.result = "none"
  BY DEF Book, Steps
<1> QED
  BY <1>1, <1>2, <1>3, PlannedStands
  DEF Book, PlanTypeOK, Round, AtInstall, AtDelete

(* An action whose last step succeeded is done.                            *)
LEMMA BookCompleted ==
    ASSUME Book, NodeTypeOK', Round, exec.pc \in AtInstall \cup AtDelete,
           Completed(exec)
    PROVE  /\ Book'
           /\ exec'.pc = "next"
           /\ exec'.done = exec.done \cup {exec.cur}
           /\ exec'.result # "success"
<1>1. exec' = [exec EXCEPT !.done = exec.done \cup {exec.cur}, !.cur = None,
                           !.skip = FALSE, !.pc = "next"]
  BY DEF Completed, Goto, Book, PlanTypeOK, Execution
<1>2. exec.result = "none"
  BY DEF Book, AtInstall, AtDelete
<1>3. exec' \in Execution
  BY <1>1, AtHand DEF Book, PlanTypeOK, Execution, Steps
<1>4. /\ exec'.done = exec.done \cup {exec.cur}
      /\ exec'.todo = exec.todo
      /\ exec'.pc = "next"
      /\ exec'.failed = exec.failed
      /\ exec'.result = exec.result
  BY <1>1 DEF Book, PlanTypeOK, Execution
<1>5. Current' = {}
  BY <1>4 DEF Current, AtInstall, AtDelete
<1> QED
  BY <1>2, <1>3, <1>4, <1>5, AtHand, PlannedStands
  DEF Book, PlanTypeOK, Round, AtInstall, AtDelete

(* The next action of the plan is taken up.                                *)
LEMMA BookPicked ==
    ASSUME Book, NodeTypeOK', Round, exec.pc = "next", NEW a \in exec.todo,
           NEW skip \in BOOLEAN, NEW pc,
           \/ a.kind # "delete" /\ pc \in AtInstall
           \/ a.kind = "delete" /\ pc \in AtDelete,
           Goto([exec EXCEPT !.cur = a, !.todo = @ \ {a}, !.skip = skip], pc)
    PROVE  Book'
<1>1. exec' = [exec EXCEPT !.cur = a, !.todo = exec.todo \ {a},
                           !.skip = skip, !.pc = pc]
  BY DEF Goto, Book, PlanTypeOK, Execution
<1>2. exec' \in Execution
  BY <1>1 DEF Book, PlanTypeOK, Execution, Steps, AtInstall, AtDelete
<1>3. /\ exec'.cur = a
      /\ exec'.todo = exec.todo \ {a}
      /\ exec'.pc = pc
      /\ exec'.done = exec.done
      /\ exec'.failed = exec.failed
      /\ exec'.result = exec.result
  BY <1>1 DEF Book, PlanTypeOK, Execution
<1>4. Current' = {a} /\ Current = {}
  BY <1>3 DEF Current, AtInstall, AtDelete
<1> QED
  BY <1>2, <1>3, <1>4, PlannedStands
  DEF Book, PlanTypeOK, Round, AtInstall, AtDelete

---------------------------------------------------------------------------
(* The type of the node after a step of execute().                          *)

(* One command about the action at hand keeps the node's type.             *)
LEMMA RemoteType ==
    ASSUME Book, exec.pc \in AtInstall \cup AtDelete, NEW outcome,
           NEW op \in {"mv", "reload", "start", "stop", "disable"},
           Remote(op, outcome)
    PROVE  NodeTypeOK' /\ Round
<1>1. [op |-> op, svc |-> exec.cur.svc] \in Command
  BY AtHand DEF Command
<1> QED
  BY <1>1, ExecuteType DEF Remote, Book, PlanTypeOK

(* A step made of one checked command keeps the book.                      *)
LEMMA BookChecked ==
    ASSUME Book, NEW pc, NEW op \in {"mv", "reload", "start", "stop", "disable"},
           NEW next,
           \/ pc \in AtInstall /\ next \in AtInstall
           \/ pc \in AtDelete /\ next \in AtDelete,
           Checked(pc, op, next)
    PROVE  Book'
<1>1. PICK outcome \in {"ok", "fail", "raise"} :
          /\ Remote(op, outcome)
          /\ IF outcome = "ok" THEN Goto(exec, next) ELSE Erred(exec)
  BY DEF Checked
<1>2. exec.pc = pc /\ exec.pc \in AtInstall \cup AtDelete /\ exec.pc \in Steps
  BY DEF Checked, AtInstall, AtDelete, Steps
<1>3. NodeTypeOK' /\ Round
  BY <1>1, <1>2, RemoteType
<1>4. exec \in Execution
  BY DEF Book, PlanTypeOK
<1>5. exec = [exec EXCEPT !.skip = exec.skip] /\ exec.skip \in BOOLEAN
  BY <1>4 DEF Execution
<1>6. CASE outcome = "ok"
  <2>1. Goto([exec EXCEPT !.skip = exec.skip], next)
    BY <1>1, <1>5, <1>6
  <2> QED
    BY <1>2, <1>3, <1>5, <2>1, BookAdvance
<1>7. CASE outcome # "ok"
  BY <1>1, <1>2, <1>3, <1>4, <1>7, BookErred
<1> QED
  BY <1>6, <1>7

(* A step of execute() keeps the book.                                     *)
LEMMA ProgressBook == Book /\ Progress => Book'
<1> SUFFICES ASSUME Book, Progress PROVE Book'
  OBVIOUS
<1>1. exec \in Execution /\ NodeTypeOK
  BY DEF Book, PlanTypeOK
<1>2. CASE CheckActive
  <2>1. PICK a \in exec.todo, active \in BOOLEAN, outcome \in {"ok", "raise"} :
          /\ a.kind # "delete"
          /\ Query(Active(node, a.svc), active, outcome)
          /\ LET e == [exec EXCEPT !.cur = a, !.todo = @ \ {a}, !.skip = active]
             IN  IF outcome = "ok" THEN Goto(e, "ports") ELSE Erred(e)
    BY <1>2 DEF CheckActive
  <2> DEFINE e == [exec EXCEPT !.cur = a, !.todo = @ \ {a}, !.skip = active]
  <2>2. NodeTypeOK' /\ Round /\ exec.pc = "next"
    BY <1>1, <1>2, <2>1, QueryType DEF CheckActive
  <2>3. CASE outcome = "ok"
    <3>1. Goto(e, "ports")
      BY <2>1, <2>3
    <3> HIDE DEF e
    <3> QED
      BY <2>1, <2>2, <3>1, BookPicked DEF e, AtInstall
  <2>4. CASE outcome # "ok"
    <3>1. Erred(e)
      BY <2>1, <2>4
    <3>2. /\ e \in Execution
          /\ e.todo \subseteq exec.todo
          /\ e.done = exec.done
          /\ e.keep = exec.keep
          /\ e.result = exec.result
      BY <1>1, <2>1 DEF Execution
    <3> HIDE DEF e
    <3> QED
      BY <2>2, <3>1, <3>2, BookErred DEF Steps
  <2> QED
    BY <2>3, <2>4
<1>3. CASE BeginDelete
  <2>1. PICK a \in exec.todo :
          /\ a.kind = "delete"
          /\ Goto([exec EXCEPT !.cur = a, !.todo = @ \ {a}], "stop")
    BY <1>3 DEF BeginDelete
  <2>2. Goto([exec EXCEPT !.cur = a, !.todo = @ \ {a}, !.skip = exec.skip],
             "stop")
    <3>1. [exec EXCEPT !.cur = a, !.todo = @ \ {a}, !.skip = exec.skip]
              = [exec EXCEPT !.cur = a, !.todo = @ \ {a}]
      BY <1>1 DEF Execution
    <3> QED
      BY <2>1, <3>1
  <2>3. NodeTypeOK' /\ Round /\ exec.pc = "next" /\ exec.skip \in BOOLEAN
    BY <1>1, <1>3 DEF BeginDelete, nodeVars, NodeTypeOK, Execution
  <2> QED
    BY <2>1, <2>2, <2>3, BookPicked DEF AtDelete
<1>4. CASE CheckPorts
  <2>1. PICK truth \in BOOLEAN, listed \in BOOLEAN, outcome \in {"ok", "raise"} :
          /\ Query(truth, listed, outcome)
          /\ LET e == [exec EXCEPT !.skip = @ \/ listed]
             IN  IF outcome = "ok" /\ exec.cur.svc \in Rendered
                 THEN Goto(e, "scp") ELSE Erred(e)
    BY <1>4 DEF CheckPorts
  <2>2. NodeTypeOK' /\ Round /\ exec.pc = "ports"
    BY <1>1, <1>4, <2>1, QueryType DEF CheckPorts
  <2> DEFINE e == [exec EXCEPT !.skip = @ \/ listed]
  <2>3. /\ e = [exec EXCEPT !.skip = exec.skip \/ listed]
        /\ (exec.skip \/ listed) \in BOOLEAN
    BY <1>1, <2>1 DEF Execution
  <2>4. /\ e \in Execution
        /\ e.todo = exec.todo
        /\ e.done = exec.done
        /\ e.keep = exec.keep
        /\ e.result = exec.result
    BY <1>1, <2>3 DEF Execution
  <2>5. Goto(e, "scp") \/ Erred(e)
    BY <2>1
  <2> HIDE DEF e
  <2>6. CASE Goto(e, "scp")
    BY <2>2, <2>3, <2>6, BookAdvance DEF AtInstall
  <2>7. CASE Erred(e)
    BY <2>2, <2>4, <2>7, BookErred DEF Steps
  <2> QED
    BY <2>5, <2>6, <2>7
<1>5. CASE Transfer
  <2>1. PICK outcome \in {"ok", "fail"} :
          /\ Scp(exec.cur.svc, wanted[exec.cur.svc].ver, outcome)
          /\ IF outcome = "ok" THEN Goto(exec, "mv") ELSE Erred(exec)
    BY <1>5 DEF Transfer
  <2>2. exec.pc = "scp" /\ Round
    BY <1>5 DEF Transfer
  <2>3. exec.cur.svc \in Services /\ wanted[exec.cur.svc] \in Placed
    BY <2>2, AtHand DEF AtInstall
  <2>4. NodeTypeOK'
    BY <1>1, <2>1, <2>3, ScpType DEF Placed, Content
  <2>5. /\ exec = [exec EXCEPT !.skip = exec.skip]
        /\ exec.skip \in BOOLEAN
    BY <1>1 DEF Execution
  <2>6. CASE Erred(exec)
    BY <1>1, <2>2, <2>4, <2>6, BookErred DEF Steps
  <2>7. CASE Goto(exec, "mv")
    <3>1. Goto([exec EXCEPT !.skip = exec.skip], "mv")
      BY <2>5, <2>7
    <3> QED
      BY <2>2, <2>4, <2>5, <3>1, BookAdvance DEF AtInstall
  <2> QED
    BY <2>1, <2>6, <2>7
<1>6. CASE Move
  BY <1>6, BookChecked DEF Move, AtInstall
<1>7. CASE Reload
  <2>1. PICK outcome \in {"ok", "fail", "raise"} :
          /\ Remote("reload", outcome)
          /\ IF outcome # "ok" THEN Erred(exec)
             ELSE IF exec.skip THEN Completed(exec)
             ELSE Goto(exec, "start")
    BY <1>7 DEF Reload
  <2>2. exec.pc = "reload" /\ exec.pc \in AtInstall
    BY <1>7 DEF Reload, AtInstall
  <2>3. NodeTypeOK' /\ Round
    BY <2>1, <2>2, RemoteType
  <2>4. CASE Erred(exec)
    BY <1>1, <2>2, <2>3, <2>4, BookErred DEF Steps
  <2>5. CASE Completed(exec)
    BY <2>2, <2>3, <2>5, BookCompleted
  <2>6. CASE Goto(exec, "start")
    <3>1. /\ Goto([exec EXCEPT !.skip = exec.skip], "start")
          /\ exec.skip \in BOOLEAN
      BY <1>1, <2>6 DEF Execution
    <3> QED
      BY <2>2, <2>3, <3>1, BookAdvance DEF AtInstall
  <2> QED
    BY <2>1, <2>4, <2>5, <2>6
<1>8. ASSUME NEW pc \in {"start", "unload"}, NEW op \in {"start", "reload"},
             exec.pc = pc,
             NEW outcome, Remote(op, outcome),
             IF outcome = "ok" THEN Completed(exec) ELSE Erred(exec)
      PROVE  Book'
  <2>1. exec.pc \in AtInstall \cup AtDelete /\ exec.pc \in Steps
    BY <1>8 DEF AtInstall, AtDelete, Steps
  <2>2. NodeTypeOK' /\ Round
    BY <1>8, <2>1, RemoteType
  <2> QED
    BY <1>1, <1>8, <2>1, <2>2, BookErred, BookCompleted
<1>9. CASE Start \/ Unload
  BY <1>8, <1>9 DEF Start, Unload
<1>10. CASE Stop \/ Disable
  BY <1>10, BookChecked DEF Stop, Disable, AtDelete
<1>11. CASE Return
  <2>1. /\ exec' \in Execution
        /\ exec'.pc = "ended"
        /\ exec'.todo = exec.todo /\ exec.todo = {}
        /\ exec'.done = exec.done
        /\ exec'.failed = exec.failed
        /\ exec'.result = IF exec.failed THEN "errors" ELSE "success"
    BY <1>1, <1>11 DEF Return, Goto, Execution
  <2>2. Round /\ NodeTypeOK' /\ exec.pc = "next"
    BY <1>1, <1>11 DEF Return, nodeVars, NodeTypeOK
  <2>3. Current = {} /\ Current' = {}
    BY <2>1, <2>2 DEF Current, AtInstall, AtDelete
  <2> QED
    BY <2>1, <2>2, <2>3, PlannedStands
    DEF Book, PlanTypeOK, Round, AtInstall, AtDelete
<1> QED
  BY <1>2, <1>3, <1>4, <1>5, <1>6, <1>7, <1>9, <1>10, <1>11 DEF Progress

(* A new round starts a book of its own.                                   *)
LEMMA BeginBook == Book /\ Begin => Book'
<1> SUFFICES ASSUME Book, Begin PROVE Book'
  OBVIOUS
<1>1. PICK desired \in Situation, existing \in Situation, keep \in BOOLEAN :
        /\ WellFormed(desired)
        /\ wanted' = desired
        /\ found' = existing
        /\ Goto([Idle EXCEPT
                    !.keep = keep,
                    !.todo = {a \in Generate(desired, existing) : a.node = Here}],
                "next")
  BY DEF Begin
<1>2. Planned' = {a \in Generate(desired, existing) : a.node = Here}
  BY <1>1 DEF Planned, Generate, Creates, Updates, Deletes, NeedsUpdate
<1>3. Planned' \subseteq Action
  BY <1>1, <1>2, PlanSays
<1>4. /\ exec' \in Execution
      /\ exec'.pc = "next"
      /\ exec'.todo = Planned'
      /\ exec'.done = {}
      /\ ~exec'.failed
      /\ exec'.result = "none"
  BY <1>1, <1>2, <1>3 DEF Goto, Idle, Execution, Steps
<1>5. Current' = {}
  BY <1>4 DEF Current, AtInstall, AtDelete
<1>6. NodeTypeOK' /\ rounds' \in 0..MaxRounds /\ revived' \subseteq Services
  BY PlanAssumption DEF Begin, Book, PlanTypeOK, NodeTypeOK, nodeVars
<1>7. WellFormed(wanted')
  BY <1>1 DEF WellFormed
<1> QED
  BY <1>1, <1>4, <1>5, <1>6, <1>7 DEF Book, PlanTypeOK, AtInstall, AtDelete, WellFormed

(* The environment does not touch the book.                                *)
LEMMA EnvironmentBook == Book /\ (Environment \/ UNCHANGED vars) => Book'
<1> SUFFICES ASSUME Book, Environment \/ UNCHANGED vars PROVE Book'
  OBVIOUS
<1>1. /\ UNCHANGED <<wanted, found, exec, rounds>>
      /\ NodeTypeOK'
      /\ revived' \subseteq Services
  BY NodeNextType
  DEF Environment, vars, nodeVars, Book, PlanTypeOK, NodeTypeOK
<1>2. Planned' = Planned /\ Current' = Current
  BY <1>1 DEF Planned, Current, Generate, Creates, Updates, Deletes, NeedsUpdate
<1> QED
  BY <1>1, <1>2 DEF Book, PlanTypeOK, WellFormed

(* Nothing is planned before the first round.                              *)
LEMMA InitBook == Init => Book
<1> SUFFICES ASSUME Init PROVE Book
  OBVIOUS
<1>1. NodeTypeOK
  BY NodeAssumption DEF Init, NodeInit, NodeTypeOK, Node, Content
<1>2. /\ wanted \in Situation /\ found \in Situation
      /\ exec \in Execution /\ rounds \in 0..MaxRounds /\ revived \subseteq Services
  BY PlanAssumption DEF Init, Idle, Situation, Execution
<1>3. Current = {}
  BY DEF Init, Idle, Current, AtInstall, AtDelete
<1> QED
  BY <1>1, <1>2, <1>3
  DEF Book, PlanTypeOK, Init, Idle, WellFormed, AtInstall, AtDelete

(* The book is kept throughout.                                            *)
LEMMA BookKept == Spec => []Book
<1>1. Book /\ [Next]_vars => Book'
  BY ProgressBook, BeginBook, EnvironmentBook DEF Next
<1> QED
  BY <1>1, InitBook, PTL DEF Spec

(* PlanTypeOK holds throughout, whatever fails, times out or is late.       *)
THEOREM PlanTypeCorrect == Spec => []PlanTypeOK
<1>1. Book => PlanTypeOK
  BY DEF Book
<1> QED
  BY <1>1, BookKept, PTL

---------------------------------------------------------------------------
(* What a step of execute() does to the containers.                        *)

(* Only `start` and `stop` touch them, about the service of the action.     *)
LEMMA RunningAfter ==
    ASSUME Book, Progress
    PROVE  \/ node'.running = node.running
           \/ /\ exec.pc = "start"
              /\ node' = Started(node, exec.cur.svc)
           \/ /\ exec.pc = "stop"
              /\ node' = Stopped(node, exec.cur.svc)
<1>1. node \in Node
  BY DEF Book, PlanTypeOK, NodeTypeOK
<1>2. ASSUME NEW op \in {"mv", "reload", "disable"}, NEW outcome,
             Remote(op, outcome)
      PROVE  node'.running = node.running
  <2>1. node' = node \/ node' = Effect(node, [op |-> op, svc |-> exec.cur.svc])
    BY <1>2 DEF Remote, Execute, nodeVars
  <2>2. Moved(node, exec.cur.svc).running = node.running
    BY <1>1 DEF Moved, Node
  <2>3. Reloaded(node).running = node.running
    BY <1>1 DEF Reloaded, Node
  <2> QED
    BY <2>1, <2>2, <2>3 DEF Effect
<1>3. CASE Move \/ Reload \/ Disable \/ Unload
  BY <1>2, <1>3 DEF Move, Reload, Disable, Unload, Checked
<1>4. CASE CheckActive \/ CheckPorts \/ BeginDelete \/ Return
  BY <1>4 DEF CheckActive, CheckPorts, BeginDelete, Return, Query, nodeVars
<1>5. CASE Transfer
  <2>1. ASSUME NEW s, NEW file PROVE Received(node, s, file).running = node.running
    BY <1>1 DEF Received, Node
  <2> QED
    BY <1>5, <2>1 DEF Transfer, Scp
<1>6. CASE Start
  BY <1>6 DEF Start, Remote, Execute, Effect, nodeVars
<1>7. CASE Stop
  BY <1>7 DEF Stop, Checked, Remote, Execute, Effect, nodeVars
<1> QED
  BY <1>3, <1>4, <1>5, <1>6, <1>7 DEF Progress

(* A start takes nothing down, and a `stop` only what pulls its unit in.    *)
LEMMA StaysUnlessPulled ==
    ASSUME NEW n \in Node, NEW s \in Services, NEW t \in Services, Active(n, s)
    PROVE  /\ Started(n, t).running[s] = n.running[s]
           /\ t \notin Pulled(n, s) => Stopped(n, t).running[s] = n.running[s]
BY DEF Started, Stopped, Node, Active

(* What a set of units closed under its requirements contains, it pulls in. *)
LEMMA PulledWithin ==
    ASSUME NEW n, NEW S \in SUBSET Services, NEW s \in S,
           \A u \in S : Requires(n, u) \subseteq S
    PROVE  Pulled(n, s) \subseteq S
BY DEF Pulled

(* A unit pulls in what the units it pulls in require.                      *)
LEMMA PulledOn ==
    ASSUME NEW n, NEW s, NEW t \in Pulled(n, s), NEW u \in Services,
           u \in Requires(n, t)
    PROVE  u \in Pulled(n, s)
BY DEF Pulled

(* The units a wanted service pulls in are wanted, unless one of them still *)
(* requires what the topology has dropped.                                  *)
LEMMA PullsWanted ==
    ASSUME Book, NEW s \in Services, wanted[s] # None, ~OutOfDate(s),
           NEW t \in Pulled(node, s)
    PROVE  wanted[t] # None
<1> DEFINE S == {u \in Pulled(node, s) : wanted[u] # None}
<1>1. S \in SUBSET Services /\ s \in S
  BY DEF Pulled
<1>2. ASSUME NEW u \in S, NEW r \in Requires(node, u) PROVE r \in S
  <2>1. u \in Services /\ wanted[u] \in Placed
    BY <1>1 DEF Book, PlanTypeOK, Situation
  <2>2. r \in Needs[u][wanted[u].ver]
    BY <1>2 DEF OutOfDate
  <2>3. r \in Services
    BY <2>1, <2>2, NodeAssumption DEF Placed
  <2>4. wanted[r] # None
    BY <2>1, <2>2, PlanAssumption DEF Book, WellFormed, Placed
  <2> QED
    BY <1>2, <2>3, <2>4, PulledOn
<1>3. Pulled(node, s) \subseteq S
  <2> HIDE DEF S
  <2> QED
    BY <1>1, <1>2, PulledWithin
<1> QED
  BY <1>3

(* A container whose service is wanted stays as it is, if its unit and those *)
(* it pulls in are up to date.                                              *)
LEMMA WantedStays ==
    ASSUME Book, Progress, NEW s \in Services, wanted[s] # None,
           Active(node, s)
    PROVE  \/ node'.running[s] = node.running[s]
           \/ exec.pc = "stop" /\ OutOfDate(s)
<1>1. node \in Node
  BY DEF Book, PlanTypeOK, NodeTypeOK
<1>2. CASE /\ exec.pc = "start"
           /\ node' = Started(node, exec.cur.svc)
  BY <1>1, <1>2, StaysUnlessPulled, AtHand DEF AtInstall
<1>3. CASE /\ exec.pc = "stop"
           /\ node' = Stopped(node, exec.cur.svc)
  <2>1. wanted[exec.cur.svc] = None /\ exec.cur.svc \in Services
    BY <1>3, AtHand DEF AtDelete
  <2>2. OutOfDate(s) \/ exec.cur.svc \notin Pulled(node, s)
    BY <2>1, PullsWanted
  <2> QED
    BY <1>1, <1>3, <2>1, <2>2, StaysUnlessPulled
<1> QED
  BY <1>2, <1>3, RunningAfter

(* Executing a plan takes no container down whose service the topology      *)
(* wants, unless a unit on the node still requires what the topology has    *)
(* dropped: for every plan that generate() makes of a well-formed topology.  *)
THEOREM WantedKeepRunningHolds == Spec => WantedKeepRunning
<1>1. ASSUME Book, [Next]_vars
      PROVE  [\A s \in Services :
                  Executing /\ wanted[s] # None /\ Active(node, s) =>
                      \/ node'.running[s] = node.running[s]
                      \/ ContainerExits
                      \/ LateStopOf(s)
                      \/ exec.pc = "stop" /\ OutOfDate(s)]_vars
  <2> SUFFICES ASSUME NEW s \in Services, Executing, wanted[s] # None,
                      Active(node, s), Next
               PROVE  \/ node'.running[s] = node.running[s]
                      \/ ContainerExits
                      \/ LateStopOf(s)
                      \/ exec.pc = "stop" /\ OutOfDate(s)
    BY <1>1
  <2>1. node \in Node
    BY <1>1 DEF Book, PlanTypeOK, NodeTypeOK
  <2>2. CASE Progress
    BY <1>1, <2>2, WantedStays
  <2>3. CASE Begin
    BY <2>3 DEF Begin
  <2>4. CASE Environment
    <3>1. CASE LateEffect
      <4>1. PICK cmd \in late :
              /\ late' = late \ {cmd}
              /\ node' = IF Accepts(node, cmd) THEN Effect(node, cmd) ELSE node
        BY <3>1 DEF LateEffect
      <4>2. cmd \in late \ late' /\ cmd.svc \in Services
        BY <1>1, <4>1 DEF Book, PlanTypeOK, NodeTypeOK, Command
      <4>3. Moved(node, cmd.svc).running[s] = node.running[s]
        BY <2>1 DEF Moved, Node
      <4>4. Reloaded(node).running[s] = node.running[s]
        BY <2>1 DEF Reloaded, Node
      <4>5. Started(node, cmd.svc).running[s] = node.running[s]
        BY <2>1, <4>2, StaysUnlessPulled
      <4>6. cmd.svc \in Pulled(node, s)
                \/ Stopped(node, cmd.svc).running[s] = node.running[s]
        BY <2>1, <4>2, StaysUnlessPulled
      <4> QED
        BY <4>1, <4>2, <4>3, <4>4, <4>5, <4>6 DEF Effect, LateStopOf
    <3> QED
      BY <2>4, <3>1 DEF Environment, NodeNext
  <2> QED
    BY <2>2, <2>3, <2>4 DEF Next
<1> QED
  BY <1>1, BookKept, PTL DEF WantedKeepRunning, Spec

---------------------------------------------------------------------------
(* DeletedIsDown.  The invariant follows a delete from its `stop` on, and    *)
(* knows that no create or update comes after it.                           *)

Installed ==
    exec.pc \notin AtInstall /\ \A a \in exec.todo : a.kind = "delete"

Down ==
    /\ exec.pc \in AtDelete \/ (\E a \in exec.done : a.kind = "delete") => Installed
    /\ \A a \in exec.done : a.kind = "delete" /\ Active(node, a.svc) =>
           a.svc \in revived
    /\ exec.pc \in {"disable", "unload"} /\ Active(node, exec.cur.svc) =>
           exec.cur.svc \in revived

(* What a step of execute() adds to what is done, and where it goes.        *)
LEMMA DoneAfter ==
    ASSUME Book, Progress
    PROVE  /\ exec'.done = exec.done
                \/ /\ exec'.done = exec.done \cup {exec.cur}
                   /\ exec.pc \in {"reload", "start", "unload"}
           /\ exec'.pc = "disable" =>
                /\ exec.pc = "stop"
                /\ exec'.cur = exec.cur
                /\ node' = Stopped(node, exec.cur.svc)
           /\ exec'.pc = "unload" =>
                exec.pc = "disable" /\ exec'.cur = exec.cur
<1>1. exec \in Execution
  BY DEF Book, PlanTypeOK
<1>2. ASSUME NEW e \in Execution, Erred(e)
      PROVE  exec'.done = e.done /\ exec'.pc \in {"next", "ended"}
  BY <1>2 DEF Erred, Goto, Execution
<1>3. ASSUME Completed(exec)
      PROVE  exec'.done = exec.done \cup {exec.cur} /\ exec'.pc = "next"
  BY <1>1, <1>3 DEF Completed, Goto, Execution
<1>4. ASSUME NEW pc, Goto(exec, pc)
      PROVE  exec'.done = exec.done /\ exec'.pc = pc /\ exec'.cur = exec.cur
  BY <1>1, <1>4 DEF Goto, Execution
<1>5. ASSUME NEW a \in exec.todo, NEW skip \in BOOLEAN, NEW pc,
             Goto([exec EXCEPT !.cur = a, !.todo = @ \ {a}, !.skip = skip], pc)
                 \/ Goto([exec EXCEPT !.cur = a, !.todo = @ \ {a}], pc)
                 \/ Goto([exec EXCEPT !.skip = @ \/ skip], pc)
      PROVE  exec'.done = exec.done /\ exec'.pc = pc
  BY <1>1, <1>5 DEF Goto, Execution
<1>6. CASE CheckActive
  <2>1. PICK a \in exec.todo, active \in BOOLEAN, outcome \in {"ok", "raise"} :
          LET e == [exec EXCEPT !.cur = a, !.todo = @ \ {a}, !.skip = active]
          IN  IF outcome = "ok" THEN Goto(e, "ports") ELSE Erred(e)
    BY <1>6 DEF CheckActive
  <2> DEFINE e == [exec EXCEPT !.cur = a, !.todo = @ \ {a}, !.skip = active]
  <2>2. e \in Execution /\ e.done = exec.done
    BY <1>1, <2>1 DEF Execution
  <2>3. Goto(e, "ports") \/ Erred(e)
    BY <2>1
  <2>4. Goto(e, "ports") => exec'.done = exec.done /\ exec'.pc = "ports"
    BY <1>5
  <2> HIDE DEF e
  <2> QED
    BY <1>2, <2>2, <2>3, <2>4
<1>7. CASE BeginDelete
  <2>1. PICK a \in exec.todo :
          Goto([exec EXCEPT !.cur = a, !.todo = @ \ {a}], "stop")
    BY <1>7 DEF BeginDelete
  <2>2. exec'.done = exec.done /\ exec'.pc = "stop"
    BY <1>5, <2>1
  <2> QED
    BY <2>2
<1>8. CASE CheckPorts
  <2>1. PICK listed \in BOOLEAN, outcome \in {"ok", "raise"} :
          LET e == [exec EXCEPT !.skip = @ \/ listed]
          IN  IF outcome = "ok" /\ exec.cur.svc \in Rendered
              THEN Goto(e, "scp") ELSE Erred(e)
    BY <1>8 DEF CheckPorts
  <2> DEFINE e == [exec EXCEPT !.skip = @ \/ listed]
  <2>2. e \in Execution /\ e.done = exec.done
    <3>1. e = [exec EXCEPT !.skip = exec.skip \/ listed]
          /\ (exec.skip \/ listed) \in BOOLEAN
      BY <1>1, <2>1 DEF Execution
    <3> QED
      BY <1>1, <3>1 DEF Execution
  <2>3. Goto(e, "scp") \/ Erred(e)
    BY <2>1
  <2> HIDE DEF e
  <2>4. Goto(e, "scp") => exec'.done = exec.done /\ exec'.pc = "scp"
    BY <2>2 DEF Goto, Execution
  <2> QED
    BY <1>2, <2>2, <2>3, <2>4
<1>9. CASE Transfer \/ Move
  <2>1. Goto(exec, "mv") \/ Goto(exec, "reload") \/ Erred(exec)
    BY <1>9 DEF Transfer, Move, Checked
  <2> QED
    BY <1>1, <1>2, <1>4, <2>1
<1>10. CASE Reload \/ Start \/ Unload
  <2>1. exec.pc \in {"reload", "start", "unload"}
    BY <1>10 DEF Reload, Start, Unload
  <2>2. Completed(exec) \/ Goto(exec, "start") \/ Erred(exec)
    BY <1>10 DEF Reload, Start, Unload
  <2> QED
    BY <1>1, <1>2, <1>3, <1>4, <2>1, <2>2
<1>11. CASE Stop
  <2>1. PICK outcome :
          /\ Execute([op |-> "stop", svc |-> exec.cur.svc], outcome)
          /\ IF outcome = "ok" THEN Goto(exec, "disable") ELSE Erred(exec)
    BY <1>11 DEF Stop, Checked, Remote
  <2>2. exec.pc = "stop"
    BY <1>11 DEF Stop, Checked
  <2>3. CASE outcome = "ok"
    BY <1>4, <2>1, <2>2, <2>3 DEF Execute, Effect
  <2>4. CASE outcome # "ok"
    BY <1>1, <1>2, <2>1, <2>4
  <2> QED
    BY <2>3, <2>4
<1>12. CASE Disable
  <2>1. exec.pc = "disable" /\ (Goto(exec, "unload") \/ Erred(exec))
    BY <1>12 DEF Disable, Checked
  <2> QED
    BY <1>1, <1>2, <1>4, <2>1
<1>13. CASE Return
  BY <1>1, <1>13 DEF Return, Goto, Execution
<1> QED
  BY <1>6, <1>7, <1>8, <1>9, <1>10, <1>11, <1>12, <1>13 DEF Progress

(* Actions are taken up in order, and nothing is added to them.             *)
LEMMA OrderAfter ==
    ASSUME Book, Progress
    PROVE  /\ exec'.todo \subseteq exec.todo
           /\ exec'.pc \in AtInstall =>
                exec.pc \in AtInstall \/ \E a \in exec.todo : a.kind # "delete"
           /\ exec'.pc \in AtDelete =>
                exec.pc \in AtDelete \/ \A a \in exec.todo : a.kind = "delete"
<1>1. exec \in Execution
  BY DEF Book, PlanTypeOK
<1>2. ASSUME NEW e \in Execution, e.todo \subseteq exec.todo, Erred(e)
      PROVE  exec'.todo \subseteq exec.todo /\ exec'.pc \in {"next", "ended"}
  BY <1>2 DEF Erred, Goto, Execution
<1>3. ASSUME Completed(exec)
      PROVE  exec'.todo = exec.todo /\ exec'.pc = "next"
  BY <1>1, <1>3 DEF Completed, Goto, Execution
<1>4. ASSUME NEW e \in Execution, e.todo \subseteq exec.todo, NEW pc, Goto(e, pc)
      PROVE  exec'.todo \subseteq exec.todo /\ exec'.pc = pc
  BY <1>4 DEF Goto, Execution
<1>5. CASE CheckActive
  <2>1. PICK a \in exec.todo, active \in BOOLEAN, outcome \in {"ok", "raise"} :
          /\ a.kind # "delete"
          /\ LET e == [exec EXCEPT !.cur = a, !.todo = @ \ {a}, !.skip = active]
             IN  IF outcome = "ok" THEN Goto(e, "ports") ELSE Erred(e)
    BY <1>5 DEF CheckActive
  <2> DEFINE e == [exec EXCEPT !.cur = a, !.todo = @ \ {a}, !.skip = active]
  <2>2. e \in Execution /\ e.todo \subseteq exec.todo
    BY <1>1, <2>1 DEF Execution
  <2>3. Goto(e, "ports") \/ Erred(e)
    BY <2>1
  <2> HIDE DEF e
  <2> QED
    BY <1>2, <1>4, <2>1, <2>2, <2>3 DEF AtInstall, AtDelete
<1>6. CASE BeginDelete
  <2>1. PICK a \in exec.todo :
          /\ First(a, exec.todo)
          /\ a.kind = "delete"
          /\ Goto([exec EXCEPT !.cur = a, !.todo = @ \ {a}], "stop")
    BY <1>6 DEF BeginDelete
  <2>2. \A b \in exec.todo : b.kind = "delete"
    BY <2>1 DEF First
  <2>3. exec'.todo \subseteq exec.todo /\ exec'.pc = "stop"
    BY <1>1, <2>1 DEF Goto, Execution
  <2> QED
    BY <2>2, <2>3 DEF AtInstall
<1>7. CASE CheckPorts
  <2>1. PICK listed \in BOOLEAN, outcome \in {"ok", "raise"} :
          LET e == [exec EXCEPT !.skip = @ \/ listed]
          IN  IF outcome = "ok" /\ exec.cur.svc \in Rendered
              THEN Goto(e, "scp") ELSE Erred(e)
    BY <1>7 DEF CheckPorts
  <2> DEFINE e == [exec EXCEPT !.skip = @ \/ listed]
  <2>2. e \in Execution /\ e.todo \subseteq exec.todo
    <3>1. e = [exec EXCEPT !.skip = exec.skip \/ listed]
          /\ (exec.skip \/ listed) \in BOOLEAN
      BY <1>1, <2>1 DEF Execution
    <3> QED
      BY <1>1, <3>1 DEF Execution
  <2>3. Goto(e, "scp") \/ Erred(e)
    BY <2>1
  <2>4. exec.pc \in AtInstall
    BY <1>7 DEF CheckPorts, AtInstall
  <2> HIDE DEF e
  <2> QED
    BY <1>2, <1>4, <2>2, <2>3, <2>4 DEF AtDelete, AtInstall
<1>8. CASE Transfer \/ Move \/ Reload \/ Start
  <2>1. exec.pc \in AtInstall
    BY <1>8 DEF Transfer, Move, Reload, Start, Checked, AtInstall
  <2>2. Goto(exec, "mv") \/ Goto(exec, "reload") \/ Goto(exec, "start")
            \/ Completed(exec) \/ Erred(exec)
    BY <1>8 DEF Transfer, Move, Reload, Start, Checked
  <2> QED
    BY <1>1, <1>2, <1>3, <1>4, <2>1, <2>2 DEF AtDelete
<1>9. CASE Stop \/ Disable \/ Unload
  <2>1. exec.pc \in AtDelete
    BY <1>9 DEF Stop, Disable, Unload, Checked, AtDelete
  <2>2. Goto(exec, "disable") \/ Goto(exec, "unload")
            \/ Completed(exec) \/ Erred(exec)
    BY <1>9 DEF Stop, Disable, Unload, Checked
  <2> QED
    BY <1>1, <1>2, <1>3, <1>4, <2>1, <2>2 DEF AtInstall
<1>10. CASE Return
  BY <1>1, <1>10 DEF Return, Goto, Execution, AtInstall, AtDelete
<1> QED
  BY <1>5, <1>6, <1>7, <1>8, <1>9, <1>10 DEF Progress

(* A step of execute() keeps what it deleted down.                         *)
LEMMA ProgressDown == Book /\ Down /\ Progress => Down'
<1> SUFFICES ASSUME Book, Down, Progress PROVE Down'
  OBVIOUS
<1>1. revived' = revived
  BY DEF Progress, CheckActive, CheckPorts, Transfer, Move, Reload, Start,
         BeginDelete, Stop, Disable, Unload, Return, Checked, Remote, Round
<1>2. ASSUME exec.pc # "start", NEW t \in Services, Active(node', t)
      PROVE  Active(node, t)
  BY <1>2, RunningAfter DEF Stopped, Active, Book, PlanTypeOK, NodeTypeOK, Node
<1>3. \A a \in exec.done : a \in Action /\ a.svc \in Services
  BY DEF Book, PlanTypeOK, Execution, Action
<1>4. ASSUME exec.pc = "unload"
      PROVE  Active(node', exec.cur.svc) => exec.cur.svc \in revived
  <2>1. exec.cur.svc \in Services
    BY <1>4, AtHand DEF AtDelete
  <2> QED
    BY <1>2, <1>4, <2>1 DEF Down
<1>5. ASSUME exec.pc \in {"reload", "start"}
      PROVE  exec.cur.kind # "delete"
  BY <1>5 DEF Book, AtInstall
<1>6. \A a \in exec'.done : a.kind = "delete" /\ Active(node', a.svc) =>
          a.svc \in revived
  <2>1. ASSUME NEW a \in exec.done, a.kind = "delete" PROVE exec.pc # "start"
    BY <2>1 DEF Down, Installed, AtInstall
  <2> QED
    BY <1>2, <1>3, <1>4, <1>5, <2>1, DoneAfter DEF Down
<1>7. ASSUME exec'.pc = "disable", Active(node', exec'.cur.svc) PROVE FALSE
  <2>1. /\ node' = Stopped(node, exec.cur.svc)
        /\ exec'.cur = exec.cur
        /\ exec.cur.svc \in Services
    BY <1>7, DoneAfter, AtHand DEF AtDelete
  <2>2. exec.cur.svc \in Pulled(node, exec.cur.svc)
    BY <2>1 DEF Pulled
  <2> QED
    BY <1>7, <2>1, <2>2 DEF Stopped, Active, Book, PlanTypeOK, NodeTypeOK, Node
<1>8. ASSUME exec'.pc = "unload", Active(node', exec'.cur.svc)
      PROVE  exec'.cur.svc \in revived
  <2>1. exec.pc = "disable" /\ exec'.cur = exec.cur
    BY <1>8, DoneAfter
  <2>2. exec.cur.svc \in Services
    BY <2>1, AtHand DEF AtDelete
  <2> QED
    BY <1>2, <1>8, <2>1, <2>2 DEF Down
<1>9. exec'.pc \in AtDelete \/ (\E a \in exec'.done : a.kind = "delete")
          => Installed'
  <2>1. CASE exec.pc \in AtDelete \/ \E a \in exec.done : a.kind = "delete"
    <3>1. Installed
      BY <2>1 DEF Down
    <3> QED
      BY <3>1, OrderAfter DEF Installed
  <2>2. CASE /\ exec.pc \notin AtDelete
             /\ ~ \E a \in exec.done : a.kind = "delete"
    <3>1. ~ \E a \in exec'.done : a.kind = "delete"
      BY <1>5, <2>2, DoneAfter DEF AtDelete
    <3>2. exec'.pc \in AtDelete => Installed'
      BY <2>2, OrderAfter DEF Installed, AtInstall, AtDelete
    <3> QED
      BY <3>1, <3>2
  <2> QED
    BY <2>1, <2>2
<1> QED
  BY <1>1, <1>6, <1>7, <1>8, <1>9 DEF Down

(* Whatever brings a deleted service up besides is late.                   *)
LEMMA OthersDown ==
    Book /\ Down /\ (Begin \/ Environment \/ UNCHANGED vars) => Down'
<1> SUFFICES ASSUME Book, Down, Begin \/ Environment \/ UNCHANGED vars
             PROVE  Down'
  OBVIOUS
<1>1. CASE Begin
  <2>1. exec'.done = {} /\ exec'.pc = "next"
    BY <1>1 DEF Begin, Goto, Idle
  <2> QED
    BY <2>1 DEF Down, AtDelete
<1>2. CASE Environment
  <2>1. /\ exec' = exec
        /\ revived' = revived \cup
               {s \in Services : ~Active(node, s) /\ node'.running[s] # None}
    BY <1>2 DEF Environment
  <2>2. ASSUME NEW s \in Services, Active(node', s), s \notin revived'
        PROVE  Active(node, s) /\ s \notin revived
    BY <2>1, <2>2 DEF Active
  <2>3. \A a \in exec.done : a.svc \in Services
    BY DEF Book, PlanTypeOK, Execution, Action
  <2>4. exec.pc \in {"disable", "unload"} => exec.cur.svc \in Services
    BY AtHand DEF AtDelete
  <2> QED
    BY <2>1, <2>2, <2>3, <2>4 DEF Down, Installed
<1>3. CASE UNCHANGED vars
  BY <1>3 DEF vars, nodeVars, Down, Installed
<1> QED
  BY <1>1, <1>2, <1>3

(* What a successful execute() deleted is down unless a late command        *)
(* brought it back: every start of the same plan came before its `stop`.    *)
THEOREM DeletedIsDownHolds == Spec => []DeletedIsDown
<1>1. Init => Down
  BY DEF Init, Idle, Down, AtDelete
<1>2. Book /\ Down /\ [Next]_vars => Down'
  BY ProgressDown, OthersDown DEF Next
<1>3. Spec => []Down
  BY <1>1, <1>2, BookKept, PTL DEF Spec
<1>4. Down => DeletedIsDown
  BY DEF Down, DeletedIsDown
<1> QED
  BY <1>3, <1>4, PTL

---------------------------------------------------------------------------
(* RoundDelivers.  The invariant follows a create or an update from its     *)
(* transfer on, and knows that what is in place stays there: a late `mv`    *)
(* finds nothing in /tmp, and a late daemon-reload what is loaded already.  *)

(* On node n, s is loaded from the file the topology has for it.            *)
InPlace(n, s) == /\ n.tmp[s] = None
                 /\ n.installed[s] = wanted[s].ver
                 /\ n.loaded[s] = wanted[s].ver

Delivered ==
    /\ \A a \in exec.done : a.kind # "delete" => InPlace(node, a.svc)
    /\ exec.pc = "mv" =>
           node.tmp[exec.cur.svc] \in {None, wanted[exec.cur.svc].ver}
    /\ exec.pc = "reload" =>
           /\ node.tmp[exec.cur.svc] = None
           /\ node.installed[exec.cur.svc] = wanted[exec.cur.svc].ver
    /\ exec.pc = "start" => InPlace(node, exec.cur.svc)

(* Every step but the transfer of the service itself keeps what the node    *)
(* has of it.                                                              *)
LEMMA NodeKeeps ==
    ASSUME Book, Progress \/ Environment, NEW s \in Services,
           Transfer => s # exec.cur.svc
    PROVE  Keeps(node', node, s)
<1>1. node \in Node /\ late \subseteq Command
  BY DEF Book, PlanTypeOK, NodeTypeOK
<1>2. Keeps(node, node, s)
  BY DEF Keeps
<1>3. ASSUME NEW op \in {"mv", "reload", "start", "stop", "disable"},
             exec.pc \in AtInstall \cup AtDelete, NEW outcome,
             Remote(op, outcome)
      PROVE  Keeps(node', node, s)
  <2>1. [op |-> op, svc |-> exec.cur.svc] \in Command
    BY <1>3, AtHand DEF Command
  <2> QED
    BY <1>1, <1>2, <1>3, <2>1, EffectKeeps DEF Remote, Execute, nodeVars
<1>4. CASE \/ Move \/ Reload \/ Start \/ Stop \/ Disable \/ Unload
  BY <1>3, <1>4
  DEF Move, Reload, Start, Stop, Disable, Unload, Checked, AtInstall, AtDelete
<1>5. CASE CheckActive \/ CheckPorts \/ BeginDelete \/ Return
  BY <1>2, <1>5 DEF CheckActive, CheckPorts, BeginDelete, Return, Query, nodeVars
<1>6. CASE Transfer
  <2>1. ASSUME NEW t, NEW file, t # s
        PROVE  Keeps(Received(node, t, file), node, s)
    BY <1>1, <2>1 DEF Received, Keeps, Node
  <2> QED
    BY <1>2, <1>6, <2>1 DEF Transfer, Scp
<1>7. CASE Environment
  BY <1>7, NodeNextKeeps DEF Environment, Book, PlanTypeOK
<1> QED
  BY <1>4, <1>5, <1>6, <1>7 DEF Progress

(* How execute() comes to a step that installs, and to a success.          *)
LEMMA InstallAfter ==
    ASSUME Book, Progress
    PROVE  /\ exec'.pc = "mv" =>
                /\ exec.pc = "scp" /\ exec'.cur = exec.cur
                /\ node' = Received(node, exec.cur.svc,
                                    wanted[exec.cur.svc].ver)
           /\ exec'.pc = "reload" =>
                /\ exec.pc = "mv" /\ exec'.cur = exec.cur
                /\ node.tmp[exec.cur.svc] # None
                /\ node' = Moved(node, exec.cur.svc)
           /\ exec'.pc = "start" =>
                /\ exec.pc = "reload" /\ exec'.cur = exec.cur
                /\ node' = Reloaded(node)
           /\ exec'.done # exec.done /\ exec.pc = "reload" =>
                node' = Reloaded(node)
<1>1. exec \in Execution
  BY DEF Book, PlanTypeOK
<1>2. ASSUME NEW e \in Execution, Erred(e)
      PROVE  exec'.done = e.done /\ exec'.pc \in {"next", "ended"}
  BY <1>2 DEF Erred, Goto, Execution
<1>3. ASSUME Completed(exec)
      PROVE  exec'.pc = "next"
  BY <1>1, <1>3 DEF Completed, Goto, Execution
<1>4. ASSUME NEW pc, Goto(exec, pc)
      PROVE  exec'.done = exec.done /\ exec'.pc = pc /\ exec'.cur = exec.cur
  BY <1>1, <1>4 DEF Goto, Execution
<1>5. ASSUME exec.pc \notin {"scp", "mv", "reload"}
      PROVE  exec'.pc \notin {"mv", "reload", "start"}
  <2>1. ASSUME NEW e \in Execution, NEW pc, Goto(e, pc) PROVE exec'.pc = pc
    BY <2>1 DEF Goto, Execution
  <2>2. CASE CheckActive
    <3>1. PICK a \in exec.todo, active \in BOOLEAN, outcome \in {"ok", "raise"} :
            LET e == [exec EXCEPT !.cur = a, !.todo = @ \ {a}, !.skip = active]
            IN  IF outcome = "ok" THEN Goto(e, "ports") ELSE Erred(e)
      BY <2>2 DEF CheckActive
    <3> DEFINE e == [exec EXCEPT !.cur = a, !.todo = @ \ {a}, !.skip = active]
    <3>2. e \in Execution
      BY <1>1, <3>1 DEF Execution
    <3>3. Goto(e, "ports") \/ Erred(e)
      BY <3>1
    <3> HIDE DEF e
    <3> QED
      BY <1>2, <2>1, <3>2, <3>3
  <2>3. CASE BeginDelete
    <3>1. PICK a \in exec.todo :
            Goto([exec EXCEPT !.cur = a, !.todo = @ \ {a}], "stop")
      BY <2>3 DEF BeginDelete
    <3>2. exec'.pc = "stop"
      BY <1>1, <3>1 DEF Goto, Execution
    <3> QED
      BY <3>2
  <2>4. CASE CheckPorts
    <3>1. PICK listed \in BOOLEAN, outcome \in {"ok", "raise"} :
            LET e == [exec EXCEPT !.skip = @ \/ listed]
            IN  IF outcome = "ok" /\ exec.cur.svc \in Rendered
                THEN Goto(e, "scp") ELSE Erred(e)
      BY <2>4 DEF CheckPorts
    <3> DEFINE e == [exec EXCEPT !.skip = @ \/ listed]
    <3>2. e \in Execution
      <4>1. e = [exec EXCEPT !.skip = exec.skip \/ listed]
            /\ (exec.skip \/ listed) \in BOOLEAN
        BY <1>1, <3>1 DEF Execution
      <4> QED
        BY <1>1, <4>1 DEF Execution
    <3>3. Goto(e, "scp") \/ Erred(e)
      BY <3>1
    <3> HIDE DEF e
    <3> QED
      BY <1>2, <2>1, <3>2, <3>3
  <2>5. CASE Start \/ Unload
    <3>1. Completed(exec) \/ Erred(exec)
      BY <2>5 DEF Start, Unload
    <3> QED
      BY <1>1, <1>2, <1>3, <3>1
  <2>6. CASE Stop \/ Disable
    <3>1. Goto(exec, "disable") \/ Goto(exec, "unload") \/ Erred(exec)
      BY <2>6 DEF Stop, Disable, Checked
    <3> QED
      BY <1>1, <1>2, <1>4, <3>1
  <2>7. CASE Return
    BY <1>1, <2>7 DEF Return, Goto, Execution
  <2>8. ~Transfer /\ ~Move /\ ~Reload
    BY <1>5 DEF Transfer, Move, Reload, Checked
  <2> QED
    BY <2>2, <2>3, <2>4, <2>5, <2>6, <2>7, <2>8 DEF Progress
<1>6. CASE exec.pc = "scp"
  <2>1. Transfer
    BY <1>6 DEF Progress, CheckActive, CheckPorts, Move, Reload, Start, Checked,
                BeginDelete, Stop, Disable, Unload, Return
  <2>2. PICK outcome \in {"ok", "fail"} :
          /\ Scp(exec.cur.svc, wanted[exec.cur.svc].ver, outcome)
          /\ IF outcome = "ok" THEN Goto(exec, "mv") ELSE Erred(exec)
    BY <2>1 DEF Transfer
  <2> QED
    BY <1>1, <1>2, <1>4, <1>6, <2>2 DEF Scp
<1>7. CASE exec.pc = "mv"
  <2>1. Move
    BY <1>7 DEF Progress, CheckActive, CheckPorts, Transfer, Reload, Start,
                Checked, BeginDelete, Stop, Disable, Unload, Return
  <2>2. PICK outcome \in {"ok", "fail", "raise"} :
          /\ Execute([op |-> "mv", svc |-> exec.cur.svc], outcome)
          /\ IF outcome = "ok" THEN Goto(exec, "reload") ELSE Erred(exec)
    BY <2>1 DEF Move, Checked, Remote
  <2> QED
    BY <1>1, <1>2, <1>4, <1>7, <2>2 DEF Execute, Accepts, Effect
<1>8. CASE exec.pc = "reload"
  <2>1. Reload
    BY <1>8 DEF Progress, CheckActive, CheckPorts, Transfer, Move, Start,
                Checked, BeginDelete, Stop, Disable, Unload, Return
  <2>2. PICK outcome \in {"ok", "fail", "raise"} :
          /\ Execute([op |-> "reload", svc |-> exec.cur.svc], outcome)
          /\ IF outcome # "ok" THEN Erred(exec)
             ELSE IF exec.skip THEN Completed(exec)
             ELSE Goto(exec, "start")
    BY <2>1 DEF Reload, Remote
  <2>3. CASE outcome = "ok"
    <3>1. node' = Reloaded(node)
      BY <2>2, <2>3 DEF Execute, Effect
    <3> QED
      BY <1>1, <1>3, <1>4, <1>8, <2>2, <2>3, <3>1
  <2>4. CASE outcome # "ok"
    BY <1>1, <1>2, <2>2, <2>4
  <2> QED
    BY <2>3, <2>4
<1> QED
  BY <1>5, <1>6, <1>7, <1>8

(* A step of execute() keeps what it delivered.                            *)
LEMMA ProgressDelivered == Book /\ Delivered /\ Progress => Delivered'
<1> SUFFICES ASSUME Book, Delivered, Progress PROVE Delivered'
  OBVIOUS
<1>1. wanted' = wanted /\ node \in Node
  BY DEF Progress, CheckActive, CheckPorts, Transfer, Move, Reload, Start,
         BeginDelete, Stop, Disable, Unload, Return, Checked, Remote, Round,
         Book, PlanTypeOK, NodeTypeOK
<1>2. ASSUME NEW a \in exec.done, a.kind # "delete" PROVE InPlace(node', a.svc)
  <2>1. a \in Planned /\ a.svc \in Services
    BY PlanSays DEF Book, Planned, PlanTypeOK, Action
  <2>2. ASSUME Transfer PROVE a.svc # exec.cur.svc
    <3>1. exec.cur \in Planned /\ a # exec.cur
      BY <1>2, <2>2, AtHand DEF Transfer, AtInstall
    <3> QED
      BY <2>1, <3>1, PlanSays DEF Planned, Book, PlanTypeOK
  <2>3. Keeps(node', node, a.svc)
    BY <2>1, <2>2, NodeKeeps
  <2> QED
    BY <1>1, <1>2, <2>3 DEF Delivered, InPlace, Keeps
<1>3. ASSUME exec.pc \in AtInstall
      PROVE  exec.cur.svc \in Services /\ exec.cur.kind # "delete"
  BY <1>3, AtHand DEF Book
<1>4. ASSUME exec.pc = "reload", node' = Reloaded(node)
      PROVE  InPlace(node', exec.cur.svc)
  BY <1>1, <1>3, <1>4 DEF Delivered, InPlace, Reloaded, AtInstall, Node
<1>5. ASSUME exec.pc = "start" PROVE InPlace(node', exec.cur.svc)
  <2>1. ~Transfer
    BY <1>5 DEF Transfer
  <2>2. Keeps(node', node, exec.cur.svc)
    BY <1>3, <1>5, <2>1, NodeKeeps DEF AtInstall
  <2> QED
    BY <1>1, <1>5, <2>2 DEF Delivered, InPlace, Keeps
<1>6. ASSUME exec'.done # exec.done, exec.cur.kind # "delete"
      PROVE  InPlace(node', exec.cur.svc)
  <2>1. exec.pc # "unload"
    BY <1>6 DEF Book, AtDelete
  <2> QED
    BY <1>4, <1>5, <1>6, <2>1, DoneAfter, InstallAfter
<1>7. \A a \in exec'.done : a.kind # "delete" => InPlace(node', a.svc)
  BY <1>2, <1>6, DoneAfter
<1>8. ASSUME exec'.pc = "mv"
      PROVE  node'.tmp[exec'.cur.svc] \in {None, wanted[exec'.cur.svc].ver}
  BY <1>1, <1>3, <1>8, InstallAfter DEF Received, Node, AtInstall
<1>9. ASSUME exec'.pc = "reload"
      PROVE  /\ node'.tmp[exec'.cur.svc] = None
             /\ node'.installed[exec'.cur.svc] = wanted[exec'.cur.svc].ver
  <2>1. /\ exec.pc = "mv" /\ exec'.cur = exec.cur
        /\ node.tmp[exec.cur.svc] # None
        /\ node' = Moved(node, exec.cur.svc)
    BY <1>9, InstallAfter
  <2>2. /\ exec.cur.svc \in Services
        /\ node.tmp[exec.cur.svc] = wanted[exec.cur.svc].ver
    BY <1>3, <2>1 DEF Delivered, AtInstall
  <2> QED
    BY <1>1, <2>1, <2>2 DEF Moved, Node
<1>10. ASSUME exec'.pc = "start" PROVE InPlace(node', exec'.cur.svc)
  BY <1>4, <1>10, InstallAfter DEF AtInstall
<1> QED
  BY <1>1, <1>7, <1>8, <1>9, <1>10 DEF Delivered, InPlace

(* Nothing else disturbs it.                                               *)
LEMMA OthersDelivered ==
    Book /\ Delivered /\ (Begin \/ Environment \/ UNCHANGED vars) => Delivered'
<1> SUFFICES ASSUME Book, Delivered, Begin \/ Environment \/ UNCHANGED vars
             PROVE  Delivered'
  OBVIOUS
<1>1. CASE Begin
  <2>1. exec'.done = {} /\ exec'.pc = "next"
    BY <1>1 DEF Begin, Goto, Idle
  <2> QED
    BY <2>1 DEF Delivered
<1>2. CASE Environment
  <2>1. exec' = exec /\ wanted' = wanted
    BY <1>2 DEF Environment
  <2>2. \A s \in Services : Keeps(node', node, s)
    BY <1>2, NodeNextKeeps DEF Environment, Book, PlanTypeOK
  <2>3. \A a \in exec.done : a.svc \in Services
    BY DEF Book, PlanTypeOK, Execution, Action
  <2>4. exec.pc \in AtInstall => exec.cur.svc \in Services
    BY AtHand
  <2>5. ASSUME NEW s \in Services, InPlace(node, s) PROVE InPlace(node', s)
    BY <2>1, <2>2, <2>5 DEF InPlace, Keeps
  <2>6. \A a \in exec'.done : a.kind # "delete" => InPlace(node', a.svc)
    BY <2>1, <2>3, <2>5 DEF Delivered
  <2>7. exec'.pc = "start" => InPlace(node', exec'.cur.svc)
    BY <2>1, <2>4, <2>5 DEF Delivered, AtInstall
  <2>8. exec.pc \in {"mv", "reload"} => Keeps(node', node, exec.cur.svc)
    BY <2>2, <2>4 DEF AtInstall
  <2> QED
    BY <2>1, <2>6, <2>7, <2>8 DEF Delivered, Keeps, InPlace
<1>3. CASE UNCHANGED vars
  BY <1>3 DEF vars, nodeVars, Delivered, InPlace
<1> QED
  BY <1>1, <1>2, <1>3

(* When execute() reports success, every service placed on Here is loaded   *)
(* from the topology's file, unless the caller said that it existed and     *)
(* differed in nothing that is compared.                                    *)
THEOREM RoundDeliversHolds == Spec => []RoundDelivers
<1>1. Init => Delivered
  BY DEF Init, Idle, Delivered
<1>2. Book /\ Delivered /\ [Next]_vars => Delivered'
  BY ProgressDelivered, OthersDelivered DEF Next
<1>3. Spec => []Delivered
  BY <1>1, <1>2, BookKept, PTL DEF Spec
<1>4. Book /\ Delivered => RoundDelivers
  <2> SUFFICES ASSUME Book, Delivered, exec.result = "success",
                      NEW s \in Services, wanted[s] # None, wanted[s].at = Here,
                      ~(found[s] # None /\ ~NeedsUpdate(s, wanted[s], found[s]))
               PROVE  node.loaded[s] = wanted[s].ver
    BY DEF RoundDelivers
  <2>1. PICK a \in Generate(wanted, found) :
            a.svc = s /\ a.kind # "delete" /\ a.node = wanted[s].at
    BY PlanCovers DEF Book, PlanTypeOK
  <2>2. a \in Planned
    BY <2>1 DEF Planned
  <2>3. exec.pc = "ended" /\ Current = {}
    BY DEF Book, Current, AtInstall, AtDelete
  <2>4. a \in exec.done
    BY <2>2, <2>3 DEF Book
  <2> QED
    BY <2>1, <2>4 DEF Delivered, InPlace
<1> QED
  BY <1>3, <1>4, BookKept, PTL

===========================================================================
