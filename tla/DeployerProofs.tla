--------------------------- MODULE DeployerProofs ---------------------------
(***************************************************************************)
(* Proofs about deploy sessions and rollbacks, for every number of them and *)
(* of services, versions and faults: the type invariants; what is on the    *)
(* node, and what the history of deployments means, in sessions that do or  *)
(* do not overlap; and what a rollback installs and serves.                 *)
(***************************************************************************)
EXTENDS DeploySystem, TargetNodeProofs, FiniteSetTheorems, WellFoundedInduction

(* The steps at which a session has a current service.                      *)
AtService == {"ports", "store", "scp", "mv", "reload", "start",
              "truncate", "write"}

(* The sessions of the inductive type invariant: one in the middle of a     *)
(* service knows which, and one that has begun knows what it deploys.       *)
SoundSession == {r \in Session :
                    /\ r.pc \in AtService => r.cur \in Services
                    /\ r.pc # "idle" => r.ver \in Versions}

TypeInv == /\ NodeTypeOK
           /\ StateTypeOK
           /\ sess \in [Sessions -> SoundSession]
           /\ generated \in [Services -> Versions \cup {None}]

---------------------------------------------------------------------------
(* How a session goes on from one step to the next.                        *)

(* A session that moves on to a step stays sound when the step knows its   *)
(* service.                                                                *)
LEMMA GotoSound ==
    ASSUME sess \in [Sessions -> SoundSession], NEW c \in Sessions,
           NEW r \in Session, NEW pc \in Steps \cup {"ended"},
           r.ver \in Versions, pc \in AtService => r.cur \in Services,
           Goto(c, r, pc)
    PROVE  sess' \in [Sessions -> SoundSession]
<1>1. [r EXCEPT !.pc = pc] \in SoundSession
  BY DEF Session, SoundSession
<1> QED
  BY <1>1 DEF Goto

(* A session whose service failed goes on with the next one, or ends.      *)
LEMMA ErredSound ==
    ASSUME sess \in [Sessions -> SoundSession], NEW c \in Sessions,
           NEW r \in Session, r.ver \in Versions, Erred(c, r)
    PROVE  sess' \in [Sessions -> SoundSession]
<1>1. /\ [r EXCEPT !.failed = TRUE, !.skip = FALSE] \in Session
      /\ [r EXCEPT !.failed = TRUE, !.skip = FALSE].ver \in Versions
  BY DEF Session
<1> QED
  BY <1>1, GotoSound DEF Erred, Steps, AtService

(* A session whose service is done goes on with the next one, or ends.     *)
LEMMA CompletedSound ==
    ASSUME sess \in [Sessions -> SoundSession], NEW c \in Sessions,
           NEW r \in Session, r.ver \in Versions, r.cur \in Services,
           Completed(c, r)
    PROVE  sess' \in [Sessions -> SoundSession]
<1>1. /\ [r EXCEPT !.done = @ \cup {r.cur}, !.skip = FALSE] \in Session
      /\ [r EXCEPT !.done = @ \cup {r.cur}, !.skip = FALSE].ver \in Versions
  BY DEF Session
<1> QED
  BY <1>1, GotoSound DEF Completed, Steps, AtService

(* A session that ends is sound whatever it was doing.                     *)
LEMMA FinishSound ==
    ASSUME sess \in [Sessions -> SoundSession], NEW c \in Sessions,
           NEW r \in Session, r.ver \in Versions, NEW result \in Results,
           Finish(c, r, result)
    PROVE  sess' \in [Sessions -> SoundSession]
<1> DEFINE f == [r EXCEPT !.todo = {}, !.skip = FALSE, !.copy = << >>,
                          !.result = result]
<1>1. << >> \in Seq(Record)
  OBVIOUS
<1>2. f \in Session /\ f.ver \in Versions
  BY <1>1 DEF Session
<1>3. Goto(c, f, "ended")
  BY DEF Finish
<1>4. "ended" \in Steps \cup {"ended"} /\ "ended" \notin AtService
  BY DEF AtService
<1> HIDE DEF f
<1> QED
  BY <1>2, <1>3, <1>4, GotoSound

---------------------------------------------------------------------------

(* The invariant holds before any session begins.                          *)
LEMMA InitTypeInv == Init => TypeInv
<1> SUFFICES ASSUME Init PROVE TypeInv
  OBVIOUS
<1>1. NodeTypeOK
  BY NodeAssumption DEF Init, NodeInit, NodeTypeOK, Node, Content
<1>2. << >> \in Seq(Record)
  OBVIOUS
<1>3. StateTypeOK
  BY <1>2 DEF Init, StateInit, StateTypeOK, Content, History
<1>4. Idle \in SoundSession
  BY <1>2 DEF Idle, Session, SoundSession, Results, AtService
<1> QED
  BY <1>1, <1>3, <1>4 DEF Init, TypeInv

(* A step of a session that has begun keeps the type invariant.             *)
LEMMA ProgressTypeInv ==
    ASSUME TypeInv, NEW c \in Sessions, Progress(c)
    PROVE  TypeInv'
<1> DEFINE r == sess[c]
<1>1. /\ r \in Session
      /\ r.pc \in AtService => r.cur \in Services
      /\ r.pc \in Steps => r.ver \in Versions
      /\ sess \in [Sessions -> SoundSession]
      /\ NodeTypeOK /\ StateTypeOK
      /\ generated \in [Services -> Versions \cup {None}]
  BY DEF TypeInv, SoundSession, Steps
<1>2. CASE CheckActive(c)
  <2>1. r.ver \in Versions
    BY <1>1, <1>2 DEF CheckActive, Steps
  <2>2. PICK s \in r.todo, active \in BOOLEAN, outcome \in {"ok", "raise"} :
          /\ Query(Active(node, s), active, outcome)
          /\ LET n == [r EXCEPT !.cur = s, !.todo = @ \ {s}, !.skip = active]
             IN  IF outcome = "ok" THEN Goto(c, n, "ports") ELSE Erred(c, n)
    BY <1>2 DEF CheckActive
  <2> DEFINE n == [r EXCEPT !.cur = s, !.todo = @ \ {s}, !.skip = active]
  <2>3. n \in Session /\ n.cur \in Services /\ n.ver \in Versions
    BY <1>1, <2>1 DEF Session
  <2>4. Goto(c, n, "ports") \/ Erred(c, n)
    BY <2>2
  <2>5. "ports" \in Steps
    BY DEF Steps
  <2> HIDE DEF n
  <2>6. sess' \in [Sessions -> SoundSession]
    BY <1>1, <2>3, <2>4, <2>5, GotoSound, ErredSound
  <2>7. NodeTypeOK'
    BY <1>1, <2>2, QueryType
  <2> QED
    BY <1>1, <1>2, <2>6, <2>7 DEF CheckActive, TypeInv, StateTypeOK, stateVars
<1>3. CASE CheckPorts(c)
  <2>1. r.ver \in Versions /\ r.cur \in Services
    BY <1>1, <1>3 DEF CheckPorts, Steps, AtService
  <2>2. PICK truth, listed \in BOOLEAN, outcome \in {"ok", "raise"} :
          /\ Query(truth, listed, outcome)
          /\ LET n == [r EXCEPT !.skip = @ \/ listed]
             IN  IF outcome = "ok" THEN Goto(c, n, "store") ELSE Erred(c, n)
    BY <1>3 DEF CheckPorts
  <2> DEFINE n == [r EXCEPT !.skip = @ \/ listed]
  <2>3. n \in Session /\ n.cur \in Services /\ n.ver \in Versions
    BY <1>1, <2>1 DEF Session
  <2>4. Goto(c, n, "store") \/ Erred(c, n)
    BY <2>2
  <2>5. "store" \in Steps
    BY DEF Steps
  <2> HIDE DEF n
  <2>6. sess' \in [Sessions -> SoundSession]
    BY <1>1, <2>3, <2>4, <2>5, GotoSound, ErredSound
  <2>7. NodeTypeOK'
    BY <1>1, <2>2, QueryType
  <2> QED
    BY <1>1, <1>3, <2>6, <2>7 DEF CheckPorts, TypeInv, StateTypeOK, stateVars
<1>4. CASE Store(c)
  <2>1. r.ver \in Versions /\ r.cur \in Services
    BY <1>1, <1>4 DEF Store, Steps, AtService
  <2>2. Goto(c, r, "scp") \/ Erred(c, r)
    BY <1>4 DEF Store
  <2>3. sess' \in [Sessions -> SoundSession]
    BY <1>1, <2>1, <2>2, GotoSound, ErredSound DEF Steps
  <2>4. StateTypeOK'
    BY <1>1, <1>4, <2>1
    DEF Store, StoreArtifact, StateTypeOK, stateVars, Content
  <2> QED
    BY <1>1, <1>4, <2>3, <2>4 DEF Store, TypeInv, NodeTypeOK, nodeVars
<1>5. CASE Transfer(c)
  <2>1. r.ver \in Versions /\ r.cur \in Services
    BY <1>1, <1>5 DEF Transfer, Steps, AtService
  <2>2. Goto(c, r, "mv") \/ Erred(c, r)
    BY <1>5 DEF Transfer
  <2>3. sess' \in [Sessions -> SoundSession]
    BY <1>1, <2>1, <2>2, GotoSound, ErredSound DEF Steps
  <2>4. NodeTypeOK'
    BY <1>1, <1>5, <2>1, ScpType DEF Transfer, Content
  <2> QED
    BY <1>1, <1>5, <2>3, <2>4 DEF Transfer, TypeInv, StateTypeOK, stateVars
<1>6. ASSUME NEW op \in {"mv", "reload", "start"},
             NEW outcome, Remote(c, op, outcome)
      PROVE  /\ r.ver \in Versions /\ r.cur \in Services
             /\ NodeTypeOK' /\ StateTypeOK'
             /\ generated' \in [Services -> Versions \cup {None}]
  <2>1. r.ver \in Versions /\ r.cur \in Services
    BY <1>1, <1>6 DEF Remote, Steps, AtService
  <2>2. [op |-> op, svc |-> r.cur] \in Command
    BY <2>1 DEF Command
  <2>3. NodeTypeOK'
    BY <1>1, <1>6, <2>2, ExecuteType DEF Remote
  <2> QED
    BY <1>1, <1>6, <2>1, <2>3 DEF Remote, StateTypeOK, stateVars
<1>7. CASE Move(c)
  <2>1. PICK outcome : /\ Remote(c, "mv", outcome)
                       /\ Goto(c, r, "reload") \/ Erred(c, r)
    BY <1>7 DEF Move
  <2>2. sess' \in [Sessions -> SoundSession]
    BY <1>1, <1>6, <2>1, GotoSound, ErredSound DEF Steps
  <2> QED
    BY <1>6, <2>1, <2>2 DEF TypeInv
<1>8. CASE Reload(c)
  <2>1. PICK outcome :
          /\ Remote(c, "reload", outcome)
          /\ Goto(c, r, "start") \/ Completed(c, r) \/ Erred(c, r)
    BY <1>8 DEF Reload
  <2>2. sess' \in [Sessions -> SoundSession]
    BY <1>1, <1>6, <2>1, GotoSound, CompletedSound, ErredSound DEF Steps
  <2> QED
    BY <1>6, <2>1, <2>2 DEF TypeInv
<1>9. CASE Start(c)
  <2>1. PICK outcome : /\ Remote(c, "start", outcome)
                       /\ Completed(c, r) \/ Erred(c, r)
    BY <1>9 DEF Start
  <2>2. sess' \in [Sessions -> SoundSession]
    BY <1>1, <1>6, <2>1, CompletedSound, ErredSound
  <2> QED
    BY <1>6, <2>1, <2>2 DEF TypeInv
<1>10. CASE Executed(c)
  <2> DEFINE n == [r EXCEPT !.todo = r.done]
  <2>1. r.ver \in Versions
    BY <1>1, <1>10 DEF Executed, Steps
  <2>2. n \in Session /\ n.ver \in Versions
    BY <1>1, <2>1 DEF Session
  <2>3. Finish(c, r, "failed") \/ Goto(c, n, "verify")
    BY <1>10 DEF Executed
  <2>4. "verify" \in Steps \ AtService
    BY DEF Steps, AtService
  <2> HIDE DEF n
  <2>5. sess' \in [Sessions -> SoundSession]
    BY <1>1, <2>1, <2>2, <2>3, <2>4, GotoSound, FinishSound DEF Results
  <2> QED
    BY <1>1, <1>10, <2>5
    DEF Executed, TypeInv, NodeTypeOK, nodeVars, StateTypeOK, stateVars
<1>11. CASE Verify(c)
  <2>1. r.ver \in Versions
    BY <1>1, <1>11 DEF Verify, Steps
  <2>2. PICK s \in r.todo, healthy \in BOOLEAN, outcome \in {"ok", "raise"} :
          /\ HealthCheck(s, healthy, outcome)
          /\ \/ Finish(c, r, "crashed")
             \/ Goto(c, [r EXCEPT !.todo = @ \ {s}], "verify")
             \/ Finish(c, [r EXCEPT !.cur = s], "unhealthy")
    BY <1>11 DEF Verify
  <2>3. /\ [r EXCEPT !.todo = @ \ {s}] \in Session
        /\ [r EXCEPT !.todo = @ \ {s}].ver \in Versions
        /\ [r EXCEPT !.cur = s] \in Session
        /\ [r EXCEPT !.cur = s].ver \in Versions
    BY <1>1, <2>1 DEF Session
  <2>4. "verify" \in Steps \ AtService
    BY DEF Steps, AtService
  <2>5. sess' \in [Sessions -> SoundSession]
    BY <1>1, <2>1, <2>2, <2>3, <2>4, GotoSound, FinishSound DEF Results
  <2>6. NodeTypeOK'
    BY <1>1, <2>2, QueryType DEF HealthCheck
  <2> QED
    BY <1>1, <1>11, <2>5, <2>6 DEF Verify, TypeInv, StateTypeOK, stateVars
<1>12. CASE Verified(c)
  <2>1. r.ver \in Versions
    BY <1>1, <1>12 DEF Verified, Steps
  <2>2. /\ [r EXCEPT !.todo = r.done] \in Session
        /\ [r EXCEPT !.todo = r.done].ver \in Versions
    BY <1>1, <2>1 DEF Session
  <2>3. "record" \in Steps \ AtService
    BY DEF Steps, AtService
  <2>4. Goto(c, [r EXCEPT !.todo = r.done], "record")
    BY <1>12 DEF Verified
  <2>5. sess' \in [Sessions -> SoundSession]
    BY <1>1, <2>2, <2>3, <2>4, GotoSound
  <2> QED
    BY <1>1, <1>12, <2>5
    DEF Verified, TypeInv, NodeTypeOK, nodeVars, StateTypeOK, stateVars
<1>13. CASE ReadHistory(c)
  <2>1. r.ver \in Versions
    BY <1>1, <1>13 DEF ReadHistory, Steps
  <2>2. PICK s \in r.todo :
          \/ /\ Readable(s)
             /\ Goto(c, [r EXCEPT !.cur = s, !.todo = @ \ {s},
                                  !.copy = history[s]], "truncate")
          \/ Finish(c, r, "crashed")
    BY <1>13 DEF ReadHistory
  <2> DEFINE n == [r EXCEPT !.cur = s, !.todo = @ \ {s}, !.copy = history[s]]
  <2>3. s \in Services
    BY <1>1 DEF Session
  <2>4. ASSUME Readable(s)
        PROVE  n \in Session /\ n.cur \in Services /\ n.ver \in Versions
    <3>1. history[s] \in Seq(Record)
      BY <1>1, <2>3, <2>4 DEF Readable, StateTypeOK, History
    <3> QED
      BY <1>1, <2>1, <2>3, <3>1 DEF Session
  <2>5. \/ Readable(s) /\ Goto(c, n, "truncate")
        \/ Finish(c, r, "crashed")
    BY <2>2
  <2>6. "truncate" \in Steps
    BY DEF Steps
  <2> HIDE DEF n
  <2>7. sess' \in [Sessions -> SoundSession]
    BY <1>1, <2>1, <2>4, <2>5, <2>6, GotoSound, FinishSound DEF Results
  <2> QED
    BY <1>1, <1>13, <2>7
    DEF ReadHistory, TypeInv, NodeTypeOK, nodeVars, StateTypeOK, stateVars
<1>14. CASE TruncateHistory(c)
  <2>1. r.ver \in Versions /\ r.cur \in Services
    BY <1>1, <1>14 DEF TruncateHistory, Steps, AtService
  <2>2. sess' \in [Sessions -> SoundSession]
    BY <1>1, <1>14, <2>1, GotoSound DEF TruncateHistory, Steps
  <2>3. StateTypeOK'
    BY <1>1, <1>14, <2>1 DEF TruncateHistory, Truncate, StateTypeOK, History
  <2> QED
    BY <1>1, <1>14, <2>2, <2>3 DEF TruncateHistory, TypeInv, NodeTypeOK, nodeVars
<1>15. CASE WriteHistory(c)
  <2> DEFINE rec == [ver |-> r.ver,
                     status |-> IF r.failed THEN "failed" ELSE "healthy"]
             n == [r EXCEPT !.copy = << >>]
  <2>1. r.ver \in Versions /\ r.cur \in Services
    BY <1>1, <1>15 DEF WriteHistory, Steps, AtService
  <2>2. rec \in Record
    BY <2>1 DEF Record
  <2>3. r.copy \in Seq(Record)
    BY <1>1 DEF Session
  <2>4. << >> \in Seq(Record)
    OBVIOUS
  <2>5. n \in Session /\ n.ver \in Versions
    BY <1>1, <2>1, <2>4 DEF Session
  <2>6. WriteBack(r.cur, r.copy, rec) /\ Goto(c, n, "record")
    BY <1>15 DEF WriteHistory
  <2>7. "record" \in Steps \ AtService
    BY DEF Steps, AtService
  <2> HIDE DEF rec, n
  <2>8. Append(r.copy, rec) \in Seq(Record)
    BY <2>2, <2>3
  <2>9. StateTypeOK'
    BY <1>1, <2>1, <2>6, <2>8 DEF WriteBack, StateTypeOK, History
  <2>10. sess' \in [Sessions -> SoundSession]
    BY <1>1, <2>5, <2>6, <2>7, GotoSound
  <2> QED
    BY <1>1, <1>15, <2>9, <2>10 DEF WriteHistory, TypeInv, NodeTypeOK, nodeVars
<1>16. CASE Recorded(c)
  <2>1. r.ver \in Versions
    BY <1>1, <1>16 DEF Recorded, Steps
  <2>2. sess' \in [Sessions -> SoundSession]
    BY <1>1, <1>16, <2>1, FinishSound DEF Recorded, Results
  <2> QED
    BY <1>1, <1>16, <2>2
    DEF Recorded, TypeInv, NodeTypeOK, nodeVars, StateTypeOK, stateVars
<1> QED
  BY <1>2, <1>3, <1>4, <1>5, <1>7, <1>8, <1>9, <1>10, <1>11, <1>12, <1>13,
     <1>14, <1>15, <1>16 DEF Progress

(* Starting a session, losing one, and what the node does by itself keep     *)
(* the type invariant as well.                                              *)
LEMMA NextTypeInv == TypeInv /\ [Next]_vars => TypeInv'
<1> SUFFICES ASSUME TypeInv, [Next]_vars PROVE TypeInv'
  OBVIOUS
<1>1. /\ sess \in [Sessions -> SoundSession]
      /\ NodeTypeOK /\ StateTypeOK
      /\ generated \in [Services -> Versions \cup {None}]
  BY DEF TypeInv
<1>2. ASSUME NEW c \in Sessions, Begin(c) PROVE TypeInv'
  <2>1. PICK v \in Versions, plan \in SUBSET Services \ {{}}, force \in BOOLEAN :
          /\ Generate(v)
          /\ Goto(c, [Idle EXCEPT !.ver = v, !.plan = plan, !.todo = plan,
                                  !.force = force], "next")
    BY <1>2 DEF Begin
  <2> DEFINE n == [Idle EXCEPT !.ver = v, !.plan = plan, !.todo = plan,
                               !.force = force]
  <2>2. << >> \in Seq(Record)
    OBVIOUS
  <2>3. n \in Session /\ n.ver \in Versions
    BY <2>2 DEF Idle, Session, Results
  <2>4. "next" \in Steps \ AtService
    BY DEF Steps, AtService
  <2> HIDE DEF n
  <2>5. sess' \in [Sessions -> SoundSession]
    BY <1>1, <2>1, <2>3, <2>4, GotoSound DEF n
  <2>6. generated' \in [Services -> Versions \cup {None}]
    BY <1>1, <2>1 DEF Generate
  <2> QED
    BY <1>1, <1>2, <2>5, <2>6
    DEF Begin, TypeInv, NodeTypeOK, nodeVars, StateTypeOK, stateVars
<1>3. ASSUME NEW c \in Sessions, Crash(c) PROVE TypeInv'
  <2>1. sess[c] \in Session /\ sess[c].ver \in Versions
    BY <1>1, <1>3 DEF Crash, Running, Steps, SoundSession
  <2>2. sess' \in [Sessions -> SoundSession]
    BY <1>1, <1>3, <2>1, FinishSound DEF Crash, Results
  <2>3. StateTypeOK'
    BY <1>1, <1>3 DEF Crash, StoreArtifact, StateTypeOK, stateVars, Content
  <2>4. NodeTypeOK'
    BY <1>1, <1>3, FaultType DEF Crash, NodeTypeOK
  <2> QED
    BY <1>1, <1>3, <2>2, <2>3, <2>4 DEF Crash, TypeInv
<1>4. CASE Environment
  BY <1>1, <1>4, NodeNextType DEF Environment, TypeInv, StateTypeOK, stateVars
<1>5. CASE UNCHANGED vars
  BY <1>1, <1>5
  DEF vars, TypeInv, NodeTypeOK, nodeVars, StateTypeOK, stateVars
<1> QED
  BY <1>2, <1>3, <1>4, <1>5, ProgressTypeInv DEF Next

(* What TypeInv adds to TypeOK holds of every session.                      *)
LEMMA TypeInvTypeOK == TypeInv => TypeOK
BY DEF TypeInv, TypeOK, SoundSession

(* TypeOK holds throughout, for any number of sessions, services, versions  *)
(* and faults, and whether or not sessions overlap: no error path, crash or *)
(* late command takes a session, a file or a unit out of its type; in       *)
(* particular no session ever carries on from a torn history.               *)
THEOREM TypeCorrect == Spec => []TypeOK
<1>1. Spec => []TypeInv
  BY InitTypeInv, NextTypeInv, PTL DEF Spec
<1> QED
  BY <1>1, TypeInvTypeOK, PTL

---------------------------------------------------------------------------
(* WriteAhead, when Parallel is FALSE.  It is not inductive: the transfer   *)
(* sends what docs/generated holds when it runs, not what was stored.  Two  *)
(* more facts make it so: what a session is about to transfer is stored,    *)
(* and no other session is there to generate another file in between.       *)

StoredFirst ==
    \A c \in Sessions : sess[c].pc = "scp" =>
        {generated[sess[c].cur]} \cap Versions \subseteq stored[sess[c].cur]

OneAtATime == \A c, d \in Sessions : Running(c) /\ Running(d) => c = d

WriteAheadInv == TypeInv /\ WriteAhead /\ StoredFirst /\ OneAtATime

(* WriteAhead is the provenance fact of TargetNodeProofs for `stored`.      *)
LEMMA WriteAheadIsWithin == WriteAhead <=> Within(node, stored)
BY DEF WriteAhead, Within

(* Storing only ever adds versions.                                        *)
LEMMA StoredGrows ==
    ASSUME TypeInv, [Next]_vars
    PROVE  \A s \in Services : stored[s] \subseteq stored'[s]
<1>1. stored \in [Services -> SUBSET Versions]
  BY DEF TypeInv, StateTypeOK
<1>2. ASSUME NEW s, NEW file, StoreArtifact(s, file)
      PROVE  \A t \in Services : stored[t] \subseteq stored'[t]
  BY <1>1, <1>2 DEF StoreArtifact
<1>3. ASSUME NEW c \in Sessions, Progress(c)
      PROVE  UNCHANGED stored \/ \E s, file : StoreArtifact(s, file)
  BY <1>3
  DEF Progress, CheckActive, CheckPorts, Store, Transfer, Move, Reload, Start,
      Remote, Executed, Verify, Verified, ReadHistory, TruncateHistory,
      Truncate, WriteHistory, WriteBack, Recorded, stateVars
<1> QED
  BY <1>2, <1>3
  DEF Next, Begin, Crash, Environment, vars, stateVars

(* A step of a session changes no other session, and only storing leads to  *)
(* a transfer.                                                              *)
LEMMA GotoPc ==
    ASSUME sess \in [Sessions -> SoundSession], NEW c \in Sessions,
           NEW r \in Session, NEW pc, Goto(c, r, pc)
    PROVE  /\ sess'[c].pc = pc
           /\ sess'[c].cur = r.cur
           /\ \A d \in Sessions \ {c} : sess'[d] = sess[d]
BY DEF Goto, Session

(* The steps of one session leave the other sessions as they are.          *)
LEMMA ProgressOthers ==
    ASSUME sess \in [Sessions -> SoundSession], NEW c \in Sessions, Progress(c)
    PROVE  Running(c) /\ \A d \in Sessions \ {c} : sess'[d] = sess[d]
<1>1. Running(c)
  BY DEF Progress, CheckActive, CheckPorts, Store, Transfer, Move, Reload,
         Start, Remote, Executed, Verify, Verified, ReadHistory,
         TruncateHistory, WriteHistory, Recorded, Running, Steps
<1>2. \E r, pc : Goto(c, r, pc)
  BY DEF Progress, CheckActive, CheckPorts, Store, Transfer, Move, Reload,
         Start, Executed, Verify, Verified, ReadHistory, TruncateHistory,
         WriteHistory, Recorded, Erred, Completed, Finish
<1> QED
  BY <1>1, <1>2 DEF Goto

(* The only way to the transfer of a service is through storing it.        *)
LEMMA OnlyStoreTransfers ==
    ASSUME sess \in [Sessions -> SoundSession], NEW c \in Sessions,
           Progress(c), sess'[c].pc = "scp"
    PROVE  /\ StoreArtifact(sess[c].cur, generated[sess[c].cur])
           /\ generated[sess[c].cur] # None
           /\ sess[c].cur \in Services
           /\ sess'[c].cur = sess[c].cur
           /\ UNCHANGED generated
<1>1. /\ sess[c] \in Session
      /\ sess[c].pc = "store" => sess[c].cur \in Services
  BY DEF SoundSession, AtService
<1>2. ~Erred(c, sess[c])
  BY <1>1 DEF Erred, Goto, Session
<1>3. ASSUME ~Store(c) PROVE sess'[c].pc # "scp"
  <2>1. ASSUME CheckActive(c) \/ CheckPorts(c) PROVE sess'[c].pc # "scp"
    BY <1>1, <2>1 DEF CheckActive, CheckPorts, Erred, Goto, Session
  <2>2. ASSUME Transfer(c) \/ Move(c) \/ Reload(c) \/ Start(c)
        PROVE  sess'[c].pc # "scp"
    BY <1>1, <2>2
    DEF Transfer, Move, Reload, Start, Erred, Completed, Goto, Session
  <2>3. ASSUME Executed(c) \/ Verify(c) \/ Verified(c)
        PROVE  sess'[c].pc # "scp"
    BY <1>1, <2>3 DEF Executed, Verify, Verified, Finish, Goto, Session
  <2>4. ASSUME \/ ReadHistory(c) \/ TruncateHistory(c) \/ WriteHistory(c)
               \/ Recorded(c)
        PROVE  sess'[c].pc # "scp"
    BY <1>1, <2>4
    DEF ReadHistory, TruncateHistory, WriteHistory, Recorded, Finish, Goto,
        Session
  <2> QED
    BY <1>3, <2>1, <2>2, <2>3, <2>4 DEF Progress
<1>4. Store(c)
  BY <1>3
<1> QED
  BY <1>1, <1>2, <1>4, GotoPc DEF Store

(* When sessions do not overlap, none begins beside another.               *)
LEMMA OneAtATimeStep ==
    ASSUME WriteAheadInv, [Next]_vars, Parallel = FALSE
    PROVE  OneAtATime'
<1>1. sess \in [Sessions -> SoundSession]
  BY DEF WriteAheadInv, TypeInv
<1>2. ASSUME NEW c \in Sessions, Begin(c)
      PROVE  \A d \in Sessions \ {c} : sess'[d] = sess[d] /\ ~Running(d)
  BY <1>1, <1>2 DEF Begin, Goto
<1>3. ASSUME NEW c \in Sessions, Crash(c)
      PROVE  Running(c) /\ \A d \in Sessions \ {c} : sess'[d] = sess[d]
  BY <1>1, <1>3 DEF Crash, Finish, Goto
<1>4. ASSUME NEW c \in Sessions, Begin(c) \/ Progress(c) \/ Crash(c)
      PROVE  OneAtATime'
  BY <1>1, <1>2, <1>3, <1>4, ProgressOthers
  DEF WriteAheadInv, OneAtATime, Running
<1>5. CASE Environment \/ UNCHANGED vars
  BY <1>5 DEF Environment, vars, WriteAheadInv, OneAtATime, Running
<1> QED
  BY <1>4, <1>5 DEF Next

(* A session about to transfer a file has stored it.                       *)
LEMMA StoredFirstStep ==
    ASSUME WriteAheadInv, [Next]_vars, Parallel = FALSE
    PROVE  StoredFirst'
<1>1. /\ sess \in [Sessions -> SoundSession]
      /\ stored \in [Services -> SUBSET Versions]
  BY DEF WriteAheadInv, TypeInv, StateTypeOK
<1>2. ASSUME NEW c \in Sessions, Begin(c) PROVE StoredFirst'
  <2>1. \A d \in Sessions \ {c} : sess'[d] = sess[d] /\ ~Running(d)
    BY <1>1, <1>2 DEF Begin, Goto
  <2>2. sess'[c].pc = "next"
    <3>1. PICK v, plan, force :
            Goto(c, [Idle EXCEPT !.ver = v, !.plan = plan, !.todo = plan,
                                 !.force = force], "next")
      BY <1>2 DEF Begin
    <3> QED
      BY <1>1, <3>1 DEF Goto, Idle
  <2> QED
    BY <2>1, <2>2 DEF StoredFirst, Running, Steps
<1>3. ASSUME NEW c \in Sessions, Progress(c) PROVE StoredFirst'
  <2>1. \A d \in Sessions \ {c} : sess'[d].pc # "scp"
    BY <1>1, <1>3, ProgressOthers
    DEF WriteAheadInv, OneAtATime, Running, Steps
  <2>2. CASE sess'[c].pc = "scp"
    <3>1. /\ StoreArtifact(sess[c].cur, generated[sess[c].cur])
          /\ sess[c].cur \in Services
          /\ sess'[c].cur = sess[c].cur
          /\ UNCHANGED generated
      BY <1>1, <1>3, <2>2, OnlyStoreTransfers
    <3> QED
      BY <1>1, <2>1, <3>1 DEF StoreArtifact, StoredFirst
  <2> QED
    BY <2>1, <2>2 DEF StoredFirst
<1>4. ASSUME NEW c \in Sessions, Crash(c) PROVE StoredFirst'
  <2>1. sess'[c].pc = "ended"
    BY <1>1, <1>4 DEF Crash, Finish, Goto
  <2>2. \A d \in Sessions \ {c} : sess'[d] = sess[d] /\ ~Running(d)
    BY <1>1, <1>4
    DEF Crash, Finish, Goto, WriteAheadInv, OneAtATime
  <2> QED
    BY <2>1, <2>2 DEF StoredFirst, Running, Steps
<1>5. CASE Environment \/ UNCHANGED vars
  BY <1>5
  DEF Environment, vars, stateVars, WriteAheadInv, StoredFirst
<1> QED
  BY <1>2, <1>3, <1>4, <1>5 DEF Next

(* Only the transfer brings a version onto the node.                        *)
LEMMA WriteAheadStep ==
    ASSUME WriteAheadInv, [Next]_vars
    PROVE  WriteAhead'
<1>1. /\ sess \in [Sessions -> SoundSession]
      /\ NodeTypeOK
      /\ Within(node, stored)
  BY WriteAheadIsWithin DEF WriteAheadInv, TypeInv
<1>2. Within(node', stored)
  <2>1. ASSUME NEW c \in Sessions, Transfer(c) PROVE Within(node', stored)
    <3>1. PICK outcome : Scp(sess[c].cur, generated[sess[c].cur], outcome)
      BY <2>1 DEF Transfer
    <3>2. /\ sess[c].cur \in Services
          /\ {generated[sess[c].cur]} \cap Versions \subseteq stored[sess[c].cur]
      BY <1>1, <2>1
      DEF Transfer, SoundSession, AtService, WriteAheadInv, StoredFirst
    <3> QED
      BY <1>1, <3>1, <3>2, ScpWithin
  <2>2. ASSUME NEW c \in Sessions, NEW op \in {"mv", "reload", "start"},
               NEW outcome, Remote(c, op, outcome)
        PROVE  Within(node', stored)
    <3>1. [op |-> op, svc |-> sess[c].cur] \in Command
      BY <1>1, <2>2 DEF Remote, SoundSession, AtService, Command
    <3> QED
      BY <1>1, <2>2, <3>1, ExecuteWithin DEF Remote
  <2>3. ASSUME NEW c \in Sessions, Move(c) \/ Reload(c) \/ Start(c)
        PROVE  Within(node', stored)
    BY <2>2, <2>3 DEF Move, Reload, Start
  <2>4. ASSUME NEW c \in Sessions,
               Progress(c),
               ~(Transfer(c) \/ Move(c) \/ Reload(c) \/ Start(c))
        PROVE  UNCHANGED node
    BY <2>4
    DEF Progress, CheckActive, CheckPorts, Query, Store, Executed, Verify,
        HealthCheck, Verified, ReadHistory, TruncateHistory, WriteHistory, Recorded,
        nodeVars
  <2>5. ASSUME NEW c \in Sessions, Begin(c) \/ Crash(c)
        PROVE  UNCHANGED node
    BY <2>5 DEF Begin, Crash, nodeVars
  <2>6. CASE Environment
    BY <1>1, <2>6, NodeNextWithin DEF Environment
  <2>7. CASE UNCHANGED vars
    BY <1>1, <2>7 DEF vars, nodeVars
  <2> QED
    BY <1>1, <2>1, <2>3, <2>4, <2>5, <2>6, <2>7 DEF Next
<1>3. \A s \in Services : stored[s] \subseteq stored'[s]
  BY StoredGrows DEF WriteAheadInv
<1> QED
  BY <1>2, <1>3 DEF Within, WriteAhead

(* Nothing is on the node before the first deployment.                     *)
LEMMA InitWriteAheadInv == Init => WriteAheadInv
<1> SUFFICES ASSUME Init PROVE WriteAheadInv
  OBVIOUS
<1>1. WriteAhead
  BY NodeAssumption DEF Init, NodeInit, StateInit, WriteAhead, OnNode
<1>2. StoredFirst /\ OneAtATime
  BY DEF Init, Idle, StoredFirst, OneAtATime, Running, Steps
<1> QED
  BY <1>1, <1>2, InitTypeInv DEF WriteAheadInv

LEMMA AlwaysWriteAhead == Parallel = FALSE => (Spec => []WriteAheadInv)
<1> SUFFICES ASSUME Parallel = FALSE PROVE Spec => []WriteAheadInv
  OBVIOUS
<1>1. WriteAheadInv /\ [Next]_vars => WriteAheadInv'
  BY NextTypeInv, OneAtATimeStep, StoredFirstStep, WriteAheadStep
  DEF WriteAheadInv
<1> QED
  BY <1>1, InitWriteAheadInv, PTL DEF Spec

(* When sessions do not overlap, no version of a quadlet is ever in /tmp,   *)
(* installed, loaded or running on the node that was not stored for its     *)
(* service first, whichever commands fail, time out, take effect late or    *)
(* are cut short by a crash.                                                *)
THEOREM WriteAheadHolds == Parallel = FALSE => (Spec => []WriteAhead)
<1>1. WriteAheadInv => WriteAhead
  BY DEF WriteAheadInv
<1> QED
  BY <1>1, AlwaysWriteAhead, PTL

---------------------------------------------------------------------------
(* The history of deployments: what a record in it means, and why one may   *)
(* be unreadable.                                                           *)

(* What the locals of a session add up to.  As long as nothing failed, the  *)
(* plan is what is done, at hand and to do; past the loop nothing failed.   *)
(* The loop visits no service twice.                                       *)
InLoop == {"ports", "store", "scp", "mv", "reload", "start"}
PastLoop == {"verify", "record", "truncate", "write"}

Book(r) ==
    /\ r.pc = "next" => r.failed \/ r.done \cup r.todo = r.plan
    /\ r.pc \in InLoop => r.failed \/ r.done \cup r.todo \cup {r.cur} = r.plan
    /\ r.pc \in PastLoop => ~r.failed /\ r.done = r.plan
    /\ r.pc # "ended" => r.result # "crashed"
    /\ r.pc = "next" => r.done \cap r.todo = {}
    /\ r.pc \in InLoop => r.done \cap r.todo = {} /\ r.cur \notin r.done \cup r.todo

BookInv == TypeInv /\ \A c \in Sessions : Book(sess[c])

---------------------------------------------------------------------------
(* A session that moves on keeps its book if the new locals do.             *)
LEMMA GotoBook ==
    ASSUME sess \in [Sessions -> SoundSession], NEW c \in Sessions,
           NEW r \in Session, NEW pc, Goto(c, r, pc)
    PROVE  sess'[c] = [r EXCEPT !.pc = pc]
BY DEF Goto

(* A session whose service failed remembers it.                            *)
LEMMA ErredBook ==
    ASSUME sess \in [Sessions -> SoundSession], NEW c \in Sessions,
           NEW r \in Session, r.result # "crashed", r.done \cap r.todo = {}, Erred(c, r)
    PROVE  Book(sess'[c])
<1>1. sess'[c] = [r EXCEPT !.failed = TRUE, !.skip = FALSE, !.pc = "next"]
  BY DEF Erred, Goto
<1> QED
  BY <1>1 DEF Book, InLoop, PastLoop, Session

(* A service that is done leaves what is at hand.                          *)
LEMMA CompletedBook ==
    ASSUME sess \in [Sessions -> SoundSession], NEW c \in Sessions,
           NEW r \in Session, r.pc \in InLoop, Book(r), Completed(c, r)
    PROVE  Book(sess'[c])
<1>1. sess'[c] = [r EXCEPT !.done = @ \cup {r.cur}, !.skip = FALSE,
                           !.pc = "next"]
  BY DEF Completed, Goto
<1> QED
  BY <1>1 DEF Book, InLoop, PastLoop, Session

(* Nothing is asked of a session that has ended.                           *)
LEMMA FinishBook ==
    ASSUME sess \in [Sessions -> SoundSession], NEW c \in Sessions,
           NEW r \in Session, NEW result, Finish(c, r, result)
    PROVE  Book(sess'[c]) /\ sess'[c].cur = r.cur /\ sess'[c].result = result
<1>1. sess'[c] = [r EXCEPT !.todo = {}, !.skip = FALSE, !.copy = << >>,
                           !.result = result, !.pc = "ended"]
  BY DEF Finish, Goto
<1> QED
  BY <1>1 DEF Book, InLoop, PastLoop, Session

---------------------------------------------------------------------------

(* No session has a book to keep before it begins.                         *)
LEMMA InitBook == Init => BookInv
BY InitTypeInv DEF Init, Idle, Book, BookInv, InLoop, PastLoop

(* Every step of a session keeps its book.                                 *)
LEMMA ProgressBook ==
    ASSUME BookInv, NEW c \in Sessions, Progress(c)
    PROVE  Book(sess'[c])
<1> DEFINE r == sess[c]
<1>1. /\ sess \in [Sessions -> SoundSession]
      /\ r \in Session
      /\ Book(r)
  BY DEF BookInv, TypeInv, SoundSession
<1>2. r.pc \in Steps => r.result # "crashed"
  BY <1>1 DEF Book, Steps
<1>3. CASE CheckActive(c)
  <2>1. PICK s \in r.todo, active \in BOOLEAN, outcome \in {"ok", "raise"} :
          LET n == [r EXCEPT !.cur = s, !.todo = @ \ {s}, !.skip = active]
          IN  Goto(c, n, "ports") \/ Erred(c, n)
    BY <1>3 DEF CheckActive
  <2> DEFINE n == [r EXCEPT !.cur = s, !.todo = @ \ {s}, !.skip = active]
  <2>2. /\ s \in Services /\ n \in Session /\ n.result # "crashed"
        /\ n.done \cap n.todo = {} /\ r.done \cap r.todo = {}
    BY <1>1, <1>2, <1>3 DEF Session, CheckActive, Steps, Book
  <2>3. CASE Goto(c, n, "ports")
    <3>1. sess'[c] = [r EXCEPT !.cur = s, !.todo = @ \ {s}, !.skip = active,
                               !.pc = "ports"]
      BY <1>1, <2>3 DEF Goto
    <3>2. r.failed \/ r.done \cup (r.todo \ {s}) \cup {s} = r.plan
      BY <1>1, <1>3 DEF CheckActive, Book
    <3>3. r.result # "crashed"
      BY <1>2, <1>3 DEF CheckActive, Steps
    <3> QED
      BY <1>1, <2>1, <2>2, <3>1, <3>2, <3>3 DEF Book, InLoop, PastLoop, Session
  <2>4. CASE Erred(c, n)
    <3> HIDE DEF n
    <3> QED
      BY <1>1, <2>2, <2>4, ErredBook
  <2> QED
    BY <2>1, <2>3, <2>4
<1>4. CASE CheckPorts(c)
  <2>1. PICK listed \in BOOLEAN :
          LET n == [r EXCEPT !.skip = @ \/ listed]
          IN  Goto(c, n, "store") \/ Erred(c, n)
    BY <1>4 DEF CheckPorts
  <2> DEFINE n == [r EXCEPT !.skip = @ \/ listed]
  <2>2. n \in Session /\ n.result # "crashed" /\ n.done \cap n.todo = {}
    BY <1>1, <1>2, <1>4 DEF Session, CheckPorts, Steps, Book, InLoop
  <2>3. CASE Goto(c, n, "store")
    <3>1. sess'[c] = [r EXCEPT !.skip = @ \/ listed, !.pc = "store"]
      BY <1>1, <2>3 DEF Goto
    <3> QED
      BY <1>1, <1>2, <1>4, <3>1
      DEF CheckPorts, Book, InLoop, PastLoop, Session, Steps
  <2>4. CASE Erred(c, n)
    <3> HIDE DEF n
    <3> QED
      BY <1>1, <2>2, <2>4, ErredBook
  <2> QED
    BY <2>1, <2>3, <2>4
<1>5. ASSUME NEW pc \in InLoop, Goto(c, r, pc), r.pc \in InLoop
      PROVE  Book(sess'[c])
  <2>1. sess'[c] = [r EXCEPT !.pc = pc]
    BY <1>1, <1>5 DEF Goto
  <2> QED
    BY <1>1, <1>5, <2>1 DEF Book, InLoop, PastLoop, Session
<1>6. ASSUME r.pc \in InLoop,
             \/ \E pc \in InLoop : Goto(c, r, pc)
             \/ Erred(c, r)
             \/ Completed(c, r)
      PROVE  Book(sess'[c])
  <2>1. r.result # "crashed" /\ r.done \cap r.todo = {}
    BY <1>1, <1>6 DEF Book, InLoop
  <2> QED
    BY <1>1, <1>5, <1>6, <2>1, ErredBook, CompletedBook
<1>7. CASE Store(c)
  BY <1>6, <1>7 DEF Store, InLoop
<1>8. CASE Transfer(c)
  BY <1>6, <1>8 DEF Transfer, InLoop
<1>9. CASE Move(c) \/ Reload(c) \/ Start(c)
  BY <1>6, <1>9 DEF Move, Reload, Start, Remote, InLoop
<1>10. CASE Executed(c)
  <2>1. CASE Finish(c, r, "failed")
    BY <1>1, <2>1, FinishBook
  <2>2. CASE ~r.failed /\ Goto(c, [r EXCEPT !.todo = r.done], "verify")
    <3>1. sess'[c] = [r EXCEPT !.todo = r.done, !.pc = "verify"]
      BY <1>1, <2>2 DEF Goto
    <3>2. r.done = r.plan /\ r.result # "crashed"
      BY <1>1, <1>10, <2>2 DEF Executed, Book
    <3> QED
      BY <1>1, <2>2, <3>1, <3>2 DEF Book, InLoop, PastLoop, Session
  <2> QED
    BY <1>10, <2>1, <2>2 DEF Executed
<1>11. ASSUME r.pc \in PastLoop, NEW n \in Session, NEW pc \in PastLoop,
              n.failed = r.failed, n.done = r.done, n.plan = r.plan,
              n.result = r.result, Goto(c, n, pc)
       PROVE  Book(sess'[c])
  <2>1. sess'[c] = [n EXCEPT !.pc = pc]
    BY <1>1, <1>11 DEF Goto
  <2> QED
    BY <1>1, <1>11, <2>1 DEF Book, InLoop, PastLoop, Session
<1>12. CASE Verify(c)
  <2>1. PICK s \in r.todo :
          \/ Finish(c, r, "crashed")
          \/ Goto(c, [r EXCEPT !.todo = @ \ {s}], "verify")
          \/ Finish(c, [r EXCEPT !.cur = s], "unhealthy")
    BY <1>12 DEF Verify
  <2>2. s \in Services
    BY <1>1 DEF Session
  <2>3. CASE Goto(c, [r EXCEPT !.todo = @ \ {s}], "verify")
    <3> DEFINE n == [r EXCEPT !.todo = @ \ {s}]
    <3>1. /\ n \in Session /\ n.failed = r.failed /\ n.done = r.done
          /\ n.plan = r.plan /\ n.result = r.result
      BY <1>1 DEF Session
    <3>2. r.pc \in PastLoop /\ "verify" \in PastLoop
      BY <1>12 DEF Verify, PastLoop
    <3>3. Goto(c, n, "verify")
      BY <2>3
    <3> HIDE DEF n
    <3> QED
      BY <1>11, <3>1, <3>2, <3>3
  <2>4. CASE Finish(c, r, "crashed")
    BY <1>1, <2>4, FinishBook
  <2>5. CASE Finish(c, [r EXCEPT !.cur = s], "unhealthy")
    <3>1. [r EXCEPT !.cur = s] \in Session
      BY <1>1, <2>2 DEF Session
    <3> QED
      BY <1>1, <2>5, <3>1, FinishBook
  <2> QED
    BY <2>1, <2>3, <2>4, <2>5
<1>13. CASE Verified(c)
  <2>1. /\ r.pc \in PastLoop /\ "record" \in PastLoop
        /\ Goto(c, [r EXCEPT !.todo = r.done], "record")
    BY <1>13 DEF Verified, PastLoop
  <2> DEFINE n == [r EXCEPT !.todo = r.done]
  <2>2. /\ n \in Session /\ n.failed = r.failed /\ n.done = r.done
        /\ n.plan = r.plan /\ n.result = r.result
    BY <1>1 DEF Session
  <2>3. Goto(c, n, "record")
    BY <2>1
  <2> HIDE DEF n
  <2> QED
    BY <1>11, <2>1, <2>2, <2>3
<1>14. CASE ReadHistory(c)
  <2>1. PICK s \in r.todo :
          \/ /\ Readable(s)
             /\ Goto(c, [r EXCEPT !.cur = s, !.todo = @ \ {s},
                                  !.copy = history[s]], "truncate")
          \/ Finish(c, r, "crashed")
    BY <1>14 DEF ReadHistory
  <2> DEFINE n == [r EXCEPT !.cur = s, !.todo = @ \ {s}, !.copy = history[s]]
  <2>2. CASE Readable(s) /\ Goto(c, n, "truncate")
    <3>1. s \in Services
      BY <1>1 DEF Session
    <3>2. history[s] \in Seq(Record)
      BY <2>2, <3>1 DEF Readable, BookInv, TypeInv, StateTypeOK, History
    <3>3. /\ n \in Session /\ n.failed = r.failed /\ n.done = r.done
          /\ n.plan = r.plan /\ n.result = r.result
      BY <1>1, <3>1, <3>2 DEF Session
    <3>4. r.pc \in PastLoop /\ "truncate" \in PastLoop
      BY <1>14 DEF ReadHistory, PastLoop
    <3>5. Goto(c, n, "truncate")
      BY <2>2
    <3> HIDE DEF n
    <3> QED
      BY <1>11, <3>3, <3>4, <3>5
  <2>3. CASE Finish(c, r, "crashed")
    BY <1>1, <2>3, FinishBook
  <2> QED
    BY <2>1, <2>2, <2>3
<1>15. CASE TruncateHistory(c)
  <2>1. r.pc \in PastLoop /\ "write" \in PastLoop /\ Goto(c, r, "write")
    BY <1>15 DEF TruncateHistory, PastLoop
  <2> QED
    BY <1>1, <1>11, <2>1
<1>16. CASE WriteHistory(c)
  <2> DEFINE n == [r EXCEPT !.copy = << >>]
  <2>1. << >> \in Seq(Record)
    OBVIOUS
  <2>2. /\ n \in Session /\ n.failed = r.failed /\ n.done = r.done
        /\ n.plan = r.plan /\ n.result = r.result
    BY <1>1, <2>1 DEF Session
  <2>3. r.pc \in PastLoop /\ "record" \in PastLoop /\ Goto(c, n, "record")
    BY <1>16 DEF WriteHistory, PastLoop
  <2> HIDE DEF n
  <2> QED
    BY <1>11, <2>2, <2>3
<1>17. CASE Recorded(c)
  BY <1>1, <1>17, FinishBook DEF Recorded
<1> QED
  BY <1>3, <1>4, <1>7, <1>8, <1>9, <1>10, <1>12, <1>13, <1>14, <1>15, <1>16,
     <1>17 DEF Progress

(* Beginning is sound, and a session that is lost has no book to keep.     *)
LEMMA BookStep == BookInv /\ [Next]_vars => BookInv'
<1> SUFFICES ASSUME BookInv, [Next]_vars PROVE BookInv'
  OBVIOUS
<1>1. sess \in [Sessions -> SoundSession] /\ TypeInv'
  BY NextTypeInv DEF BookInv, TypeInv
<1>2. ASSUME NEW c \in Sessions, Begin(c) \/ Progress(c) \/ Crash(c)
      PROVE  \A d \in Sessions \ {c} : sess'[d] = sess[d]
  BY <1>1, <1>2, ProgressOthers DEF Begin, Crash, Finish, Goto
<1>3. ASSUME NEW c \in Sessions, Begin(c) PROVE Book(sess'[c])
  <2>1. PICK v \in Versions, plan \in SUBSET Services \ {{}}, force \in BOOLEAN :
          Goto(c, [Idle EXCEPT !.ver = v, !.plan = plan, !.todo = plan,
                               !.force = force], "next")
    BY <1>3 DEF Begin
  <2>2. sess'[c] = [Idle EXCEPT !.ver = v, !.plan = plan, !.todo = plan,
                                !.force = force, !.pc = "next"]
    BY <1>1, <2>1 DEF Goto, Idle
  <2> QED
    BY <2>2 DEF Idle, Book, InLoop, PastLoop
<1>4. ASSUME NEW c \in Sessions, Crash(c) PROVE Book(sess'[c])
  BY <1>1, <1>4, FinishBook DEF Crash, SoundSession
<1>5. ASSUME NEW c \in Sessions, Begin(c) \/ Progress(c) \/ Crash(c)
      PROVE  BookInv'
  BY <1>1, <1>2, <1>3, <1>4, <1>5, ProgressBook DEF BookInv
<1>6. CASE Environment \/ UNCHANGED vars
  BY <1>1, <1>6 DEF Environment, vars, BookInv
<1> QED
  BY <1>5, <1>6 DEF Next

LEMMA AlwaysBook == Spec => []BookInv
BY InitBook, BookStep, PTL DEF Spec

---------------------------------------------------------------------------
(* The two steps that change a history are those of record().              *)
LEMMA ProgressHistory ==
    ASSUME NEW c \in Sessions, Progress(c), ~TruncateHistory(c), ~WriteHistory(c)
    PROVE  UNCHANGED history
BY DEF Progress, CheckActive, CheckPorts, Store, StoreArtifact, Transfer, Move,
       Reload, Start, Remote, Executed, Verify, Verified, ReadHistory, Recorded,
       stateVars

LEMMA HistoryChanges ==
    ASSUME [Next]_vars
    PROVE  \/ UNCHANGED history
           \/ \E c \in Sessions : TruncateHistory(c) \/ WriteHistory(c)
BY ProgressHistory
DEF Next, Begin, Crash, StoreArtifact, Environment, vars, stateVars

(* Each record that is written comes from a session whose whole plan is     *)
(* done.                                                                    *)
LEMMA RecordWriter ==
    ASSUME BookInv, [Next]_vars, NEW s \in Services,
           history'[s] # history[s], history'[s] # Torn
    PROVE  \E c \in Sessions :
               /\ sess[c].pc = "write"
               /\ sess[c].cur = s
               /\ sess[c].done = sess[c].plan
               /\ ~sess[c].failed
<1>1. history \in [Services -> History]
  BY DEF BookInv, TypeInv, StateTypeOK
<1>2. PICK c \in Sessions : TruncateHistory(c) \/ WriteHistory(c)
  BY HistoryChanges
<1>3. WriteHistory(c)
  BY <1>1, <1>2 DEF TruncateHistory, Truncate
<1>4. sess[c].pc = "write" /\ sess[c].cur = s
  BY <1>1, <1>3 DEF WriteHistory, WriteBack
<1> QED
  BY <1>4 DEF BookInv, Book, PastLoop

(* Sessions may overlap and lose each other's records; but each record that *)
(* is written comes from a session that completed its whole plan, none of   *)
(* whose services failed.                                                   *)
THEOREM RecordsFollowSuccessHolds == Spec => RecordsFollowSuccess
<1>1. BookInv /\ [Next]_vars =>
        [\A s \in Services :
            history'[s] # history[s] /\ history'[s] # Torn =>
                \E c \in Sessions :
                    /\ sess[c].pc = "write"
                    /\ sess[c].cur = s
                    /\ sess[c].done = sess[c].plan
                    /\ ~sess[c].failed]_vars
  BY RecordWriter
<1> QED
  BY <1>1, AlwaysBook, PTL DEF Spec, RecordsFollowSuccess

---------------------------------------------------------------------------
(* A session that is writing a history goes on to write it, or crashes and  *)
(* stays where it was.                                                      *)
Blamed(c, s) ==
    /\ sess[c].cur = s
    /\ sess[c].pc = "write" \/ sess[c].result = "crashed"

LEMMA BlameStays ==
    ASSUME BookInv, [Next]_vars, NEW c \in Sessions, NEW s, Blamed(c, s),
           ~WriteHistory(c)
    PROVE  Blamed(c, s)'
<1>1. /\ sess \in [Sessions -> SoundSession] /\ sess[c] \in Session
      /\ sess[c].pc # "ended" => sess[c].result # "crashed"
  BY DEF BookInv, TypeInv, SoundSession, Book
<1>2. sess[c].pc \in {"write", "ended"}
  BY <1>1 DEF Blamed
<1>3. ~Begin(c)
  BY <1>2 DEF Begin
<1>4. ~Progress(c)
  BY <1>2
  DEF Progress, CheckActive, CheckPorts, Store, Transfer, Move, Reload,
      Start, Remote, Executed, Verify, Verified, ReadHistory, TruncateHistory,
      Recorded
<1>5. ASSUME Crash(c) PROVE Blamed(c, s)'
  <2>1. Finish(c, sess[c], "crashed")
    BY <1>5 DEF Crash
  <2>2. sess'[c].cur = sess[c].cur /\ sess'[c].result = "crashed"
    BY <1>1, <2>1, FinishBook
  <2> QED
    BY <2>2 DEF Blamed
<1>6. ASSUME NEW d \in Sessions \ {c}, Begin(d) \/ Progress(d) \/ Crash(d)
      PROVE  sess'[c] = sess[c]
  BY <1>1, <1>6, ProgressOthers DEF Begin, Crash, Finish, Goto
<1>7. CASE Environment \/ UNCHANGED vars
  BY <1>7 DEF Environment, vars, Blamed
<1> QED
  BY <1>3, <1>4, <1>5, <1>6, <1>7 DEF Next, Blamed

(* Writing back makes a history readable, and touches no other.            *)
LEMMA WritingMends ==
    ASSUME BookInv, NEW c \in Sessions, WriteHistory(c), NEW s \in Services
    PROVE  \/ history'[s] = history[s] /\ sess[c].cur # s
           \/ history'[s] # Torn
<1> DEFINE rec == [ver |-> sess[c].ver,
                   status |-> IF sess[c].failed THEN "failed" ELSE "healthy"]
<1>1. /\ history \in [Services -> History]
      /\ sess[c] \in SoundSession
  BY DEF BookInv, TypeInv, StateTypeOK
<1>2. sess[c].ver \in Versions /\ sess[c].copy \in Seq(Record)
  BY <1>1 DEF WriteHistory, SoundSession, Session
<1>3. rec \in Record
  BY <1>2 DEF Record
<1>4. WriteBack(sess[c].cur, sess[c].copy, rec)
  BY DEF WriteHistory
<1> HIDE DEF rec
<1>5. Append(sess[c].copy, rec) \in Seq(Record)
  BY <1>2, <1>3
<1> QED
  BY <1>1, <1>4, <1>5, StateAssumption DEF WriteBack

---------------------------------------------------------------------------
(* CompletedIsLoaded, for sessions that do not overlap.  The invariant      *)
(* follows a service from its transfer on, and knows that what is in place  *)
(* stays there while the session goes on with others.                       *)

(* On node n, s is loaded from the file of version v.                       *)
InPlace(n, s, v) == n.tmp[s] = None /\ n.installed[s] = v /\ n.loaded[s] = v

Delivered(c) ==
    LET r == sess[c]
        mine == Quadlets[r.ver]
    IN  /\ \A s \in mine : generated[s] = r.ver
        /\ \A s \in r.done \cap mine : InPlace(node, s, r.ver)
        /\ r.pc = "mv" /\ r.cur \in mine => node.tmp[r.cur] \in {None, r.ver}
        /\ r.pc = "reload" /\ r.cur \in mine =>
              node.tmp[r.cur] = None /\ node.installed[r.cur] = r.ver
        /\ r.pc = "start" /\ r.cur \in mine => InPlace(node, r.cur, r.ver)

(* What is in place stays there where nothing is taken away.                *)
LEMMA InPlaceStays ==
    ASSUME NEW m, NEW n, NEW s, NEW v, InPlace(n, s, v), Keeps(m, n, s)
    PROVE  InPlace(m, s, v)
BY DEF InPlace, Keeps

(* A step keeps on the node what it has of a service, unless it transfers   *)
(* that service.                                                            *)
LEMMA ProgressKeeps ==
    ASSUME BookInv, NEW c \in Sessions, Progress(c), NEW s \in Services,
           Transfer(c) => s # sess[c].cur
    PROVE  Keeps(node', node, s)
<1>1. /\ NodeTypeOK /\ node \in Node
      /\ sess[c].pc \in AtService => sess[c].cur \in Services
  BY DEF BookInv, TypeInv, NodeTypeOK, SoundSession
<1>2. Keeps(node, node, s)
  BY DEF Keeps
<1>3. ASSUME NEW op \in {"mv", "reload", "start"}, NEW outcome, Remote(c, op, outcome)
      PROVE  Keeps(node', node, s)
  <2>1. [op |-> op, svc |-> sess[c].cur] \in Command
    BY <1>1, <1>3 DEF Remote, AtService, Command
  <2> QED
    BY <1>1, <1>3, <2>1, ExecuteKeeps DEF Remote
<1>4. CASE Move(c) \/ Reload(c) \/ Start(c)
  BY <1>3, <1>4 DEF Move, Reload, Start
<1>5. CASE Transfer(c)
  <2>1. ASSUME NEW t, NEW file, t # s
        PROVE  Keeps(Received(node, t, file), node, s)
    BY <1>1, <2>1 DEF Received, Keeps, Node
  <2> QED
    BY <1>2, <1>5, <2>1 DEF Transfer, Scp
<1>6. ASSUME ~(Transfer(c) \/ Move(c) \/ Reload(c) \/ Start(c))
      PROVE  UNCHANGED node
  BY <1>6
  DEF Progress, CheckActive, CheckPorts, Query, Store, Executed, Verify,
      HealthCheck, Verified, ReadHistory, TruncateHistory, WriteHistory, Recorded,
      nodeVars
<1> QED
  BY <1>2, <1>4, <1>5, <1>6

(* What a step leaves of the locals of its session, by how it goes on.      *)
LEMMA GotoFields ==
    ASSUME sess \in [Sessions -> SoundSession], NEW c \in Sessions,
           NEW r \in Session, NEW pc, Goto(c, r, pc)
    PROVE  /\ sess'[c].pc = pc /\ sess'[c].cur = r.cur
           /\ sess'[c].ver = r.ver /\ sess'[c].done = r.done
BY DEF Goto, Session

LEMMA ErredFields ==
    ASSUME sess \in [Sessions -> SoundSession], NEW c \in Sessions,
           NEW r \in Session, Erred(c, r)
    PROVE  /\ sess'[c].pc = "next"
           /\ sess'[c].ver = r.ver /\ sess'[c].done = r.done
<1> DEFINE n == [r EXCEPT !.failed = TRUE, !.skip = FALSE]
<1>1. n \in Session /\ n.ver = r.ver /\ n.done = r.done /\ Goto(c, n, "next")
  BY DEF Erred, Session
<1> HIDE DEF n
<1> QED
  BY <1>1, GotoFields

LEMMA CompletedFields ==
    ASSUME sess \in [Sessions -> SoundSession], NEW c \in Sessions,
           NEW r \in Session, r.cur \in Services, Completed(c, r)
    PROVE  /\ sess'[c].pc = "next" /\ sess'[c].ver = r.ver
           /\ sess'[c].done = r.done \cup {r.cur}
<1> DEFINE n == [r EXCEPT !.done = @ \cup {r.cur}, !.skip = FALSE]
<1>1. n \in Session /\ n.ver = r.ver /\ n.done = r.done \cup {r.cur}
  BY DEF Session
<1>2. Goto(c, n, "next")
  BY DEF Completed
<1> HIDE DEF n
<1> QED
  BY <1>1, <1>2, GotoFields

LEMMA FinishFields ==
    ASSUME sess \in [Sessions -> SoundSession], NEW c \in Sessions,
           NEW r \in Session, NEW result, Finish(c, r, result)
    PROVE  /\ sess'[c].pc = "ended"
           /\ sess'[c].ver = r.ver /\ sess'[c].done = r.done
<1>1. sess'[c] = [r EXCEPT !.todo = {}, !.skip = FALSE, !.copy = << >>,
                           !.result = result, !.pc = "ended"]
  BY DEF Finish, Goto
<1> QED
  BY <1>1 DEF Session

(* The steps that do not install leave what is done as it is, and lead to   *)
(* no step that installs; and only record() leads to its own steps.         *)
Installing == {"mv", "reload", "start"}

Recording(c, pc) == /\ pc = "record" => Verified(c) \/ WriteHistory(c)
                    /\ pc = "truncate" => ReadHistory(c)
                    /\ pc = "write" => TruncateHistory(c)

LEMMA AsideSteps ==
    ASSUME BookInv, NEW c \in Sessions, Progress(c),
           ~(Transfer(c) \/ Move(c) \/ Reload(c) \/ Start(c))
    PROVE  /\ sess'[c].pc \notin Installing /\ Recording(c, sess'[c].pc)
           /\ sess'[c].ver = sess[c].ver /\ sess'[c].done = sess[c].done
<1> DEFINE r == sess[c]
<1>1. sess \in [Sessions -> SoundSession] /\ r \in Session
  BY DEF BookInv, TypeInv, SoundSession
<1>2. ASSUME NEW n \in Session, n.ver = r.ver, n.done = r.done,
             \/ \E pc : pc \notin Installing /\ Recording(c, pc) /\ Goto(c, n, pc)
             \/ Erred(c, n)
             \/ \E result : Finish(c, n, result)
      PROVE  /\ sess'[c].pc \notin Installing /\ Recording(c, sess'[c].pc)
             /\ sess'[c].ver = r.ver /\ sess'[c].done = r.done
  <2>1. CASE \E pc : pc \notin Installing /\ Recording(c, pc) /\ Goto(c, n, pc)
    BY <1>1, <1>2, <2>1, GotoFields
  <2>2. CASE Erred(c, n)
    BY <1>1, <1>2, <2>2, ErredFields DEF Installing, Recording
  <2>3. CASE \E result : Finish(c, n, result)
    BY <1>1, <1>2, <2>3, FinishFields DEF Installing, Recording
  <2> QED
    BY <1>2, <2>1, <2>2, <2>3
<1>3. CASE CheckActive(c)
  <2>1. PICK s \in r.todo, active \in BOOLEAN :
          LET n == [r EXCEPT !.cur = s, !.todo = @ \ {s}, !.skip = active]
          IN  Goto(c, n, "ports") \/ Erred(c, n)
    BY <1>3 DEF CheckActive
  <2> DEFINE n == [r EXCEPT !.cur = s, !.todo = @ \ {s}, !.skip = active]
  <2>2. n \in Session /\ n.ver = r.ver /\ n.done = r.done
    BY <1>1 DEF Session
  <2>3. Goto(c, n, "ports") \/ Erred(c, n)
    BY <2>1
  <2> HIDE DEF n
  <2> QED
    BY <1>2, <2>2, <2>3 DEF Installing, Recording
<1>4. CASE CheckPorts(c)
  <2>1. PICK listed \in BOOLEAN :
          LET n == [r EXCEPT !.skip = @ \/ listed]
          IN  Goto(c, n, "store") \/ Erred(c, n)
    BY <1>4 DEF CheckPorts
  <2> DEFINE n == [r EXCEPT !.skip = @ \/ listed]
  <2>2. n \in Session /\ n.ver = r.ver /\ n.done = r.done
    BY <1>1 DEF Session
  <2>3. Goto(c, n, "store") \/ Erred(c, n)
    BY <2>1
  <2> HIDE DEF n
  <2> QED
    BY <1>2, <2>2, <2>3 DEF Installing, Recording
<1>5. CASE Store(c)
  BY <1>1, <1>2, <1>5 DEF Store, Installing, Recording
<1>6. CASE Executed(c) \/ Verified(c)
  <2> DEFINE n == [r EXCEPT !.todo = r.done]
  <2>1. n \in Session /\ n.ver = r.ver /\ n.done = r.done
    BY <1>1 DEF Session
  <2>2. \/ Finish(c, r, "failed")
        \/ Goto(c, n, "verify")
        \/ Verified(c) /\ Goto(c, n, "record")
    BY <1>6 DEF Executed, Verified
  <2> HIDE DEF n
  <2> QED
    BY <1>1, <1>2, <2>1, <2>2 DEF Installing, Recording
<1>7. CASE Verify(c)
  <2>1. PICK s \in r.todo :
          \/ Finish(c, r, "crashed")
          \/ Goto(c, [r EXCEPT !.todo = @ \ {s}], "verify")
          \/ Finish(c, [r EXCEPT !.cur = s], "unhealthy")
    BY <1>7 DEF Verify
  <2> DEFINE n == [r EXCEPT !.todo = @ \ {s}]
             m == [r EXCEPT !.cur = s]
  <2>2. /\ n \in Session /\ n.ver = r.ver /\ n.done = r.done
        /\ m \in Session /\ m.ver = r.ver /\ m.done = r.done
    BY <1>1 DEF Session
  <2>3. \/ Finish(c, r, "crashed")
        \/ Goto(c, n, "verify")
        \/ Finish(c, m, "unhealthy")
    BY <2>1
  <2> HIDE DEF n, m
  <2> QED
    BY <1>1, <1>2, <2>2, <2>3 DEF Installing, Recording
<1>8. CASE ReadHistory(c)
  <2>1. PICK s \in r.todo :
          \/ /\ Readable(s)
             /\ Goto(c, [r EXCEPT !.cur = s, !.todo = @ \ {s},
                                  !.copy = history[s]], "truncate")
          \/ Finish(c, r, "crashed")
    BY <1>8 DEF ReadHistory
  <2> DEFINE n == [r EXCEPT !.cur = s, !.todo = @ \ {s}, !.copy = history[s]]
  <2>2. ASSUME Readable(s)
        PROVE  n \in Session /\ n.ver = r.ver /\ n.done = r.done
    <3>1. s \in Services /\ history[s] \in Seq(Record)
      BY <1>1, <2>2
      DEF Session, Readable, BookInv, TypeInv, StateTypeOK, History
    <3> QED
      BY <1>1, <3>1 DEF Session
  <2>3. \/ Readable(s) /\ Goto(c, n, "truncate")
        \/ Finish(c, r, "crashed")
    BY <2>1
  <2> HIDE DEF n
  <2> QED
    BY <1>1, <1>2, <1>8, <2>2, <2>3 DEF Installing, Recording
<1>9. CASE TruncateHistory(c)
  BY <1>1, <1>2, <1>9 DEF TruncateHistory, Installing, Recording
<1>10. CASE WriteHistory(c)
  <2> DEFINE n == [r EXCEPT !.copy = << >>]
  <2>1. << >> \in Seq(Record)
    OBVIOUS
  <2>2. n \in Session /\ n.ver = r.ver /\ n.done = r.done
    BY <1>1, <2>1 DEF Session
  <2>3. Goto(c, n, "record")
    BY <1>10 DEF WriteHistory
  <2> HIDE DEF n
  <2> QED
    BY <1>2, <1>10, <2>2, <2>3 DEF Installing, Recording
<1>11. CASE Recorded(c)
  BY <1>1, <1>2, <1>11 DEF Recorded
<1> QED
  BY <1>3, <1>4, <1>5, <1>6, <1>7, <1>8, <1>9, <1>10, <1>11 DEF Progress

(* How a session comes to each step that installs, how a service comes to   *)
(* be done, and what no step changes.                                       *)
LEMMA InstallAfter ==
    ASSUME BookInv, NEW c \in Sessions, Progress(c)
    PROVE  /\ UNCHANGED generated /\ Recording(c, sess'[c].pc)
           /\ sess'[c].ver = sess[c].ver
           /\ \/ sess'[c].done = sess[c].done
              \/ /\ sess'[c].done = sess[c].done \cup {sess[c].cur}
                 /\ sess[c].cur \in Services
                 /\ \/ sess[c].pc = "reload" /\ node' = Reloaded(node)
                    \/ sess[c].pc = "start" /\ ~Transfer(c)
           /\ sess'[c].pc \in Installing =>
                 sess'[c].cur = sess[c].cur /\ sess'[c].done = sess[c].done
           /\ sess'[c].pc = "mv" =>
                /\ sess[c].pc = "scp"
                /\ node' = Received(node, sess[c].cur, generated[sess[c].cur])
           /\ sess'[c].pc = "reload" =>
                /\ sess[c].pc = "mv"
                /\ node.tmp[sess[c].cur] # None
                /\ node' = Moved(node, sess[c].cur)
           /\ sess'[c].pc = "start" =>
                /\ sess[c].pc = "reload"
                /\ node' = Reloaded(node)
<1>1. /\ sess \in [Sessions -> SoundSession] /\ sess[c] \in Session
      /\ sess[c].pc \in AtService => sess[c].cur \in Services
  BY DEF BookInv, TypeInv, SoundSession
<1>2. UNCHANGED generated
  BY DEF Progress, CheckActive, CheckPorts, Store, Transfer, Move, Reload, Start,
         Remote, Executed, Verify, Verified, ReadHistory, TruncateHistory,
         WriteHistory, Recorded
<1>3. CASE Transfer(c)
  <2>1. \/ Erred(c, sess[c])
        \/ /\ Goto(c, sess[c], "mv") /\ sess[c].pc = "scp"
           /\ node' = Received(node, sess[c].cur, generated[sess[c].cur])
    BY <1>3 DEF Transfer, Scp
  <2> QED
    BY <1>1, <1>2, <2>1, GotoFields, ErredFields DEF Installing, Recording
<1>4. CASE Move(c)
  <2>1. \/ Erred(c, sess[c])
        \/ /\ Goto(c, sess[c], "reload") /\ sess[c].pc = "mv"
           /\ node.tmp[sess[c].cur] # None
           /\ node' = Moved(node, sess[c].cur)
    BY <1>4 DEF Move, Remote, Execute, Accepts, Effect
  <2> QED
    BY <1>1, <1>2, <2>1, GotoFields, ErredFields DEF Installing, Recording
<1>5. CASE Reload(c)
  <2>1. sess[c].pc = "reload" /\ sess[c].cur \in Services
    BY <1>1, <1>5 DEF Reload, Remote, AtService
  <2>2. \/ Erred(c, sess[c])
        \/ /\ Goto(c, sess[c], "start") \/ Completed(c, sess[c])
           /\ node' = Reloaded(node)
    BY <1>5 DEF Reload, Remote, Execute, Effect
  <2>3. CASE Erred(c, sess[c])
    BY <1>1, <1>2, <2>3, ErredFields DEF Installing, Recording
  <2>4. CASE Goto(c, sess[c], "start") /\ node' = Reloaded(node)
    BY <1>1, <1>2, <2>1, <2>4, GotoFields DEF Installing, Recording
  <2>5. CASE Completed(c, sess[c]) /\ node' = Reloaded(node)
    BY <1>1, <1>2, <2>1, <2>5, CompletedFields DEF Installing, Recording
  <2> QED
    BY <2>2, <2>3, <2>4, <2>5
<1>6. CASE Start(c)
  <2>1. sess[c].pc = "start" /\ sess[c].cur \in Services /\ ~Transfer(c)
    BY <1>1, <1>6 DEF Start, Remote, Transfer, AtService
  <2>2. Erred(c, sess[c]) \/ Completed(c, sess[c])
    BY <1>6 DEF Start
  <2> QED
    BY <1>1, <1>2, <2>1, <2>2, ErredFields, CompletedFields DEF Installing, Recording
<1> QED
  BY <1>2, <1>3, <1>4, <1>5, <1>6, AsideSteps DEF Installing, Recording

(* A session of its own delivers as it goes on.                            *)
LEMMA ProgressDelivers ==
    ASSUME BookInv, NEW c \in Sessions, Progress(c), Delivered(c)
    PROVE  Delivered(c)'
<1> DEFINE r == sess[c]
           mine == Quadlets[r.ver]
<1>1. /\ node \in Node /\ r \in Session /\ Book(r)
      /\ r.pc \in AtService => r.cur \in Services
      /\ r.pc # "idle" => r.ver \in Versions
  BY DEF BookInv, TypeInv, NodeTypeOK, SoundSession
<1>2. mine \subseteq Services
  <2>1. r.pc # "idle"
    BY ProgressOthers DEF BookInv, TypeInv, Running, Steps
  <2> QED
    BY <1>1, <2>1, DeployerAssumption
<1>3. UNCHANGED generated /\ sess'[c].ver = r.ver
  BY InstallAfter
<1>4. ASSUME NEW s \in Services, InPlace(node, s, r.ver), ~(Transfer(c) /\ s = r.cur)
      PROVE  InPlace(node', s, r.ver)
  <2>1. Keeps(node', node, s)
    BY <1>4, ProgressKeeps
  <2> QED
    BY <1>4, <2>1, InPlaceStays
<1>5. ASSUME NEW s \in sess'[c].done \cap mine
      PROVE  InPlace(node', s, r.ver)
  <2>1. CASE s \in r.done
    <3>1. ~(Transfer(c) /\ s = r.cur)
      BY <1>1, <2>1 DEF Transfer, Book, InLoop
    <3>2. InPlace(node, s, r.ver)
      BY <1>5, <2>1 DEF Delivered
    <3> QED
      BY <1>2, <1>4, <1>5, <3>1, <3>2
  <2>2. CASE s \notin r.done
    <3>1. /\ s = r.cur
          /\ \/ r.pc = "reload" /\ node' = Reloaded(node)
             \/ r.pc = "start" /\ ~Transfer(c)
      BY <1>5, <2>2, InstallAfter
    <3>2. CASE r.pc = "reload" /\ node' = Reloaded(node)
      <4>1. node.tmp[s] = None /\ node.installed[s] = r.ver
        BY <1>5, <3>1, <3>2 DEF Delivered
      <4> QED
        BY <1>1, <3>2, <4>1 DEF InPlace, Reloaded, Node
    <3>3. CASE r.pc = "start" /\ ~Transfer(c)
      <4>1. InPlace(node, s, r.ver)
        BY <1>5, <3>1, <3>3 DEF Delivered
      <4> QED
        BY <1>2, <1>4, <1>5, <3>3, <4>1
    <3> QED
      BY <3>1, <3>2, <3>3
  <2> QED
    BY <2>1, <2>2
<1>6. ASSUME sess'[c].pc = "mv", sess'[c].cur \in mine
      PROVE  node'.tmp[sess'[c].cur] = r.ver
  <2>1. /\ sess'[c].cur = r.cur /\ r.cur \in Services
        /\ node' = Received(node, r.cur, generated[r.cur])
    BY <1>2, <1>6, InstallAfter DEF Installing
  <2>2. generated[r.cur] = r.ver
    BY <1>6, <2>1 DEF Delivered
  <2> QED
    BY <1>1, <2>1, <2>2 DEF Received, Node
<1>7. ASSUME sess'[c].pc = "reload", sess'[c].cur \in mine
      PROVE  /\ node'.tmp[sess'[c].cur] = None
             /\ node'.installed[sess'[c].cur] = r.ver
  <2>1. /\ sess'[c].cur = r.cur /\ r.cur \in Services /\ r.pc = "mv"
        /\ node.tmp[r.cur] # None
        /\ node' = Moved(node, r.cur)
    BY <1>2, <1>7, InstallAfter DEF Installing
  <2>2. node.tmp[r.cur] = r.ver
    BY <1>7, <2>1 DEF Delivered
  <2> QED
    BY <1>1, <2>1, <2>2 DEF Moved, Node
<1>8. ASSUME sess'[c].pc = "start", sess'[c].cur \in mine
      PROVE  InPlace(node', sess'[c].cur, r.ver)
  <2>1. /\ sess'[c].cur = r.cur /\ r.cur \in Services /\ r.pc = "reload"
        /\ node' = Reloaded(node)
    BY <1>2, <1>8, InstallAfter DEF Installing
  <2>2. node.tmp[r.cur] = None /\ node.installed[r.cur] = r.ver
    BY <1>8, <2>1 DEF Delivered
  <2> QED
    BY <1>1, <2>1, <2>2 DEF InPlace, Reloaded, Node
<1> QED
  BY <1>3, <1>5, <1>6, <1>7, <1>8 DEF Delivered

(* What commands of earlier sessions do late takes nothing from it.        *)
LEMMA LateDelivers ==
    ASSUME BookInv, Environment, NEW c \in Sessions, Running(c), Delivered(c)
    PROVE  Delivered(c)'
<1> DEFINE r == sess[c]
           mine == Quadlets[r.ver]
<1>1. UNCHANGED <<sess, generated>> /\ mine \subseteq Services
  BY DeployerAssumption
  DEF Environment, BookInv, TypeInv, SoundSession, Running, Steps
<1>2. \A s \in mine : Keeps(node', node, s)
  BY <1>1, NodeNextKeeps DEF Environment, BookInv, TypeInv
<1>3. \A s \in mine : InPlace(node, s, r.ver) => InPlace(node', s, r.ver)
  BY <1>2, InPlaceStays
<1>4. r.pc = "mv" /\ r.cur \in mine => node'.tmp[r.cur] \in {None, r.ver}
  BY <1>2 DEF Delivered, Keeps
<1>5. r.pc = "reload" /\ r.cur \in mine =>
        node'.tmp[r.cur] = None /\ node'.installed[r.cur] = r.ver
  BY <1>2 DEF Delivered, Keeps
<1> QED
  BY <1>1, <1>3, <1>4, <1>5 DEF Delivered

(* A session begins with everything to deliver, and the files generated.   *)
LEMMA BeginDelivers ==
    ASSUME BookInv, NEW c \in Sessions, Begin(c)
    PROVE  Delivered(c)'
<1>1. PICK v \in Versions, plan \in SUBSET Services \ {{}}, force \in BOOLEAN :
        /\ Generate(v)
        /\ Goto(c, [Idle EXCEPT !.ver = v, !.plan = plan, !.todo = plan,
                                !.force = force], "next")
  BY DEF Begin
<1>2. sess'[c] = [Idle EXCEPT !.ver = v, !.plan = plan, !.todo = plan,
                              !.force = force, !.pc = "next"]
  BY <1>1 DEF Goto, Idle, BookInv, TypeInv
<1>3. /\ sess'[c].ver = v /\ sess'[c].done = {} /\ sess'[c].pc = "next"
      /\ UNCHANGED node
  BY <1>2 DEF Idle, Begin, nodeVars
<1>4. \A s \in Quadlets[v] : generated'[s] = v
  BY <1>1, DeployerAssumption DEF Generate
<1> QED
  BY <1>3, <1>4 DEF Delivered

DeliveryInv == BookInv /\ WriteAheadInv /\ \A c \in Sessions : Running(c) => Delivered(c)

LEMMA DeliveryStep ==
    ASSUME DeliveryInv, [Next]_vars, Parallel = FALSE, NEW c \in Sessions, Running(c)'
    PROVE  Delivered(c)'
<1>1. /\ BookInv /\ OneAtATime /\ sess \in [Sessions -> SoundSession]
      /\ \A d \in Sessions : Running(d) => Delivered(d)
  BY DEF DeliveryInv, BookInv, TypeInv, WriteAheadInv
<1>2. ~Crash(c)
  <2>1. ASSUME Crash(c) PROVE sess'[c].pc = "ended"
    BY <1>1, <2>1 DEF Crash, Finish, Goto
  <2> QED
    BY <2>1 DEF Running, Steps
<1>3. ASSUME NEW d \in Sessions \ {c} PROVE ~(Begin(d) \/ Progress(d) \/ Crash(d))
  <2>1. ASSUME Begin(d) \/ Progress(d) \/ Crash(d) PROVE sess'[c] = sess[c]
    BY <1>1, <2>1, ProgressOthers DEF Begin, Crash, Finish, Goto
  <2>2. ASSUME Progress(d) \/ Crash(d) PROVE Running(d)
    BY <1>1, <2>2, ProgressOthers DEF Crash
  <2>3. ASSUME Begin(d) PROVE ~Running(c)
    BY <2>3 DEF Begin
  <2> QED
    BY <1>1, <2>1, <2>2, <2>3 DEF Running, OneAtATime
<1>4. CASE Progress(c)
  BY <1>1, <1>4, ProgressOthers, ProgressDelivers
<1>5. CASE Begin(c)
  BY <1>1, <1>5, BeginDelivers
<1>6. CASE Environment
  <2>1. Running(c)
    BY <1>6 DEF Environment, Running
  <2> QED
    BY <1>1, <1>6, <2>1, LateDelivers
<1>7. CASE UNCHANGED vars
  BY <1>1, <1>7 DEF vars, nodeVars, Delivered, Running
<1> QED
  BY <1>2, <1>3, <1>4, <1>5, <1>6, <1>7 DEF Next

LEMMA AlwaysDelivery == Parallel = FALSE => (Spec => []DeliveryInv)
<1> SUFFICES ASSUME Parallel = FALSE PROVE Spec => []DeliveryInv
  OBVIOUS
<1> DEFINE Deliveries == \A c \in Sessions : Running(c) => Delivered(c)
<1>1. Init => Deliveries
  BY DEF Init, Idle, Running, Steps
<1>2. DeliveryInv <=> BookInv /\ WriteAheadInv /\ Deliveries
  BY DEF DeliveryInv
<1>3. BookInv /\ WriteAheadInv /\ Deliveries /\ [Next]_vars => Deliveries'
  BY DeliveryStep DEF DeliveryInv
<1> HIDE DEF Deliveries
<1>4. Spec => []WriteAheadInv
  BY AlwaysWriteAhead
<1> QED
  BY <1>1, <1>2, <1>3, <1>4, AlwaysBook, PTL DEF Spec

(* When sessions do not overlap, every service that a running session has   *)
(* in its actions_completed is loaded from its topology's file, whichever   *)
(* commands of earlier sessions take effect late.                           *)
THEOREM CompletedIsLoadedHolds == Parallel = FALSE => (Spec => []CompletedIsLoaded)
<1>1. DeliveryInv => CompletedIsLoaded
  BY DEF DeliveryInv, CompletedIsLoaded, Delivered, InPlace
<1> QED
  BY <1>1, AlwaysDelivery, PTL

(* And a record is only written by a session whose whole plan succeeded,    *)
(* and whose every service is loaded from the topology the record is about. *)
THEOREM RecordsAreEarnedHolds == Parallel = FALSE => (Spec => RecordsAreEarned)
<1> SUFFICES ASSUME Parallel = FALSE PROVE Spec => RecordsAreEarned
  OBVIOUS
<1>1. ASSUME DeliveryInv, [Next]_vars, NEW s \in Services,
             history'[s] # history[s], history'[s] # Torn
      PROVE  RecordEarned(s)
  <2>1. PICK c \in Sessions :
          /\ sess[c].pc = "write" /\ sess[c].cur = s
          /\ sess[c].done = sess[c].plan /\ ~sess[c].failed
    BY <1>1, RecordWriter DEF DeliveryInv
  <2>2. \A t \in sess[c].plan \cap Quadlets[sess[c].ver] : node.loaded[t] = sess[c].ver
    BY <1>1, <2>1 DEF DeliveryInv, Delivered, InPlace, Running, Steps
  <2> QED
    BY <2>1, <2>2 DEF RecordEarned
<1>2. DeliveryInv /\ [Next]_vars =>
        [\A s \in Services :
            history'[s] # history[s] /\ history'[s] # Torn => RecordEarned(s)]_vars
  BY <1>1
<1>3. Spec => []DeliveryInv
  BY AlwaysDelivery
<1> QED
  BY <1>2, <1>3, PTL DEF Spec, RecordsAreEarned

---------------------------------------------------------------------------
(* UnreadableHasCause, however many sessions read and rewrite the histories *)
(* at once.  Two sessions between truncating and writing one file are noted *)
(* in `clashed` by the second of them; and a session that is still to write *)
(* finds the file as it left it, empty, unless another was there with it.   *)
Writing(c, s) == sess[c].pc = "write" /\ sess[c].cur = s

ClashInv ==
    /\ \A c, d \in Sessions, s \in Services :
           c # d /\ Writing(c, s) /\ Writing(d, s) => s \in clashed
    /\ \A c \in Sessions, s \in Services :
           Writing(c, s) /\ history[s] # Torn => s \in clashed
    /\ \A s \in Services : history[s] = Garbled => s \in clashed

(* Only truncating a file makes a session one that is to write it.          *)
LEMMA WritingBegins ==
    ASSUME BookInv, [Next]_vars, NEW c \in Sessions, NEW s,
           Writing(c, s)', ~Writing(c, s)
    PROVE  TruncateHistory(c) /\ sess[c].cur = s
<1>1. sess \in [Sessions -> SoundSession] /\ sess[c] \in Session
  BY DEF BookInv, TypeInv, SoundSession
<1>2. ~Begin(c)
  BY <1>1 DEF Begin, Goto, Idle, Writing
<1>3. ~Crash(c)
  BY <1>1, FinishFields DEF Crash, Writing
<1>4. ASSUME NEW d \in Sessions \ {c}, Begin(d) \/ Progress(d) \/ Crash(d)
      PROVE  sess'[c] = sess[c]
  BY <1>1, <1>4, ProgressOthers DEF Begin, Crash, Finish, Goto
<1>5. Progress(c)
  BY <1>2, <1>3, <1>4 DEF Next, Environment, vars, Writing
<1>6. TruncateHistory(c)
  BY <1>5, InstallAfter DEF Recording, Writing
<1>7. sess'[c].cur = sess[c].cur
  BY <1>1, <1>6, GotoFields DEF TruncateHistory
<1> QED
  BY <1>6, <1>7 DEF Writing

(* A clash is never forgotten.                                              *)
LEMMA ClashedGrows == ASSUME [Next]_vars PROVE clashed \subseteq clashed'
BY DEF Next, Begin, Progress, CheckActive, CheckPorts, Store, StoreArtifact,
       Transfer, Move, Reload, Start, Remote, Executed, Verify, Verified,
       ReadHistory, TruncateHistory, Truncate, WriteHistory, WriteBack, Recorded,
       Crash, Environment, vars, stateVars

(* A session that has truncated a file beside another's is the clash.       *)
LEMMA TruncatingClashes ==
    ASSUME NEW c \in Sessions, TruncateHistory(c), NEW d \in Sessions \ {c},
           Writing(d, sess[c].cur)
    PROVE  sess[c].cur \in clashed'
BY DEF TruncateHistory, Truncate, Writing

LEMMA ClashStep ==
    ASSUME BookInv, BookInv', ClashInv, [Next]_vars
    PROVE  ClashInv'
<1>1. /\ history \in [Services -> History] /\ history' \in [Services -> History]
      /\ sess \in [Sessions -> SoundSession]
  BY DEF BookInv, TypeInv, StateTypeOK
<1>2. clashed \subseteq clashed'
  BY ClashedGrows
<1>3. ASSUME NEW c \in Sessions, NEW d \in Sessions, NEW s \in Services, c # d,
             Writing(c, s)', Writing(d, s)'
      PROVE  s \in clashed'
  <2>1. CASE Writing(c, s) /\ Writing(d, s)
    BY <1>2, <1>3, <2>1 DEF ClashInv
  <2>2. ASSUME ~Writing(c, s)
        PROVE  s \in clashed'
    <3>1. TruncateHistory(c) /\ sess[c].cur = s /\ sess[c].pc = "truncate"
      BY <1>3, <2>2, WritingBegins DEF TruncateHistory
    <3>2. sess'[d] = sess[d]
      BY <1>1, <1>3, <3>1 DEF TruncateHistory, Goto
    <3> QED
      BY <1>3, <3>1, <3>2, TruncatingClashes DEF Writing
  <2>3. ASSUME ~Writing(d, s)
        PROVE  s \in clashed'
    <3>1. TruncateHistory(d) /\ sess[d].cur = s /\ sess[d].pc = "truncate"
      BY <1>3, <2>3, WritingBegins DEF TruncateHistory
    <3>2. sess'[c] = sess[c]
      BY <1>1, <1>3, <3>1 DEF TruncateHistory, Goto
    <3> QED
      BY <1>3, <3>1, <3>2, TruncatingClashes DEF Writing
  <2> QED
    BY <2>1, <2>2, <2>3
<1>4. ASSUME NEW c \in Sessions, NEW s \in Services, Writing(c, s)', history'[s] # Torn
      PROVE  s \in clashed'
  <2>1. ASSUME ~Writing(c, s)
        PROVE  FALSE
    <3>1. TruncateHistory(c) /\ sess[c].cur = s
      BY <1>4, <2>1, WritingBegins
    <3> QED
      BY <1>1, <1>4, <3>1 DEF TruncateHistory, Truncate
  <2>2. CASE Writing(c, s) /\ history[s] # Torn
    BY <1>2, <2>2 DEF ClashInv
  <2>3. CASE Writing(c, s) /\ history[s] = Torn
    <3>1. PICK d \in Sessions : WriteHistory(d)
      BY <1>1, <1>4, <2>3, HistoryChanges DEF TruncateHistory, Truncate
    <3>2. Writing(d, s)
      BY <1>1, <1>4, <2>3, <3>1 DEF WriteHistory, WriteBack, Writing
    <3>3. d # c
      BY <1>1, <1>4, <3>1, GotoFields DEF WriteHistory, Goto, SoundSession, Session, Writing
    <3> QED
      BY <1>2, <2>3, <3>2, <3>3 DEF ClashInv
  <2> QED
    BY <2>1, <2>2, <2>3
<1>5. ASSUME NEW s \in Services, history'[s] = Garbled
      PROVE  s \in clashed'
  <2>1. CASE history[s] = Garbled
    BY <1>2, <1>5, <2>1 DEF ClashInv
  <2>2. CASE history[s] # Garbled
    <3>1. PICK d \in Sessions : WriteHistory(d)
      BY <1>1, <1>5, <2>2, HistoryChanges, StateAssumption
      DEF TruncateHistory, Truncate
    <3> DEFINE rec == [ver |-> sess[d].ver,
                       status |-> IF sess[d].failed THEN "failed" ELSE "healthy"]
    <3>2. WriteBack(sess[d].cur, sess[d].copy, rec) /\ sess[d].pc = "write"
      BY <3>1 DEF WriteHistory
    <3>3. sess[d].copy \in Seq(Record) /\ rec \in Record
      BY <1>1, <3>2 DEF SoundSession, Session, Record
    <3> HIDE DEF rec
    <3>4. Append(sess[d].copy, rec) \in Seq(Record)
      BY <3>3
    <3>5. sess[d].cur = s /\ Leaves(Append(sess[d].copy, rec), history[s])
      BY <1>1, <1>5, <2>2, <3>2, <3>4, StateAssumption DEF WriteBack
    <3>6. history[s] # Torn
      BY <3>5, StateAssumption DEF Leaves
    <3> QED
      BY <1>2, <3>2, <3>5, <3>6 DEF ClashInv, Writing
  <2> QED
    BY <2>1, <2>2
<1> QED
  BY <1>3, <1>4, <1>5 DEF ClashInv

(* An unreadable history is empty, between the truncation of a session that *)
(* is still to write or was killed before it did; or two sessions have been *)
(* there at once.  No other overlap, crash or failure makes one unreadable. *)
THEOREM UnreadableHasCauseHolds == Spec => []UnreadableHasCause
<1> DEFINE TornHasCause == \A s \in Services : history[s] = Torn =>
                               \E c \in Sessions : Blamed(c, s)
<1>1. Init => TornHasCause /\ ClashInv
  <2>1. << >> \in Seq(Record)
    OBVIOUS
  <2>2. ASSUME Init
        PROVE  /\ \A s \in Services : history[s] \notin {Torn, Garbled}
               /\ \A c \in Sessions : sess[c].pc = "idle"
    BY <2>1, <2>2, StateAssumption DEF Init, Idle, StateInit
  <2> QED
    BY <2>2 DEF ClashInv, Writing
<1>2. ASSUME BookInv, TornHasCause, [Next]_vars,
             NEW s \in Services, history'[s] = Torn
      PROVE  \E c \in Sessions : Blamed(c, s)'
  <2>1. CASE history[s] = Torn
    <3>1. PICK c \in Sessions : Blamed(c, s)
      BY <1>2, <2>1
    <3>2. ~WriteHistory(c)
      BY <1>2, <3>1, WritingMends DEF Blamed
    <3> QED
      BY <1>2, <3>1, <3>2, BlameStays
  <2>2. CASE history[s] # Torn
    <3>1. PICK c \in Sessions : TruncateHistory(c)
      BY <1>2, <2>2, HistoryChanges, WritingMends
    <3>2. /\ sess \in [Sessions -> SoundSession] /\ sess[c] \in Session
          /\ history \in [Services -> History]
      BY <1>2 DEF BookInv, TypeInv, SoundSession, StateTypeOK
    <3>3. sess[c].cur = s
      BY <1>2, <2>2, <3>1, <3>2 DEF TruncateHistory, Truncate
    <3>4. sess'[c] = [sess[c] EXCEPT !.pc = "write"]
      BY <3>1, <3>2, GotoBook DEF TruncateHistory
    <3>5. Blamed(c, s)'
      BY <3>2, <3>3, <3>4 DEF Blamed, Session
    <3> QED
      BY <3>5
  <2> QED
    BY <2>1, <2>2
<1>3. BookInv /\ TornHasCause /\ [Next]_vars => TornHasCause'
  BY <1>2 DEF Blamed
<1>4. BookInv /\ BookInv' /\ ClashInv /\ [Next]_vars => ClashInv'
  BY ClashStep
<1>5. TornHasCause /\ ClashInv => UnreadableHasCause
  BY DEF UnreadableHasCause, ClashInv, Blamed
<1> QED
  BY <1>1, <1>3, <1>4, <1>5, AlwaysBook, PTL DEF Spec

---------------------------------------------------------------------------
(* HistoryIsLog, for sessions that do not overlap.  Between reading and     *)
(* truncating a history a session's copy is what the file holds; until it   *)
(* is written back, the file is torn and the copy stands for it.  No file   *)
(* is ever garbled.                                                         *)
Histories == [Services -> Seq(Record) \cup {Torn}]

CopyInv ==
    /\ \A c \in Sessions :
           /\ sess[c].pc = "truncate" => history[sess[c].cur] = sess[c].copy
           /\ sess[c].pc = "write" => history[sess[c].cur] = Torn
    /\ history \in Histories

(* The log that histories h and sessions f stand for.                       *)
LogOf(h, f) ==
    [s \in Services |->
        IF h[s] # Torn THEN h[s]
        ELSE IF \E c \in Sessions : f[c].pc = "write" /\ f[c].cur = s
             THEN f[CHOOSE c \in Sessions : f[c].pc = "write" /\ f[c].cur = s].copy
             ELSE Torn]

(* While nobody writes, it is what the files hold.                         *)
LEMMA LogAtRest ==
    ASSUME NEW h \in Histories, NEW f, \A c \in Sessions : f[c].pc # "write"
    PROVE  LogOf(h, f) = h
BY DEF LogOf, Histories

(* While one session writes, its copy stands for the file.                 *)
LEMMA LogInWrite ==
    ASSUME NEW h \in Histories, NEW f, NEW c \in Sessions, f[c].pc = "write",
           f[c].cur \in Services, h[f[c].cur] = Torn,
           \A d \in Sessions : f[d].pc = "write" => d = c
    PROVE  LogOf(h, f) = [h EXCEPT ![f[c].cur] = f[c].copy]
<1>1. (CHOOSE d \in Sessions : f[d].pc = "write" /\ f[d].cur = f[c].cur) = c
  OBVIOUS
<1>2. \A s \in Services : LogOf(h, f)[s] = [h EXCEPT ![f[c].cur] = f[c].copy][s]
  BY <1>1 DEF LogOf, Histories
<1>3. DOMAIN LogOf(h, f) = Services /\ DOMAIN h = Services
  BY DEF LogOf, Histories
<1> QED
  BY <1>2, <1>3 DEF LogOf, Histories

LogInv == BookInv /\ WriteAheadInv /\ CopyInv

(* What a step of one session leaves of the others, when none overlaps it. *)
LEMMA Alone ==
    ASSUME LogInv, Parallel = FALSE, NEW c \in Sessions,
           Begin(c) \/ Progress(c) \/ Crash(c)
    PROVE  \A d \in Sessions \ {c} : ~Running(d) /\ sess'[d] = sess[d]
<1>1. sess \in [Sessions -> SoundSession] /\ OneAtATime
  BY DEF LogInv, BookInv, TypeInv, WriteAheadInv
<1>2. CASE Begin(c)
  BY <1>1, <1>2 DEF Begin, Goto
<1>3. CASE Progress(c) \/ Crash(c)
  BY <1>1, <1>3, ProgressOthers DEF Crash, Finish, Goto, OneAtATime
<1> QED
  BY <1>2, <1>3

(* A session that finds the file empty writes it as a whole.                *)
LEMMA MendsWhole ==
    ASSUME LogInv, NEW c \in Sessions, WriteHistory(c)
    PROVE  /\ history' \in Histories
           /\ history' = [history EXCEPT ![sess[c].cur] =
                            Append(sess[c].copy,
                                   [ver |-> sess[c].ver,
                                    status |-> IF sess[c].failed THEN "failed"
                                               ELSE "healthy"])]
<1> DEFINE rec == [ver |-> sess[c].ver,
                   status |-> IF sess[c].failed THEN "failed" ELSE "healthy"]
<1>1. /\ WriteBack(sess[c].cur, sess[c].copy, rec)
      /\ sess[c].pc = "write" /\ sess[c] \in SoundSession
  BY DEF WriteHistory, LogInv, BookInv, TypeInv
<1>2. /\ history \in Histories /\ history[sess[c].cur] = Torn
      /\ sess[c].copy \in Seq(Record) /\ rec \in Record
  BY <1>1 DEF LogInv, CopyInv, SoundSession, Session, Record
<1>3. ~Leaves(Append(sess[c].copy, rec), Torn)
  BY StateAssumption DEF Leaves
<1>4. history' = [history EXCEPT ![sess[c].cur] = Append(sess[c].copy, rec)]
  BY <1>1, <1>2, <1>3 DEF WriteBack
<1> HIDE DEF rec
<1>5. Append(sess[c].copy, rec) \in Seq(Record)
  BY <1>2
<1>6. history' \in Histories
  BY <1>2, <1>4, <1>5 DEF Histories
<1> QED
  BY <1>4, <1>6 DEF rec

LEMMA WritesWhole ==
    ASSUME LogInv, [Next]_vars
    PROVE  history' \in Histories
<1>1. history \in Histories
  BY DEF LogInv, CopyInv
<1>2. ASSUME NEW c \in Sessions, TruncateHistory(c)
      PROVE  history' \in Histories
  BY <1>1, <1>2 DEF TruncateHistory, Truncate, Histories
<1> QED
  BY <1>1, <1>2, HistoryChanges, MendsWhole

(* The copy is taken from the file, and the file torn by its own session.  *)
LEMMA CopyStep ==
    ASSUME LogInv, [Next]_vars, Parallel = FALSE
    PROVE  CopyInv'
<1>1. /\ sess \in [Sessions -> SoundSession] /\ BookInv
      /\ history \in Histories
  BY DEF LogInv, BookInv, TypeInv, CopyInv
<1>2. ASSUME NEW c \in Sessions, Begin(c) \/ Progress(c) \/ Crash(c),
             /\ sess'[c].pc = "truncate" => history'[sess'[c].cur] = sess'[c].copy
             /\ sess'[c].pc = "write" => history'[sess'[c].cur] = Torn
      PROVE  CopyInv'
  <2>1. \A d \in Sessions \ {c} : sess'[d].pc \notin {"truncate", "write"}
    BY <1>2, Alone DEF Running, Steps
  <2>2. history' \in Histories
    BY WritesWhole
  <2> QED
    BY <1>2, <2>1, <2>2 DEF CopyInv
<1>3. ASSUME NEW c \in Sessions, Begin(c) PROVE sess'[c].pc = "next"
  BY <1>1, <1>3 DEF Begin, Goto, Idle
<1>4. ASSUME NEW c \in Sessions, Crash(c) PROVE sess'[c].pc = "ended"
  BY <1>1, <1>4 DEF Crash, Finish, Goto
<1>5. ASSUME NEW c \in Sessions, Progress(c)
      PROVE  /\ sess'[c].pc = "truncate" => history'[sess'[c].cur] = sess'[c].copy
             /\ sess'[c].pc = "write" => history'[sess'[c].cur] = Torn
  <2>1. Recording(c, sess'[c].pc) /\ sess[c] \in Session
    BY <1>1, <1>5, InstallAfter DEF SoundSession
  <2>2. ASSUME sess'[c].pc = "truncate"
        PROVE  history'[sess'[c].cur] = sess'[c].copy
    <3>1. ReadHistory(c)
      BY <2>1, <2>2 DEF Recording
    <3>2. PICK s \in sess[c].todo :
            \/ /\ Readable(s)
               /\ Goto(c, [sess[c] EXCEPT !.cur = s, !.todo = @ \ {s},
                                          !.copy = history[s]], "truncate")
            \/ Finish(c, sess[c], "crashed")
      BY <3>1 DEF ReadHistory
    <3>3. UNCHANGED history /\ ~Finish(c, sess[c], "crashed")
      BY <1>1, <2>1, <2>2, <3>1, FinishFields DEF ReadHistory, stateVars
    <3>4. sess'[c] = [sess[c] EXCEPT !.cur = s, !.todo = @ \ {s},
                                     !.copy = history[s], !.pc = "truncate"]
      BY <1>1, <3>2, <3>3 DEF Goto
    <3> QED
      BY <2>1, <3>3, <3>4 DEF Session
  <2>3. ASSUME sess'[c].pc = "write"
        PROVE  history'[sess'[c].cur] = Torn
    <3>1. TruncateHistory(c)
      BY <2>1, <2>3 DEF Recording
    <3>2. sess'[c].cur = sess[c].cur /\ sess[c].cur \in Services
      BY <1>1, <2>1, <3>1, GotoFields DEF TruncateHistory, SoundSession, AtService
    <3> QED
      BY <1>1, <3>1, <3>2 DEF TruncateHistory, Truncate, Histories
  <2> QED
    BY <2>2, <2>3
<1>6. CASE Environment \/ UNCHANGED vars
  BY <1>6 DEF Environment, vars, stateVars, LogInv, CopyInv
<1> QED
  BY <1>2, <1>3, <1>4, <1>5, <1>6 DEF Next

(* Each step adds one record to the log, loses the one under write, or      *)
(* leaves the log as it is.                                                 *)
LEMMA LogStep ==
    ASSUME LogInv, LogInv', [Next]_vars, Parallel = FALSE
    PROVE  AbstractLog!Next \/ UNCHANGED Log
<1>1. /\ sess \in [Sessions -> SoundSession] /\ BookInv
      /\ history \in Histories /\ history' \in Histories
  BY DEF LogInv, BookInv, TypeInv, CopyInv
<1>0. Log = LogOf(history, sess) /\ Log' = LogOf(history', sess')
  <2>1. ASSUME NEW h \in Histories, NEW s \in Services
        PROVE  h[s] \notin {Torn, Garbled} <=> h[s] # Torn
    BY <2>1, StateAssumption DEF Histories
  <2>2. /\ \A s \in Services : Readable(s) <=> history[s] # Torn
        /\ \A s \in Services : Readable(s)' <=> history'[s] # Torn
    BY <1>1, <2>1 DEF Readable
  <2> QED
    BY <2>2 DEF Log, LogOf
<1>2. ASSUME NEW c \in Sessions, Begin(c) \/ Progress(c) \/ Crash(c)
      PROVE  AbstractLog!Next \/ UNCHANGED Log
  <2> DEFINE r == sess[c]
             s == r.cur
  <2>1. \A d \in Sessions \ {c} : sess[d].pc # "write" /\ sess'[d].pc # "write"
    BY <1>2, Alone DEF Running, Steps
  <2>2. ASSUME r.pc = "write"
        PROVE  /\ s \in Services /\ history[s] = Torn
               /\ r.copy \in Seq(Record) /\ r.ver \in Versions
               /\ Log = [history EXCEPT ![s] = r.copy]
    <3>1. s \in Services /\ history[s] = Torn /\ r.copy \in Seq(Record) /\ r.ver \in Versions
      BY <1>1, <2>2 DEF LogInv, CopyInv, SoundSession, Session, AtService
    <3> QED
      BY <1>1, <1>0, <2>1, <2>2, <3>1, LogInWrite
  <2>3. CASE WriteHistory(c)
    <3> DEFINE rec == [ver |-> r.ver,
                       status |-> IF r.failed THEN "failed" ELSE "healthy"]
    <3>1. r.pc = "write"
      BY <2>3 DEF WriteHistory
    <3>2. rec \in Record
      BY <2>2, <3>1 DEF Record
    <3>3. WriteBack(s, r.copy, rec) /\ sess'[c].pc = "record"
      BY <1>1, <2>3 DEF WriteHistory, Goto, SoundSession, Session
    <3>4. Log' = history'
      BY <1>1, <1>0, <2>1, <3>3, LogAtRest
    <3>5. history' = [history EXCEPT ![s] = Append(r.copy, rec)]
      BY <2>3, MendsWhole
    <3> HIDE DEF rec
    <3>6. Log[s] = r.copy /\ Log[s] # Torn
      BY <1>1, <2>2, <3>1, StateAssumption DEF Histories
    <3>7. Log' = [Log EXCEPT ![s] = Append(Log[s], rec)]
      BY <1>1, <2>2, <3>1, <3>4, <3>5, <3>6 DEF Histories
    <3>8. AbstractLog!AddRecord(s, rec)
      BY <3>6, <3>7 DEF AbstractLog!AddRecord
    <3> QED
      BY <2>2, <3>1, <3>2, <3>8 DEF AbstractLog!Next
  <2>4. CASE TruncateHistory(c)
    <3>1. r.pc = "truncate" /\ r \in Session /\ s \in Services /\ history[s] = r.copy
      BY <1>1, <2>4
      DEF TruncateHistory, LogInv, CopyInv, SoundSession, AtService
    <3>2. Log = history
      BY <1>1, <1>0, <2>1, <3>1, LogAtRest
    <3>3. sess'[c] = [r EXCEPT !.pc = "write"]
      BY <1>1, <2>4 DEF TruncateHistory, Goto
    <3>4. /\ sess'[c].pc = "write" /\ sess'[c].cur = s /\ sess'[c].copy = r.copy
      BY <3>1, <3>3 DEF Session
    <3>5. history' = [history EXCEPT ![s] = Torn]
      BY <2>4 DEF TruncateHistory, Truncate
    <3>6. history'[s] = Torn
      BY <1>1, <3>1, <3>5 DEF Histories
    <3>7. Log' = [history' EXCEPT ![s] = r.copy]
      BY <1>1, <1>0, <2>1, <3>1, <3>4, <3>6, LogInWrite
    <3>8. Log' = history
      BY <1>1, <3>1, <3>5, <3>7 DEF Histories
    <3> QED
      BY <3>2, <3>8
  <2>5. CASE Crash(c) /\ r.pc = "write"
    <3>1. UNCHANGED history /\ sess'[c].pc = "ended"
      BY <1>1, <2>5 DEF Crash, Finish, Goto, stateVars
    <3>2. Log' = history
      BY <1>1, <1>0, <2>1, <3>1, LogAtRest
    <3>3. Log' = [Log EXCEPT ![s] = Torn]
      BY <1>1, <2>2, <2>5, <3>2 DEF Histories
    <3> QED
      BY <2>2, <2>5, <3>3 DEF AbstractLog!Next, AbstractLog!Lose
  <2>6. ASSUME ~WriteHistory(c), ~TruncateHistory(c), ~(Crash(c) /\ r.pc = "write")
        PROVE  UNCHANGED Log
    <3>1. CASE Progress(c)
      <4>1. r.pc # "write"
        BY <2>6, <3>1
        DEF Progress, CheckActive, CheckPorts, Store, Transfer, Move, Reload,
            Start, Remote, Executed, Verify, Verified, ReadHistory, Recorded
      <4>2. sess'[c].pc # "write"
        BY <1>1, <2>6, <3>1, InstallAfter DEF Recording
      <4>3. UNCHANGED history
        BY <2>6, <3>1, ProgressHistory
      <4> QED
        BY <1>1, <1>0, <2>1, <4>1, <4>2, <4>3, LogAtRest
    <3>2. CASE Begin(c)
      <4>1. r.pc # "write" /\ sess'[c].pc = "next" /\ UNCHANGED history
        BY <1>1, <3>2 DEF Begin, Goto, Idle, stateVars
      <4> QED
        BY <1>1, <1>0, <2>1, <4>1, LogAtRest
    <3>3. CASE Crash(c)
      <4>1. r.pc # "write" /\ sess'[c].pc = "ended" /\ UNCHANGED history
        BY <1>1, <2>6, <3>3 DEF Crash, Finish, Goto, StoreArtifact, stateVars
      <4> QED
        BY <1>1, <1>0, <2>1, <4>1, LogAtRest
    <3> QED
      BY <1>2, <3>1, <3>2, <3>3
  <2> QED
    BY <2>3, <2>4, <2>5, <2>6
<1>3. CASE Environment \/ UNCHANGED vars
  BY <1>3 DEF Environment, vars, stateVars, Log, Readable
<1> QED
  BY <1>2, <1>3 DEF Next

(* record() implements the append-only log when sessions do not overlap: a  *)
(* log only grows, by one record at a time, until a crash in the middle of  *)
(* writing it loses it as a whole; and nothing is ever added to a lost one. *)
THEOREM HistoryIsLogHolds == Parallel = FALSE => (Spec => HistoryIsLog)
<1> SUFFICES ASSUME Parallel = FALSE PROVE Spec => HistoryIsLog
  OBVIOUS
<1>1. Init => CopyInv /\ AbstractLog!Init
  <2> SUFFICES ASSUME Init PROVE CopyInv /\ AbstractLog!Init
    OBVIOUS
  <2>1. \A c \in Sessions : sess[c].pc = "idle"
    BY DEF Init, Idle
  <2>2. << >> \in Seq(Record)
    OBVIOUS
  <2>3. \A s \in Services : history[s] = << >> /\ Readable(s)
    BY <2>2, StateAssumption DEF Init, StateInit, Readable
  <2>4. history \in Histories
    BY <2>2 DEF Init, StateInit, Histories
  <2> QED
    BY <2>1, <2>3, <2>4 DEF CopyInv, AbstractLog!Init, Log, Readable
<1>2. LogInv <=> BookInv /\ WriteAheadInv /\ CopyInv
  BY DEF LogInv
<1>3. LogInv /\ [Next]_vars => CopyInv'
  BY CopyStep
<1>4. Spec => []WriteAheadInv
  BY AlwaysWriteAhead
<1>5. LogInv /\ LogInv' /\ [Next]_vars => [AbstractLog!Next]_Log
  BY LogStep
<1> QED
  BY <1>1, <1>2, <1>3, <1>4, <1>5, AlwaysBook, PTL
  DEF Spec, HistoryIsLog, AbstractLog!Spec

---------------------------------------------------------------------------
(* Rollbacks among the sessions.                                           *)

(* A rollback under way knows its service.                                 *)
SoundRollback == {q \in Rollback : q.pc \in RollbackSteps => q.svc \in Services}

SystemTypeInv == TypeInv /\ rb \in [Rollbacks -> SoundRollback]

(* A nonempty set of naturals has a least element: its initial segments are *)
(* finite, and the proper subsets of a finite set are well-founded.         *)
LEMMA LeastNatural ==
    ASSUME NEW S \in SUBSET Nat, S # {}
    PROVE  \E m \in S : \A n \in S : m <= n
<1> DEFINE Upto(k) == S \cap (0..k)
           T == {U \in SUBSET S : \E k \in S : U = Upto(k)}
<1>1. T \subseteq FiniteSubsetsOf(S) /\ T # {}
  <2>1. ASSUME NEW k \in S PROVE IsFiniteSet(Upto(k))
    BY FS_Interval, FS_Intersection, 0 \in Int, k \in Int
  <2> QED
    BY <2>1 DEF FiniteSubsetsOf
<1>2. PICK U \in T : \A V \in T : <<V, U>> \notin StrictSubsetOrdering(S)
  BY <1>1, FS_StrictSubsetOrderingWellFounded, WFMin
<1>3. PICK m \in S : U = Upto(m)
  OBVIOUS
<1>4. ASSUME NEW n \in S, n < m PROVE FALSE
  <2>1. Upto(n) \subseteq U /\ m \in U /\ m \notin Upto(n)
    BY <1>3, <1>4
  <2>2. Upto(n) \in T
    OBVIOUS
  <2> QED
    BY <1>2, <2>1, <2>2 DEF StrictSubsetOrdering
<1> QED
  BY <1>4

(* And one that is bounded has a greatest: its least bound.                 *)
LEMMA GreatestNatural ==
    ASSUME NEW S \in SUBSET Nat, S # {}, NEW b \in Nat, \A n \in S : n <= b
    PROVE  \E m \in S : \A n \in S : n <= m
<1> DEFINE U == {u \in Nat : \A n \in S : n <= u}
<1>1. b \in U /\ U \subseteq Nat
  OBVIOUS
<1> HIDE DEF U
<1>2. PICK m \in U : \A n \in U : m <= n
  BY <1>1, LeastNatural
<1>3. m \in Nat /\ \A n \in S : n <= m
  BY DEF U
<1>4. ASSUME m \notin S PROVE FALSE
  <2>1. ASSUME NEW n \in S PROVE n \in Nat /\ n <= m - 1
    <3>1. n \in Nat /\ n # m /\ n <= m
      BY <1>3, <1>4
    <3> QED
      BY <1>3, <3>1
  <2>2. m - 1 \in Nat
    <3>1. PICK n \in S : TRUE
      OBVIOUS
    <3> QED
      BY <1>3, <2>1, <3>1
  <2>3. m - 1 \in U
    BY <2>1, <2>2 DEF U
  <2> QED
    BY <2>3, <1>2, <1>3
<1> QED
  BY <1>3, <1>4

(* get_previous_healthy returns a record of the history.                   *)
LEMMA PreviousHealthyType ==
    ASSUME StateTypeOK, NEW s \in Services, Readable(s), HasHealthy(s)
    PROVE  PreviousHealthy(s).ver \in Versions
<1>1. history[s] \in Seq(Record)
  BY DEF StateTypeOK, Readable, History
<1>2. /\ HealthyAt(s) \in SUBSET Nat /\ Len(history[s]) \in Nat
      /\ \A i \in HealthyAt(s) : i \in 1..Len(history[s]) /\ i <= Len(history[s])
  BY <1>1 DEF HealthyAt
<1>3. PICK i \in HealthyAt(s) : \A j \in HealthyAt(s) : j <= i
  BY <1>2, GreatestNatural DEF HasHealthy
<1>4. PreviousHealthy(s) \in Record
  <2> DEFINE k == CHOOSE k \in HealthyAt(s) : \A j \in HealthyAt(s) : j <= k
  <2>1. k \in HealthyAt(s)
    BY <1>3
  <2>2. k \in 1..Len(history[s])
    BY <1>2, <2>1
  <2>3. PreviousHealthy(s) = history[s][k]
    BY DEF PreviousHealthy
  <2> HIDE DEF k
  <2> QED
    BY <1>1, <2>2, <2>3
<1> QED
  BY <1>4 DEF Record

(* A step of a rollback that goes on, or ends.                             *)
LEMMA RbGoesOn ==
    ASSUME rb \in [Rollbacks -> SoundRollback], NEW r \in Rollbacks, RollingBack(r),
           \/ \E pc \in RollbackSteps : RbGoto(r, pc)
           \/ \E result \in {"success", "failed", "crashed"} : RbFinish(r, result)
    PROVE  rb' \in [Rollbacks -> SoundRollback]
<1>1. rb[r] \in Rollback /\ rb[r].svc \in Services
  BY DEF SoundRollback, RollingBack
<1>2. ASSUME NEW pc \in RollbackSteps PROVE [rb[r] EXCEPT !.pc = pc] \in SoundRollback
  BY <1>1 DEF SoundRollback, Rollback
<1>3. ASSUME NEW result \in {"success", "failed", "crashed"}
      PROVE  [rb[r] EXCEPT !.pc = "ended", !.result = result] \in SoundRollback
  BY <1>1 DEF SoundRollback, Rollback, RollbackSteps
<1>4. CASE \E pc \in RollbackSteps : RbGoto(r, pc)
  BY <1>2, <1>4 DEF RbGoto
<1>5. CASE \E result \in {"success", "failed", "crashed"} : RbFinish(r, result)
  <2>1. PICK result \in {"success", "failed", "crashed"} : RbFinish(r, result)
    BY <1>5
  <2>2. rb' = [rb EXCEPT ![r] = [rb[r] EXCEPT !.pc = "ended", !.result = result]]
    BY <2>1 DEF RbFinish
  <2> QED
    BY <1>3, <2>2
<1> QED
  BY <1>4, <1>5

(* What each step of a rollback does: a command, a copy, or nothing, and    *)
(* then the next step or the end.                                          *)
RbSends(r) ==
    \E outcome :
        \/ \E pc \in RollbackSteps \ {"scp"} :
              /\ rb[r].pc = pc /\ Execute([op |-> pc, svc |-> rb[r].svc], outcome)
        \/ /\ rb[r].pc = "scp" /\ artifact[rb[r].svc] # None
           /\ Scp(rb[r].svc, artifact[rb[r].svc], outcome)
        \/ UNCHANGED nodeVars

LEMMA RbProgressSends ==
    ASSUME NEW r \in Rollbacks, RbProgress(r)
    PROVE  /\ RollingBack(r) /\ RbSends(r)
           /\ UNCHANGED <<stateVars, sess, generated>>
           /\ \/ \E pc \in RollbackSteps : RbGoto(r, pc)
              \/ \E result \in {"success", "failed", "crashed"} : RbFinish(r, result)
BY DEF RbProgress, RbStop, RbTransfer, RbMove, RbReload, RbStart, RbRemote, RbSends,
       RollingBack, RollbackSteps

(* The invariant holds before anything begins.                             *)
LEMMA InitSystemTypeInv == SystemInit => SystemTypeInv
BY InitTypeInv
DEF SystemInit, SystemTypeInv, SoundRollback, Rollback, RollbackSteps

(* A rollback keeps the type of what it works on.                          *)
LEMMA RbProgressType ==
    ASSUME SystemTypeInv, NEW r \in Rollbacks, RbProgress(r)
    PROVE  SystemTypeInv'
<1>1. /\ TypeInv /\ NodeTypeOK /\ StateTypeOK
      /\ rb \in [Rollbacks -> SoundRollback]
      /\ rb[r].svc \in Services
      /\ artifact[rb[r].svc] \in Content
  BY RbProgressSends
  DEF SystemTypeInv, TypeInv, StateTypeOK, SoundRollback, RollingBack
<1>2. \A pc \in RollbackSteps \ {"scp"} : [op |-> pc, svc |-> rb[r].svc] \in Command
  BY <1>1 DEF RollbackSteps, Command
<1>3. NodeTypeOK'
  <2>1. CASE UNCHANGED nodeVars
    BY <1>1, <2>1 DEF NodeTypeOK, nodeVars
  <2> QED
    BY <1>1, <1>2, <2>1, RbProgressSends, ExecuteType, ScpType DEF RbSends
<1>4. rb' \in [Rollbacks -> SoundRollback]
  BY <1>1, RbProgressSends, RbGoesOn
<1> QED
  BY <1>1, <1>3, <1>4, RbProgressSends
  DEF SystemTypeInv, TypeInv, StateTypeOK, stateVars

LEMMA SystemTypeStep == SystemTypeInv /\ [SystemNext]_sysVars => SystemTypeInv'
<1> SUFFICES ASSUME SystemTypeInv, [SystemNext]_sysVars PROVE SystemTypeInv'
  OBVIOUS
<1>1. TypeInv /\ rb \in [Rollbacks -> SoundRollback]
  BY DEF SystemTypeInv
<1>2. ASSUME [Next]_vars, UNCHANGED rb PROVE SystemTypeInv'
  BY <1>1, <1>2, NextTypeInv DEF SystemTypeInv
<1>3. CASE SessionNext
  BY <1>2, <1>3 DEF SessionNext, Next
<1>4. CASE Environment /\ UNCHANGED rb
  BY <1>2, <1>4 DEF Next
<1>5. CASE UNCHANGED sysVars
  BY <1>2, <1>5 DEF sysVars
<1>6. ASSUME NEW r \in Rollbacks, RbBegin(r) PROVE SystemTypeInv'
  <2>1. TypeInv'
    BY <1>1, <1>6, NextTypeInv DEF RbBegin
  <2>2. PICK s \in Services :
          \/ \E result \in {"failed", "crashed"} : RbFinish(r, result)
          \/ /\ Readable(s) /\ HasHealthy(s)
             /\ rb' = [rb EXCEPT ![r] =
                         [pc |-> "stop", svc |-> s, result |-> "none",
                          prev |-> PreviousHealthy(s).ver]]
    BY <1>6 DEF RbBegin
  <2>3. CASE \E result \in {"failed", "crashed"} : RbFinish(r, result)
    <3>1. PICK result \in {"failed", "crashed"} : RbFinish(r, result)
      BY <2>3
    <3>2. [rb[r] EXCEPT !.pc = "ended", !.result = result] \in SoundRollback
      BY <1>1 DEF SoundRollback, Rollback, RollbackSteps
    <3>3. rb' = [rb EXCEPT ![r] = [rb[r] EXCEPT !.pc = "ended", !.result = result]]
      BY <3>1 DEF RbFinish
    <3> QED
      BY <1>1, <2>1, <3>2, <3>3 DEF SystemTypeInv
  <2>4. CASE /\ Readable(s) /\ HasHealthy(s)
             /\ rb' = [rb EXCEPT ![r] =
                         [pc |-> "stop", svc |-> s, result |-> "none",
                          prev |-> PreviousHealthy(s).ver]]
    <3>1. PreviousHealthy(s).ver \in Versions
      BY <1>1, <2>4, PreviousHealthyType DEF TypeInv
    <3>2. [pc |-> "stop", svc |-> s, result |-> "none",
           prev |-> PreviousHealthy(s).ver] \in SoundRollback
      BY <3>1 DEF SoundRollback, Rollback, RollbackSteps
    <3> QED
      BY <1>1, <2>1, <2>4, <3>2 DEF SystemTypeInv
  <2> QED
    BY <2>2, <2>3, <2>4
<1>7. ASSUME NEW r \in Rollbacks, RbCrash(r) PROVE SystemTypeInv'
  <2>1. rb' \in [Rollbacks -> SoundRollback]
    BY <1>1, <1>7, RbGoesOn DEF RbCrash
  <2>2. TypeInv'
    BY <1>1, <1>7, FaultType DEF RbCrash, TypeInv, NodeTypeOK, StateTypeOK, stateVars
  <2> QED
    BY <2>1, <2>2 DEF SystemTypeInv
<1> QED
  BY <1>3, <1>4, <1>5, <1>6, <1>7, RbProgressType DEF SystemNext, RollbackNext

(* Rollbacks, too, keep everything in its type; in particular a rollback    *)
(* never starts from a torn history, nor from one without a healthy record, *)
(* and the record it finds is one of the history.                          *)
THEOREM SystemTypeCorrect == SystemSpec => []SystemTypeOK
<1>1. SystemTypeInv => SystemTypeOK
  BY TypeInvTypeOK DEF SystemTypeInv, SystemTypeOK, SoundRollback
<1> QED
  BY <1>1, InitSystemTypeInv, SystemTypeStep, PTL DEF SystemSpec

---------------------------------------------------------------------------
(* What a rollback installs, when sessions and rollbacks take turns.  What   *)
(* it finds under key "current" was stored; nothing else runs beside it; so  *)
(* what it has copied to /tmp stays the artifact until its `mv`.            *)

ArtifactsAreStored ==
    \A s \in Services : {artifact[s]} \cap Versions \subseteq stored[s]

TurnsAreTaken ==
    \A r \in Rollbacks : RollingBack(r) =>
        /\ \A c \in Sessions : ~Running(c)
        /\ \A q \in Rollbacks : RollingBack(q) => q = r

ArtifactInTmp ==
    \A r \in Rollbacks : rb[r].pc = "mv" =>
        node.tmp[rb[r].svc] \in {None, artifact[rb[r].svc]}

SystemInv == /\ SystemTypeInv /\ WriteAheadInv
             /\ ArtifactsAreStored /\ TurnsAreTaken /\ ArtifactInTmp

(* A step of the system is one of a session, the node's or none, or else a  *)
(* rollback's.                                                              *)
LEMMA SystemSteps ==
    ASSUME [SystemNext]_sysVars
    PROVE  \/ [Next]_vars /\ UNCHANGED rb
           \/ \E r \in Rollbacks :
                /\ RbBegin(r) \/ RbProgress(r) \/ RbCrash(r)
                /\ UNCHANGED <<stateVars, sess, generated>>
BY RbProgressSends
DEF SystemNext, SessionNext, RollbackNext, Next, RbBegin, RbCrash, sysVars, vars

(* What a rollback is about, and that no other step is one of a rollback.   *)
LEMMA RbFields ==
    ASSUME SystemTypeInv, NEW r \in Rollbacks,
           \/ \E pc \in RollbackSteps : RbGoto(r, pc)
           \/ \E result : RbFinish(r, result)
    PROVE  /\ \A q \in Rollbacks \ {r} : rb'[q] = rb[q]
           /\ rb'[r].svc = rb[r].svc
BY DEF RbGoto, RbFinish, SystemTypeInv, SoundRollback, Rollback

LEMMA RbBeginFields ==
    ASSUME SystemTypeInv, NEW r \in Rollbacks, RbBegin(r)
    PROVE  /\ \A q \in Rollbacks \ {r} : rb'[q] = rb[q]
           /\ rb'[r].pc \in {"stop", "ended"}
           /\ UNCHANGED vars
BY DEF RbBegin, RbFinish, SystemTypeInv, SoundRollback, Rollback

(* Storing keeps what is stored for what it replaces.                      *)
LEMMA StoresArtifacts ==
    ASSUME TypeInv, ArtifactsAreStored, [Next]_vars
    PROVE  ArtifactsAreStored'
<1>1. /\ stored \in [Services -> SUBSET Versions]
      /\ artifact \in [Services -> Content]
  BY DEF TypeInv, StateTypeOK
<1>2. ASSUME NEW s, NEW file, StoreArtifact(s, file) PROVE ArtifactsAreStored'
  BY <1>1, <1>2 DEF StoreArtifact, ArtifactsAreStored
<1>3. ASSUME NEW c \in Sessions, Progress(c)
      PROVE  UNCHANGED <<artifact, stored>> \/ \E s, file : StoreArtifact(s, file)
  BY <1>3
  DEF Progress, CheckActive, CheckPorts, Store, Transfer, Move, Reload, Start,
      Remote, Executed, Verify, Verified, ReadHistory, TruncateHistory,
      Truncate, WriteHistory, WriteBack, Recorded, stateVars
<1>4. \/ UNCHANGED <<artifact, stored>>
      \/ \E s, file : StoreArtifact(s, file)
  BY <1>3 DEF Next, Begin, Crash, Environment, vars, stateVars
<1> QED
  BY <1>2, <1>4 DEF ArtifactsAreStored

(* While a rollback is under way, no session takes a step.                 *)
LEMMA OnlyTheNode ==
    ASSUME SystemInv, [SystemNext]_sysVars, Parallel = FALSE,
           NEW r \in Rollbacks, RollingBack(r)
    PROVE  \/ RbProgress(r) \/ RbCrash(r)
           \/ Environment /\ UNCHANGED rb
           \/ UNCHANGED sysVars
<1>1. /\ sess \in [Sessions -> SoundSession]
      /\ \A c \in Sessions : ~Running(c)
      /\ \A q \in Rollbacks : RollingBack(q) => q = r
  BY DEF SystemInv, SystemTypeInv, TypeInv, TurnsAreTaken
<1>2. ~SessionNext
  BY <1>1, ProgressOthers DEF SessionNext, Crash
<1>3. ASSUME NEW q \in Rollbacks, RbBegin(q) \/ RbProgress(q) \/ RbCrash(q)
      PROVE  q = r /\ ~RbBegin(q)
  BY <1>1, <1>3, RbProgressSends DEF RbBegin, RbCrash, RollingBack, RollbackSteps
<1> QED
  BY <1>2, <1>3 DEF SystemNext, RollbackNext

LEMMA TurnsStep ==
    ASSUME SystemInv, [SystemNext]_sysVars, Parallel = FALSE
    PROVE  TurnsAreTaken'
<1>1. sess \in [Sessions -> SoundSession] /\ SystemTypeInv /\ TurnsAreTaken
  BY DEF SystemInv, SystemTypeInv, TypeInv
<1>2. CASE \E r \in Rollbacks : RollingBack(r)
  <2>1. PICK r \in Rollbacks : RollingBack(r)
    BY <1>2
  <2>2. CASE RbProgress(r) \/ RbCrash(r)
    <3>1. /\ \A q \in Rollbacks \ {r} : rb'[q] = rb[q]
          /\ UNCHANGED sess
      BY <1>1, <2>2, RbProgressSends, RbFields DEF RbCrash
    <3> QED
      BY <1>1, <2>1, <3>1 DEF TurnsAreTaken, RollingBack, Running
  <2>3. CASE (Environment /\ UNCHANGED rb) \/ UNCHANGED sysVars
    BY <1>1, <2>3
    DEF Environment, sysVars, vars, TurnsAreTaken, RollingBack, Running
  <2> QED
    BY <2>1, <2>2, <2>3, OnlyTheNode
<1>3. CASE \A r \in Rollbacks : ~RollingBack(r)
  <2>1. ASSUME NEW r \in Rollbacks, RbBegin(r) PROVE TurnsAreTaken'
    <3>1. \A c \in Sessions : ~Running(c)
      BY <2>1 DEF RbBegin
    <3>2. UNCHANGED sess /\ \A q \in Rollbacks \ {r} : rb'[q] = rb[q]
      BY <1>1, <2>1, RbBeginFields DEF vars
    <3> QED
      BY <1>3, <3>1, <3>2 DEF TurnsAreTaken, RollingBack, Running
  <2>2. CASE UNCHANGED rb
    BY <1>3, <2>2 DEF TurnsAreTaken, RollingBack
  <2>3. ASSUME NEW r \in Rollbacks PROVE ~RbProgress(r) /\ ~RbCrash(r)
    BY <1>3, RbProgressSends DEF RbCrash
  <2> QED
    BY <2>1, <2>2, <2>3, SystemSteps
<1> QED
  BY <1>2, <1>3

(* Only the copy of the artifact leads to a rollback's `mv`.                *)
LEMMA OnlyTheCopyMoves ==
    ASSUME SystemTypeInv, NEW r \in Rollbacks, RbProgress(r), rb'[r].pc = "mv"
    PROVE  node' = Received(node, rb[r].svc, artifact[rb[r].svc])
<1>1. rb \in [Rollbacks -> SoundRollback] /\ rb[r] \in Rollback
  BY DEF SystemTypeInv, SoundRollback
<1>2. ASSUME NEW pc, RbGoto(r, pc) PROVE rb'[r].pc = pc
  BY <1>1, <1>2 DEF RbGoto, Rollback
<1>3. ASSUME NEW result, RbFinish(r, result) PROVE rb'[r].pc = "ended"
  BY <1>1, <1>3 DEF RbFinish, Rollback
<1>4. ~(RbStop(r) \/ RbMove(r) \/ RbReload(r) \/ RbStart(r))
  BY <1>2, <1>3 DEF RbStop, RbMove, RbReload, RbStart
<1> QED
  BY <1>2, <1>3, <1>4 DEF RbProgress, RbTransfer, Scp

LEMMA ArtifactInTmpStep ==
    ASSUME SystemInv, [SystemNext]_sysVars, Parallel = FALSE
    PROVE  ArtifactInTmp'
<1> SUFFICES ASSUME NEW r \in Rollbacks, rb'[r].pc = "mv"
             PROVE  node'.tmp[rb'[r].svc] \in {None, artifact'[rb'[r].svc]}
  BY DEF ArtifactInTmp
<1>1. /\ SystemTypeInv /\ NodeTypeOK /\ node \in Node
      /\ ArtifactInTmp /\ rb \in [Rollbacks -> SoundRollback]
  BY DEF SystemInv, SystemTypeInv, TypeInv, NodeTypeOK
<1>2. CASE RollingBack(r)
  <2>1. rb[r].svc \in Services
    BY <1>1, <1>2 DEF SoundRollback, RollingBack
  <2>2. CASE RbProgress(r)
    <3>1. /\ node' = Received(node, rb[r].svc, artifact[rb[r].svc])
          /\ rb'[r].svc = rb[r].svc /\ UNCHANGED artifact
      BY <1>1, <2>2, OnlyTheCopyMoves, RbProgressSends, RbFields DEF stateVars
    <3> QED
      BY <1>1, <2>1, <3>1 DEF Received, Node
  <2>3. CASE RbCrash(r)
    <3>1. rb'[r].pc = "ended"
      BY <1>1, <2>3 DEF RbCrash, RbFinish, SoundRollback, Rollback
    <3> QED
      BY <3>1
  <2>4. CASE Environment /\ UNCHANGED rb
    <3>1. Keeps(node', node, rb[r].svc)
      BY <1>1, <2>1, <2>4, NodeNextKeeps DEF Environment
    <3>2. node.tmp[rb[r].svc] \in {None, artifact[rb[r].svc]} /\ UNCHANGED artifact
      BY <1>1, <2>4 DEF ArtifactInTmp, Environment, stateVars
    <3> QED
      BY <2>4, <3>1, <3>2 DEF Keeps
  <2>5. CASE UNCHANGED sysVars
    BY <1>1, <2>5 DEF sysVars, vars, nodeVars, stateVars, ArtifactInTmp
  <2> QED
    BY <1>2, <2>2, <2>3, <2>4, <2>5, OnlyTheNode
<1>3. CASE ~RollingBack(r)
  <2>1. rb'[r].pc # rb[r].pc
    BY <1>3 DEF RollingBack, RollbackSteps
  <2>2. PICK q \in Rollbacks : RbBegin(q) \/ RbProgress(q) \/ RbCrash(q)
    BY <2>1, SystemSteps
  <2>3. q = r
    BY <1>1, <2>1, <2>2, RbProgressSends, RbFields, RbBeginFields DEF RbCrash
  <2> QED
    BY <1>1, <1>3, <2>2, <2>3, RbProgressSends, RbBeginFields DEF RbCrash
<1> QED
  BY <1>2, <1>3

(* A rollback sends nothing to the node that was not stored.               *)
LEMMA RbWritesAhead ==
    ASSUME SystemInv, NEW r \in Rollbacks, RbBegin(r) \/ RbProgress(r) \/ RbCrash(r)
    PROVE  WriteAhead'
<1>1. /\ NodeTypeOK /\ Within(node, stored) /\ UNCHANGED stored
      /\ RollingBack(r) => rb[r].svc \in Services
  BY WriteAheadIsWithin, RbProgressSends
  DEF SystemInv, SystemTypeInv, TypeInv, WriteAheadInv, SoundRollback, RollingBack,
      RbBegin, RbCrash, vars, stateVars
<1>2. CASE RbBegin(r) \/ RbCrash(r)
  BY <1>1, <1>2 DEF RbBegin, RbCrash, vars, nodeVars, Within, WriteAhead
<1>3. CASE RbProgress(r)
  <2>1. rb[r].svc \in Services /\ RbSends(r)
    BY <1>1, <1>3, RbProgressSends
  <2>2. \A pc \in RollbackSteps \ {"scp"} : [op |-> pc, svc |-> rb[r].svc] \in Command
    BY <2>1 DEF RollbackSteps, Command
  <2>3. {artifact[rb[r].svc]} \cap Versions \subseteq stored[rb[r].svc]
    BY <2>1 DEF SystemInv, ArtifactsAreStored
  <2>4. Within(node', stored)
    <3>1. CASE UNCHANGED nodeVars
      BY <1>1, <3>1 DEF nodeVars
    <3> QED
      BY <1>1, <2>1, <2>2, <2>3, <3>1, ExecuteWithin, ScpWithin DEF RbSends
  <2> QED
    BY <1>1, <2>4 DEF Within, WriteAhead
<1> QED
  BY <1>2, <1>3

LEMMA SystemStep ==
    ASSUME SystemInv, [SystemNext]_sysVars, Parallel = FALSE
    PROVE  SystemInv'
<1>1. SystemTypeInv'
  BY SystemTypeStep DEF SystemInv
<1>2. TurnsAreTaken' /\ ArtifactInTmp'
  BY TurnsStep, ArtifactInTmpStep
<1>3. CASE [Next]_vars
  BY <1>1, <1>2, <1>3, OneAtATimeStep, StoredFirstStep, WriteAheadStep, StoresArtifacts
  DEF SystemInv, WriteAheadInv, SystemTypeInv
<1>4. ASSUME NEW r \in Rollbacks, RbBegin(r) \/ RbProgress(r) \/ RbCrash(r),
             UNCHANGED <<stateVars, sess, generated>>
      PROVE  SystemInv'
  <2>1. WriteAhead'
    BY <1>4, RbWritesAhead
  <2>2. ArtifactsAreStored' /\ StoredFirst' /\ OneAtATime'
    BY <1>4
    DEF SystemInv, WriteAheadInv, ArtifactsAreStored, StoredFirst, OneAtATime,
        Running, stateVars
  <2> QED
    BY <1>1, <1>2, <2>1, <2>2 DEF SystemInv, WriteAheadInv, SystemTypeInv
<1> QED
  BY <1>3, <1>4, SystemSteps

LEMMA InitSystemInv == SystemInit => SystemInv
<1> SUFFICES ASSUME SystemInit PROVE SystemInv
  OBVIOUS
<1>1. ArtifactsAreStored
  BY NodeAssumption DEF SystemInit, Init, StateInit, ArtifactsAreStored
<1>2. TurnsAreTaken /\ ArtifactInTmp
  BY DEF SystemInit, TurnsAreTaken, ArtifactInTmp, RollingBack, RollbackSteps
<1> QED
  BY <1>1, <1>2, InitSystemTypeInv, InitWriteAheadInv DEF SystemInit, SystemInv

LEMMA AlwaysSystemInv == Parallel = FALSE => (SystemSpec => []SystemInv)
<1> SUFFICES ASSUME Parallel = FALSE PROVE SystemSpec => []SystemInv
  OBVIOUS
<1>1. SystemInv /\ [SystemNext]_sysVars => SystemInv'
  BY SystemStep
<1> QED
  BY <1>1, InitSystemInv, PTL DEF SystemSpec

(* Rollbacks taking turns with the sessions bring nothing onto the node     *)
(* that was not stored, either.                                             *)
THEOREM SystemWriteAhead == Parallel = FALSE => (SystemSpec => []WriteAhead)
<1>1. SystemInv => WriteAhead
  BY DEF SystemInv, WriteAheadInv
<1> QED
  BY <1>1, AlwaysSystemInv, PTL

(* While a rollback runs, its service gets only stored versions installed,  *)
(* or cut-short ones; and by its own `mv` only the stored artifact.         *)
THEOREM RollbackInstallsArtifactHolds ==
    Parallel = FALSE => (SystemSpec => RollbackInstallsArtifact)
<1> SUFFICES ASSUME Parallel = FALSE PROVE SystemSpec => RollbackInstallsArtifact
  OBVIOUS
<1>1. ASSUME SystemInv, [SystemNext]_sysVars, NEW r \in Rollbacks, RollingBack(r),
             node'.installed[rb[r].svc] # node.installed[rb[r].svc]
      PROVE  /\ node'.installed[rb[r].svc] \in stored[rb[r].svc] \cup {Torn}
             /\ rb[r].pc = "mv" =>
                   node'.installed[rb[r].svc] = artifact[rb[r].svc]
  <2> DEFINE s == rb[r].svc
  <2>1. /\ s \in Services /\ NodeTypeOK /\ node \in Node
        /\ OnNode(node, s) \cap Versions \subseteq stored[s]
    BY <1>1
    DEF SystemInv, SystemTypeInv, TypeInv, NodeTypeOK, SoundRollback, RollingBack,
        WriteAheadInv, WriteAhead
  <2>2. Installs(node', node, s)
    <3>1. \A pc \in RollbackSteps \ {"scp"} : [op |-> pc, svc |-> s] \in Command
      BY <2>1 DEF RollbackSteps, Command
    <3>2. CASE RbProgress(r)
      <4>1. CASE UNCHANGED nodeVars
        BY <4>1 DEF nodeVars, Installs
      <4> QED
        BY <2>1, <3>1, <3>2, <4>1, RbProgressSends, ExecuteInstalls, ScpInstalls
        DEF RbSends
    <3>3. CASE Environment
      BY <2>1, <3>3, NodeNextInstalls DEF Environment
    <3>4. CASE RbCrash(r) \/ UNCHANGED sysVars
      BY <3>4 DEF RbCrash, sysVars, vars, nodeVars, Installs
    <3> QED
      BY <1>1, <3>2, <3>3, <3>4, OnlyTheNode
  <2>3. node.tmp[s] # None /\ node'.installed[s] = node.tmp[s]
    BY <1>1, <2>2 DEF Installs
  <2>4. node.tmp[s] \in Content
    BY <2>1 DEF Node
  <2>5. node.tmp[s] \in stored[s] \cup {Torn}
    BY <2>1, <2>3, <2>4 DEF OnNode, Content
  <2>6. rb[r].pc = "mv" => node.tmp[s] \in {None, artifact[s]}
    BY <1>1 DEF SystemInv, ArtifactInTmp
  <2> QED
    BY <2>3, <2>5, <2>6
<1>2. SystemInv /\ [SystemNext]_sysVars =>
        [\A r \in Rollbacks :
            LET s == rb[r].svc IN
            RollingBack(r) /\ node'.installed[s] # node.installed[s] =>
                /\ node'.installed[s] \in stored[s] \cup {Torn}
                /\ rb[r].pc = "mv" => node'.installed[s] = artifact[s]]_sysVars
  BY <1>1
<1>3. SystemSpec => []SystemInv
  BY AlwaysSystemInv
<1> QED
  BY <1>2, <1>3, PTL DEF SystemSpec, RollbackInstallsArtifact

---------------------------------------------------------------------------
(* CleanRollbackServes, when sessions and rollbacks take turns.  A rollback *)
(* whose service has no artifact restores nothing and still reports         *)
(* success; so the proof needs that there is one wherever there is a record *)
(* to roll back to, and follows the artifact from step to step.             *)

(* The steps at which a session's current service has its artifact stored.  *)
Holding == {"scp", "mv", "reload", "start", "truncate", "write"}

Kept(r) ==
    /\ r.pc \in Holding => artifact[r.cur] # None
    /\ \A s \in r.done : artifact[s] # None
    /\ r.pc \in {"record", "truncate", "write"} =>
          \A s \in r.todo : artifact[s] # None

RecordsHaveArtifacts ==
    \A s \in Services : history[s] # << >> => artifact[s] # None

KeptInv == BookInv /\ RecordsHaveArtifacts /\ \A c \in Sessions : Kept(sess[c])

(* An artifact is replaced, if only by part of another, and never removed.  *)
LEMMA ArtifactsStay ==
    ASSUME TypeInv, [Next]_vars, NEW s \in Services, artifact[s] # None
    PROVE  artifact'[s] # None
<1>1. artifact \in [Services -> Content] /\ Torn # None
  BY NodeAssumption DEF TypeInv, StateTypeOK
<1>2. ASSUME NEW t, NEW file, file # None, StoreArtifact(t, file)
      PROVE  artifact'[s] # None
  BY <1>1, <1>2 DEF StoreArtifact
<1>3. ASSUME NEW c \in Sessions, Progress(c)
      PROVE  UNCHANGED artifact \/ \E t, file : file # None /\ StoreArtifact(t, file)
  BY <1>3
  DEF Progress, CheckActive, CheckPorts, Store, Transfer, Move, Reload, Start,
      Remote, Executed, Verify, Verified, ReadHistory, TruncateHistory,
      Truncate, WriteHistory, WriteBack, Recorded, stateVars
<1>4. \/ UNCHANGED artifact
      \/ \E t, file : file # None /\ StoreArtifact(t, file)
  BY <1>1, <1>3 DEF Next, Begin, Crash, Environment, vars, stateVars
<1> QED
  BY <1>2, <1>4

(* A step of a session: past its store, what it handles has an artifact.    *)
LEMMA ProgressKept ==
    ASSUME KeptInv, NEW c \in Sessions, Progress(c)
    PROVE  Kept(sess[c])'
<1> DEFINE r == sess[c]
<1>1. /\ TypeInv /\ BookInv /\ sess \in [Sessions -> SoundSession]
      /\ artifact \in [Services -> Content]
      /\ r \in Session /\ Kept(r)
      /\ r.done \subseteq Services /\ r.todo \subseteq Services
      /\ r.pc \in AtService => r.cur \in Services
  BY DEF KeptInv, BookInv, TypeInv, StateTypeOK, SoundSession, Session
<1>2. \A s \in Services : artifact[s] # None => artifact'[s] # None
  BY <1>1, ArtifactsStay DEF Next
<1>3. \A s \in sess'[c].done : artifact'[s] # None
  BY <1>1, <1>2, InstallAfter DEF Kept, Holding
<1>4. ASSUME sess'[c].pc \in {"scp", "mv", "reload", "start"}
      PROVE  artifact'[sess'[c].cur] # None
  <2>1. CASE sess'[c].pc = "scp"
    BY <1>1, <2>1, OnlyStoreTransfers DEF StoreArtifact
  <2>2. CASE sess'[c].pc \in Installing
    <3>1. sess'[c].cur = r.cur /\ r.pc \in {"scp", "mv", "reload"}
      BY <1>1, <2>2, InstallAfter DEF Installing
    <3> QED
      BY <1>1, <1>2, <3>1 DEF Kept, Holding, AtService
  <2> QED
    BY <1>4, <2>1, <2>2 DEF Installing
<1>5. ASSUME sess'[c].pc \in {"record", "truncate", "write"}
      PROVE  /\ \A s \in sess'[c].todo : artifact'[s] # None
             /\ sess'[c].pc # "record" => artifact'[sess'[c].cur] # None
  <2>1. Recording(c, sess'[c].pc)
    BY <1>1, InstallAfter
  <2>2. CASE sess'[c].pc = "record" /\ Verified(c)
    <3>1. sess'[c] = [r EXCEPT !.todo = r.done, !.pc = "record"]
      BY <1>1, <2>2 DEF Verified, Goto
    <3> QED
      BY <1>1, <1>2, <2>2, <3>1 DEF Kept, Session
  <2>3. CASE sess'[c].pc = "record" /\ WriteHistory(c)
    <3>1. sess'[c] = [r EXCEPT !.copy = << >>, !.pc = "record"] /\ r.pc = "write"
      BY <1>1, <2>3 DEF WriteHistory, Goto
    <3> QED
      BY <1>1, <1>2, <2>3, <3>1 DEF Kept, Session
  <2>4. CASE sess'[c].pc = "truncate"
    <3>1. ReadHistory(c)
      BY <2>1, <2>4 DEF Recording
    <3>2. PICK s \in r.todo :
            \/ Goto(c, [r EXCEPT !.cur = s, !.todo = @ \ {s}, !.copy = history[s]],
                    "truncate")
            \/ Finish(c, r, "crashed")
      BY <3>1 DEF ReadHistory
    <3>3. r.pc = "record" /\ ~Finish(c, r, "crashed")
      BY <1>1, <2>4, <3>1, FinishFields DEF ReadHistory
    <3>4. sess'[c] = [r EXCEPT !.cur = s, !.todo = @ \ {s}, !.copy = history[s],
                               !.pc = "truncate"]
      BY <1>1, <3>2, <3>3 DEF Goto
    <3>5. sess'[c].cur = s /\ sess'[c].todo = r.todo \ {s}
      BY <1>1, <3>4 DEF Session
    <3> QED
      BY <1>1, <1>2, <3>2, <3>3, <3>5 DEF Kept
  <2>5. CASE sess'[c].pc = "write"
    <3>1. TruncateHistory(c)
      BY <2>1, <2>5 DEF Recording
    <3>2. sess'[c] = [r EXCEPT !.pc = "write"] /\ r.pc = "truncate"
      BY <1>1, <3>1 DEF TruncateHistory, Goto
    <3>3. sess'[c].cur = r.cur /\ sess'[c].todo = r.todo
      BY <1>1, <3>2 DEF Session
    <3> QED
      BY <1>1, <1>2, <3>2, <3>3 DEF Kept, Holding, AtService
  <2> QED
    BY <1>5, <2>1, <2>2, <2>3, <2>4, <2>5 DEF Recording
<1> QED
  BY <1>3, <1>4, <1>5 DEF Kept, Holding

(* Sessions that begin or are lost handle nothing.                         *)
LEMMA KeptStep == KeptInv /\ [Next]_vars => KeptInv'
<1> SUFFICES ASSUME KeptInv, [Next]_vars PROVE KeptInv'
  OBVIOUS
<1>1. /\ TypeInv /\ BookInv /\ BookInv' /\ sess \in [Sessions -> SoundSession]
      /\ history \in [Services -> History]
  BY BookStep DEF KeptInv, BookInv, TypeInv, StateTypeOK
<1>2. \A s \in Services : artifact[s] # None => artifact'[s] # None
  BY <1>1, ArtifactsStay
<1>3. ASSUME NEW c \in Sessions,
             /\ sess'[c].pc \in {"next", "ended"} \/ sess'[c].pc = sess[c].pc
             /\ sess'[c].done = sess[c].done \/ sess'[c].done = {}
             /\ sess'[c].pc = sess[c].pc =>
                   sess'[c].cur = sess[c].cur /\ sess'[c].todo = sess[c].todo
      PROVE  Kept(sess[c])'
  <2>1. /\ sess[c].pc \in AtService => sess[c].cur \in Services
        /\ sess[c].done \subseteq Services /\ sess[c].todo \subseteq Services
        /\ Kept(sess[c])
    BY <1>1 DEF KeptInv, SoundSession, Session
  <2> QED
    BY <1>2, <1>3, <2>1 DEF Kept, Holding, AtService
<1>4. ASSUME NEW c \in Sessions PROVE Kept(sess[c])'
  <2>1. CASE sess'[c] = sess[c]
    BY <1>3, <2>1
  <2>2. CASE Progress(c)
    BY <2>2, ProgressKept
  <2>3. CASE Begin(c)
    <3>1. PICK v, plan, force :
            Goto(c, [Idle EXCEPT !.ver = v, !.plan = plan, !.todo = plan,
                                 !.force = force], "next")
      BY <2>3 DEF Begin
    <3>2. sess'[c] = [Idle EXCEPT !.ver = v, !.plan = plan, !.todo = plan,
                                  !.force = force, !.pc = "next"]
      BY <1>1, <3>1 DEF Goto, Idle
    <3>3. sess'[c].pc = "next" /\ sess'[c].done = {} /\ sess[c].pc = "idle"
      BY <2>3, <3>2 DEF Idle, Begin
    <3> QED
      BY <1>3, <3>3
  <2>4. CASE Crash(c)
    <3>1. sess'[c].pc = "ended" /\ sess'[c].done = sess[c].done /\ sess[c].pc # "ended"
      BY <1>1, <2>4, FinishFields DEF Crash, Running, Steps, SoundSession
    <3> QED
      BY <1>3, <3>1
  <2>5. ASSUME NEW d \in Sessions \ {c}, Begin(d) \/ Progress(d) \/ Crash(d)
        PROVE  sess'[c] = sess[c]
    BY <1>1, <2>5, ProgressOthers DEF Begin, Crash, Finish, Goto
  <2>6. CASE Environment \/ UNCHANGED vars
    BY <2>1, <2>6 DEF Environment, vars
  <2> QED
    BY <2>1, <2>2, <2>3, <2>4, <2>5, <2>6 DEF Next
<1>5. RecordsHaveArtifacts'
  <2>1. CASE UNCHANGED history
    BY <1>2, <2>1 DEF KeptInv, RecordsHaveArtifacts
  <2>2. ASSUME NEW c \in Sessions, TruncateHistory(c) \/ WriteHistory(c)
        PROVE  RecordsHaveArtifacts'
    <3>1. /\ sess[c].cur \in Services /\ artifact[sess[c].cur] # None
          /\ UNCHANGED artifact
      BY <1>1, <2>2
      DEF TruncateHistory, WriteHistory, Truncate, WriteBack, KeptInv, Kept,
          Holding, SoundSession, AtService
    <3>2. \A s \in Services \ {sess[c].cur} : history'[s] = history[s]
      BY <1>1, <2>2 DEF TruncateHistory, WriteHistory, Truncate, WriteBack
    <3> QED
      BY <3>1, <3>2 DEF KeptInv, RecordsHaveArtifacts
  <2> QED
    BY <2>1, <2>2, HistoryChanges
<1> QED
  BY <1>1, <1>4, <1>5 DEF KeptInv

(* The same with rollbacks, which store and record nothing.                *)
LEMMA SystemKeptStep ==
    ASSUME SystemTypeInv, KeptInv, [SystemNext]_sysVars
    PROVE  KeptInv'
<1>1. CASE [Next]_vars
  BY <1>1, KeptStep
<1>2. CASE UNCHANGED <<stateVars, sess, generated>>
  <2>1. TypeInv'
    BY SystemTypeStep DEF SystemTypeInv
  <2>2. BookInv'
    BY <1>2, <2>1 DEF KeptInv, BookInv
  <2> QED
    BY <1>2, <2>2 DEF KeptInv, RecordsHaveArtifacts, Kept, stateVars
<1> QED
  BY <1>1, <1>2, SystemSteps

(* Without a fault, nobody takes effect late and nothing is lost on the     *)
(* way of a rollback.                                                       *)
Restored(r) ==
    LET s == rb[r].svc IN
    /\ artifact[s] # None
    /\ rb[r].pc # "stop" => node.running[s] = None
    /\ rb[r].pc = "mv" => node.tmp[s] = artifact[s]
    /\ rb[r].pc = "reload" => node.installed[s] = artifact[s]
    /\ rb[r].pc = "enable" => node.loaded[s] = artifact[s]

CleanInv ==
    faults = 0 => /\ late = {}
                  /\ \A r \in Rollbacks : RollingBack(r) => Restored(r)

(* Faults are only ever counted up, and a late command is one.             *)
LEMMA NoFaultSoFar ==
    ASSUME SystemTypeInv, [SystemNext]_sysVars, faults' = 0
    PROVE  faults = 0 /\ ~Fault /\ late' \subseteq late
<1>1. faults \in Nat
  BY NodeAssumption DEF SystemTypeInv, TypeInv, NodeTypeOK
<1>2. ~Fault
  BY <1>1 DEF Fault
<1>3. ASSUME NEW cmd, NEW outcome, Execute(cmd, outcome)
      PROVE  UNCHANGED <<late, faults>>
  BY <1>2, <1>3 DEF Execute, nodeVars
<1>4. ASSUME NEW truth, NEW answer, NEW outcome, Query(truth, answer, outcome)
      PROVE  UNCHANGED <<late, faults>>
  BY <1>2, <1>4 DEF Query
<1>5. ASSUME NEW s, NEW file, NEW outcome, Scp(s, file, outcome)
      PROVE  UNCHANGED <<late, faults>>
  BY <1>2, <1>5 DEF Scp
<1>6. ASSUME NEW c \in Sessions, Begin(c) \/ Progress(c) \/ Crash(c)
      PROVE  UNCHANGED <<late, faults>>
  BY <1>2, <1>3, <1>4, <1>5, <1>6
  DEF Begin, Crash, Progress, CheckActive, CheckPorts, Store, Transfer, Move, Reload,
      Start, Remote, Executed, Verify, HealthCheck, Verified, ReadHistory,
      TruncateHistory, WriteHistory, Recorded, nodeVars
<1>7. ASSUME Environment PROVE late' \subseteq late /\ UNCHANGED faults
  BY <1>2, <1>7 DEF Environment, NodeNext, LateEffect, ContainerExits
<1>8. ASSUME NEW r \in Rollbacks, RbBegin(r) \/ RbProgress(r) \/ RbCrash(r)
      PROVE  UNCHANGED <<late, faults>>
  BY <1>2, <1>3, <1>5, <1>8, RbProgressSends
  DEF RbBegin, RbCrash, RbSends, vars, nodeVars
<1> QED
  BY <1>1, <1>2, <1>6, <1>7, <1>8
  DEF SystemNext, SessionNext, RollbackNext, sysVars, vars, nodeVars

(* What a command that is not disturbed does: it is refused, or done.       *)
LEMMA Undisturbed ==
    ASSUME ~Fault
    PROVE  /\ \A cmd, outcome : Execute(cmd, outcome) =>
                 \/ outcome = "ok" /\ Accepts(node, cmd) /\ node' = Effect(node, cmd)
                 \/ outcome = "fail" /\ ~Accepts(node, cmd) /\ UNCHANGED node
           /\ \A s, file, outcome : Scp(s, file, outcome) =>
                 outcome = "ok" /\ node' = Received(node, s, file)
BY DEF Execute, Scp, nodeVars

(* How a rollback goes on when nothing disturbs it.                        *)
LEMMA UndisturbedSteps ==
    ASSUME SystemTypeInv, NEW r \in Rollbacks, RbProgress(r), ~Fault, Restored(r)
    PROVE  LET s == rb[r].svc IN
           \/ rb[r].pc = "stop" /\ rb'[r].pc = "scp" /\ node' = Stopped(node, s)
           \/ /\ rb[r].pc = "scp" /\ rb'[r].pc = "mv"
              /\ node' = Received(node, s, artifact[s])
           \/ rb[r].pc = "mv" /\ rb'[r].pc = "reload" /\ node' = Moved(node, s)
           \/ rb[r].pc = "reload" /\ rb'[r].pc = "enable" /\ node' = Reloaded(node)
           \/ /\ rb[r].pc = "enable" /\ rb'[r].pc = "ended"
              /\ node' = Started(node, s)
           \/ rb'[r].pc = "ended" /\ rb'[r].result = "failed"
<1> DEFINE s == rb[r].svc
<1>1. rb \in [Rollbacks -> SoundRollback] /\ rb[r] \in Rollback
  BY DEF SystemTypeInv, SoundRollback
<1>2. ASSUME NEW pc, RbGoto(r, pc) PROVE rb'[r].pc = pc
  BY <1>1, <1>2 DEF RbGoto, Rollback
<1>3. ASSUME NEW result, RbFinish(r, result)
      PROVE  rb'[r].pc = "ended" /\ rb'[r].result = result
  BY <1>1, <1>3 DEF RbFinish, Rollback
<1>4. CASE RbStop(r)
  BY <1>2, <1>3, <1>4, Undisturbed DEF RbStop, RbRemote, Effect
<1>5. CASE RbTransfer(r)
  BY <1>2, <1>5, Undisturbed DEF RbTransfer, Restored
<1>6. CASE RbMove(r)
  <2>1. PICK outcome \in {"ok", "fail", "raise"} :
          /\ RbRemote(r, "mv", outcome)
          /\ IF outcome = "raise" THEN RbFinish(r, "failed") ELSE RbGoto(r, "reload")
    BY <1>6 DEF RbMove
  <2>2. rb[r].pc = "mv" /\ node.tmp[s] # None
    BY <2>1 DEF RbRemote, Restored
  <2>3. Accepts(node, [op |-> "mv", svc |-> s])
    BY <2>2 DEF Accepts
  <2>4. outcome = "ok" /\ node' = Moved(node, s)
    BY <2>1, <2>3, Undisturbed DEF RbRemote, Effect
  <2> QED
    BY <1>2, <2>1, <2>2, <2>4
<1>7. CASE RbReload(r)
  BY <1>2, <1>3, <1>7, Undisturbed DEF RbReload, RbRemote, Effect
<1>8. CASE RbStart(r)
  BY <1>3, <1>8, Undisturbed DEF RbStart, RbRemote, Effect
<1> QED
  BY <1>4, <1>5, <1>6, <1>7, <1>8 DEF RbProgress

(* Each step keeps what the next one needs.                                *)
LEMMA CleanStep ==
    ASSUME SystemInv, KeptInv, CleanInv, [SystemNext]_sysVars, Parallel = FALSE
    PROVE  CleanInv'
<1> SUFFICES ASSUME faults' = 0 PROVE CleanInv'
  BY DEF CleanInv
<1>1. /\ SystemTypeInv /\ node \in Node /\ rb \in [Rollbacks -> SoundRollback]
  BY DEF SystemInv, SystemTypeInv, TypeInv, NodeTypeOK
<1>2. faults = 0 /\ ~Fault /\ late = {} /\ late' = {}
  BY <1>1, NoFaultSoFar DEF CleanInv
<1>3. ~Environment
  BY <1>2 DEF Environment, NodeNext, LateEffect, ContainerExits
<1>4. ASSUME NEW r \in Rollbacks, RollingBack(r)' PROVE Restored(r)'
  <2> DEFINE s == rb[r].svc
  <2>1. CASE RollingBack(r) /\ RbProgress(r)
    <3>1. /\ s \in Services /\ Restored(r)
          /\ rb'[r].svc = s /\ UNCHANGED artifact
      BY <1>1, <1>2, <2>1, RbProgressSends, RbFields
      DEF CleanInv, SoundRollback, RollingBack, stateVars
    <3>2. \/ rb[r].pc = "stop" /\ rb'[r].pc = "scp" /\ node' = Stopped(node, s)
          \/ /\ rb[r].pc = "scp" /\ rb'[r].pc = "mv"
             /\ node' = Received(node, s, artifact[s])
          \/ rb[r].pc = "mv" /\ rb'[r].pc = "reload" /\ node' = Moved(node, s)
          \/ rb[r].pc = "reload" /\ rb'[r].pc = "enable" /\ node' = Reloaded(node)
      BY <1>1, <1>2, <1>4, <2>1, <3>1, UndisturbedSteps DEF RollingBack, RollbackSteps
    <3>3. /\ Stopped(node, s).running[s] = None
          /\ Received(node, s, artifact[s]).running = node.running
          /\ Received(node, s, artifact[s]).tmp[s] = artifact[s]
          /\ Moved(node, s).running = node.running
          /\ node.tmp[s] # None => Moved(node, s).installed[s] = node.tmp[s]
          /\ Reloaded(node).running = node.running
          /\ Reloaded(node).loaded = node.installed
      BY <1>1, <3>1, PulledSelf DEF Stopped, Received, Moved, Reloaded, Node
    <3> QED
      BY <3>1, <3>2, <3>3 DEF Restored
  <2>2. CASE RollingBack(r) /\ UNCHANGED sysVars
    BY <1>2, <2>2 DEF CleanInv, Restored, sysVars, vars, nodeVars, stateVars
  <2>3. CASE ~RollingBack(r)
    <3>1. rb'[r].pc # rb[r].pc
      BY <1>4, <2>3 DEF RollingBack, RollbackSteps
    <3>2. PICK q \in Rollbacks : RbBegin(q) \/ RbProgress(q) \/ RbCrash(q)
      BY <3>1, SystemSteps
    <3>3. RbBegin(r)
      BY <1>1, <2>3, <3>1, <3>2, RbProgressSends, RbFields, RbBeginFields DEF RbCrash
    <3>4. ASSUME NEW result, RbFinish(r, result) PROVE FALSE
      BY <1>1, <1>4, <3>4
      DEF RbFinish, SoundRollback, Rollback, RollingBack, RollbackSteps
    <3>5. PICK t \in Services :
            /\ HasHealthy(t)
            /\ rb' = [rb EXCEPT ![r] =
                         [pc |-> "stop", svc |-> t, result |-> "none",
                          prev |-> PreviousHealthy(t).ver]]
      BY <3>3, <3>4 DEF RbBegin
    <3>6. history[t] # << >>
      BY <3>5 DEF HasHealthy, HealthyAt
    <3>7. artifact[t] # None
      BY <3>6 DEF KeptInv, RecordsHaveArtifacts
    <3>8. rb'[r].pc = "stop" /\ rb'[r].svc = t /\ UNCHANGED artifact
      BY <1>1, <3>3, <3>5 DEF RbBegin, vars, stateVars
    <3> QED
      BY <3>7, <3>8 DEF Restored
  <2> QED
    BY <1>2, <1>3, <2>1, <2>2, <2>3, OnlyTheNode DEF RbCrash
<1> QED
  BY <1>2, <1>4 DEF CleanInv

(* A rollback that nothing disturbed and that reports success has its       *)
(* service running from the stored artifact.                                *)
THEOREM CleanRollbackServesHolds ==
    Parallel = FALSE => (SystemSpec => CleanRollbackServes)
<1> SUFFICES ASSUME Parallel = FALSE PROVE SystemSpec => CleanRollbackServes
  OBVIOUS
<1>1. SystemInit => KeptInv /\ CleanInv
  <2> SUFFICES ASSUME SystemInit PROVE KeptInv /\ CleanInv
    OBVIOUS
  <2>1. KeptInv
    BY InitBook
    DEF SystemInit, Init, StateInit, Idle, KeptInv, Kept, Holding, RecordsHaveArtifacts
  <2>2. CleanInv
    BY DEF SystemInit, Init, NodeInit, CleanInv, RollingBack, RollbackSteps
  <2> QED
    BY <2>1, <2>2
<1>2. SystemInv /\ KeptInv /\ CleanInv /\ [SystemNext]_sysVars => KeptInv' /\ CleanInv'
  BY SystemKeptStep, CleanStep DEF SystemInv
<1>3. ASSUME SystemInv, CleanInv, [SystemNext]_sysVars, NEW r \in Rollbacks,
             rb[r].result # "success", rb'[r].result = "success", faults' = 0
      PROVE  node'.running[rb[r].svc] = artifact[rb[r].svc]
  <2> DEFINE s == rb[r].svc
  <2>1. /\ SystemTypeInv /\ node \in Node /\ rb \in [Rollbacks -> SoundRollback]
    BY <1>3 DEF SystemInv, SystemTypeInv, TypeInv, NodeTypeOK
  <2>2. PICK q \in Rollbacks : RbBegin(q) \/ RbProgress(q) \/ RbCrash(q)
    BY <1>3, SystemSteps
  <2>3. q = r
    BY <1>3, <2>1, <2>2, RbProgressSends, RbFields, RbBeginFields DEF RbCrash
  <2>4. ~RbBegin(r) /\ ~RbCrash(r)
    BY <1>3, <2>1 DEF RbBegin, RbCrash, RbFinish, SoundRollback, Rollback
  <2>5. RbProgress(r) /\ RollingBack(r) /\ ~Fault /\ Restored(r) /\ s \in Services
    BY <1>3, <2>1, <2>2, <2>3, <2>4, RbProgressSends, NoFaultSoFar
    DEF CleanInv, SoundRollback, RollingBack
  <2>6. ASSUME rb'[r].pc # "ended" PROVE rb'[r].result = rb[r].result
    <3>1. rb[r] \in Rollback
      BY <2>1 DEF SoundRollback
    <3>2. ASSUME NEW pc, RbGoto(r, pc) PROVE rb'[r].result = rb[r].result
      BY <2>1, <3>1, <3>2 DEF RbGoto, Rollback
    <3>3. ASSUME NEW result, RbFinish(r, result) PROVE rb'[r].pc = "ended"
      BY <2>1, <3>1, <3>3 DEF RbFinish, Rollback
    <3> QED
      BY <2>5, <2>6, <3>2, <3>3, RbProgressSends
  <2>7. rb[r].pc = "enable" /\ node' = Started(node, s)
    BY <1>3, <2>1, <2>5, <2>6, UndisturbedSteps
  <2>8. node.running[s] = None /\ node.loaded[s] = artifact[s]
    BY <2>5, <2>7 DEF Restored
  <2> QED
    BY <2>1, <2>5, <2>7, <2>8, PulledSelf DEF Started, Active, Node
<1>4. SystemInv /\ CleanInv /\ [SystemNext]_sysVars =>
        [\A r \in Rollbacks :
            /\ rb[r].result # "success"
            /\ rb'[r].result = "success"
            /\ faults' = 0
            => node'.running[rb[r].svc] = artifact[rb[r].svc]]_sysVars
  BY <1>3
<1>5. SystemSpec => []SystemInv
  BY AlwaysSystemInv
<1> QED
  BY <1>1, <1>2, <1>4, <1>5, PTL DEF SystemSpec, CleanRollbackServes


===========================================================================
