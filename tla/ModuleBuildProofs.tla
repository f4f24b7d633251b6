-------------------------- MODULE ModuleBuildProofs --------------------------
(***************************************************************************)
(* Proofs about ModuleBuild, for any packages, batches, bounds and budget. *)
(***************************************************************************)
EXTENDS ModuleBuild, TLAPS

(* A row that is complete belongs to a Koji task that closed, or to a reused *)
(* build; tk is the table of Koji's tasks.                                  *)
BuiltRows(cb, tk) ==
  \A c \in All : cb[c].st = "complete" =>
    \/ cb[c].task = ReuseTask
    \/ cb[c].task \in TaskId /\ tk[c][cb[c].task] = "closed"

(* What a message says of a build agrees with the Koji task it is about.    *)
TrueEvents(E, tk) ==
  \A m \in E : m.type = "build" =>
    \/ m.task = ReuseTask /\ m.result = "complete"
    \/ /\ m.task \in TaskId
       /\ IF m.result = "complete" THEN tk[m.c][m.task] = "closed"
          ELSE tk[m.c][m.task] \in {"failed", "canceled"}

(* Koji's task table goes from tk1 to tk2: a task that ended stays so.      *)
EndedStay(tk1, tk2) ==
  \A c \in All, t \in TaskId :
    tk1[c][t] \in {"closed", "failed", "canceled"} => tk2[c][t] = tk1[c][t]

(* The component table goes from cb1 to cb2: what is complete stays so, and *)
(* no component is added.                                                   *)
Preserves(cb1, cb2) ==
  \A c \in All : /\ cb1[c].st = "complete" => cb2[c].st = "complete"
                 /\ c \in Component /\ cb1[c].st = "absent" => cb2[c].st = "absent"

Inv == TypeOK /\ BuiltRows(comp, task) /\ TrueEvents(events, task)

-----------------------------------------------------------------------------
(* The operators on the component table.                                    *)

(* A task that is free is one Koji has not been asked for yet.              *)
LEMMA FreeTask ==
  ASSUME NEW c, HasFreeTask(c)
  PROVE  NextTask(c) \in TaskId /\ task[c][NextTask(c)] = "none"
BY DEF HasFreeTask, NextTask, TasksIn

(* The task of a build that recovery finds is closed, or a reused one.      *)
LEMMA OrphanIsBuilt ==
  ASSUME NEW c
  PROVE  \/ OrphanTask(c) = ReuseTask
         \/ OrphanTask(c) \in TaskId /\ task[c][OrphanTask(c)] = "closed"
BY DEF OrphanTask, TasksIn

(* A task number is one of the values a row's task may have.                *)
LEMMA TaskRange == ASSUME NEW t \in TaskId PROVE t \in 0..ReuseTask /\ t # ReuseTask
BY ConstantsAssumption DEF TaskId, ReuseTask

(* So is the task of a reused build, which is not one of this build's.      *)
LEMMA ReuseRange == ReuseTask \in 0..ReuseTask /\ ReuseTask \notin TaskId
BY ConstantsAssumption DEF TaskId, ReuseTask

(* Recovering components (Recovered) keeps what is complete, and truly so.  *)
LEMMA RecoveredRows ==
  ASSUME NEW cb \in [All -> Row], NEW F \in SUBSET All, BuiltRows(cb, task)
  PROVE  /\ Recovered(cb, F) \in [All -> Row]
         /\ BuiltRows(Recovered(cb, F), task)
         /\ \A c \in All \ F : Recovered(cb, F)[c] = cb[c]
         /\ \A c \in F : Recovered(cb, F)[c].st = "complete"
<1>1. \A c \in All : OrphanTask(c) \in 0..ReuseTask
  BY OrphanIsBuilt, TaskRange, ReuseRange
<1>2. Recovered(cb, F) \in [All -> Row]
  BY <1>1 DEF Recovered, Row, CompState, Outcome
<1>3. ASSUME NEW c \in All \ F PROVE Recovered(cb, F)[c] = cb[c]
  BY DEF Recovered
<1>4. ASSUME NEW c \in F PROVE Recovered(cb, F)[c].st = "complete" /\ Recovered(cb, F)[c].task = OrphanTask(c)
  BY DEF Recovered, Row
<1>5. BuiltRows(Recovered(cb, F), task)
  BY <1>3, <1>4, OrphanIsBuilt DEF BuiltRows
<1> QED BY <1>2, <1>3, <1>4, <1>5

(* Submitting components that are not complete keeps what is complete.      *)
LEMMA SubmittedRows ==
  ASSUME NEW cb \in [All -> Row], NEW S \in SUBSET All, BuiltRows(cb, task),
         \A c \in S : HasFreeTask(c)
  PROVE  /\ Submitted(cb, S) \in [All -> Row]
         /\ BuiltRows(Submitted(cb, S), task)
         /\ \A c \in All \ S : Submitted(cb, S)[c] = cb[c]
<1>1. \A c \in S : NextTask(c) \in 0..ReuseTask
  BY FreeTask, TaskRange
<1>2. Submitted(cb, S) \in [All -> Row]
  BY <1>1 DEF Submitted, Row, CompState, Outcome
<1>3. ASSUME NEW c \in All \ S PROVE Submitted(cb, S)[c] = cb[c]
  BY DEF Submitted
<1>4. ASSUME NEW c \in S PROVE Submitted(cb, S)[c].st = "building"
  BY DEF Submitted, Row
<1>5. BuiltRows(Submitted(cb, S), task)
  BY <1>3, <1>4 DEF BuiltRows
<1> QED BY <1>2, <1>3, <1>5

(* Failing components that are not complete keeps what is complete.         *)
LEMMA RefusedRows ==
  ASSUME NEW cb \in [All -> Row], NEW R \in SUBSET All, NEW raised \in BOOLEAN,
         BuiltRows(cb, task)
  PROVE  /\ Refused(cb, R, raised) \in [All -> Row]
         /\ BuiltRows(Refused(cb, R, raised), task)
         /\ \A c \in All \ R : Refused(cb, R, raised)[c] = cb[c]
<1>1. 0 \in 0..ReuseTask
  BY ConstantsAssumption DEF ReuseTask
<1>2. Refused(cb, R, raised) \in [All -> Row]
  BY <1>1 DEF Refused, Row, CompState, Outcome
<1>3. ASSUME NEW c \in All \ R PROVE Refused(cb, R, raised)[c] = cb[c]
  BY DEF Refused
<1>4. ASSUME NEW c \in R PROVE Refused(cb, R, raised)[c].st = "failed"
  BY DEF Refused, Row
<1>5. BuiltRows(Refused(cb, R, raised), task)
  BY <1>3, <1>4 DEF BuiltRows
<1> QED BY <1>2, <1>3, <1>5

(* Reusing components keeps what is complete, and truly so.                 *)
LEMMA ReusedRows ==
  ASSUME NEW cb \in [All -> Row], NEW F \in SUBSET All, NEW st \in CompState,
         BuiltRows(cb, task)
  PROVE  /\ Reused(cb, F, st) \in [All -> Row]
         /\ BuiltRows(Reused(cb, F, st), task)
         /\ \A c \in All \ F : Reused(cb, F, st)[c] = cb[c]
         /\ \A c \in F : Reused(cb, F, st)[c].st = st
<1>1. Reused(cb, F, st) \in [All -> Row]
  BY ReuseRange DEF Reused, Row
<1>2. ASSUME NEW c \in All \ F PROVE Reused(cb, F, st)[c] = cb[c]
  BY DEF Reused
<1>3. ASSUME NEW c \in F PROVE Reused(cb, F, st)[c].st = st /\ Reused(cb, F, st)[c].task = ReuseTask
  BY DEF Reused, Row
<1>4. BuiltRows(Reused(cb, F, st), task)
  BY <1>2, <1>3 DEF BuiltRows
<1> QED BY <1>1, <1>2, <1>3, <1>4

-----------------------------------------------------------------------------
(* What a change of Koji's tasks leaves of the invariant.                   *)

(* Complete rows stay true when Koji's ended tasks stay as they are.        *)
LEMMA RowsOutlastTasks ==
  ASSUME NEW cb \in [All -> Row], NEW tk1, NEW tk2, EndedStay(tk1, tk2), BuiltRows(cb, tk1)
  PROVE  BuiltRows(cb, tk2)
BY DEF EndedStay, BuiltRows

(* So do the messages in flight.                                            *)
LEMMA EventsOutlastTasks ==
  ASSUME NEW E \in SUBSET Message, NEW tk1, NEW tk2, EndedStay(tk1, tk2), TrueEvents(E, tk1)
  PROVE  TrueEvents(E, tk2)
<1> SUFFICES ASSUME NEW m \in E, m.type = "build"
             PROVE  \/ m.task = ReuseTask /\ m.result = "complete"
                    \/ /\ m.task \in TaskId
                       /\ IF m.result = "complete" THEN tk2[m.c][m.task] = "closed"
                          ELSE tk2[m.c][m.task] \in {"failed", "canceled"}
  BY DEF TrueEvents
<1>1. m.c \in All
  BY DEF Message
<1> QED BY <1>1 DEF EndedStay, TrueEvents

(* Starting free tasks leaves the tasks that ended as they are.             *)
LEMMA StartedTasks ==
  ASSUME NEW S \in SUBSET All, \A c \in S : HasFreeTask(c), StartTasks(S),
         task \in [All -> [TaskId -> KojiTask]]
  PROVE  task' \in [All -> [TaskId -> KojiTask]] /\ EndedStay(task, task')
<1>1. \A c \in S : NextTask(c) \in TaskId /\ task[c][NextTask(c)] = "none"
  BY FreeTask
<1>2. task' \in [All -> [TaskId -> KojiTask]]
  BY <1>1 DEF StartTasks, KojiTask
<1>3. EndedStay(task, task')
  BY <1>1 DEF StartTasks, EndedStay
<1> QED BY <1>2, <1>3

-----------------------------------------------------------------------------
(* The events handlers and pollers produce.                                 *)

(* The message of a state change is a message, and a true one.              *)
LEMMA StateEventsType ==
  ASSUME NEW s, NEW tk
  PROVE  StateEvents(s) \in SUBSET Message /\ TrueEvents(StateEvents(s), tk)
BY DEF StateEvents, ModuleMsg, Message, Via, TrueEvents

(* The messages of tagging are messages, and true ones.                     *)
LEMMA TagEventsType ==
  ASSUME NEW g \in Tags, NEW S \in SUBSET All, NEW tk
  PROVE  TagEvents(g, S) \in SUBSET Message /\ TrueEvents(TagEvents(g, S), tk)
BY DEF TagEvents, TagMsg, Message, Via, TrueEvents

(* The message of a repository is a message, and a true one.                *)
LEMMA RepoEventsType ==
  ASSUME NEW via \in Via, NEW tk
  PROVE  {RepoMsg(via)} \in SUBSET Message /\ TrueEvents({RepoMsg(via)}, tk)
BY DEF RepoMsg, Message, Via, TrueEvents

(* The calls recovery schedules are messages, and true ones.                *)
LEMMA RecoverEventsType ==
  ASSUME NEW F \in SUBSET All, NEW via \in Via
  PROVE  RecoverEvents(F, via) \in SUBSET Message /\ TrueEvents(RecoverEvents(F, via), task)
<1>1. \A c \in F : OrphanTask(c) \in TaskId \cup {ReuseTask}
  BY OrphanIsBuilt
<1>2. RecoverEvents(F, via) \in SUBSET Message
  BY <1>1 DEF RecoverEvents, TagEvents, TagMsg, BuildMsg, Message, Via, Tags, Outcome
<1>3. TrueEvents(RecoverEvents(F, via), task)
  <2> SUFFICES ASSUME NEW m \in RecoverEvents(F, via), m.type = "build"
               PROVE  \/ m.task = ReuseTask /\ m.result = "complete"
                      \/ /\ m.task \in TaskId
                         /\ IF m.result = "complete" THEN task[m.c][m.task] = "closed"
                            ELSE task[m.c][m.task] \in {"failed", "canceled"}
    BY DEF TrueEvents
  <2>1. PICK c \in F : m = BuildMsg(via, c, OrphanTask(c), "complete")
    BY DEF RecoverEvents, TagEvents, TagMsg
  <2>2. m.c = c /\ m.task = OrphanTask(c) /\ m.result = "complete"
    BY <2>1 DEF BuildMsg
  <2> QED BY <2>2, OrphanIsBuilt
<1> QED BY <1>2, <1>3

(* The calls reuse schedules are messages, and true ones.                   *)
LEMMA ReuseEventsType ==
  ASSUME NEW F \in SUBSET All, NEW via \in Via, NEW tk
  PROVE  ReuseEvents(F, via) \in SUBSET Message /\ TrueEvents(ReuseEvents(F, via), tk)
BY DEF ReuseEvents, BuildMsg, Message, Via, Outcome, TrueEvents

(* What start_next_batch_build adds waits in one of these places.           *)
LEMMA ScheduledVia == \A gone : ScheduledBy(gone) \in Via
BY DEF ScheduledBy, Via

(* Events keep agreeing with Koji when true events are delivered.           *)
LEMMA DeliverTrue ==
  ASSUME NEW gone, NEW out \in SUBSET Message, NEW tk, events \in SUBSET Message,
         TrueEvents(events, tk), TrueEvents(out, tk), Deliver(gone, out)
  PROVE  events' \in SUBSET Message /\ TrueEvents(events', tk)
BY DEF Deliver, TrueEvents

(* Spending a disturbance leaves a budget.                                  *)
LEMMA SpendType ==
  ASSUME NEW d \in Disturbance, budget \in [Disturbance -> Nat], Spend(d)
  PROVE  budget' \in [Disturbance -> Nat]
<1>1. budget[d] - 1 \in Nat
  BY DEF Spend
<1> QED BY <1>1 DEF Spend

-----------------------------------------------------------------------------
(* continue_batch_build, whatever calls it: it touches only components that *)
(* are neither complete nor absent.                                         *)
LEMMA ContinueBatchKeeps ==
  ASSUME Inv, NEW cb \in [All -> Row], BuiltRows(cb, task),
         NEW U \in SUBSET All, \A c \in U : cb[c].st \in {"none", "canceled"},
         NEW gone, NEW out \in SUBSET Message, TrueEvents(out, task),
         ContinueBatch(cb, U, gone, out)
  PROVE  /\ comp' \in [All -> Row] /\ BuiltRows(comp', task') /\ Preserves(cb, comp')
         /\ task' \in [All -> [TaskId -> KojiTask]]
         /\ tag' \in [Tags -> SUBSET All]
         /\ events' \in SUBSET Message /\ TrueEvents(events', task')
         /\ budget' \in [Disturbance -> Nat]
         /\ UNCHANGED <<newRepo, repo>>
<1> DEFINE found == {c \in U : cb[c].st = "none" /\ Orphan(c)}
<1> USE DEF Inv
<1>0. PICK S \in SUBSET (U \ found) :
        /\ \A c \in S : HasFreeTask(c)
        /\ \E R \in SUBSET S, raised \in BOOLEAN :
             /\ IF R = {} THEN ~raised /\ UNCHANGED budget ELSE Spend("refuse")
             /\ comp' = Refused(Submitted(Recovered(cb, found), S \ R), R, raised)
             /\ StartTasks(S \ R)
  BY Zenon DEF ContinueBatch
<1>1. PICK R \in SUBSET S, raised \in BOOLEAN :
        /\ \A c \in S : HasFreeTask(c)
        /\ IF R = {} THEN ~raised /\ UNCHANGED budget ELSE Spend("refuse")
        /\ comp' = Refused(Submitted(Recovered(cb, found), S \ R), R, raised)
        /\ StartTasks(S \ R)
  BY <1>0
<1>2. /\ tag' = [tag EXCEPT !["build"] = @ \cup found]
      /\ Deliver(gone, out \cup RecoverEvents(found, ScheduledBy(gone)))
      /\ UNCHANGED <<newRepo, repo>>
  BY Zenon DEF ContinueBatch
<1> DEFINE cb1 == Recovered(cb, found)
           cb2 == Submitted(cb1, S \ R)
           cb3 == Refused(cb2, R, raised)
<1>3. found \in SUBSET All /\ S \in SUBSET All /\ R \in SUBSET All /\ S \ R \in SUBSET All
  OBVIOUS
<1>4. /\ cb1 \in [All -> Row] /\ BuiltRows(cb1, task)
      /\ \A c \in All \ found : cb1[c] = cb[c]
      /\ \A c \in found : cb1[c].st = "complete"
  <2> HIDE DEF found
  <2> QED BY <1>3, RecoveredRows
<1> HIDE DEF cb1
<1>5. /\ cb2 \in [All -> Row] /\ BuiltRows(cb2, task)
      /\ \A c \in All \ (S \ R) : cb2[c] = cb1[c]
  BY <1>1, <1>3, <1>4, SubmittedRows
<1> HIDE DEF cb2
<1>6. /\ cb3 \in [All -> Row] /\ BuiltRows(cb3, task)
      /\ \A c \in All \ R : cb3[c] = cb2[c]
  BY <1>3, <1>5, RefusedRows
<1>7. comp' = cb3
  BY <1>1 DEF cb1, cb2
<1> HIDE DEF cb3
<1>8. task' \in [All -> [TaskId -> KojiTask]] /\ EndedStay(task, task')
  BY <1>1, <1>3, StartedTasks DEF TypeOK
<1>9. comp' \in [All -> Row] /\ BuiltRows(comp', task')
  BY <1>6, <1>7, <1>8, RowsOutlastTasks
<1>10. Preserves(cb, comp')
  <2>1. ASSUME NEW c \in All \ U PROVE comp'[c] = cb[c]
    BY <2>1, <1>4, <1>5, <1>6, <1>7
  <2>2. ASSUME NEW c \in U PROVE cb[c].st \notin {"complete", "absent"}
    BY <2>2
  <2> QED BY <2>1, <2>2 DEF Preserves
<1>11. tag' \in [Tags -> SUBSET All]
  BY <1>2, <1>3 DEF TypeOK, Tags
<1>12. events' \in SUBSET Message /\ TrueEvents(events', task)
  <2>1. RecoverEvents(found, ScheduledBy(gone)) \in SUBSET Message /\ TrueEvents(RecoverEvents(found, ScheduledBy(gone)), task)
    BY <1>3, RecoverEventsType, ScheduledVia
  <2>2. /\ out \cup RecoverEvents(found, ScheduledBy(gone)) \in SUBSET Message
        /\ TrueEvents(out \cup RecoverEvents(found, ScheduledBy(gone)), task)
    BY <2>1 DEF TrueEvents
  <2> HIDE DEF found
  <2> QED BY <2>2, <1>2, DeliverTrue DEF TypeOK
<1>13. TrueEvents(events', task')
  BY <1>8, <1>12, EventsOutlastTasks
<1>14. budget' \in [Disturbance -> Nat]
  BY <1>1, SpendType DEF TypeOK, Disturbance
<1> QED BY <1>2, <1>8, <1>9, <1>10, <1>11, <1>12, <1>13, <1>14

-----------------------------------------------------------------------------
(* Every action keeps the invariant, and every action but the one that      *)
(* records the components preserves the component table.                    *)

(* A transition leaves the state and its trace well typed.                  *)
LEMMA TransitionType ==
  ASSUME NEW s \in {"init", "wait", "build", "done", "failed", "ready", "garbage"},
         TypeOK, Transition(s)
  PROVE  /\ state' \in {"init", "wait", "build", "done", "failed", "ready", "garbage"}
         /\ lastLive' \in {"init", "wait", "build", "done", "ready", "garbage"}
BY DEF TypeOK, Transition

(* A table that does not change is preserved.                               *)
LEMMA SameRows == ASSUME UNCHANGED comp PROVE Preserves(comp, comp')
BY DEF Preserves

(* An event that leaves only the state of the module behind.                *)
LEMMA StateStep ==
  ASSUME Inv, NEW s \in {"init", "wait", "build", "done", "failed", "ready", "garbage"},
         NEW gone, Transition(s), Deliver(gone, StateEvents(s)),
         UNCHANGED <<batch, kojiTag, comp, koji>>, budget' \in [Disturbance -> Nat]
  PROVE  Inv' /\ Preserves(comp, comp')
<1>1. events' \in SUBSET Message /\ TrueEvents(events', task)
  BY StateEventsType, DeliverTrue DEF Inv, TypeOK
<1>2. TypeOK'
  BY <1>1, TransitionType DEF Inv, TypeOK, koji
<1> QED BY <1>1, <1>2, SameRows DEF Inv, koji

(* An event that has no effect at all.                                      *)
LEMMA IdleStep ==
  ASSUME Inv, NEW gone, Deliver(gone, {}), UNCHANGED <<mb, comp, koji>>,
         budget' \in [Disturbance -> Nat]
  PROVE  Inv' /\ Preserves(comp, comp')
<1>1. events' \in SUBSET Message /\ TrueEvents(events', task)
  BY DEF Inv, TypeOK, Deliver, TrueEvents
<1>2. TypeOK'
  BY <1>1 DEF Inv, TypeOK, mb, koji
<1> QED BY <1>1, <1>2, SameRows DEF Inv, koji

(* What a batch would submit is neither complete nor absent.                *)
LEMMA ToBuildRows ==
  ASSUME NEW cb, NEW b
  PROVE  /\ ToBuild(cb, b) \in SUBSET All
         /\ \A c \in ToBuild(cb, b) : cb[c].st \in {"none", "canceled"}
BY DEF ToBuild, InBatch, Present

(* Entering a batch keeps the invariant.                                    *)
LEMMA EnterBatchKeeps ==
  ASSUME Inv, NEW b \in Nat, NEW gone, EnterBatch(b, gone),
         UNCHANGED <<state, lastLive, kojiTag>>
  PROVE  Inv' /\ Preserves(comp, comp')
<1> DEFINE U  == ToBuild(comp, b)
           re == IF TryReuse(b) THEN U \cap Reusable ELSE {}
           cb == Reused(comp, re, "building")
           via == ScheduledBy(gone)
<1>1. /\ U \in SUBSET All /\ re \in SUBSET All /\ re \subseteq U
      /\ \A c \in U : comp[c].st \in {"none", "canceled"}
  BY ToBuildRows
<1>2. batch' = b
  BY DEF EnterBatch
<1> HIDE DEF U, re
<1>3. /\ cb \in [All -> Row] /\ BuiltRows(cb, task)
      /\ \A c \in All \ re : cb[c] = comp[c]
      /\ \A c \in re : cb[c].st = "building"
  <2>1. comp \in [All -> Row] /\ BuiltRows(comp, task) /\ "building" \in CompState
    BY DEF Inv, TypeOK, CompState
  <2> QED BY <1>1, <2>1, ReusedRows
<1>4. ReuseEvents(re, via) \in SUBSET Message /\ TrueEvents(ReuseEvents(re, via), task)
  BY <1>1, ReuseEventsType, ScheduledVia
<1>5. CASE /\ comp' = cb
           /\ Deliver(gone, ReuseEvents(re, via) \cup (IF U = {} THEN {} ELSE {RepoMsg(via)}))
           /\ UNCHANGED <<koji, budget>>
  <2>1. Preserves(comp, comp')
    BY <1>1, <1>3, <1>5 DEF Preserves
  <2> DEFINE out == ReuseEvents(re, via) \cup (IF U = {} THEN {} ELSE {RepoMsg(via)})
  <2>2. out \in SUBSET Message /\ TrueEvents(out, task)
    <3>1. {RepoMsg(via)} \in SUBSET Message /\ TrueEvents({RepoMsg(via)}, task)
      BY RepoEventsType, ScheduledVia
    <3> QED BY <1>4, <3>1 DEF TrueEvents
  <2>3. Deliver(gone, out)
    BY <1>5
  <2> HIDE DEF out
  <2>4. events' \in SUBSET Message /\ TrueEvents(events', task)
    BY <2>2, <2>3, DeliverTrue DEF Inv, TypeOK
  <2>5. TypeOK'
    BY <1>2, <1>3, <1>5, <2>4 DEF Inv, TypeOK, koji
  <2> QED BY <1>3, <1>5, <2>1, <2>4, <2>5 DEF Inv, koji
<1>6. CASE ContinueBatch(cb, U \ re, gone, ReuseEvents(re, via))
  <2>1. U \ re \in SUBSET All /\ \A c \in U \ re : cb[c].st \in {"none", "canceled"}
    BY <1>1, <1>3
  <2>2. /\ comp' \in [All -> Row] /\ BuiltRows(comp', task') /\ Preserves(cb, comp')
        /\ task' \in [All -> [TaskId -> KojiTask]]
        /\ tag' \in [Tags -> SUBSET All]
        /\ events' \in SUBSET Message /\ TrueEvents(events', task')
        /\ budget' \in [Disturbance -> Nat]
        /\ UNCHANGED <<newRepo, repo>>
    <3> HIDE DEF cb
    <3> QED BY <1>3, <1>4, <1>6, <2>1, ContinueBatchKeeps
  <2>3. Preserves(comp, comp')
    BY <1>1, <1>3, <2>2 DEF Preserves
  <2>4. TypeOK'
    BY <1>2, <2>2 DEF Inv, TypeOK
  <2> QED BY <2>2, <2>3, <2>4 DEF Inv
<1> QED BY <1>5, <1>6, Zenon DEF EnterBatch, U, re

(* start_next_batch_build keeps the invariant, whoever calls it.            *)
LEMMA StartNextBatchKeeps ==
  ASSUME Inv, NEW gone, StartNextBatch(gone)
  PROVE  Inv' /\ Preserves(comp, comp')
<1>1. CASE ContinueBatch(comp, ToBuild(comp, batch), gone, {}) /\ UNCHANGED mb
  <2>1. TrueEvents({}, task) /\ {} \in SUBSET Message
    BY DEF TrueEvents
  <2>2. comp \in [All -> Row] /\ BuiltRows(comp, task)
    BY DEF Inv, TypeOK
  <2>3. /\ comp' \in [All -> Row] /\ BuiltRows(comp', task') /\ Preserves(comp, comp')
        /\ task' \in [All -> [TaskId -> KojiTask]]
        /\ tag' \in [Tags -> SUBSET All]
        /\ events' \in SUBSET Message /\ TrueEvents(events', task')
        /\ budget' \in [Disturbance -> Nat]
        /\ UNCHANGED <<newRepo, repo>>
    BY <1>1, <2>1, <2>2, ToBuildRows, ContinueBatchKeeps
  <2>4. TypeOK'
    BY <1>1, <2>3 DEF Inv, TypeOK, mb
  <2> QED BY <2>3, <2>4 DEF Inv
<1>2. CASE /\ Transition("failed") /\ Deliver(gone, StateEvents("failed"))
           /\ UNCHANGED <<batch, kojiTag, comp, koji, budget>>
  BY <1>2, StateStep DEF Inv, TypeOK
<1>3. CASE /\ \E b \in {Batch[c] : c \in Present(comp)} : NextBatch(b) /\ EnterBatch(b, gone)
           /\ UNCHANGED <<state, lastLive, kojiTag>>
  <2>1. PICK b \in {Batch[c] : c \in Present(comp)} : EnterBatch(b, gone)
    BY <1>3
  <2>2. b \in Nat
    BY ConstantsAssumption DEF Present
  <2> QED BY <1>3, <2>1, <2>2, EnterBatchKeeps
<1>4. CASE Deliver(gone, {}) /\ UNCHANGED <<mb, comp, koji, budget>>
  BY <1>4, IdleStep DEF Inv, TypeOK
<1> QED BY <1>1, <1>2, <1>3, <1>4, Zenon DEF StartNextBatch

(* modules.init keeps the invariant.                                        *)
LEMMA InitHandlerKeeps ==
  ASSUME Inv, NEW m \in events, InitHandler(m)
  PROVE  Inv'
<1>1. CASE Deliver({m}, {}) /\ UNCHANGED <<mb, comp, koji, budget>>
  BY <1>1, IdleStep DEF Inv, TypeOK
<1>2. CASE /\ state = "init"
           /\ \E S \in Specified :
                comp' = [c \in All |-> IF c \in S /\ comp[c].st = "absent"
                                       THEN [comp[c] EXCEPT !.st = "none"] ELSE comp[c]]
           /\ Transition("wait")
           /\ Deliver({m}, StateEvents("wait"))
           /\ UNCHANGED <<batch, kojiTag, koji, budget>>
  <2>1. comp' \in [All -> Row] /\ \A c \in All : comp'[c].st = "complete" => comp'[c] = comp[c]
    <3>1. PICK S \in Specified :
            comp' = [c \in All |-> IF c \in S /\ comp[c].st = "absent"
                                   THEN [comp[c] EXCEPT !.st = "none"] ELSE comp[c]]
      BY <1>2
    <3>2. \A c \in All : comp[c] \in Row /\ [comp[c] EXCEPT !.st = "none"] \in Row
      BY DEF Inv, TypeOK, Row, CompState
    <3>3. \A c \in All : [comp[c] EXCEPT !.st = "none"].st = "none"
      BY <3>2 DEF Row
    <3> QED BY <3>1, <3>2, <3>3
  <2>2. BuiltRows(comp', task)
    BY <2>1 DEF Inv, BuiltRows
  <2>3. events' \in SUBSET Message /\ TrueEvents(events', task)
    BY <1>2, StateEventsType, DeliverTrue DEF Inv, TypeOK
  <2>4. TypeOK'
    BY <1>2, <2>1, <2>3, TransitionType DEF Inv, TypeOK, koji
  <2> QED BY <1>2, <2>2, <2>3, <2>4 DEF Inv, koji
<1>3. CASE /\ Spend("reject") /\ Transition("failed")
           /\ Deliver({m}, StateEvents("failed"))
           /\ UNCHANGED <<batch, kojiTag, comp, koji>>
  BY <1>3, StateStep, SpendType DEF Inv, TypeOK, Disturbance
<1> QED BY <1>1, <1>2, <1>3, Zenon DEF InitHandler

(* modules.init records components only while the module is in init.        *)
LEMMA InitHandlerPreserves ==
  ASSUME Inv, NEW m \in events, InitHandler(m), state # "init"
  PROVE  Preserves(comp, comp')
BY SameRows DEF InitHandler

(* Reusing all components keeps the invariant.                              *)
LEMMA ReuseAllKeeps ==
  ASSUME Inv, NEW m \in events, ReuseAll(m), Transition("build"), kojiTag' = TRUE
  PROVE  Inv' /\ Preserves(comp, comp')
<1> DEFINE F == Present(comp) \ {Macros}
           out == StateEvents("build") \cup UNION {TagEvents(g, F) : g \in Tags}
<1>1. F \in SUBSET All /\ comp \in [All -> Row] /\ BuiltRows(comp, task) /\ "complete" \in CompState
  BY DEF Present, Inv, TypeOK, CompState, Outcome
<1>2. /\ comp' = Reused(comp, F, "complete")
      /\ \E b \in {batch} \cup {Batch[c] : c \in F} : batch' = b
      /\ tag' = [g \in Tags |-> tag[g] \cup F]
      /\ Deliver({m}, out)
      /\ UNCHANGED <<task, newRepo, repo, budget>>
  BY Zenon DEF ReuseAll
<1>3. \A c \in All : comp[c].st = "absent" => c \notin F
  BY DEF Present
<1> HIDE DEF F
<1>4. /\ comp' \in [All -> Row] /\ BuiltRows(comp', task)
      /\ \A c \in All \ F : comp'[c] = comp[c]
      /\ \A c \in F : comp'[c].st = "complete"
  BY <1>1, <1>2, ReusedRows
<1>5. Preserves(comp, comp')
  BY <1>3, <1>4 DEF Preserves
<1>6. batch' \in Nat
  BY <1>1, <1>2, ConstantsAssumption DEF Inv, TypeOK
<1>7. tag' \in [Tags -> SUBSET All]
  BY <1>1, <1>2 DEF Inv, TypeOK
<1>8. out \in SUBSET Message /\ TrueEvents(out, task)
  <2>1. \A g \in Tags : TagEvents(g, F) \in SUBSET Message /\ TrueEvents(TagEvents(g, F), task)
    BY <1>1, TagEventsType
  <2>2. StateEvents("build") \in SUBSET Message /\ TrueEvents(StateEvents("build"), task)
    BY StateEventsType
  <2> QED BY <2>1, <2>2 DEF TrueEvents
<1> HIDE DEF out
<1>9. events' \in SUBSET Message /\ TrueEvents(events', task)
  BY <1>2, <1>8, DeliverTrue DEF Inv, TypeOK
<1>10. TypeOK'
  BY <1>2, <1>4, <1>6, <1>7, <1>9, TransitionType DEF Inv, TypeOK
<1> QED BY <1>2, <1>4, <1>5, <1>9, <1>10 DEF Inv

(* Building module-build-macros keeps the invariant.                        *)
LEMMA BuildMacrosKeeps ==
  ASSUME Inv, NEW m \in events, BuildMacros(m), Transition("build"), kojiTag' = TRUE
  PROVE  Inv' /\ Preserves(comp, comp')
<1> DEFINE created == [comp EXCEPT ![Macros].st = IF @ = "absent" THEN "none" ELSE @]
<1>1. /\ batch' = 1 /\ newRepo' = [st |-> "active", snap |-> tag'["build"]] /\ UNCHANGED repo
  BY DEF BuildMacros
<1>2. /\ created \in [All -> Row]
      /\ \A c \in All \ {Macros} : created[c] = comp[c]
      /\ created[Macros].st = "complete" => created[Macros] = comp[Macros]
  BY DEF Inv, TypeOK, Row, CompState, All
<1>3. BuiltRows(created, task)
  BY <1>2 DEF Inv, BuiltRows
<1>4. Macros \in All /\ {Macros} \in SUBSET All /\ Macros \notin Component
  BY ConstantsAssumption DEF All
<1>5. StateEvents("build") \in SUBSET Message /\ TrueEvents(StateEvents("build"), task)
  BY StateEventsType
<1> HIDE DEF created
<1> DEFINE OK == /\ comp' \in [All -> Row] /\ BuiltRows(comp', task') /\ Preserves(comp, comp')
                 /\ task' \in [All -> [TaskId -> KojiTask]]
                 /\ tag' \in [Tags -> SUBSET All]
                 /\ events' \in SUBSET Message /\ TrueEvents(events', task')
                 /\ budget' \in [Disturbance -> Nat]
<1>6. ASSUME Deliver({m}, StateEvents("build")) /\ UNCHANGED <<comp, task, tag, budget>>
       PROVE  OK
  <2>1. events' \in SUBSET Message /\ TrueEvents(events', task)
    BY <1>5, <1>6, DeliverTrue DEF Inv, TypeOK
  <2> QED BY <1>6, <2>1, SameRows DEF Inv, TypeOK
<1>7. ASSUME /\ comp[Macros].st # "complete"
             /\ comp' = Recovered(created, {Macros})
             /\ tag' = [tag EXCEPT !["build"] = @ \cup {Macros}]
             /\ Deliver({m}, StateEvents("build") \cup RecoverEvents({Macros}, "queue"))
             /\ UNCHANGED <<task, budget>>
       PROVE  OK
  <2>1. /\ comp' \in [All -> Row] /\ BuiltRows(comp', task)
        /\ \A c \in All \ {Macros} : comp'[c] = created[c]
    BY <1>2, <1>3, <1>4, <1>7, RecoveredRows
  <2>2. Preserves(comp, comp')
    BY <1>2, <1>4, <1>7, <2>1 DEF Preserves
  <2>3. RecoverEvents({Macros}, "queue") \in SUBSET Message /\ TrueEvents(RecoverEvents({Macros}, "queue"), task)
    BY <1>4, RecoverEventsType DEF Via
  <2>4. /\ StateEvents("build") \cup RecoverEvents({Macros}, "queue") \in SUBSET Message
        /\ TrueEvents(StateEvents("build") \cup RecoverEvents({Macros}, "queue"), task)
    BY <1>5, <2>3 DEF TrueEvents
  <2>5. events' \in SUBSET Message /\ TrueEvents(events', task)
    BY <1>7, <2>4, DeliverTrue DEF Inv, TypeOK
  <2>6. tag' \in [Tags -> SUBSET All]
    BY <1>4, <1>7 DEF Inv, TypeOK, Tags
  <2> QED BY <1>7, <2>1, <2>2, <2>5, <2>6 DEF Inv, TypeOK
<1>8. ASSUME /\ comp[Macros].st # "complete" /\ HasFreeTask(Macros)
             /\ comp' = Submitted(created, {Macros}) /\ StartTasks({Macros}) /\ UNCHANGED budget
             /\ Deliver({m}, StateEvents("build")) /\ UNCHANGED tag
       PROVE  OK
  <2>1. /\ comp' \in [All -> Row] /\ BuiltRows(comp', task)
        /\ \A c \in All \ {Macros} : comp'[c] = created[c]
    BY <1>2, <1>3, <1>4, <1>8, SubmittedRows
  <2>2. Preserves(comp, comp')
    BY <1>2, <1>4, <1>8, <2>1 DEF Preserves
  <2>3. task' \in [All -> [TaskId -> KojiTask]] /\ EndedStay(task, task')
    BY <1>4, <1>8, StartedTasks DEF Inv, TypeOK
  <2>4. events' \in SUBSET Message /\ TrueEvents(events', task)
    BY <1>5, <1>8, DeliverTrue DEF Inv, TypeOK
  <2>5. BuiltRows(comp', task') /\ TrueEvents(events', task')
    BY <2>1, <2>3, <2>4, RowsOutlastTasks, EventsOutlastTasks
  <2> QED BY <1>8, <2>1, <2>2, <2>3, <2>4, <2>5 DEF Inv, TypeOK
<1>9. ASSUME /\ comp[Macros].st # "complete" /\ Spend("refuse")
             /\ comp' = Refused(created, {Macros}, FALSE) /\ UNCHANGED task
             /\ Deliver({m}, StateEvents("build")) /\ UNCHANGED tag
       PROVE  OK
  <2>1. /\ comp' \in [All -> Row] /\ BuiltRows(comp', task)
        /\ \A c \in All \ {Macros} : comp'[c] = created[c]
    BY <1>2, <1>3, <1>4, <1>9, RefusedRows
  <2>2. Preserves(comp, comp')
    BY <1>2, <1>4, <1>9, <2>1 DEF Preserves
  <2>3. events' \in SUBSET Message /\ TrueEvents(events', task)
    BY <1>5, <1>9, DeliverTrue DEF Inv, TypeOK
  <2>4. budget' \in [Disturbance -> Nat]
    BY <1>9, SpendType DEF Inv, TypeOK, Disturbance
  <2> QED BY <1>9, <2>1, <2>2, <2>3, <2>4 DEF Inv, TypeOK
<1> HIDE DEF OK
<1>10. OK
  <2>1. CASE comp[Macros].st = "complete"
    BY <1>6, <2>1, Zenon DEF BuildMacros
  <2>2. CASE comp[Macros].st # "complete" /\ Orphan(Macros)
    BY <1>7, <2>2, Zenon DEF BuildMacros, created
  <2>3. CASE comp[Macros].st # "complete" /\ ~Orphan(Macros)
    BY <1>8, <1>9, <2>3, Zenon DEF BuildMacros, created
  <2> QED BY <2>1, <2>2, <2>3
<1>11. newRepo' \in [st : {"none", "active", "closed", "failed"}, snap : SUBSET All]
  BY <1>1, <1>10 DEF OK, Tags
<1>12. TypeOK'
  BY <1>1, <1>10, <1>11, TransitionType DEF OK, Inv, TypeOK
<1> QED BY <1>10, <1>12 DEF OK, Inv

(* modules.wait keeps the invariant.                                        *)
LEMMA WaitHandlerKeeps ==
  ASSUME Inv, NEW m \in events, WaitHandler(m)
  PROVE  Inv' /\ Preserves(comp, comp')
<1>1. CASE /\ Spend("reject") /\ Transition("failed") /\ Deliver({m}, StateEvents("failed"))
           /\ UNCHANGED <<batch, kojiTag, comp, koji>>
  BY <1>1, StateStep, SpendType DEF Inv, TypeOK, Disturbance
<1>2. CASE /\ Transition("build") /\ kojiTag' = TRUE
           /\ Deliver({m}, StateEvents("build") \cup {RepoMsg("queue")})
           /\ UNCHANGED <<batch, comp, koji, budget>>
  <2>1. StateEvents("build") \in SUBSET Message /\ TrueEvents(StateEvents("build"), task)
    BY StateEventsType
  <2>2. {RepoMsg("queue")} \in SUBSET Message /\ TrueEvents({RepoMsg("queue")}, task)
    BY RepoEventsType DEF Via
  <2>3. /\ StateEvents("build") \cup {RepoMsg("queue")} \in SUBSET Message
        /\ TrueEvents(StateEvents("build") \cup {RepoMsg("queue")}, task)
    BY <2>1, <2>2 DEF TrueEvents
  <2>4. events' \in SUBSET Message /\ TrueEvents(events', task)
    BY <1>2, <2>3, DeliverTrue DEF Inv, TypeOK
  <2>5. TypeOK'
    BY <1>2, <2>4, TransitionType DEF Inv, TypeOK, koji
  <2> QED BY <1>2, <2>4, <2>5, SameRows DEF Inv, koji
<1>3. CASE Transition("build") /\ kojiTag' = TRUE /\ ReuseAll(m)
  BY <1>3, ReuseAllKeeps
<1>4. CASE Transition("build") /\ kojiTag' = TRUE /\ BuildMacros(m)
  BY <1>4, BuildMacrosKeeps
<1> QED BY <1>1, <1>2, <1>3, <1>4, Zenon DEF WaitHandler

(* A message about the task a row names says complete if the row does.      *)
LEMMA KnownResult ==
  ASSUME Inv, NEW m \in events, m.type = "build", Known(m)
  PROVE  /\ [comp EXCEPT ![m.c].st = m.result] \in [All -> Row]
         /\ BuiltRows([comp EXCEPT ![m.c].st = m.result], task)
         /\ Preserves(comp, [comp EXCEPT ![m.c].st = m.result])
         /\ m.c \in All
<1> DEFINE cb == [comp EXCEPT ![m.c].st = m.result]
<1>1. m.c \in All /\ m.result \in Outcome
  BY DEF Inv, TypeOK, Message
<1>2. \/ m.task = ReuseTask /\ m.result = "complete"
      \/ /\ m.task \in TaskId
         /\ IF m.result = "complete" THEN task[m.c][m.task] = "closed"
            ELSE task[m.c][m.task] \in {"failed", "canceled"}
  BY DEF Inv, TrueEvents
<1>3. comp[m.c].st # "absent" /\ comp[m.c].task = m.task
  BY DEF Known
<1>4. comp \in [All -> Row]
  BY DEF Inv, TypeOK
<1>5. /\ cb \in [All -> Row]
      /\ \A c \in All \ {m.c} : cb[c] = comp[c]
      /\ cb[m.c].st = m.result /\ cb[m.c].task = comp[m.c].task
  BY <1>1, <1>4 DEF Row, CompState
<1> HIDE DEF cb
<1>6. BuiltRows(cb, task)
  BY <1>2, <1>3, <1>5 DEF Inv, BuiltRows
<1>7. comp[m.c].st = "complete" => m.result = "complete"
  BY <1>1, <1>2, <1>3, ReuseRange DEF Inv, BuiltRows
<1>8. Preserves(comp, cb)
  BY <1>3, <1>5, <1>7 DEF Preserves
<1> QED BY <1>1, <1>5, <1>6, <1>8 DEF cb

(* components.build_task_finalize keeps the invariant.                      *)
LEMMA BuildTaskFinalizeKeeps ==
  ASSUME Inv, NEW m \in events, BuildTaskFinalize(m)
  PROVE  Inv' /\ Preserves(comp, comp')
<1> DEFINE cb   == [comp EXCEPT ![m.c].st = m.result]
           cur  == Current(cb)
<1>1. m.type = "build"
  BY Zenon DEF BuildTaskFinalize
<1>2. CASE Deliver({m}, {}) /\ UNCHANGED <<mb, comp, koji, budget>>
  BY <1>2, IdleStep DEF Inv, TypeOK
<1>3. ASSUME Known(m)
      PROVE  cb \in [All -> Row] /\ BuiltRows(cb, task) /\ Preserves(comp, cb)
  BY <1>1, <1>3, KnownResult
<1>4. cur \in SUBSET All
  BY DEF Current, InBatch, Present
<1> HIDE DEF cb, cur
<1>5. CASE /\ Known(m) /\ comp' = cb /\ Transition("failed") /\ Deliver({m}, StateEvents("failed"))
           /\ UNCHANGED <<batch, kojiTag, koji, budget>>
  <2>1. events' \in SUBSET Message /\ TrueEvents(events', task)
    BY <1>5, StateEventsType, DeliverTrue DEF Inv, TypeOK
  <2>2. TypeOK'
    BY <1>3, <1>5, <2>1, TransitionType DEF Inv, TypeOK, koji
  <2> QED BY <1>3, <1>5, <2>1, <2>2 DEF Inv, koji
<1>6. CASE /\ Known(m) /\ comp' = cb /\ Deliver({m}, {}) /\ UNCHANGED <<mb, koji, budget>>
  <2>1. events' \in SUBSET Message /\ TrueEvents(events', task)
    BY <1>6 DEF Deliver, TrueEvents, Inv, TypeOK
  <2>2. TypeOK'
    BY <1>3, <1>6, <2>1 DEF Inv, TypeOK, koji, mb
  <2> QED BY <1>3, <1>6, <2>1, <2>2 DEF Inv, koji
<1>7. CASE /\ Known(m) /\ comp' = cb
           /\ tag' = [build |-> tag["build"] \cup cur, dest |-> tag["dest"] \cup (cur \ {Macros})]
           /\ Deliver({m}, IF cur = {} THEN {RepoMsg("queue")}
                           ELSE TagEvents("build", cur) \cup TagEvents("dest", cur \ {Macros}))
           /\ UNCHANGED <<mb, task, newRepo, repo, budget>>
  <2> DEFINE out == IF cur = {} THEN {RepoMsg("queue")}
                    ELSE TagEvents("build", cur) \cup TagEvents("dest", cur \ {Macros})
  <2>1. /\ TagEvents("build", cur) \in SUBSET Message
        /\ TagEvents("dest", cur \ {Macros}) \in SUBSET Message
        /\ TrueEvents(TagEvents("build", cur), task)
        /\ TrueEvents(TagEvents("dest", cur \ {Macros}), task)
    BY <1>4, TagEventsType DEF Tags
  <2>2. {RepoMsg("queue")} \in SUBSET Message /\ TrueEvents({RepoMsg("queue")}, task)
    BY RepoEventsType DEF Via
  <2>3. out \in SUBSET Message /\ TrueEvents(out, task)
    BY <2>1, <2>2 DEF TrueEvents
  <2>4. Deliver({m}, out)
    BY <1>7
  <2> HIDE DEF out
  <2>5. events' \in SUBSET Message /\ TrueEvents(events', task)
    BY <2>3, <2>4, DeliverTrue DEF Inv, TypeOK
  <2>6. tag' \in [Tags -> SUBSET All]
    BY <1>4, <1>7 DEF Inv, TypeOK, Tags
  <2>7. TypeOK'
    BY <1>3, <1>7, <2>5, <2>6 DEF Inv, TypeOK, mb
  <2> QED BY <1>3, <1>7, <2>5, <2>7 DEF Inv
<1>8. CASE Known(m) /\ ContinueBatch(cb, ToBuild(cb, batch), {m}, {}) /\ UNCHANGED mb
  <2>1. TrueEvents({}, task) /\ {} \in SUBSET Message
    BY DEF TrueEvents
  <2>2. /\ comp' \in [All -> Row] /\ BuiltRows(comp', task') /\ Preserves(cb, comp')
        /\ task' \in [All -> [TaskId -> KojiTask]]
        /\ tag' \in [Tags -> SUBSET All]
        /\ events' \in SUBSET Message /\ TrueEvents(events', task')
        /\ budget' \in [Disturbance -> Nat]
        /\ UNCHANGED <<newRepo, repo>>
    BY <1>3, <1>8, <2>1, ToBuildRows, ContinueBatchKeeps
  <2>3. Preserves(comp, comp')
    BY <1>3, <1>8, <2>2 DEF Preserves
  <2>4. TypeOK'
    BY <1>8, <2>2 DEF Inv, TypeOK, mb
  <2> QED BY <2>2, <2>3, <2>4 DEF Inv
<1> QED BY <1>2, <1>5, <1>6, <1>7, <1>8, Zenon DEF BuildTaskFinalize, cb, cur

(* tags.tagged keeps the invariant.                                         *)
LEMMA TaggedKeeps ==
  ASSUME Inv, NEW m \in events, Tagged(m)
  PROVE  Inv' /\ Preserves(comp, comp')
<1> DEFINE cb == [comp EXCEPT ![m.c].tags = @ \cup {m.tag}]
<1>1. /\ m.type = "tag" /\ UNCHANGED <<mb, task, tag, repo, budget>>
      /\ \/ comp' = comp
         \/ comp' = cb /\ m.c \in Present(comp)
      /\ \/ newRepo' = newRepo
         \/ newRepo' = [st |-> "active", snap |-> tag["build"]]
      /\ \/ Deliver({m}, {})
         \/ Deliver({m}, {RepoMsg("queue")})
  BY Zenon DEF Tagged
<1>2. m.c \in All /\ m.tag \in Tags
  BY <1>1 DEF Inv, TypeOK, Message
<1>3. cb \in [All -> Row] /\ \A c \in All : cb[c].st = comp[c].st /\ cb[c].task = comp[c].task
  BY <1>2 DEF Inv, TypeOK, Row
<1> HIDE DEF cb
<1>4. /\ comp' \in [All -> Row]
      /\ \A c \in All : comp'[c].st = comp[c].st /\ comp'[c].task = comp[c].task
  BY <1>1, <1>3 DEF Inv, TypeOK
<1>5. BuiltRows(comp', task') /\ Preserves(comp, comp')
  BY <1>1, <1>4 DEF Inv, BuiltRows, Preserves
<1>6. events' \in SUBSET Message /\ TrueEvents(events', task)
  <2>1. {RepoMsg("queue")} \in SUBSET Message /\ TrueEvents({RepoMsg("queue")}, task)
    BY RepoEventsType DEF Via
  <2>2. {} \in SUBSET Message /\ TrueEvents({}, task)
    BY DEF TrueEvents
  <2> QED BY <1>1, <2>1, <2>2, DeliverTrue DEF Inv, TypeOK
<1>7. newRepo' \in [st : {"none", "active", "closed", "failed"}, snap : SUBSET All]
  BY <1>1 DEF Inv, TypeOK, Tags
<1>8. TypeOK'
  BY <1>1, <1>4, <1>6, <1>7 DEF Inv, TypeOK, mb
<1> QED BY <1>1, <1>5, <1>6, <1>8 DEF Inv

(* repos.done keeps the invariant.                                          *)
LEMMA RepoDoneKeeps ==
  ASSUME Inv, NEW m \in events, RepoDone(m)
  PROVE  Inv' /\ Preserves(comp, comp')
<1>1. CASE Deliver({m}, {}) /\ UNCHANGED <<mb, comp, koji, budget>>
  BY <1>1, IdleStep DEF Inv, TypeOK
<1>2. ASSUME NEW s \in {"failed", "done"}, Transition(s), Deliver({m}, StateEvents(s)),
             UNCHANGED <<batch, kojiTag, comp, koji, budget>>
      PROVE  Inv' /\ Preserves(comp, comp')
  BY <1>2, StateStep DEF Inv, TypeOK
<1>3. CASE StartNextBatch({m})
  BY <1>3, StartNextBatchKeeps
<1> QED BY <1>1, <1>2, <1>3, Zenon DEF RepoDone

(* modules.failed keeps the invariant.                                      *)
LEMMA FailedHandlerKeeps ==
  ASSUME Inv, NEW m \in events, FailedHandler(m)
  PROVE  Inv' /\ Preserves(comp, comp')
<1> DEFINE open == {c \in Leftover : comp[c].task \in TasksIn(c, "active")}
           out(K) == {BuildMsg("bus", c, comp[c].task, "canceled") : c \in K}
<1>1. Transition("failed") /\ UNCHANGED <<batch, kojiTag, tag, repo, budget>>
  BY DEF FailedHandler
<1>2. StateEvents("failed") \in SUBSET Message /\ TrueEvents(StateEvents("failed"), task)
  BY StateEventsType
<1>3. CASE Deliver({m}, StateEvents("failed")) /\ UNCHANGED <<comp, task, newRepo>>
  BY <1>1, <1>3, StateStep DEF Inv, TypeOK, koji
<1>4. CASE /\ comp' = [c \in All |-> IF c \in Leftover THEN [comp[c] EXCEPT !.st = "failed"]
                                     ELSE comp[c]]
           /\ \E K \in SUBSET open :
                /\ task' = [c \in All |-> IF c \in K THEN [task[c] EXCEPT ![comp[c].task] = "canceled"]
                                          ELSE task[c]]
                /\ Deliver({m}, StateEvents("failed") \cup out(K))
           /\ \/ UNCHANGED newRepo
              \/ newRepo.st = "active" /\ newRepo' = [newRepo EXCEPT !.st = "failed"]
  <2>1. /\ comp' \in [All -> Row] /\ Preserves(comp, comp')
        /\ \A c \in All : comp'[c].st = "complete" => comp'[c] = comp[c]
    <3>1. \A c \in All : comp[c] \in Row /\ [comp[c] EXCEPT !.st = "failed"] \in Row
      BY DEF Inv, TypeOK, Row, CompState, Outcome
    <3>2. \A c \in All : [comp[c] EXCEPT !.st = "failed"].st = "failed"
      BY <3>1 DEF Row
    <3>3. \A c \in Leftover : comp[c].st \notin {"complete", "absent"}
      BY DEF Leftover, Unbuilt, InState
    <3> QED BY <1>4, <3>1, <3>2, <3>3 DEF Preserves
  <2>2. BuiltRows(comp', task)
    BY <2>1 DEF Inv, BuiltRows
  <2>3. PICK K \in SUBSET open :
          /\ task' = [c \in All |-> IF c \in K THEN [task[c] EXCEPT ![comp[c].task] = "canceled"]
                                    ELSE task[c]]
          /\ Deliver({m}, StateEvents("failed") \cup out(K))
    BY <1>4
  <2>4. \A c \in K : /\ c \in All /\ comp[c].task \in TaskId
                     /\ task[c][comp[c].task] = "active"
    BY DEF Leftover, Unbuilt, InState, TasksIn
  <2>5. task' \in [All -> [TaskId -> KojiTask]] /\ EndedStay(task, task')
    <3>1. \A c \in All : task[c] \in [TaskId -> KojiTask]
      BY DEF Inv, TypeOK
    <3>2. \A c \in K : [task[c] EXCEPT ![comp[c].task] = "canceled"] \in [TaskId -> KojiTask]
      BY <2>4, <3>1 DEF KojiTask
    <3>3. \A c \in K, t \in TaskId : task[c][t] # "active" =>
            [task[c] EXCEPT ![comp[c].task] = "canceled"][t] = task[c][t]
      BY <2>4, <3>1
    <3> QED BY <2>3, <3>1, <3>2, <3>3 DEF EndedStay
  <2>6. \A c \in K : task'[c][comp[c].task] = "canceled"
    BY <2>3, <2>4 DEF Inv, TypeOK
  <2>7. out(K) \in SUBSET Message /\ TrueEvents(out(K), task')
    BY <2>4, <2>6 DEF BuildMsg, Message, Via, Outcome, TrueEvents
  <2>8. TrueEvents(StateEvents("failed"), task') /\ TrueEvents(events, task')
    BY <2>5, StateEventsType, EventsOutlastTasks DEF Inv, TypeOK
  <2>9. events' \in SUBSET Message /\ TrueEvents(events', task')
    <3>1. /\ StateEvents("failed") \cup out(K) \in SUBSET Message
          /\ TrueEvents(StateEvents("failed") \cup out(K), task')
      BY <1>2, <2>7, <2>8 DEF TrueEvents
    <3> HIDE DEF out
    <3> QED BY <2>3, <2>8, <3>1, DeliverTrue DEF Inv, TypeOK
  <2>10. newRepo' \in [st : {"none", "active", "closed", "failed"}, snap : SUBSET All]
    BY <1>4 DEF Inv, TypeOK
  <2>11. TypeOK'
    BY <1>1, <2>1, <2>5, <2>9, <2>10, TransitionType DEF Inv, TypeOK
  <2>12. BuiltRows(comp', task')
    BY <2>1, <2>2, <2>5, RowsOutlastTasks
  <2> QED BY <2>1, <2>9, <2>11, <2>12 DEF Inv
<1> QED BY <1>3, <1>4, Zenon DEF FailedHandler

(* modules.done keeps the invariant.                                        *)
LEMMA DoneHandlerKeeps ==
  ASSUME Inv, NEW m \in events, DoneHandler(m)
  PROVE  Inv' /\ Preserves(comp, comp')
<1>1. events' \in SUBSET Message /\ TrueEvents(events', task)
  BY DEF DoneHandler, Deliver, TrueEvents, Inv, TypeOK
<1>2. TypeOK'
  BY <1>1, TransitionType DEF DoneHandler, Inv, TypeOK, koji
<1> QED BY <1>1, <1>2, SameRows DEF DoneHandler, Inv, koji

(* What a handler that raises leaves behind keeps the invariant.            *)
LEMMA HandlerRaisesKeeps ==
  ASSUME Inv, NEW m \in events, HandlerRaises(m)
  PROVE  Inv' /\ Preserves(comp, comp')
<1>1. /\ Spend("raise") /\ Deliver({m}, {}) /\ UNCHANGED <<state, lastLive, koji>>
      /\ \/ batch' = batch /\ kojiTag' = kojiTag
         \/ batch' = 1 /\ kojiTag' = TRUE
  BY Zenon DEF HandlerRaises
<1>2. comp' \in [All -> Row] /\ BuiltRows(comp', task) /\ Preserves(comp, comp')
  <2>0. comp \in [All -> Row] /\ BuiltRows(comp, task)
    BY DEF Inv, TypeOK
  <2>1. CASE m.type = "build" /\ Known(m) /\ comp' = [comp EXCEPT ![m.c].st = m.result]
    BY <2>1, KnownResult
  <2>2. CASE /\ m.type = "tag" /\ m.c \in Present(comp)
             /\ comp' = [comp EXCEPT ![m.c].tags = @ \cup {m.tag}]
    <3>1. m.c \in All /\ m.tag \in Tags
      BY <2>2 DEF Inv, TypeOK, Message
    <3>2. /\ comp' \in [All -> Row]
          /\ \A c \in All : comp'[c].st = comp[c].st /\ comp'[c].task = comp[c].task
      BY <2>0, <2>2, <3>1 DEF Row
    <3> QED BY <2>0, <3>2 DEF BuiltRows, Preserves
  <2>3. CASE comp' = [comp EXCEPT ![Macros].st = IF @ = "absent" THEN "none" ELSE @]
    <3>1. Macros \in All /\ Macros \notin Component
      BY ConstantsAssumption DEF All
    <3>2. /\ comp' \in [All -> Row]
          /\ \A c \in All \ {Macros} : comp'[c] = comp[c]
          /\ comp'[Macros].st = IF comp[Macros].st = "absent" THEN "none" ELSE comp[Macros].st
          /\ comp'[Macros].task = comp[Macros].task
      BY <2>0, <2>3, <3>1 DEF Row, CompState
    <3> QED BY <2>0, <3>1, <3>2 DEF BuiltRows, Preserves
  <2>4. CASE comp' = comp
    BY <2>0, <2>4 DEF Preserves
  <2> QED BY <2>1, <2>2, <2>3, <2>4, Zenon DEF HandlerRaises
<1>3. events' \in SUBSET Message /\ TrueEvents(events', task)
  BY <1>1 DEF Deliver, TrueEvents, Inv, TypeOK
<1>4. batch' \in Nat /\ kojiTag' \in BOOLEAN
  <2>1. batch' \in Nat
    BY <1>1 DEF Inv, TypeOK
  <2>2. kojiTag' \in BOOLEAN
    BY <1>1, Zenon DEF Inv, TypeOK
  <2> QED BY <2>1, <2>2
<1>5. budget' \in [Disturbance -> Nat]
  BY <1>1, SpendType DEF Inv, TypeOK, Disturbance
<1>6. TypeOK'
  BY <1>1, <1>2, <1>3, <1>4, <1>5 DEF Inv, TypeOK, koji
<1> QED BY <1>1, <1>2, <1>3, <1>6 DEF Inv, koji

(* Canceling a build, by a user or by a poller, keeps the invariant.        *)
LEMMA CancelKeeps ==
  ASSUME Inv, Cancel \/ CancelStuckModuleBuilds
  PROVE  Inv' /\ Preserves(comp, comp')
<1>1. budget' \in [Disturbance -> Nat]
  BY SpendType DEF Cancel, CancelStuckModuleBuilds, Inv, TypeOK, Disturbance
<1>2. /\ Transition("failed") /\ Deliver({}, StateEvents("failed"))
      /\ UNCHANGED <<batch, kojiTag, comp, koji>>
  BY DEF Cancel, CancelStuckModuleBuilds
<1> QED BY <1>1, <1>2, StateStep

(* Resuming a build keeps the invariant.                                    *)
LEMMA ResubmitKeeps ==
  ASSUME Inv, Resubmit
  PROVE  Inv' /\ Preserves(comp, comp')
<1> DEFINE to == IF lastLive = "init" THEN "init" ELSE "wait"
<1>1. /\ comp' = [c \in All |-> IF c \in ToReset THEN [comp[c] EXCEPT !.st = "none"] ELSE comp[c]]
      /\ Transition(to) /\ batch' = IF to = "init" THEN batch ELSE 0
      /\ Deliver({}, StateEvents(to))
      /\ Spend("resubmit") /\ UNCHANGED <<kojiTag, koji>>
  BY Zenon DEF Resubmit
<1>2. to \in {"init", "wait"}
  OBVIOUS
<1> HIDE DEF to
<1>3. /\ comp' \in [All -> Row] /\ Preserves(comp, comp')
      /\ \A c \in All : comp'[c].st = "complete" => comp'[c] = comp[c]
  <2>1. \A c \in All : comp[c] \in Row /\ [comp[c] EXCEPT !.st = "none"] \in Row
    BY DEF Inv, TypeOK, Row, CompState
  <2>2. \A c \in All : [comp[c] EXCEPT !.st = "none"].st = "none"
    BY <2>1 DEF Row
  <2>3. \A c \in ToReset : comp[c].st \notin {"complete", "absent"}
    BY DEF ToReset, InState
  <2> QED BY <1>1, <2>1, <2>2, <2>3 DEF Preserves
<1>4. BuiltRows(comp', task)
  BY <1>3 DEF Inv, BuiltRows
<1>5. events' \in SUBSET Message /\ TrueEvents(events', task)
  BY <1>1, StateEventsType, DeliverTrue DEF Inv, TypeOK
<1>6. batch' \in Nat /\ budget' \in [Disturbance -> Nat]
  BY <1>1, SpendType DEF Inv, TypeOK, Disturbance
<1>7. TypeOK'
  BY <1>1, <1>2, <1>3, <1>5, <1>6, TransitionType DEF Inv, TypeOK, koji
<1> QED BY <1>1, <1>3, <1>4, <1>5, <1>7 DEF Inv, koji

(* The pollers that only call handlers again.                               *)
LEMMA CallKeeps ==
  ASSUME Inv, NEW out \in SUBSET Message, TrueEvents(out, task), Deliver({}, out),
         Poll \/ UNCHANGED budget \/ Spend("backlog"),
         UNCHANGED <<mb, comp, koji>>
  PROVE  Inv' /\ Preserves(comp, comp')
<1>1. events' \in SUBSET Message /\ TrueEvents(events', task)
  BY DeliverTrue DEF Inv, TypeOK
<1>2. budget' \in [Disturbance -> Nat]
  BY SpendType DEF Poll, Inv, TypeOK, Disturbance
<1>3. TypeOK'
  BY <1>1, <1>2 DEF Inv, TypeOK, mb, koji
<1> QED BY <1>1, <1>3, SameRows DEF Inv, koji

(* nudge_module_builds_in_state keeps the invariant.                        *)
LEMMA NudgeKeeps == ASSUME Inv, Nudge PROVE Inv' /\ Preserves(comp, comp')
<1>1. {ModuleMsg("queue", state)} \in SUBSET Message /\ TrueEvents({ModuleMsg("queue", state)}, task)
  BY DEF Nudge, ModuleMsg, Message, Via, Handled, TrueEvents
<1> QED BY <1>1, CallKeeps DEF Nudge

(* fail_lost_builds keeps the invariant.                                    *)
LEMMA FailLostBuildsKeeps == ASSUME Inv, FailLostBuilds PROVE Inv' /\ Preserves(comp, comp')
<1> DEFINE msg(c) == BuildMsg("queue", c, comp[c].task, Result(c))
           out == {msg(c) : c \in Ended}
<1>1. /\ Deliver({}, out) /\ UNCHANGED <<mb, comp, koji>>
      /\ UNCHANGED budget \/ Spend("backlog")
  BY Zenon DEF FailLostBuilds
<1>2. ASSUME NEW c \in Ended
      PROVE  /\ c \in All /\ comp[c].task \in TaskId
             /\ Result(c) \in Outcome
             /\ IF Result(c) = "complete"
                THEN task[c][comp[c].task] = "closed"
                ELSE task[c][comp[c].task] \in {"failed", "canceled"}
  BY DEF Ended, Result, Running, BuildResult, Outcome
<1>3. out \in SUBSET Message
  BY <1>2 DEF BuildMsg, Message, Via
<1>4. TrueEvents(out, task)
  <2> SUFFICES ASSUME NEW c \in Ended
               PROVE  /\ msg(c).task \in TaskId
                      /\ IF msg(c).result = "complete" THEN task[msg(c).c][msg(c).task] = "closed"
                         ELSE task[msg(c).c][msg(c).task] \in {"failed", "canceled"}
    BY DEF TrueEvents
  <2> QED BY <1>2 DEF BuildMsg
<1> HIDE DEF out
<1> QED BY <1>1, <1>3, <1>4, CallKeeps

(* sync_koji_build_tags keeps the invariant.                                *)
LEMMA SyncKojiBuildTagsKeeps == ASSUME Inv, SyncKojiBuildTags PROVE Inv' /\ Preserves(comp, comp')
<1>1. PICK B \in SUBSET All, D \in SUBSET All :
        Deliver({}, {TagMsg("queue", "build", c) : c \in B} \cup {TagMsg("queue", "dest", c) : c \in D})
  <2> DEFINE late == Untagged(comp, Current(comp))
  <2>1. late \in SUBSET All
    BY DEF Untagged, Current, InBatch, Present
  <2> QED BY <2>1, Zenon DEF SyncKojiBuildTags
<1> DEFINE out == {TagMsg("queue", "build", c) : c \in B} \cup {TagMsg("queue", "dest", c) : c \in D}
<1>2. out \in SUBSET Message /\ TrueEvents(out, task)
  BY DEF TagMsg, Message, Via, Tags, TrueEvents
<1>3. Deliver({}, out) /\ Poll /\ UNCHANGED <<mb, comp, koji>>
  BY <1>1 DEF SyncKojiBuildTags
<1> HIDE DEF out
<1> QED BY <1>2, <1>3, CallKeeps

(* process_paused_module_builds keeps the invariant.                        *)
LEMMA ProcessPausedKeeps ==
  ASSUME Inv, ProcessPausedModuleBuilds PROVE Inv' /\ Preserves(comp, comp')
BY StartNextBatchKeeps DEF ProcessPausedModuleBuilds

(* cleanup_stale_failed_builds keeps the invariant.                         *)
LEMMA CleanupKeeps ==
  ASSUME Inv, CleanupStaleFailedBuilds PROVE Inv' /\ Preserves(comp, comp')
<1> DEFINE F == InState(comp, {"complete"})
<1>1. /\ Transition("garbage") /\ tag' = [g \in Tags |-> tag[g] \ F]
      /\ comp' = [c \in All |-> IF c \in F THEN [comp[c] EXCEPT !.tags = {}] ELSE comp[c]]
      /\ Deliver({}, StateEvents("garbage"))
      /\ UNCHANGED <<batch, kojiTag, task, newRepo, repo, budget>>
  BY Zenon DEF CleanupStaleFailedBuilds
<1> HIDE DEF F
<1>2. /\ comp' \in [All -> Row]
      /\ \A c \in All : comp'[c].st = comp[c].st /\ comp'[c].task = comp[c].task
  BY <1>1 DEF Inv, TypeOK, Row
<1>3. BuiltRows(comp', task) /\ Preserves(comp, comp')
  BY <1>2 DEF Inv, BuiltRows, Preserves
<1>4. events' \in SUBSET Message /\ TrueEvents(events', task)
  BY <1>1, StateEventsType, DeliverTrue DEF Inv, TypeOK
<1>5. TypeOK'
  BY <1>1, <1>2, <1>4, TransitionType DEF Inv, TypeOK
<1> QED BY <1>1, <1>3, <1>4, <1>5 DEF Inv

(* poll_greenwave keeps the invariant.                                      *)
LEMMA PassGatingKeeps == ASSUME Inv, PassGating PROVE Inv' /\ Preserves(comp, comp')
BY TransitionType, SameRows DEF PassGating, Inv, TypeOK, koji

(* The end of a Koji task keeps the invariant: its message is true.         *)
LEMMA KojiTaskEndsKeeps ==
  ASSUME Inv, NEW c \in All, NEW t \in TaskId, KojiTaskEnds(c, t)
  PROVE  Inv' /\ Preserves(comp, comp')
<1>1. task[c][t] = "active" /\ UNCHANGED <<mb, comp, tag, newRepo, repo>>
  BY DEF KojiTaskEnds
<1>2. PICK s \in {"closed", "failed"} :
        /\ task' = [task EXCEPT ![c][t] = s]
        /\ UNCHANGED budget \/ Spend("taskFail")
        /\ Deliver({}, {BuildMsg("bus", c, t, BuildResult[s])})
  BY Zenon DEF KojiTaskEnds
<1>3. /\ task' \in [All -> [TaskId -> KojiTask]] /\ EndedStay(task, task')
      /\ task'[c][t] = s
  BY <1>1, <1>2 DEF Inv, TypeOK, KojiTask, EndedStay
<1> DEFINE msg == BuildMsg("bus", c, t, BuildResult[s])
<1>4. msg \in Message /\ TrueEvents({msg}, task')
  BY <1>3 DEF BuildMsg, Message, Via, Outcome, BuildResult, TrueEvents
<1>5. TrueEvents(events, task') /\ BuiltRows(comp, task')
  BY <1>3, EventsOutlastTasks, RowsOutlastTasks DEF Inv, TypeOK
<1> HIDE DEF msg
<1>6. events' \in SUBSET Message /\ TrueEvents(events', task')
  BY <1>2, <1>4, <1>5, DeliverTrue DEF Inv, TypeOK, msg
<1>7. budget' \in [Disturbance -> Nat]
  BY <1>2, SpendType DEF Inv, TypeOK, Disturbance
<1>8. TypeOK'
  BY <1>1, <1>3, <1>6, <1>7 DEF Inv, TypeOK, mb
<1> QED BY <1>1, <1>5, <1>6, <1>8, SameRows DEF Inv

(* A new repository keeps the invariant.                                    *)
LEMMA RepositoryKeeps ==
  ASSUME Inv, KojiRepoEnds \/ KojiRegenerates
  PROVE  Inv' /\ Preserves(comp, comp')
<1>1. UNCHANGED <<mb, comp, task, tag>>
  BY DEF KojiRepoEnds, KojiRegenerates
<1>2. budget' \in [Disturbance -> Nat]
  BY SpendType DEF KojiRepoEnds, KojiRegenerates, Inv, TypeOK, Disturbance
<1>3. events' \in SUBSET Message /\ TrueEvents(events', task)
  <2>1. {RepoMsg("bus")} \in SUBSET Message /\ TrueEvents({RepoMsg("bus")}, task)
    BY RepoEventsType DEF Via
  <2>2. events' = events \/ Deliver({}, {RepoMsg("bus")})
    BY DEF KojiRepoEnds, KojiRegenerates
  <2> QED BY <2>1, <2>2, DeliverTrue DEF Inv, TypeOK
<1>4. /\ newRepo' \in [st : {"none", "active", "closed", "failed"}, snap : SUBSET All]
      /\ repo' \in SUBSET All
  BY DEF KojiRepoEnds, KojiRegenerates, Inv, TypeOK, Tags
<1>5. TypeOK'
  BY <1>1, <1>2, <1>3, <1>4 DEF Inv, TypeOK, mb
<1> QED BY <1>1, <1>3, <1>5, SameRows DEF Inv

(* A lost message keeps the invariant.                                      *)
LEMMA LoseKeeps ==
  ASSUME Inv, NEW m \in events, Lose(m)
  PROVE  Inv' /\ Preserves(comp, comp')
<1>1. budget' \in [Disturbance -> Nat]
  BY SpendType DEF Lose, Inv, TypeOK, Disturbance
<1> QED BY <1>1, IdleStep DEF Lose

(* What waits in the memory of a poller is no message of a state change; it *)
(* is queued or forgotten, and nothing else happens.                        *)
LEMMA ScheduledStep ==
  ASSUME TypeOK, RunScheduled \/ Restart
  PROVE  /\ UNCHANGED <<mb, comp, koji>>
         /\ UNCHANGED budget \/ Spend("restart")
         /\ \E K \in SUBSET events :
              /\ \A m \in K : m.type # "module"
              /\ \/ Deliver(K, {})
                 \/ Deliver(K, {[m EXCEPT !.via = "queue"] : m \in K})
<1>1. ASSUME NEW m \in Forgotten PROVE m.type # "module"
  BY DEF Forgotten, TypeOK, Message
<1> QED BY <1>1 DEF RunScheduled, Restart, Forgotten

(* It keeps the invariant.                                                  *)
LEMMA ScheduledKeeps ==
  ASSUME Inv, RunScheduled \/ Restart
  PROVE  Inv' /\ Preserves(comp, comp')
<1>1. UNCHANGED <<mb, comp, koji>> /\ budget' \in [Disturbance -> Nat]
  BY ScheduledStep, SpendType DEF Inv, TypeOK, Disturbance
<1>2. PICK K \in SUBSET events :
        \/ Deliver(K, {})
        \/ Deliver(K, {[m EXCEPT !.via = "queue"] : m \in K})
  BY ScheduledStep DEF Inv
<1> DEFINE out == {[m EXCEPT !.via = "queue"] : m \in K}
<1>3. ASSUME NEW m \in K
      PROVE  /\ [m EXCEPT !.via = "queue"] \in Message
             /\ TrueEvents({[m EXCEPT !.via = "queue"]}, task)
  <2>1. m \in Message /\ TrueEvents({m}, task)
    BY DEF Inv, TypeOK, TrueEvents
  <2>2. [m EXCEPT !.via = "queue"] \in Message
    BY <2>1 DEF Message, Via
  <2>3. /\ [m EXCEPT !.via = "queue"].type = m.type
        /\ m.type = "build" => /\ [m EXCEPT !.via = "queue"].task = m.task
                               /\ [m EXCEPT !.via = "queue"].c = m.c
                               /\ [m EXCEPT !.via = "queue"].result = m.result
    BY <2>1 DEF Message
  <2> QED BY <2>1, <2>2, <2>3 DEF TrueEvents
<1>4. out \in SUBSET Message /\ TrueEvents(out, task)
  BY <1>3 DEF TrueEvents
<1> HIDE DEF out
<1>5. CASE Deliver(K, out)
  <2>1. events' \in SUBSET Message /\ TrueEvents(events', task)
    BY <1>4, <1>5, DeliverTrue DEF Inv, TypeOK
  <2>2. TypeOK'
    BY <1>1, <2>1 DEF Inv, TypeOK, mb, koji
  <2> QED BY <1>1, <2>1, <2>2, SameRows DEF Inv, koji
<1>6. CASE Deliver(K, {})
  BY <1>1, <1>6, IdleStep
<1> QED BY <1>2, <1>5, <1>6 DEF out

-----------------------------------------------------------------------------
(* The specification.                                                       *)

(* A new module build satisfies the invariant.                              *)
LEMMA InitInv == ASSUME Init PROVE Inv
<1>1. events \subseteq Message /\ TrueEvents(events, task)
  BY DEF Init, ModuleMsg, Message, Via, Handled, TrueEvents
<1>2. comp \in [All -> Row] /\ BuiltRows(comp, task)
  <2>1. 0 \in 0..ReuseTask
    BY ConstantsAssumption DEF ReuseTask
  <2> QED BY <2>1 DEF Init, Row, CompState, BuiltRows
<1>3. task \in [All -> [TaskId -> KojiTask]] /\ tag \in [Tags -> SUBSET All] /\ repo \subseteq All
  BY DEF Init, KojiTask
<1>4. /\ batch \in Nat /\ kojiTag \in BOOLEAN /\ budget \in [Disturbance -> Nat]
      /\ newRepo \in [st : {"none", "active", "closed", "failed"}, snap : SUBSET All]
  BY ConstantsAssumption DEF Init
<1>5. TypeOK
  BY <1>1, <1>2, <1>3, <1>4 DEF Init, TypeOK
<1> QED BY <1>1, <1>2, <1>5 DEF Inv

(* Every step keeps the invariant and preserves the component table, except *)
(* that components are recorded while the module is in init.                *)
LEMMA NextKeeps ==
  ASSUME Inv, [Next]_vars
  PROVE  Inv' /\ (Preserves(comp, comp') \/ (state = "init" /\ \E m \in events : InitHandler(m)))
<1>1. CASE UNCHANGED vars
  BY <1>1, SameRows DEF vars, mb, koji, Inv, TypeOK
<1>2. ASSUME NEW m \in events, Handle(m)
      PROVE  Inv' /\ (Preserves(comp, comp') \/ (state = "init" /\ InitHandler(m)))
  <2>1. CASE InitHandler(m)
    BY <2>1, InitHandlerKeeps, InitHandlerPreserves
  <2>2. CASE WaitHandler(m)
    BY <2>2, WaitHandlerKeeps
  <2>3. CASE FailedHandler(m)
    BY <2>3, FailedHandlerKeeps
  <2>4. CASE DoneHandler(m)
    BY <2>4, DoneHandlerKeeps
  <2>5. CASE BuildTaskFinalize(m)
    BY <2>5, BuildTaskFinalizeKeeps
  <2>6. CASE Tagged(m)
    BY <2>6, TaggedKeeps
  <2>7. CASE RepoDone(m)
    BY <2>7, RepoDoneKeeps
  <2> QED BY <1>2, <2>1, <2>2, <2>3, <2>4, <2>5, <2>6, <2>7 DEF Handle
<1>3. CASE \E m \in events : HandlerRaises(m)
  BY <1>3, HandlerRaisesKeeps
<1>4. CASE \E m \in events : Lose(m)
  BY <1>4, LoseKeeps
<1>5. CASE Cancel \/ CancelStuckModuleBuilds
  BY <1>5, CancelKeeps
<1>6. CASE Resubmit
  BY <1>6, ResubmitKeeps
<1>7. CASE Nudge
  BY <1>7, NudgeKeeps
<1>8. CASE FailLostBuilds
  BY <1>8, FailLostBuildsKeeps
<1>9. CASE ProcessPausedModuleBuilds
  BY <1>9, ProcessPausedKeeps
<1>10. CASE SyncKojiBuildTags
  BY <1>10, SyncKojiBuildTagsKeeps
<1>11. CASE CleanupStaleFailedBuilds
  BY <1>11, CleanupKeeps
<1>12. CASE PassGating
  BY <1>12, PassGatingKeeps
<1>13. CASE \E c \in All, t \in TaskId : KojiTaskEnds(c, t)
  BY <1>13, KojiTaskEndsKeeps
<1>14. CASE KojiRepoEnds \/ KojiRegenerates
  BY <1>14, RepositoryKeeps
<1>15. CASE RunScheduled \/ Restart
  BY <1>15, ScheduledKeeps
<1> QED BY <1>1, <1>2, <1>3, <1>4, <1>5, <1>6, <1>7, <1>8, <1>9, <1>10, <1>11, <1>12, <1>13, <1>14,
           <1>15
        DEF Next

(* What is complete in the database was built: its row names a Koji task that *)
(* closed, or a reused build, and no message in flight says otherwise.      *)
THEOREM Invariant == Spec => []Inv
<1>1. Init => Inv
  BY InitInv
<1>2. Inv /\ [Next]_vars => Inv'
  BY NextKeeps
<1> QED BY <1>1, <1>2, PTL DEF Spec

(* The rows, Koji's tables and the events in flight always have their type: *)
(* the database never holds a value the handlers do not expect.             *)
THEOREM TypeCorrect == Spec => []TypeOK
<1>1. Inv => TypeOK
  BY DEF Inv
<1> QED BY <1>1, Invariant, PTL

(* A component that is complete stays complete, for any number of packages, *)
(* attempts, lost and late messages (components.py:69-73 overwrites the     *)
(* state with that of any message that names the task of the row).          *)
THEOREM BuiltStaysBuilt == Spec => CompleteStable
<1>1. Inv /\ [Next]_vars
        => [\A c \in All : comp[c].st = "complete" => comp'[c].st = "complete"]_vars
  <2> SUFFICES ASSUME Inv, [Next]_vars
               PROVE  \A c \in All : comp[c].st = "complete" => comp'[c].st = "complete"
    OBVIOUS
  <2>1. CASE Preserves(comp, comp')
    BY <2>1 DEF Preserves
  <2>2. ASSUME NEW m \in events, InitHandler(m)
        PROVE  \A c \in All : comp[c].st = "complete" => comp'[c].st = "complete"
    BY <2>2 DEF InitHandler
  <2> QED BY <2>1, <2>2, NextKeeps
<1> QED BY <1>1, Invariant, PTL DEF Spec, CompleteStable
=============================================================================
