---------------------------- MODULE FailureProofs ---------------------------
(***************************************************************************)
(* What modules.failed leaves behind: as long as no message was lost and   *)
(* no handler raised, a failed build that has handled its failure has      *)
(* nothing left to build, and nothing starts to build again.               *)
(***************************************************************************)
EXTENDS ModuleBuildProofs

(* No message was lost so far, and no handler raised.                       *)
NothingLost == budget["loss"] = Budget["loss"] /\ budget["raise"] = Budget["raise"]

(* The message of the failure is on its way, or its handler is to run.      *)
FailureMsg(m)  == m.type = "module" /\ m.state = "failed"
FailurePending == \E m \in events : FailureMsg(m)

(* Nothing is left to build, neither building nor waiting: one that waits   *)
(* could be submitted by the next build_task_finalize.                      *)
Over == state = "failed" /\ kojiTag /\ ~FailurePending => Unbuilt(comp) = {}

Spent == \A d \in Disturbance : budget[d] <= Budget[d]

OverInv == Inv /\ Spent /\ (NothingLost => Over)

-----------------------------------------------------------------------------
(* The ways in which a step keeps a failed build over.                      *)

(* It stays failed, its failure stays pending if it was, and nothing is     *)
(* left to build unless something was.                                      *)
StaysOver == /\ UNCHANGED mb
             /\ FailurePending => FailurePending'
             /\ Unbuilt(comp) = {} => Unbuilt(comp') = {}

Keeps == state' # "failed" \/ FailurePending' \/ ~kojiTag' \/ Unbuilt(comp') = {} \/ StaysOver

(* A step that keeps a failed build over in one of these ways does so.      *)
LEMMA KeepsOver == ASSUME Over, Keeps PROVE Over'
BY DEF Over, Keeps, StaysOver, mb

(* What was pending is pending, unless it was handled.                      *)
LEMMA PendingKept ==
  ASSUME NEW gone, NEW out, Deliver(gone, out), \A m \in gone : ~FailureMsg(m)
  PROVE  FailurePending => FailurePending'
BY DEF Deliver, FailurePending

(* A build that fails announces it.                                         *)
LEMMA FailsAnew ==
  ASSUME NEW gone, NEW out, Deliver(gone, out), StateEvents("failed") \subseteq out,
         state # "failed"
  PROVE  FailurePending'
<1>1. ModuleMsg("bus", "failed") \in out
  BY DEF StateEvents, Handled
<1>2. FailureMsg(ModuleMsg("bus", "failed"))
  BY DEF FailureMsg, ModuleMsg
<1> QED BY <1>1, <1>2 DEF Deliver, FailurePending

(* A build that fails whatever state it was in.                             *)
LEMMA FailKeepsOver ==
  ASSUME NEW gone, Transition("failed"), Deliver(gone, StateEvents("failed")),
         \A m \in gone : ~FailureMsg(m), UNCHANGED <<batch, kojiTag, comp>>
  PROVE  Keeps
<1>1. CASE state # "failed"
  BY <1>1, FailsAnew DEF Keeps
<1>2. CASE state = "failed"
  <2>1. UNCHANGED mb
    BY <1>2 DEF Transition, mb
  <2> QED BY <2>1, PendingKept DEF Keeps, StaysOver, Unbuilt, InState
<1> QED BY <1>1, <1>2

(* A handler that only adds messages.                                       *)
LEMMA StayKeepsOver ==
  ASSUME NEW gone, NEW out, Deliver(gone, out), \A m \in gone : ~FailureMsg(m),
         UNCHANGED <<mb, comp>>
  PROVE  Keeps
BY PendingKept DEF Keeps, StaysOver, Unbuilt, InState

-----------------------------------------------------------------------------
(* The handlers.                                                            *)

(* modules.init fails only a build in init.                                 *)
LEMMA InitHandlerOver == ASSUME NEW m \in events, InitHandler(m) PROVE Keeps
<1>1. ~FailureMsg(m)
  BY DEF InitHandler, FailureMsg
<1>2. CASE Deliver({m}, {}) /\ UNCHANGED <<mb, comp>>
  BY <1>1, <1>2, StayKeepsOver
<1>3. CASE Transition("wait")
  BY <1>3 DEF Transition, Keeps
<1>4. CASE Transition("failed") /\ Deliver({m}, StateEvents("failed"))
           /\ UNCHANGED <<batch, kojiTag, comp>>
  BY <1>1, <1>4, FailKeepsOver
<1> QED BY <1>2, <1>3, <1>4, Zenon DEF InitHandler

(* modules.wait builds or fails.                                            *)
LEMMA WaitHandlerOver == ASSUME NEW m \in events, WaitHandler(m) PROVE Keeps
<1>1. ~FailureMsg(m)
  BY DEF WaitHandler, FailureMsg
<1>2. CASE Transition("build")
  BY <1>2 DEF Transition, Keeps
<1>3. CASE Transition("failed") /\ Deliver({m}, StateEvents("failed"))
           /\ UNCHANGED <<batch, kojiTag, comp>>
  BY <1>1, <1>3, FailKeepsOver
<1> QED BY <1>2, <1>3, Zenon DEF WaitHandler

(* modules.failed leaves nothing to build, if the build has a tag in Koji.  *)
LEMMA FailedHandlerOver == ASSUME Inv, NEW m \in events, FailedHandler(m) PROVE Keeps
<1>1. CASE kojiTag /\ comp' = [c \in All |-> IF c \in Leftover THEN [comp[c] EXCEPT !.st = "failed"]
                                             ELSE comp[c]]
  <2>1. ASSUME NEW c \in All PROVE comp'[c].st \notin {"none", "building"}
    <3>1. comp[c] \in Row
      BY DEF Inv, TypeOK
    <3> QED BY <1>1, <3>1 DEF Leftover, Unbuilt, InState, Row
  <2> QED BY <2>1 DEF Keeps, Unbuilt, InState
<1>2. CASE ~kojiTag /\ UNCHANGED kojiTag
  BY <1>2 DEF Keeps
<1> QED BY <1>1, <1>2, Zenon DEF FailedHandler

(* modules.done does not fail a build.                                      *)
LEMMA DoneHandlerOver == ASSUME NEW m \in events, DoneHandler(m) PROVE Keeps
<1>1. ~FailureMsg(m)
  BY DEF DoneHandler, FailureMsg
<1>2. CASE Transition("ready")
  BY <1>2 DEF Transition, Keeps
<1>3. CASE UNCHANGED <<state, lastLive>>
  BY <1>1, <1>3, StayKeepsOver DEF DoneHandler, mb
<1> QED BY <1>2, <1>3, Zenon DEF DoneHandler

(* The result of a component leaves no more to build than there was.        *)
LEMMA ResultOver ==
  ASSUME Inv, NEW m \in events, m.type = "build", Unbuilt(comp) = {}
  PROVE  Unbuilt([comp EXCEPT ![m.c].st = m.result]) = {}
<1>1. m \in Message /\ comp \in [All -> Row]
  BY DEF Inv, TypeOK
<1>2. m.c \in All /\ m.result \in Outcome
  BY <1>1 DEF Message
<1>3. ASSUME NEW c \in All PROVE [comp EXCEPT ![m.c].st = m.result][c].st \notin {"none", "building"}
  <2>1. comp[c] \in Row /\ comp[c].st \notin {"none", "building"}
    BY <1>1 DEF Unbuilt, InState
  <2> QED BY <1>1, <1>2, <2>1 DEF Outcome, Row
<1> QED BY <1>3 DEF Unbuilt, InState

(* components.build_task_finalize fails the build, or goes on with a batch  *)
(* that has components left to build.                                       *)
LEMMA BuildTaskFinalizeOver == ASSUME Inv, NEW m \in events, BuildTaskFinalize(m) PROVE Keeps
<1> DEFINE cb == [comp EXCEPT ![m.c].st = m.result]
<1>1. m.type = "build" /\ ~FailureMsg(m)
  BY DEF BuildTaskFinalize, FailureMsg
<1>2. Unbuilt(comp) = {} => Unbuilt(cb) = {}
  BY <1>1, ResultOver
<1> HIDE DEF cb
<1>3. CASE Deliver({m}, {}) /\ UNCHANGED <<mb, comp>>
  BY <1>1, <1>3, StayKeepsOver
<1>4. CASE comp' = cb /\ Transition("failed") /\ Deliver({m}, StateEvents("failed"))
           /\ UNCHANGED <<batch, kojiTag>>
  <2>1. CASE state # "failed"
    BY <1>4, <2>1, FailsAnew DEF Keeps
  <2>2. CASE state = "failed"
    <3>1. UNCHANGED mb
      BY <1>4, <2>2 DEF Transition, mb
    <3> QED BY <1>1, <1>2, <1>4, <3>1, PendingKept DEF Keeps, StaysOver, Unbuilt, InState
  <2> QED BY <2>1, <2>2
<1>5. CASE comp' = cb /\ UNCHANGED mb /\ \E out : Deliver({m}, out)
  BY <1>1, <1>2, <1>5, PendingKept DEF Keeps, StaysOver, Unbuilt, InState
<1>6. CASE /\ Current(cb) \cap Unbuilt(cb) \cap Waiting(cb) # {} /\ UNCHANGED mb
           /\ \E out : Deliver({m}, out)
  BY <1>1, <1>2, <1>6, PendingKept DEF Keeps, StaysOver
<1>7. ASSUME NEW U, ContinueBatch(cb, U, {m}, {}) PROVE \E out : Deliver({m}, out)
  BY <1>7, Zenon DEF ContinueBatch
<1> QED BY <1>3, <1>4, <1>5, <1>6, <1>7, Zenon DEF BuildTaskFinalize, cb

(* tags.tagged touches only what is tagged.                                 *)
LEMMA TaggedOver == ASSUME Inv, NEW m \in events, Tagged(m) PROVE Keeps
<1>1. ~FailureMsg(m) /\ UNCHANGED mb /\ \E out : Deliver({m}, out)
  BY Zenon DEF Tagged, FailureMsg
<1>2. Unbuilt(comp) = {} => Unbuilt(comp') = {}
  <2>1. CASE UNCHANGED comp
    BY <2>1 DEF Unbuilt, InState
  <2>2. CASE comp' = [comp EXCEPT ![m.c].tags = @ \cup {m.tag}]
    <3>1. ASSUME NEW c \in All PROVE comp'[c].st = comp[c].st
      <4>1. comp[c] \in Row /\ comp \in [All -> Row]
        BY DEF Inv, TypeOK
      <4> QED BY <2>2, <4>1 DEF Row
    <3> QED BY <3>1 DEF Unbuilt, InState
  <2> QED BY <2>1, <2>2, Zenon DEF Tagged
<1> QED BY <1>1, <1>2, PendingKept DEF Keeps, StaysOver

(* start_next_batch_build is for builds under way only.                     *)
LEMMA StartNextBatchOver ==
  ASSUME NEW gone, state = "build", StartNextBatch(gone)
  PROVE  Keeps
<1>1. CASE UNCHANGED mb \/ UNCHANGED <<state, lastLive, kojiTag>>
  BY <1>1 DEF Keeps, mb
<1>2. CASE Deliver(gone, StateEvents("failed"))
  BY <1>2, FailsAnew DEF Keeps
<1> QED BY <1>1, <1>2, Zenon DEF StartNextBatch

(* repos.done fails a build under way, or goes on with it.                  *)
LEMMA RepoDoneOver == ASSUME NEW m \in events, RepoDone(m) PROVE Keeps
<1>1. ~FailureMsg(m)
  BY DEF RepoDone, FailureMsg
<1>2. CASE Deliver({m}, {}) /\ UNCHANGED <<mb, comp>>
  BY <1>1, <1>2, StayKeepsOver
<1>3. CASE Transition("failed") /\ Deliver({m}, StateEvents("failed"))
           /\ UNCHANGED <<batch, kojiTag, comp>>
  BY <1>1, <1>3, FailKeepsOver
<1>4. CASE FoundByTag /\ StartNextBatch({m})
  BY <1>4, StartNextBatchOver DEF FoundByTag
<1>5. CASE Transition("done")
  BY <1>5 DEF Transition, Keeps
<1> QED BY <1>2, <1>3, <1>4, <1>5, Zenon DEF RepoDone

-----------------------------------------------------------------------------
(* All steps.                                                               *)

Falls == UNCHANGED budget \/ \E d \in Disturbance : Spend(d)

(* No disturbance is taken back.                                            *)
LEMMA BudgetFalls ==
  ASSUME Inv, [Next]_vars
  PROVE  \A d \in Disturbance : budget[d] \in Nat /\ budget'[d] \in Nat /\ budget'[d] <= budget[d]
<1>1. budget \in [Disturbance -> Nat]
  BY DEF Inv, TypeOK
<1>2. Falls
  <2>0. {"cancel", "resubmit", "reject", "refuse", "taskFail", "repoFail", "regen", "loss",
         "raise", "backlog", "restart"} = Disturbance
    BY DEF Disturbance
  <2>1. ASSUME NEW cb, NEW U, NEW gone, NEW out, ContinueBatch(cb, U, gone, out) PROVE Falls
    BY <2>0, <2>1, Zenon DEF Falls, ContinueBatch
  <2>2. ASSUME NEW gone, StartNextBatch(gone) PROVE Falls
    BY <2>1, <2>2, Zenon DEF Falls, StartNextBatch, EnterBatch
  <2>3. ASSUME NEW m, InitHandler(m) \/ WaitHandler(m) \/ FailedHandler(m) \/ DoneHandler(m)
        PROVE  Falls
    BY <2>0, <2>3, Zenon
       DEF Falls, InitHandler, WaitHandler, ReuseAll, BuildMacros, FailedHandler, DoneHandler
  <2>4. ASSUME NEW m, BuildTaskFinalize(m) \/ Tagged(m) \/ RepoDone(m) PROVE Falls
    BY <2>1, <2>2, <2>4, Zenon DEF Falls, BuildTaskFinalize, Tagged, RepoDone
  <2>5. ASSUME NEW m, HandlerRaises(m) \/ Lose(m) PROVE Falls
    BY <2>0, <2>5, Zenon DEF Falls, HandlerRaises, Lose
  <2>6. CASE Cancel \/ Resubmit \/ Nudge \/ FailLostBuilds \/ SyncKojiBuildTags
    BY <2>0, <2>6, Zenon DEF Falls, Cancel, Resubmit, Nudge, FailLostBuilds, SyncKojiBuildTags, Poll
  <2>7. CASE ProcessPausedModuleBuilds \/ CancelStuckModuleBuilds \/ CleanupStaleFailedBuilds
             \/ PassGating
    BY <2>2, <2>7, Zenon DEF Falls, ProcessPausedModuleBuilds, CancelStuckModuleBuilds,
                             CleanupStaleFailedBuilds, PassGating
  <2>8. ASSUME NEW c, NEW t, KojiTaskEnds(c, t) PROVE Falls
    BY <2>0, <2>8, Zenon DEF Falls, KojiTaskEnds
  <2>9. CASE KojiRepoEnds \/ KojiRegenerates
    BY <2>0, <2>9, Zenon DEF Falls, KojiRepoEnds, KojiRegenerates
  <2>10. CASE UNCHANGED vars
    BY <2>10 DEF vars, Falls
  <2>11. ASSUME NEW m, Handle(m) PROVE Falls
    BY <2>3, <2>4, <2>11 DEF Handle
  <2>12. CASE RunScheduled \/ Restart
    BY <2>0, <2>12, Zenon DEF Falls, RunScheduled, Restart
  <2> QED BY <2>5, <2>6, <2>7, <2>8, <2>9, <2>10, <2>11, <2>12 DEF Next
<1>3. ASSUME NEW d \in Disturbance, Spend(d)
      PROVE  \A e \in Disturbance : budget'[e] \in Nat /\ budget'[e] <= budget[e]
  BY <1>1, <1>3 DEF Spend
<1> QED BY <1>1, <1>2, <1>3 DEF Falls

(* As long as nothing is lost and nothing raises, every step keeps a failed *)
(* build over.                                                              *)
LEMMA NextOver == ASSUME Inv, Spent, NothingLost', [Next]_vars PROVE Keeps
<1>1. ASSUME NEW m \in events, Handle(m) PROVE Keeps
  BY <1>1, InitHandlerOver, WaitHandlerOver, FailedHandlerOver, DoneHandlerOver,
     BuildTaskFinalizeOver, TaggedOver, RepoDoneOver DEF Handle
<1>2. ASSUME NEW m \in events, HandlerRaises(m) \/ Lose(m) PROVE FALSE
  <2>1. budget \in [Disturbance -> Nat] /\ Budget \in [Disturbance -> Nat]
    BY ConstantsAssumption DEF Inv, TypeOK
  <2>2. "loss" \in Disturbance /\ "raise" \in Disturbance
    BY DEF Disturbance
  <2>3. Spend("raise") \/ Spend("loss")
    BY <1>2, Zenon DEF HandlerRaises, Lose
  <2> QED BY <2>1, <2>2, <2>3 DEF Spend, Spent, NothingLost
<1>3. CASE Cancel \/ CancelStuckModuleBuilds
  <2>1. state # "failed" /\ Deliver({}, StateEvents("failed"))
    BY <1>3, ConstantsAssumption DEF Cancel, CancelStuckModuleBuilds
  <2> QED BY <2>1, FailsAnew DEF Keeps
<1>4. CASE Resubmit \/ CleanupStaleFailedBuilds \/ PassGating
  BY <1>4 DEF Resubmit, CleanupStaleFailedBuilds, PassGating, Transition, Keeps
<1>5. CASE Nudge \/ FailLostBuilds \/ SyncKojiBuildTags
  <2>1. UNCHANGED <<mb, comp>> /\ \E out : Deliver({}, out)
    BY <1>5, Zenon DEF Nudge, FailLostBuilds, SyncKojiBuildTags
  <2> QED BY <2>1, StayKeepsOver
<1>6. CASE ProcessPausedModuleBuilds
  BY <1>6, StartNextBatchOver DEF ProcessPausedModuleBuilds
<1>7. CASE (\E c \in All, t \in TaskId : KojiTaskEnds(c, t)) \/ KojiRegenerates
  <2>1. UNCHANGED <<mb, comp>> /\ \E out : Deliver({}, out)
    BY <1>7, Zenon DEF KojiTaskEnds, KojiRegenerates
  <2> QED BY <2>1, StayKeepsOver
<1>8. CASE KojiRepoEnds
  <2>1. UNCHANGED <<mb, comp>> /\ (UNCHANGED events \/ \E out : Deliver({}, out))
    BY <1>8, Zenon DEF KojiRepoEnds
  <2>2. UNCHANGED events => Deliver({}, {})
    BY DEF Deliver
  <2> QED BY <2>1, <2>2, StayKeepsOver
<1>9. CASE UNCHANGED vars
  <2>1. Deliver({}, {})
    BY <1>9 DEF vars, Deliver
  <2> QED BY <1>9, <2>1, StayKeepsOver DEF vars
<1>10. CASE RunScheduled \/ Restart
  <2>1. /\ UNCHANGED <<mb, comp>>
        /\ \E gone, out : Deliver(gone, out) /\ \A m \in gone : ~FailureMsg(m)
    BY <1>10, ScheduledStep DEF Inv, FailureMsg
  <2> QED BY <2>1, StayKeepsOver
<1> QED BY <1>1, <1>2, <1>3, <1>4, <1>5, <1>6, <1>7, <1>8, <1>9, <1>10 DEF Next

(* So the invariant is inductive.                                           *)
LEMMA OverAlways == Spec => []OverInv
<1>1. Init => OverInv
  <2> SUFFICES ASSUME Init PROVE OverInv
    OBVIOUS
  <2>1. Spent /\ state # "failed"
    BY ConstantsAssumption DEF Init, Spent
  <2> QED BY <2>1, InitInv DEF OverInv, Over
<1>2. OverInv /\ [Next]_vars => OverInv'
  <2> SUFFICES ASSUME OverInv, [Next]_vars PROVE OverInv'
    OBVIOUS
  <2>1. Inv'
    BY NextKeeps DEF OverInv
  <2>2. \A d \in Disturbance : budget[d] \in Nat /\ budget'[d] \in Nat /\ budget'[d] <= budget[d]
    BY BudgetFalls DEF OverInv
  <2>3. Spent' /\ (NothingLost' => NothingLost)
    <3>1. "loss" \in Disturbance /\ "raise" \in Disturbance /\ Budget \in [Disturbance -> Nat]
      BY ConstantsAssumption DEF Disturbance
    <3> QED BY <2>2, <3>1 DEF OverInv, Spent, NothingLost
  <2>4. NothingLost' => Over'
    BY <2>3, NextOver, KeepsOver DEF OverInv
  <2> QED BY <2>1, <2>3, <2>4 DEF OverInv
<1> QED BY <1>1, <1>2, PTL DEF Spec

(* As long as no message was lost and no handler raised, a failed build     *)
(* that has handled its failure has no component building: modules.failed   *)
(* cancels what was under way, and no late result, tag or repository of the *)
(* attempt starts a component again (modules.py:136-207).                   *)
THEOREM FailureIsFinal == Spec => [](NothingLost => FailedIsOver)
<1>1. OverInv => (NothingLost => FailedIsOver)
  BY DEF OverInv, Over, FailurePending, FailureMsg, FailedIsOver, Unbuilt, InState
<1> QED BY <1>1, OverAlways, PTL
=============================================================================
