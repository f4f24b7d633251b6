----------------------------- MODULE TagProofs -----------------------------
(***************************************************************************)
(* Koji has only complete packages in the tags of a module build: what an  *)
(* action tags is complete when it is tagged, and stays complete.          *)
(***************************************************************************)
EXTENDS ModuleBuildProofs

(* Whatever a step tags is complete after it.                               *)
TagsBuilt == \A g \in Tags : \A c \in tag'[g] \ tag[g] : comp'[c].st = "complete"

(* A step that tags nothing, or only untags, tags nothing incomplete.       *)
LEMMA TagsNothing ==
  ASSUME UNCHANGED tag \/ \A g \in Tags : tag'[g] \subseteq tag[g]
  PROVE  TagsBuilt
BY DEF TagsBuilt

(* continue_batch_build tags what it recovers, and fails or submits only    *)
(* components it did not recover.                                           *)
LEMMA ContinueBatchTags ==
  ASSUME Inv, NEW cb \in [All -> Row], NEW U \in SUBSET All, NEW gone, NEW out,
         ContinueBatch(cb, U, gone, out), BuiltRows(cb, task)
  PROVE  TagsBuilt
<1> DEFINE found == {c \in U : cb[c].st = "none" /\ Orphan(c)}
<1>1. PICK S \in SUBSET (U \ found) :
        /\ \A c \in S : HasFreeTask(c)
        /\ \E R \in SUBSET S, raised \in BOOLEAN :
             comp' = Refused(Submitted(Recovered(cb, found), S \ R), R, raised)
  BY Zenon DEF ContinueBatch
<1>2. PICK R \in SUBSET S, raised \in BOOLEAN :
        comp' = Refused(Submitted(Recovered(cb, found), S \ R), R, raised)
  BY <1>1
<1>3. tag' = [tag EXCEPT !["build"] = @ \cup found]
  BY Zenon DEF ContinueBatch
<1>4. found \in SUBSET All /\ S \in SUBSET (All \ found) /\ R \in SUBSET S
  OBVIOUS
<1> HIDE DEF found
<1> DEFINE cb1 == Recovered(cb, found)
           cb2 == Submitted(cb1, S \ R)
<1>5. cb1 \in [All -> Row] /\ BuiltRows(cb1, task) /\ \A c \in found : cb1[c].st = "complete"
  BY <1>4, RecoveredRows
<1> HIDE DEF cb1
<1>6. cb2 \in [All -> Row] /\ BuiltRows(cb2, task) /\ \A c \in All \ (S \ R) : cb2[c] = cb1[c]
  BY <1>1, <1>4, <1>5, SubmittedRows
<1> HIDE DEF cb2
<1>7. \A c \in All \ R : comp'[c] = cb2[c]
  BY <1>2, <1>4, <1>6, RefusedRows, SMTT(60) DEF cb1, cb2
<1>8. \A c \in found : comp'[c].st = "complete"
  BY <1>4, <1>5, <1>6, <1>7
<1> QED BY <1>3, <1>8 DEF TagsBuilt, Inv, TypeOK, Tags

(* start_next_batch_build tags only by continue_batch_build.                *)
LEMMA StartNextBatchTags ==
  ASSUME Inv, NEW gone, StartNextBatch(gone)
  PROVE  TagsBuilt
<1>1. UNCHANGED tag \/ ContinueBatch(comp, ToBuild(comp, batch), gone, {})
        \/ \E b \in {Batch[c] : c \in Present(comp)} : EnterBatch(b, gone)
  BY Zenon DEF StartNextBatch, koji
<1>2. CASE ContinueBatch(comp, ToBuild(comp, batch), gone, {})
  BY <1>2, ContinueBatchTags, ToBuildRows DEF Inv, TypeOK
<1>3. ASSUME NEW b, EnterBatch(b, gone)
      PROVE  TagsBuilt
  <2> DEFINE U  == ToBuild(comp, b)
             re == IF TryReuse(b) THEN U \cap Reusable ELSE {}
             cb == Reused(comp, re, "building")
  <2>1. UNCHANGED tag \/ ContinueBatch(cb, U \ re, gone, ReuseEvents(re, ScheduledBy(gone)))
    BY <1>3, Zenon DEF EnterBatch, koji
  <2>2. U \in SUBSET All /\ re \in SUBSET All /\ "building" \in CompState
    BY ToBuildRows DEF CompState
  <2> HIDE DEF U, re
  <2>3. cb \in [All -> Row] /\ BuiltRows(cb, task)
    BY <2>2, ReusedRows DEF Inv, TypeOK
  <2> HIDE DEF cb
  <2> QED BY <2>1, <2>2, <2>3, ContinueBatchTags, TagsNothing
<1> QED BY <1>1, <1>2, <1>3, TagsNothing

(* modules.wait tags what it reuses, all of it complete, or the macros it   *)
(* recovers.                                                                *)
LEMMA WaitHandlerTags ==
  ASSUME Inv, NEW m \in events, WaitHandler(m)
  PROVE  TagsBuilt
<1>1. UNCHANGED tag \/ ReuseAll(m) \/ BuildMacros(m)
  BY Zenon DEF WaitHandler, koji
<1>2. CASE ReuseAll(m)
  <2> DEFINE F == Present(comp) \ {Macros}
  <2>1. comp' = Reused(comp, F, "complete") /\ tag' = [g \in Tags |-> tag[g] \cup F]
    BY <1>2, Zenon DEF ReuseAll
  <2>2. F \in SUBSET All /\ "complete" \in CompState
    BY DEF Present, CompState, Outcome
  <2> HIDE DEF F
  <2>3. \A c \in F : comp'[c].st = "complete"
    BY <2>1, <2>2, ReusedRows, ZenonT(60) DEF Inv, TypeOK
  <2> QED BY <2>1, <2>3 DEF TagsBuilt
<1>3. CASE BuildMacros(m)
  <2> DEFINE created == [comp EXCEPT ![Macros].st = IF @ = "absent" THEN "none" ELSE @]
  <2>1. \/ UNCHANGED tag
        \/ /\ comp' = Recovered(created, {Macros})
           /\ tag' = [tag EXCEPT !["build"] = @ \cup {Macros}]
    BY <1>3, Zenon DEF BuildMacros
  <2>2. Macros \in All /\ {Macros} \in SUBSET All
    BY DEF All
  <2>3. /\ created \in [All -> Row]
        /\ \A c \in All : created[c].st = "complete" => created[c] = comp[c]
    BY <2>2, ZenonT(60) DEF Inv, TypeOK, Row, CompState
  <2>4. BuiltRows(created, task)
    BY <2>3 DEF Inv, BuiltRows
  <2> HIDE DEF created
  <2>5. Recovered(created, {Macros})[Macros].st = "complete"
    BY <2>2, <2>3, <2>4, RecoveredRows
  <2> QED BY <2>1, <2>5, TagsNothing DEF TagsBuilt, Inv, TypeOK, Tags
<1> QED BY <1>1, <1>2, <1>3, TagsNothing

(* components.build_task_finalize tags the current batch when nothing of it *)
(* is unbuilt and nothing of it is unsuccessful, so that all of it is       *)
(* complete.                                                                *)
LEMMA BuildTaskFinalizeTags ==
  ASSUME Inv, NEW m \in events, BuildTaskFinalize(m)
  PROVE  TagsBuilt
<1> DEFINE cb  == [comp EXCEPT ![m.c].st = m.result]
           cur == Current(cb)
<1>1. m.type = "build"
  BY Zenon DEF BuildTaskFinalize
<1>2. ASSUME Known(m)
      PROVE  cb \in [All -> Row] /\ BuiltRows(cb, task)
  BY <1>1, <1>2, KnownResult
<1> HIDE DEF cb
<1> HIDE DEF cur
<1> DEFINE left   == cur \cap Unbuilt(cb)
           bad    == cur \cap Unsuccessful(cb)
           doomed == \/ m.c = Macros /\ m.result # "complete"
                     \/ batch # 0 /\ left = {} /\ bad # {}
<1>3. CASE UNCHANGED koji
  BY <1>3, TagsNothing DEF koji
<1>4. CASE Known(m) /\ ContinueBatch(cb, ToBuild(cb, batch), {m}, {})
  BY <1>2, <1>4, ToBuildRows, ContinueBatchTags
<1>5. CASE /\ Known(m) /\ ~doomed /\ batch # 0 /\ left = {} /\ comp' = cb
           /\ tag' = [build |-> tag["build"] \cup cur, dest |-> tag["dest"] \cup (cur \ {Macros})]
  <2>1. bad = {}
    BY <1>5
  <2>2. \A c \in cur : cb[c].st = "complete"
    BY <1>2, <1>5, <2>1
       DEF cur, Current, InBatch, Present, Unbuilt, Unsuccessful, InState, Row, CompState, Outcome
  <2> QED BY <1>5, <2>2 DEF TagsBuilt, Tags
<1> QED BY <1>3, <1>4, <1>5, Zenon DEF BuildTaskFinalize, cb, cur

(* No step tags anything incomplete.                                        *)
LEMMA NextTags ==
  ASSUME Inv, [Next]_vars
  PROVE  TagsBuilt
<1>1. CASE UNCHANGED vars
  BY <1>1, TagsNothing DEF vars, koji
<1>2. ASSUME NEW m \in events, Handle(m)
      PROVE  TagsBuilt
  <2>1. CASE InitHandler(m)
    BY <2>1, TagsNothing DEF InitHandler, koji
  <2>2. CASE WaitHandler(m)
    BY <2>2, WaitHandlerTags
  <2>3. CASE FailedHandler(m)
    BY <2>3, TagsNothing DEF FailedHandler
  <2>4. CASE DoneHandler(m)
    BY <2>4, TagsNothing DEF DoneHandler, koji
  <2>5. CASE BuildTaskFinalize(m)
    BY <2>5, BuildTaskFinalizeTags
  <2>6. CASE Tagged(m)
    BY <2>6, TagsNothing DEF Tagged
  <2>7. CASE RepoDone(m)
    <3>1. UNCHANGED tag \/ StartNextBatch({m})
      BY <2>7, Zenon DEF RepoDone, koji
    <3> QED BY <3>1, StartNextBatchTags, TagsNothing
  <2> QED BY <1>2, <2>1, <2>2, <2>3, <2>4, <2>5, <2>6, <2>7 DEF Handle
<1>3. CASE \E m \in events : HandlerRaises(m) \/ Lose(m)
  BY <1>3, TagsNothing DEF HandlerRaises, Lose, koji
<1>4. CASE Cancel \/ Resubmit \/ Nudge \/ FailLostBuilds \/ SyncKojiBuildTags
             \/ CancelStuckModuleBuilds \/ PassGating
  BY <1>4, TagsNothing
     DEF Cancel, Resubmit, Nudge, FailLostBuilds, SyncKojiBuildTags, CancelStuckModuleBuilds,
         PassGating, koji
<1>5. CASE ProcessPausedModuleBuilds
  BY <1>5, StartNextBatchTags DEF ProcessPausedModuleBuilds
<1>6. CASE CleanupStaleFailedBuilds
  <2>1. tag' = [g \in Tags |-> tag[g] \ InState(comp, {"complete"})]
    BY <1>6 DEF CleanupStaleFailedBuilds
  <2> QED BY <2>1, TagsNothing
<1>7. CASE (\E c \in All, t \in TaskId : KojiTaskEnds(c, t)) \/ KojiRepoEnds \/ KojiRegenerates
  BY <1>7, TagsNothing DEF KojiTaskEnds, KojiRepoEnds, KojiRegenerates
<1>8. CASE RunScheduled \/ Restart
  BY <1>8, TagsNothing DEF RunScheduled, Restart, koji
<1> QED BY <1>1, <1>2, <1>3, <1>4, <1>5, <1>6, <1>7, <1>8 DEF Next

(* A package is tagged in Koji for this build only if it is complete in MBS *)
(* (components.py:107-164, KojiModuleBuilder.py:592-672 and reuse.py:173-226 *)
(* tag), for any packages, attempts and messages.                           *)
THEOREM TaggedIsComplete == Spec => []TaggedComplete
<1>1. Init => TaggedComplete
  BY DEF Init, TaggedComplete
<1>2. Inv /\ TaggedComplete /\ [Next]_vars => TaggedComplete'
  <2> SUFFICES ASSUME Inv, TaggedComplete, [Next]_vars, NEW g \in Tags, NEW c \in tag'[g]
               PROVE  comp'[c].st = "complete"
    BY DEF TaggedComplete
  <2>1. CASE c \in tag[g]
    <3>1. c \in All /\ comp[c].st = "complete"
      BY <2>1 DEF TaggedComplete, Inv, TypeOK
    <3>2. CASE Preserves(comp, comp')
      BY <3>1, <3>2 DEF Preserves
    <3>3. ASSUME NEW m \in events, InitHandler(m)
          PROVE  comp'[c].st = "complete"
      BY <3>1, <3>3 DEF InitHandler
    <3> QED BY <3>2, <3>3, NextKeeps
  <2>2. CASE c \notin tag[g]
    BY <2>2, NextTags DEF TagsBuilt
  <2> QED BY <2>1, <2>2
<1> QED BY <1>1, <1>2, Invariant, PTL DEF Spec
=============================================================================
