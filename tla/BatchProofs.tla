---------------------------- MODULE BatchProofs ----------------------------
(***************************************************************************)
(* What batches promise, whatever attempts, relics and late messages there *)
(* are: the barrier between batches, one running task per component and    *)
(* the threshold of components that build at once.                         *)
(***************************************************************************)
EXTENDS PromiseProofs, FiniteSetTheorems

(* The invariant is about a component table cb, a table tk of Koji's tasks, *)
(* a current batch b and a repository rp, since what a handler submits it   *)
(* decides on a table that is not that of a state.                          *)

(* The components that are not complete yet.                                *)
Open(cb) == {c \in Component : cb[c].st \notin {"absent", "complete"}}

(* With components left, the batches before the current one are complete,   *)
(* module-build-macros among them, and in the repository.                   *)
Behind(cb, b) ==
  Open(cb) # {} =>
    /\ b >= 1 => cb[Macros].st # "absent"
    /\ \A d \in All : cb[d].st # "absent" /\ Batch[d] < b => cb[d].st = "complete"
Stored(cb, b, rp) ==
  Open(cb) # {} => \A d \in All : cb[d].st # "absent" /\ Batch[d] < b => d \in rp

(* A component builds only after module-build-macros is complete.           *)
Runs(cb, c) == cb[c].st = "building" /\ ~cb[c].reused
MacrosFirst(cb) == \A c \in Component : Runs(cb, c) => cb[Macros].st = "complete"

(* The only task that may run of a component of the current batch is the    *)
(* one its row names, and none does if it is to be submitted. (For a long   *)
(* tag start_next_batch_build does not find the relics it looks for.)       *)
OneTask(cb, tk, b) ==
  ~LongTag => \A c \in Open(cb) : Batch[c] = b =>
    \A t \in TaskId : tk[c][t] = "active" => t = cb[c].task /\ cb[c].st \notin {"none", "canceled"}

(* No component has two tasks that run.                                     *)
OneActive(tk) ==
  ~LongTag => \A c \in Component : \A s, t \in TaskId : tk[c][s] = "active" /\ tk[c][t] = "active" => s = t

Few(cb) == Cardinality(Running(cb)) <= NumConcurrent

BatchInv(cb, tk, b) ==
  Behind(cb, b) /\ MacrosFirst(cb) /\ OneTask(cb, tk, b) /\ OneActive(tk) /\ Few(cb)

(* A build that never left init is in no batch.                             *)
NoBatchYet == lastLive = "init" => batch = 0

BInv == Agreed /\ BatchInv(comp, task, batch) /\ NoBatchYet

-----------------------------------------------------------------------------
(* Steps that submit no component.                                          *)

(* From cb1, tk1 and b1 to cb2, tk2 and b2 nothing starts to build or run,  *)
(* and the current batch stays, unless it is left for batch 0 or 1.         *)
CalmRows(cb1, cb2) ==
  /\ \A c \in All : cb1[c].st = "complete" => cb2[c].st = "complete"
  /\ \A c \in Component : cb2[c].st = "absent" <=> cb1[c].st = "absent"
  /\ \A c \in Component : Runs(cb2, c) => Runs(cb1, c)
  /\ Running(cb2) \subseteq Running(cb1) \/ Running(cb2) \subseteq {Macros}

CalmTasks(tk1, tk2) ==
  \A c \in Component, t \in TaskId : tk2[c][t] = "active" => tk1[c][t] = "active"

CalmBatch(cb1, b1, cb2, b2) ==
  Open(cb2) # {} =>
    \/ b2 = 0
    \/ b2 = 1 /\ cb2[Macros].st # "absent"
    \/ b2 = b1 /\ (cb2[Macros].st = "absent" <=> cb1[Macros].st = "absent")

(* The row of a component that is left names the task it named before, and  *)
(* is not to be submitted unless it was, or no task of it runs.             *)
CalmTask(cb1, b1, cb2, tk2, b2) ==
  ~LongTag => \A c \in Open(cb2) : Batch[c] = b2 =>
    \/ b2 = b1 /\ cb2[c].task = cb1[c].task
         /\ (cb2[c].st \in {"none", "canceled"} => cb1[c].st \in {"none", "canceled"})
    \/ \A t \in TaskId : tk2[c][t] # "active"

Calm(cb1, tk1, b1, cb2, tk2, b2) ==
  /\ CalmRows(cb1, cb2) /\ CalmTasks(tk1, tk2)
  /\ CalmBatch(cb1, b1, cb2, b2) /\ CalmTask(cb1, b1, cb2, tk2, b2)

(* What is left after a calm step was left before it.                       *)
LEMMA CalmOpen ==
  ASSUME NEW cb1, NEW cb2, CalmRows(cb1, cb2)
  PROVE  Open(cb2) \subseteq Open(cb1)
BY DEF CalmRows, Open, All

(* The packages that are building are finitely many.                        *)
LEMMA RunningFinite ==
  ASSUME NEW cb
  PROVE  /\ IsFiniteSet(All) /\ IsFiniteSet(Running(cb))
         /\ Cardinality(Running(cb)) \in Nat
<1>1. IsFiniteSet(All)
  BY ConstantsAssumption, FS_AddElement DEF All
<1>2. Running(cb) \subseteq All
  BY DEF Running
<1> QED BY <1>1, <1>2, FS_Subset, FS_CardinalityType

(* The threshold keeps when what builds becomes less, or the macros alone.  *)
LEMMA FewKeeps ==
  ASSUME NEW cb1, NEW cb2, Few(cb1),
         Running(cb2) \subseteq Running(cb1) \/ Running(cb2) \subseteq {Macros}
  PROVE  Few(cb2)
<1>1. /\ IsFiniteSet(Running(cb1)) /\ Cardinality(Running(cb1)) \in Nat
      /\ IsFiniteSet(Running(cb2)) /\ Cardinality(Running(cb2)) \in Nat
  BY RunningFinite
<1>2. CASE Running(cb2) \subseteq Running(cb1)
  <2>1. Cardinality(Running(cb2)) <= Cardinality(Running(cb1))
    BY <1>1, <1>2, FS_Subset
  <2> QED BY <1>1, <2>1, ConstantsAssumption DEF Few
<1>3. CASE Running(cb2) \subseteq {Macros}
  <2>1. IsFiniteSet({Macros}) /\ Cardinality({Macros}) = 1
    BY FS_Singleton
  <2>2. Cardinality(Running(cb2)) <= 1
    BY <1>3, <2>1, FS_Subset
  <2> QED BY <1>1, <2>2, ConstantsAssumption DEF Few
<1> QED BY <1>2, <1>3

(* A calm step keeps the invariant.                                         *)
LEMMA CalmKeeps ==
  ASSUME NEW cb1 \in [All -> Row], NEW tk1, NEW b1 \in Nat,
         NEW cb2 \in [All -> Row], NEW tk2, NEW b2 \in Nat,
         BatchInv(cb1, tk1, b1), Calm(cb1, tk1, b1, cb2, tk2, b2)
  PROVE  BatchInv(cb2, tk2, b2)
<1>0. Open(cb2) \subseteq Open(cb1) /\ Macros \in All /\ Batch[Macros] = 1
  BY CalmOpen, ConstantsAssumption DEF Calm, All
<1>1. Behind(cb2, b2)
  <2> SUFFICES ASSUME Open(cb2) # {}
               PROVE  /\ b2 >= 1 => cb2[Macros].st # "absent"
                      /\ \A d \in All : cb2[d].st # "absent" /\ Batch[d] < b2
                                          => cb2[d].st = "complete"
    BY DEF Behind
  <2>1. /\ b1 >= 1 => cb1[Macros].st # "absent"
        /\ \A d \in All : cb1[d].st # "absent" /\ Batch[d] < b1 => cb1[d].st = "complete"
    BY <1>0 DEF BatchInv, Behind
  <2>2. \A d \in Component : Batch[d] \in Nat /\ Batch[d] > 1 /\ d \in All
    BY ConstantsAssumption DEF All
  <2>3. CASE b2 = 0
    BY <1>0, <2>2, <2>3 DEF All
  <2>4. CASE b2 = 1 /\ cb2[Macros].st # "absent"
    BY <1>0, <2>2, <2>4 DEF All
  <2>5. CASE b2 = b1 /\ (cb2[Macros].st = "absent" <=> cb1[Macros].st = "absent")
    BY <1>0, <2>1, <2>2, <2>5 DEF All, Calm, CalmRows
  <2> QED BY <2>3, <2>4, <2>5 DEF Calm, CalmBatch
<1>2. MacrosFirst(cb2)
  BY <1>0 DEF BatchInv, MacrosFirst, Calm, CalmRows
<1>3. OneTask(cb2, tk2, b2)
  <2> SUFFICES ASSUME ~LongTag, NEW c \in Open(cb2), Batch[c] = b2, NEW t \in TaskId, tk2[c][t] = "active"
               PROVE  t = cb2[c].task /\ cb2[c].st \notin {"none", "canceled"}
    BY DEF OneTask
  <2>1. c \in Component /\ c \in Open(cb1) /\ tk1[c][t] = "active"
    BY <1>0 DEF Open, Calm, CalmTasks
  <2>2. /\ b2 = b1 /\ cb2[c].task = cb1[c].task
        /\ cb2[c].st \in {"none", "canceled"} => cb1[c].st \in {"none", "canceled"}
    BY DEF Calm, CalmTask
  <2> QED BY <2>1, <2>2 DEF BatchInv, OneTask
<1>4. OneActive(tk2)
  BY DEF BatchInv, OneActive, Calm, CalmTasks
<1>5. Few(cb2)
  BY FewKeeps DEF BatchInv, Calm, CalmRows
<1> QED BY <1>1, <1>2, <1>3, <1>4, <1>5 DEF BatchInv

-----------------------------------------------------------------------------
(* Submitting components.                                                   *)

(* A submission leaves room for what was building before.                   *)
LEMMA RoomKeeps ==
  ASSUME NEW cb1, NEW cb2, NEW S \in SUBSET All, Few(cb1),
         Cardinality(S) <= Room(cb1), Running(cb2) \subseteq Running(cb1) \cup S
  PROVE  Few(cb2)
<1>1. /\ IsFiniteSet(Running(cb1)) /\ Cardinality(Running(cb1)) \in Nat
      /\ IsFiniteSet(Running(cb2)) /\ Cardinality(Running(cb2)) \in Nat
      /\ IsFiniteSet(S) /\ Cardinality(S) \in Nat
  BY RunningFinite, FS_Subset, FS_CardinalityType
<1>2. /\ IsFiniteSet(Running(cb1) \cup S)
      /\ Cardinality(Running(cb1) \cup S) <= Cardinality(Running(cb1)) + Cardinality(S)
  <2>1. IsFiniteSet(Running(cb1) \cap S) /\ Cardinality(Running(cb1) \cap S) \in Nat
    BY <1>1, FS_Subset, FS_CardinalityType
  <2>2. /\ IsFiniteSet(Running(cb1) \cup S)
        /\ Cardinality(Running(cb1) \cup S)
             = Cardinality(Running(cb1)) + Cardinality(S) - Cardinality(Running(cb1) \cap S)
    BY <1>1, FS_Union
  <2> QED BY <1>1, <2>1, <2>2
<1>3. Cardinality(Running(cb2)) <= Cardinality(Running(cb1) \cup S)
  BY <1>2, FS_Subset
<1>4. Cardinality(Running(cb1) \cup S) \in Nat
  BY <1>2, FS_CardinalityType
<1>5. Cardinality(Running(cb1)) + Cardinality(S) <= NumConcurrent
  BY <1>1, ConstantsAssumption DEF Few, Room, AtThreshold
<1> QED BY <1>1, <1>2, <1>3, <1>4, <1>5, ConstantsAssumption DEF Few

(* continue_batch_build submits only components that it was given, that no  *)
(* task runs of, and no more than there is room for.                        *)
LEMMA ContinueBatchSubmits ==
  ASSUME Inv, NEW cb \in [All -> Row], BuiltRows(cb, task), NEW U \in SUBSET All, NEW gone, NEW out,
         ContinueBatch(cb, U, gone, out)
  PROVE  \E found \in SUBSET U, S \in SUBSET U, R \in SUBSET U :
           /\ found \cap S = {} /\ R \cap S = {} /\ R \cap found = {}
           /\ Cardinality(S) <= Room(cb)
           /\ \A c \in found : comp'[c].st = "complete" /\ cb[c].st # "absent"
           /\ \A c \in R : comp'[c].st = "failed"
           /\ \A c \in S : /\ comp'[c].st = "building" /\ comp'[c].reused = cb[c].reused
                           /\ comp'[c].task \in TaskId /\ task[c][comp'[c].task] = "none"
                           /\ task'[c] = [task[c] EXCEPT ![comp'[c].task] = "active"]
           /\ \A c \in All \ (found \cup S \cup R) : comp'[c] = cb[c]
           /\ \A c \in All \ S : task'[c] = task[c]
<1> DEFINE found == {c \in U : cb[c].st = "none" /\ Orphan(c)}
           todo  == U \ found
<1>1. PICK S1 \in SUBSET todo :
        /\ Cardinality(S1) = IF Room(cb) < Cardinality(todo) THEN Room(cb) ELSE Cardinality(todo)
        /\ \A c \in S1 : HasFreeTask(c)
        /\ \E R \in SUBSET S1, raised \in BOOLEAN :
             /\ comp' = Refused(Submitted(Recovered(cb, found), S1 \ R), R, raised)
             /\ StartTasks(S1 \ R)
  BY Zenon DEF ContinueBatch
<1>2. PICK R \in SUBSET S1, raised \in BOOLEAN :
        /\ comp' = Refused(Submitted(Recovered(cb, found), S1 \ R), R, raised)
        /\ StartTasks(S1 \ R)
  BY <1>1
<1> DEFINE S == S1 \ R
<1>3. /\ found \in SUBSET U /\ S1 \in SUBSET U /\ S1 \cap found = {}
      /\ \A c \in found : cb[c].st = "none"
  OBVIOUS
<1>4. IsFiniteSet(todo) /\ IsFiniteSet(S1) /\ IsFiniteSet(S)
  BY RunningFinite, FS_Subset
<1>5. Cardinality(S) <= Room(cb)
  <2>1. Cardinality(S) <= Cardinality(S1) /\ Cardinality(S) \in Nat /\ Cardinality(S1) \in Nat
          /\ Cardinality(todo) \in Nat
    BY <1>4, FS_Subset, FS_CardinalityType
  <2>2. Room(cb) \in Int
    BY RunningFinite, ConstantsAssumption DEF Room, AtThreshold
  <2>3. Cardinality(S1) <= Room(cb)
    BY <1>1, <2>1, <2>2
  <2> QED BY <2>1, <2>2, <2>3
<1> HIDE DEF found, todo
<1> DEFINE cb1 == Recovered(cb, found)
           cb2 == Submitted(cb1, S)
<1>6. /\ cb1 \in [All -> Row] /\ BuiltRows(cb1, task)
      /\ \A c \in All \ found : cb1[c] = cb[c]
      /\ \A c \in found : cb1[c].st = "complete"
  BY <1>3, RecoveredRows
<1> HIDE DEF cb1
<1>7. /\ \A c \in All \ S : cb2[c] = cb1[c]
      /\ \A c \in S : /\ cb2[c].st = "building" /\ cb2[c].task = NextTask(c)
                      /\ cb2[c].reused = cb1[c].reused
  <2> HIDE DEF S
  <2>1. S \in SUBSET All /\ \A c \in S : cb1[c] \in Row
    BY <1>3, <1>6 DEF S
  <2> QED BY <2>1 DEF Submitted, Row
<1> HIDE DEF cb2
<1>8. /\ \A c \in All \ R : comp'[c] = cb2[c]
      /\ \A c \in R : comp'[c].st = "failed"
  <2>1. ASSUME NEW c \in R PROVE comp'[c].st = "failed"
    <3>1. c \in All \ S /\ cb2[c] = cb1[c] /\ cb1[c] \in Row
      BY <1>3, <1>6, <1>7
    <3> QED BY <1>2, <3>1 DEF Refused, Row, cb1, cb2
  <2> QED BY <1>2, <2>1 DEF Refused, cb1, cb2
<1>9. \A c \in S : NextTask(c) \in TaskId /\ task[c][NextTask(c)] = "none"
  BY <1>1, FreeTask
<1>10. /\ \A c \in S : task'[c] = [task[c] EXCEPT ![NextTask(c)] = "active"]
       /\ \A c \in All \ S : task'[c] = task[c]
  BY <1>2, <1>3 DEF StartTasks
<1>11. S \in SUBSET U /\ R \in SUBSET U /\ found \cap S = {} /\ R \cap S = {} /\ R \cap found = {}
  BY <1>3
<1>12. \A c \in S : comp'[c].st = "building" /\ comp'[c].task = NextTask(c)
                      /\ comp'[c].reused = cb[c].reused
  BY <1>6, <1>7, <1>8, <1>11
<1>13. \A c \in found : comp'[c].st = "complete" /\ cb[c].st # "absent"
  BY <1>3, <1>6, <1>7, <1>8, <1>11
<1>14. \A c \in All \ (found \cup S \cup R) : comp'[c] = cb[c]
  BY <1>6, <1>7, <1>8
<1> HIDE DEF S
<1>15. \A c \in S : /\ comp'[c].st = "building" /\ comp'[c].reused = cb[c].reused
                    /\ comp'[c].task \in TaskId /\ task[c][comp'[c].task] = "none"
                    /\ task'[c] = [task[c] EXCEPT ![comp'[c].task] = "active"]
  BY <1>9, <1>10, <1>12
<1> USE <1>3, <1>11
<1> WITNESS found \in SUBSET U, S \in SUBSET U, R \in SUBSET U
<1> QED BY <1>5, <1>8, <1>10, <1>13, <1>14, <1>15

(* So it keeps the invariant, and starts components that were to be built.  *)
LEMMA ContinueBatchBInv ==
  ASSUME Inv, NEW cb \in [All -> Row], BuiltRows(cb, task), NEW b \in Nat \ {0},
         NEW U \in SUBSET All, U \subseteq ToBuild(cb, b), NEW gone, NEW out,
         ContinueBatch(cb, U, gone, out), BatchInv(cb, task, b)
  PROVE  /\ BatchInv(comp', task', b)
         /\ \A c \in Component : Started(c) => c \in U
         /\ Open(comp') \subseteq Open(cb)
         /\ \A c \in All : comp'[c].st = "absent" => cb[c].st = "absent"
         /\ \A c \in All : cb[c].st = "absent" => comp'[c].st = "absent"
<1>1. PICK found \in SUBSET U, S \in SUBSET U, R \in SUBSET U :
           /\ found \cap S = {} /\ R \cap S = {} /\ R \cap found = {}
           /\ Cardinality(S) <= Room(cb)
           /\ \A c \in found : comp'[c].st = "complete" /\ cb[c].st # "absent"
           /\ \A c \in R : comp'[c].st = "failed"
           /\ \A c \in S : /\ comp'[c].st = "building" /\ comp'[c].reused = cb[c].reused
                           /\ comp'[c].task \in TaskId /\ task[c][comp'[c].task] = "none"
                           /\ task'[c] = [task[c] EXCEPT ![comp'[c].task] = "active"]
           /\ \A c \in All \ (found \cup S \cup R) : comp'[c] = cb[c]
           /\ \A c \in All \ S : task'[c] = task[c]
  BY ContinueBatchSubmits
<1>2. \A c \in U : /\ c \in All /\ Batch[c] = b /\ cb[c].st \in {"none", "canceled"}
                   /\ c \in Component => c \in Open(cb)
  BY DEF ToBuild, InBatch, Present, Open
<1>3. \A c \in All : c \notin U => comp'[c] = cb[c]
  BY <1>1
<1>4. \A c \in U : comp'[c].st \in {"complete", "failed", "building"} \/ comp'[c] = cb[c]
  BY <1>1
<1>5. \A c \in All : (comp'[c].st = "absent" <=> cb[c].st = "absent")
                       /\ (cb[c].st = "complete" => comp'[c].st = "complete")
  BY <1>2, <1>3, <1>4
<1>6. Open(comp') \subseteq Open(cb)
  BY <1>5 DEF Open, All
<1>7. task \in [All -> [TaskId -> KojiTask]] /\ Macros \in All
  BY DEF Inv, TypeOK, All
<1>8. \A c \in Component : Started(c) => c \in S
  BY <1>1 DEF Started, All
<1>9. Behind(comp', b)
  BY <1>5, <1>6, <1>7 DEF BatchInv, Behind
<1>10. MacrosFirst(comp')
  <2> SUFFICES ASSUME NEW c \in Component, Runs(comp', c)
               PROVE  comp'[Macros].st = "complete"
    BY DEF MacrosFirst
  <2>1. CASE c \in S
    <3>1. c \in Open(cb) /\ Batch[c] = b /\ b > 1 /\ Batch[Macros] = 1
      BY <2>1, <1>2, ConstantsAssumption
    <3>2. cb[Macros].st = "complete"
      BY <3>1, <1>7 DEF BatchInv, Behind
    <3> QED BY <3>2, <1>5, <1>7
  <2>2. CASE c \notin S
    <3>1. Runs(cb, c)
      BY <2>2, <1>1 DEF Runs, All
    <3> QED BY <3>1, <1>5, <1>7 DEF BatchInv, MacrosFirst
  <2> QED BY <2>1, <2>2
<1>11. ~LongTag => \A c \in S, t \in TaskId : c \in Component =>
         (task'[c][t] = "active" => t = comp'[c].task)
  <2> SUFFICES ASSUME ~LongTag, NEW c \in S, NEW t \in TaskId, c \in Component, task'[c][t] = "active",
                      t # comp'[c].task
               PROVE  FALSE
    OBVIOUS
  <2>1. /\ task[c] \in [TaskId -> KojiTask]
        /\ task'[c] = [task[c] EXCEPT ![comp'[c].task] = "active"]
    BY <1>1, <1>2, <1>7
  <2>2. task[c][t] = "active"
    BY <2>1
  <2> QED BY <2>2, <1>2 DEF BatchInv, OneTask
<1>12. OneTask(comp', task', b)
  <2> SUFFICES ASSUME ~LongTag, NEW c \in Open(comp'), Batch[c] = b, NEW t \in TaskId,
                      task'[c][t] = "active"
               PROVE  t = comp'[c].task /\ comp'[c].st \notin {"none", "canceled"}
    BY DEF OneTask
  <2>1. c \in Component /\ c \in All /\ c \in Open(cb) /\ comp'[c].st # "complete"
    BY <1>6 DEF Open, All
  <2>2. CASE c \in S
    BY <2>1, <2>2, <1>1, <1>11
  <2>3. CASE c \notin S
    <3>1. task[c][t] = "active"
      BY <2>1, <2>3, <1>1
    <3>2. t = cb[c].task /\ cb[c].st \notin {"none", "canceled"}
      BY <2>1, <3>1 DEF BatchInv, OneTask
    <3>3. c \notin U
      BY <3>2, <1>2
    <3> QED BY <2>1, <3>2, <3>3, <1>3
  <2> QED BY <2>2, <2>3
<1>13. OneActive(task')
  <2> SUFFICES ASSUME ~LongTag, NEW c \in Component, NEW s \in TaskId, NEW t \in TaskId,
                      task'[c][s] = "active", task'[c][t] = "active"
               PROVE  s = t
    BY DEF OneActive
  <2>1. CASE c \in S
    BY <2>1, <1>11
  <2>2. CASE c \notin S
    <3>1. task[c][s] = "active" /\ task[c][t] = "active"
      BY <2>2, <1>1 DEF All
    <3> QED BY <3>1 DEF BatchInv, OneActive
  <2> QED BY <2>1, <2>2
<1>14. Few(comp')
  <2>1. Running(comp') \subseteq Running(cb) \cup S
    BY <1>1 DEF Running
  <2>2. S \in SUBSET All /\ Cardinality(S) <= Room(cb)
    BY <1>1
  <2> QED BY <2>1, <2>2, RoomKeeps DEF BatchInv
<1>15. BatchInv(comp', task', b)
  BY <1>9, <1>10, <1>12, <1>13, <1>14 DEF BatchInv
<1> QED BY <1>1, <1>5, <1>6, <1>8, <1>15

-----------------------------------------------------------------------------
(* What every step keeps.                                                   *)

(* The barrier of one step, and the invariant after it.                     *)
Barrier ==
  \A c \in Component, d \in All :
    Started(c) /\ comp[d].st # "absent" /\ Batch[d] < Batch[c]
      => /\ comp[d].st = "complete"
         /\ Stored(comp, batch, repo) => d \in repo

StoredKeeps == Stored(comp, batch, repo) /\ repo \subseteq repo' => Stored(comp', batch', repo')

Sound == BatchInv(comp', task', batch') /\ Barrier /\ StoredKeeps

(* A step that submits nothing starts nothing, and keeps the invariant.     *)
LEMMA CalmStep ==
  ASSUME Inv, Inv', BatchInv(comp, task, batch), Calm(comp, task, batch, comp', task', batch')
  PROVE  Sound
<1>1. /\ comp \in [All -> Row] /\ comp' \in [All -> Row] /\ batch \in Nat /\ batch' \in Nat
      /\ Open(comp') \subseteq Open(comp)
  BY CalmOpen DEF Inv, TypeOK, Calm
<1>2. BatchInv(comp', task', batch')
  BY <1>1, CalmKeeps
<1>3. Barrier
  BY DEF Calm, CalmTasks, Started, Barrier
<1>4. StoredKeeps
  <2> SUFFICES ASSUME Stored(comp, batch, repo), repo \subseteq repo', Open(comp') # {},
                      NEW d \in All, comp'[d].st # "absent", Batch[d] < batch'
               PROVE  d \in repo'
    BY DEF StoredKeeps, Stored
  <2>1. Batch[d] \in Nat /\ (d # Macros => d \in Component /\ Batch[d] > 1) /\ Batch[Macros] = 1
    BY ConstantsAssumption DEF All
  <2>2. batch' = batch /\ (comp'[Macros].st = "absent" <=> comp[Macros].st = "absent")
    BY <1>1, <2>1 DEF Calm, CalmBatch
  <2>3. comp[d].st # "absent"
    BY <2>1, <2>2 DEF Calm, CalmRows
  <2> QED BY <1>1, <2>2, <2>3 DEF Stored
<1> QED BY <1>2, <1>3, <1>4 DEF Sound

(* A step that changes neither the rows, the tasks nor the batch is calm.   *)
LEMMA IdleIsCalm ==
  ASSUME UNCHANGED <<comp, task, batch>>
  PROVE  Calm(comp, task, batch, comp', task', batch')
BY DEF Calm, CalmRows, CalmTasks, CalmBatch, CalmTask

-----------------------------------------------------------------------------
(* start_next_batch_build.                                                  *)

(* Everything before batch b is complete and can be built against.          *)
ReadyFor(b) ==
  Open(comp) # {} =>
    \A d \in All : comp[d].st # "absent" /\ Batch[d] < b
      => comp[d].st = "complete" /\ (Stored(comp, batch, repo) => d \in repo)

(* It enters a batch only when the batches before it are ready, those it    *)
(* skips included.                                                          *)
LEMMA EntersReady ==
  ASSUME Inv, BatchInv(comp, task, batch), NEW b \in Nat, NextBatch(b),
         Current(comp) \cap Unbuilt(comp) = {}, Unsuccessful(comp) = {},
         BuildrootReady(Current(comp))
  PROVE  ReadyFor(b)
<1> SUFFICES ASSUME Open(comp) # {}, NEW d \in All, comp[d].st # "absent", Batch[d] < b
             PROVE  comp[d].st = "complete" /\ (Stored(comp, batch, repo) => d \in repo)
  BY DEF ReadyFor
<1>1. /\ Batch[d] \in Nat /\ batch \in Nat /\ d \in Present(comp) /\ comp[d].st \in CompState
      /\ comp[d].st \notin {"failed", "canceled"}
  BY ConstantsAssumption DEF Inv, TypeOK, Row, Present, Unsuccessful, InState
<1>2. CASE Batch[d] < batch
  BY <1>2 DEF BatchInv, Behind, Stored
<1>3. CASE Batch[d] = batch
  <2>1. d \in Current(comp)
    BY <1>1, <1>3 DEF Current, InBatch
  <2> QED BY <1>1, <2>1 DEF Unbuilt, InState, CompState, Outcome, BuildrootReady
<1>4. CASE Batch[d] > batch
  <2>1. Batch[d] \in (batch + 1)..(b - 1)
    BY <1>1, <1>4
  <2>2. ~StopsAt(Batch[d])
    BY <2>1 DEF NextBatch
  <2>3. d \in InBatch(comp, Batch[d])
    BY <1>1 DEF InBatch
  <2> QED BY <1>1, <2>2, <2>3 DEF StopsAt, ToBuild, CompState, Outcome, BuildrootReady
<1> QED BY <1>1, <1>2, <1>3, <1>4

(* What it reuses does not build, and no task runs of what it may submit.   *)
LEMMA EnteredBInv ==
  ASSUME Inv, BatchInv(comp, task, batch), batch > 0, NEW b \in Nat, b > batch, ReadyFor(b),
         ActiveTasks = {}, NEW re \in SUBSET ToBuild(comp, b)
  PROVE  /\ BatchInv(Reused(comp, re, "building"), task, b)
         /\ Open(Reused(comp, re, "building")) \subseteq Open(comp)
         /\ \A c \in All : Reused(comp, re, "building")[c].st = "absent" <=> comp[c].st = "absent"
<1> DEFINE cb == Reused(comp, re, "building")
<1>1. /\ comp \in [All -> Row] /\ task \in [All -> [TaskId -> KojiTask]] /\ batch \in Nat
      /\ Macros \in All /\ \A c \in re : c \in All /\ Batch[c] = b /\ comp[c].st \in {"none", "canceled"}
  BY DEF Inv, TypeOK, All, ToBuild, InBatch, Present
<1>2. /\ \A c \in All \ re : cb[c] = comp[c]
      /\ \A c \in re : cb[c].st = "building" /\ cb[c].reused = TRUE
  BY <1>1 DEF Reused, Row
<1> HIDE DEF cb
<1>3. /\ Open(cb) \subseteq Open(comp)
      /\ \A c \in All : cb[c].st = "absent" <=> comp[c].st = "absent"
  BY <1>1, <1>2 DEF Open, All
<1>4. Behind(cb, b)
  <2> SUFFICES ASSUME Open(cb) # {}
               PROVE  /\ cb[Macros].st # "absent"
                      /\ \A d \in All : cb[d].st # "absent" /\ Batch[d] < b => cb[d].st = "complete"
    BY DEF Behind
  <2>1. Open(comp) # {}
    BY <1>3
  <2>2. cb[Macros].st # "absent"
    BY <1>1, <1>3, <2>1 DEF BatchInv, Behind
  <2>3. ASSUME NEW d \in All, cb[d].st # "absent", Batch[d] < b PROVE cb[d].st = "complete"
    <3>1. d \notin re
      BY <1>1, <2>3, ConstantsAssumption
    <3> QED BY <1>2, <1>3, <2>1, <2>3, <3>1 DEF ReadyFor
  <2> QED BY <2>2, <2>3
<1>5. MacrosFirst(cb)
  <2> SUFFICES ASSUME NEW c \in Component, Runs(cb, c) PROVE cb[Macros].st = "complete"
    BY DEF MacrosFirst
  <2>1. c \in All /\ c \notin re
    BY <1>2 DEF Runs, All
  <2>2. comp[Macros].st = "complete"
    BY <1>2, <2>1 DEF Runs, BatchInv, MacrosFirst
  <2> QED BY <1>1, <1>2, <2>2
<1>6. OneTask(cb, task, b)
  <2> SUFFICES ASSUME ~LongTag, NEW c \in Open(cb), NEW t \in TaskId, task[c][t] = "active"
               PROVE  FALSE
    BY DEF OneTask
  <2>1. c \in Present(comp) \ {Macros}
    BY <1>3, ConstantsAssumption DEF Open, Present, All
  <2>2. c \in Present(comp) \cap OwnTarget
    BY <2>1 DEF OwnTarget, Present, All
  <2> QED BY <2>2 DEF ActiveTasks, TasksIn
<1>7. Few(cb)
  <2>1. Running(cb) \subseteq Running(comp)
    BY <1>1, <1>2 DEF Running
  <2> QED BY <2>1, FewKeeps DEF BatchInv
<1>8. BatchInv(cb, task, b)
  BY <1>4, <1>5, <1>6, <1>7 DEF BatchInv
<1> QED BY <1>3, <1>8 DEF cb

(* Entering a batch is sound.                                               *)
LEMMA EnterBatchSound ==
  ASSUME Inv, BatchInv(comp, task, batch), batch > 0, NEW b \in Nat, b > batch, ReadyFor(b),
         ActiveTasks = {}, NEW gone, EnterBatch(b, gone)
  PROVE  Sound
<1> DEFINE U  == ToBuild(comp, b)
           re == IF TryReuse(b) THEN U \cap Reusable ELSE {}
           cb == Reused(comp, re, "building")
<1>1. U \in SUBSET All /\ re \in SUBSET U
  BY ToBuildRows
<1>2. /\ BatchInv(cb, task, b) /\ Open(cb) \subseteq Open(comp)
      /\ \A c \in All : cb[c].st = "absent" <=> comp[c].st = "absent"
  <2> HIDE DEF re
  <2> QED BY <1>1, EnteredBInv
<1>3. batch' = b
  BY DEF EnterBatch
<1>4. \/ comp' = cb /\ UNCHANGED <<koji, budget>>
      \/ ContinueBatch(cb, U \ re, gone, ReuseEvents(re, ScheduledBy(gone))) /\ UNCHANGED <<newRepo, repo>>
  <2>1. \/ comp' = cb /\ UNCHANGED <<koji, budget>>
        \/ ContinueBatch(cb, U \ re, gone, ReuseEvents(re, ScheduledBy(gone)))
    BY Zenon DEF EnterBatch
  <2> HIDE DEF cb, re, U
  <2>2. ContinueBatch(cb, U \ re, gone, ReuseEvents(re, ScheduledBy(gone))) => UNCHANGED <<newRepo, repo>>
    BY Zenon DEF ContinueBatch
  <2> QED BY <2>1, <2>2
<1>5. cb \in [All -> Row] /\ BuiltRows(cb, task) /\ \A c \in All \ re : cb[c] = comp[c]
  <2>1. comp \in [All -> Row] /\ BuiltRows(comp, task) /\ "building" \in CompState
    BY DEF Inv, TypeOK, CompState
  <2> HIDE DEF re
  <2> QED BY <1>1, <2>1, ReusedRows
<1>6. U \ re \subseteq ToBuild(cb, b)
  <2> HIDE DEF re
  <2> QED BY <1>1, <1>5 DEF ToBuild, InBatch, Present
<1> HIDE DEF cb, re
<1>7. /\ BatchInv(comp', task', b)
      /\ \A c \in Component : Started(c) => c \in U
      /\ Open(comp') \subseteq Open(comp)
      /\ \A c \in All : comp'[c].st = "absent" <=> comp[c].st = "absent"
  <2>1. CASE comp' = cb /\ UNCHANGED <<koji, budget>>
    BY <2>1, <1>2 DEF koji, Started
  <2>2. CASE ContinueBatch(cb, U \ re, gone, ReuseEvents(re, ScheduledBy(gone)))
    <3>1. b \in Nat \ {0} /\ U \ re \in SUBSET All
      BY <1>1 DEF Inv, TypeOK
    <3>2. /\ BatchInv(comp', task', b)
          /\ \A c \in Component : Started(c) => c \in U \ re
          /\ Open(comp') \subseteq Open(cb)
          /\ \A c \in All : comp'[c].st = "absent" => cb[c].st = "absent"
          /\ \A c \in All : cb[c].st = "absent" => comp'[c].st = "absent"
      BY <1>2, <1>5, <1>6, <2>2, <3>1, ContinueBatchBInv
    <3> QED BY <1>2, <3>2
  <2> QED BY <1>4, <2>1, <2>2
<1>8. repo' = repo
  BY <1>4 DEF koji
<1>9. Barrier
  <2> SUFFICES ASSUME NEW c \in Component, NEW d \in All, Started(c), comp[d].st # "absent",
                      Batch[d] < Batch[c]
               PROVE  comp[d].st = "complete" /\ (Stored(comp, batch, repo) => d \in repo)
    BY DEF Barrier
  <2>1. c \in U /\ Batch[c] = b /\ c \in Open(comp)
    BY <1>7 DEF ToBuild, InBatch, Present, Open
  <2> QED BY <2>1 DEF ReadyFor
<1>10. StoredKeeps
  BY <1>3, <1>7, <1>8 DEF StoredKeeps, Stored, ReadyFor
<1> QED BY <1>3, <1>7, <1>9, <1>10 DEF Sound

(* Going on with the current batch, with the rows as cb has them, is sound. *)
LEMMA ContinueSound ==
  ASSUME Inv, BatchInv(comp, task, batch), NEW cb \in [All -> Row], BuiltRows(cb, task),
         BatchInv(cb, task, batch), Preserves(comp, cb), Open(cb) \subseteq Open(comp),
         \A c \in All : cb[c].st = "absent" <=> comp[c].st = "absent",
         batch > 0, NEW gone, NEW out, ContinueBatch(cb, ToBuild(cb, batch), gone, out),
         batch' = batch
  PROVE  Sound
<1>1. batch \in Nat \ {0} /\ ToBuild(cb, batch) \in SUBSET All
  BY ToBuildRows DEF Inv, TypeOK
<1>2. /\ BatchInv(comp', task', batch)
      /\ \A c \in Component : Started(c) => c \in ToBuild(cb, batch)
      /\ Open(comp') \subseteq Open(cb)
      /\ \A c \in All : comp'[c].st = "absent" => cb[c].st = "absent"
      /\ \A c \in All : cb[c].st = "absent" => comp'[c].st = "absent"
  BY <1>1, ContinueBatchBInv
<1>3. Barrier
  <2> SUFFICES ASSUME NEW c \in Component, NEW d \in All, Started(c), comp[d].st # "absent",
                      Batch[d] < Batch[c]
               PROVE  comp[d].st = "complete" /\ (Stored(comp, batch, repo) => d \in repo)
    BY DEF Barrier
  <2>1. c \in ToBuild(cb, batch)
    BY <1>2
  <2>2. Batch[c] = batch /\ c \in Open(cb)
    BY <2>1 DEF ToBuild, InBatch, Present, Open
  <2> QED BY <2>2 DEF BatchInv, Behind, Stored
<1>4. repo' = repo
  BY Zenon DEF ContinueBatch
<1>5. StoredKeeps
  BY <1>2, <1>4 DEF StoredKeeps, Stored
<1> QED BY <1>2, <1>3, <1>5 DEF Sound

(* start_next_batch_build is sound, whoever calls it.                       *)
LEMMA StartNextBatchSound ==
  ASSUME Inv, Inv', BatchInv(comp, task, batch), NEW gone, StartNextBatch(gone),
         batch > 0
  PROVE  Sound
<1>1. CASE UNCHANGED <<comp, koji, batch>>
  BY <1>1, IdleIsCalm, CalmStep DEF koji
<1>2. CASE ContinueBatch(comp, ToBuild(comp, batch), gone, {}) /\ UNCHANGED mb
  <2>1. /\ comp \in [All -> Row] /\ BuiltRows(comp, task) /\ Preserves(comp, comp)
        /\ batch' = batch
    BY <1>2 DEF Inv, TypeOK, Preserves, mb
  <2> QED BY <1>2, <2>1, ContinueSound
<1>3. ASSUME Unbuilt(comp) # {}, Current(comp) \cap Unbuilt(comp) = {}, Unsuccessful(comp) = {},
             ActiveTasks = {}, BuildrootReady(Current(comp)),
             NEW b \in {Batch[c] : c \in Present(comp)}, NextBatch(b), EnterBatch(b, gone)
      PROVE  Sound
  <2>1. b \in Nat /\ b > batch
    BY <1>3, ConstantsAssumption DEF Present, NextBatch
  <2>2. ReadyFor(b)
    BY <1>3, <2>1, EntersReady
  <2> QED BY <1>3, <2>1, <2>2, EnterBatchSound
<1> QED BY <1>1, <1>2, <1>3, Zenon DEF StartNextBatch, mb

-----------------------------------------------------------------------------
(* The handlers.                                                            *)

(* The result of a build that a row names leaves a calm table: a component  *)
(* canceled in Koji has no other task that runs.                            *)
LEMMA ResultIsCalm ==
  ASSUME Inv, BatchInv(comp, task, batch), NEW m \in events, m.type = "build", Known(m)
  PROVE  /\ [comp EXCEPT ![m.c].st = m.result] \in [All -> Row]
         /\ BuiltRows([comp EXCEPT ![m.c].st = m.result], task)
         /\ Preserves(comp, [comp EXCEPT ![m.c].st = m.result])
         /\ Calm(comp, task, batch, [comp EXCEPT ![m.c].st = m.result], task, batch)
         /\ BatchInv([comp EXCEPT ![m.c].st = m.result], task, batch)
         /\ \A c \in All : [comp EXCEPT ![m.c].st = m.result][c].st = "absent"
                             <=> comp[c].st = "absent"
<1> DEFINE cb == [comp EXCEPT ![m.c].st = m.result]
<1>1. /\ cb \in [All -> Row] /\ BuiltRows(cb, task) /\ Preserves(comp, cb) /\ m.c \in All
  BY KnownResult
<1>2. /\ comp \in [All -> Row] /\ batch \in Nat /\ Macros \in All
      /\ m.result \in Outcome /\ comp[m.c].st # "absent" /\ comp[m.c].task = m.task
  BY DEF Inv, TypeOK, Message, Known, All
<1>3. /\ \A c \in All : c # m.c => cb[c] = comp[c]
      /\ cb[m.c].st = m.result /\ cb[m.c].task = comp[m.c].task
      /\ cb[m.c].reused = comp[m.c].reused
  BY <1>1, <1>2 DEF Row
<1> HIDE DEF cb
<1>4. \A c \in All : cb[c].st = "absent" <=> comp[c].st = "absent"
  BY <1>2, <1>3 DEF Outcome
<1>5. CalmRows(comp, cb)
  <2>1. \A c \in All : cb[c].st = "building" => cb[c] = comp[c]
    BY <1>2, <1>3 DEF Outcome
  <2>2. Running(cb) \subseteq Running(comp)
    BY <2>1 DEF Running
  <2>3. \A c \in Component : Runs(cb, c) => Runs(comp, c)
    BY <2>1 DEF Runs, All
  <2>4. \A c \in All : comp[c].st = "complete" => cb[c].st = "complete"
    BY <1>1 DEF Preserves
  <2> QED BY <1>4, <2>2, <2>3, <2>4 DEF CalmRows, All
<1>6. CalmTask(comp, batch, cb, task, batch)
  <2> SUFFICES ASSUME ~LongTag, NEW c \in Open(cb), Batch[c] = batch
               PROVE  \/ cb[c].task = comp[c].task
                           /\ (cb[c].st \in {"none", "canceled"} => comp[c].st \in {"none", "canceled"})
                      \/ \A t \in TaskId : task[c][t] # "active"
    BY DEF CalmTask
  <2>1. c \in Open(comp) /\ c \in All
    BY <1>5, CalmOpen DEF Open, All
  <2>2. CASE c = m.c /\ m.result = "canceled"
    <3>1. m.task \in TaskId /\ task[c][m.task] \in {"failed", "canceled"}
      BY <2>2 DEF Inv, TrueEvents
    <3>2. \A t \in TaskId : task[c][t] = "active" => t = m.task
      BY <1>2, <2>1, <2>2 DEF BatchInv, OneTask
    <3> QED BY <3>1, <3>2
  <2>3. CASE c # m.c
    BY <1>3, <2>1, <2>3
  <2>4. CASE c = m.c /\ m.result # "canceled"
    BY <1>2, <1>3, <2>4 DEF Outcome
  <2> QED BY <2>2, <2>3, <2>4
<1>7. Calm(comp, task, batch, cb, task, batch)
  BY <1>2, <1>4, <1>5, <1>6 DEF Calm, CalmTasks, CalmBatch
<1>8. BatchInv(cb, task, batch)
  BY <1>1, <1>2, <1>7, CalmKeeps
<1> QED BY <1>1, <1>4, <1>7, <1>8 DEF cb

(* components.build_task_finalize is sound.                                 *)
LEMMA BuildTaskFinalizeSound ==
  ASSUME Inv, Inv', BatchInv(comp, task, batch), NEW m \in events, BuildTaskFinalize(m)
  PROVE  Sound
<1> DEFINE cb == [comp EXCEPT ![m.c].st = m.result]
<1>1. m.type = "build"
  BY Zenon DEF BuildTaskFinalize
<1>2. CASE UNCHANGED <<mb, comp, koji>>
  BY <1>2, IdleIsCalm, CalmStep DEF mb, koji
<1>3. CASE Known(m) /\ comp' = cb /\ UNCHANGED <<task, batch>>
  BY <1>1, <1>3, ResultIsCalm, CalmStep
<1>4. CASE Known(m) /\ batch # 0 /\ ContinueBatch(cb, ToBuild(cb, batch), {m}, {}) /\ UNCHANGED mb
  <2>1. /\ cb \in [All -> Row] /\ BuiltRows(cb, task) /\ Preserves(comp, cb)
        /\ Calm(comp, task, batch, cb, task, batch) /\ BatchInv(cb, task, batch)
        /\ \A c \in All : cb[c].st = "absent" <=> comp[c].st = "absent"
    BY <1>1, <1>4, ResultIsCalm
  <2> HIDE DEF cb
  <2>2. Open(cb) \subseteq Open(comp)
    BY <2>1, CalmOpen DEF Calm
  <2>3. batch > 0 /\ batch' = batch
    BY <1>4 DEF Inv, TypeOK, mb
  <2> QED BY <1>4, <2>1, <2>2, <2>3, ContinueSound
<1> QED BY <1>2, <1>3, <1>4, Zenon DEF BuildTaskFinalize, mb, koji

(* Rows that differ in their tags only, and tasks that ended, are calm.     *)
LEMMA LikeRowsCalm ==
  ASSUME \A c \in All : /\ comp'[c].st = comp[c].st /\ comp'[c].task = comp[c].task
                        /\ comp'[c].reused = comp[c].reused,
         batch' = batch,
         \A c \in Component, t \in TaskId : task'[c][t] = "active" => task[c][t] = "active"
  PROVE  Calm(comp, task, batch, comp', task', batch')
<1>1. Macros \in All /\ Component \subseteq All
  BY DEF All
<1>2. Running(comp') \subseteq Running(comp)
  BY DEF Running
<1>3. CalmRows(comp, comp')
  BY <1>1, <1>2 DEF CalmRows, Runs
<1>4. CalmBatch(comp, batch, comp', batch') /\ CalmTask(comp, batch, comp', task', batch')
  BY <1>1 DEF CalmBatch, CalmTask, Open
<1> QED BY <1>3, <1>4 DEF Calm, CalmTasks

(* What touches the row of module-build-macros alone, and leaves the module *)
(* in batch 1, is calm: no other package builds before the macros are.      *)
LEMMA MacrosCalm ==
  ASSUME Inv, BatchInv(comp, task, batch),
         \A c \in Component : comp'[c] = comp[c] /\ task'[c] = task[c],
         comp[Macros].st = "complete" => comp'[Macros] = comp[Macros],
         comp'[Macros].st # "absent", batch' = 1
  PROVE  Calm(comp, task, batch, comp', task', batch')
<1>1. All = Component \cup {Macros}
  BY DEF All
<1>2. Running(comp') \subseteq Running(comp) \/ Running(comp') \subseteq {Macros}
  <2>1. CASE comp[Macros].st = "complete"
    BY <1>1, <2>1 DEF Running
  <2>2. CASE comp[Macros].st # "complete"
    BY <1>1, <2>2 DEF Running, BatchInv, MacrosFirst, Runs
  <2> QED BY <2>1, <2>2
<1>3. CalmRows(comp, comp') /\ CalmTasks(task, task')
  BY <1>1, <1>2 DEF CalmRows, CalmTasks, Runs
<1>4. CalmTask(comp, batch, comp', task', batch')
  BY ConstantsAssumption DEF CalmTask, Open
<1>5. CalmBatch(comp, batch, comp', batch')
  BY DEF CalmBatch
<1> QED BY <1>3, <1>4, <1>5 DEF Calm

(* modules.init records components of a build that is in no batch.          *)
LEMMA InitHandlerSound ==
  ASSUME BInv, Inv', NEW m \in events, InitHandler(m)
  PROVE  Sound
<1> USE DEF BInv
<1>1. CASE UNCHANGED <<comp, koji, batch>>
  BY <1>1, IdleIsCalm, CalmStep DEF koji, Agreed
<1>2. CASE state = "init" /\ UNCHANGED <<batch, koji>>
           /\ \E S \in Specified :
                comp' = [c \in All |-> IF c \in S /\ comp[c].st = "absent"
                                       THEN [comp[c] EXCEPT !.st = "none"] ELSE comp[c]]
  <2>1. batch = 0 /\ \A c \in All : comp[c].st = "absent"
    BY <1>2 DEF NoBatchYet, Agreed, LastLive, Fresh
  <2>2. \A c \in All : comp'[c].st \in {"none", "absent"}
    BY <1>2, <2>1 DEF Agreed, Inv, TypeOK, Row
  <2>3. \A c \in All : Batch[c] > 0 /\ Batch[c] \in Nat
    BY ConstantsAssumption DEF All
  <2>4. Behind(comp', batch') /\ OneTask(comp', task', batch') /\ MacrosFirst(comp')
    BY <1>2, <2>1, <2>2, <2>3 DEF Behind, OneTask, Open, MacrosFirst, Runs, All
  <2>5. OneActive(task')
    BY <1>2 DEF BatchInv, koji
  <2>6. Running(comp') \subseteq Running(comp)
    BY <2>2 DEF Running
  <2>7. Few(comp')
    BY <2>6, FewKeeps DEF BatchInv
  <2>8. StoredKeeps
    BY <1>2, <2>1, <2>3 DEF StoredKeeps, Stored
  <2>9. Barrier
    BY <1>2 DEF Barrier, Started, koji
  <2> QED BY <2>4, <2>5, <2>7, <2>8, <2>9 DEF Sound, BatchInv
<1> QED BY <1>1, <1>2, Zenon DEF InitHandler, mb

(* Reusing all components leaves none of them to build.                     *)
LEMMA ReuseAllSound ==
  ASSUME Inv, Inv', BatchInv(comp, task, batch), NEW m \in events, ReuseAll(m)
  PROVE  Sound
<1> DEFINE F == Present(comp) \ {Macros}
<1>1. comp' = Reused(comp, F, "complete") /\ UNCHANGED task
  BY Zenon DEF ReuseAll
<1>2. F \in SUBSET All /\ comp \in [All -> Row] /\ \A c \in F : comp[c].st # "absent"
  BY DEF Present, Inv, TypeOK
<1>3. \A c \in Component : c \notin F => comp[c].st = "absent"
  BY ConstantsAssumption DEF Present, All
<1> HIDE DEF F
<1>4. /\ \A c \in F : comp'[c].st = "complete"
      /\ \A c \in All \ F : comp'[c] = comp[c]
  BY <1>1, <1>2 DEF Reused, Row
<1>5. Open(comp') = {}
  BY <1>3, <1>4 DEF Open, All
<1>6. Running(comp') \subseteq Running(comp)
  BY <1>4 DEF Running
<1>7. CalmRows(comp, comp')
  BY <1>2, <1>4, <1>6 DEF CalmRows, Runs, All
<1>8. Calm(comp, task, batch, comp', task', batch')
  BY <1>1, <1>5, <1>7 DEF Calm, CalmTasks, CalmBatch, CalmTask
<1> QED BY <1>8, CalmStep

(* Building the macros submits no other package.                            *)
LEMMA BuildMacrosSound ==
  ASSUME Inv, Inv', BatchInv(comp, task, batch), NEW m \in events, BuildMacros(m)
  PROVE  Sound
<1> DEFINE created == [comp EXCEPT ![Macros].st = IF @ = "absent" THEN "none" ELSE @]
<1>1. batch' = 1
  BY DEF BuildMacros
<1>2. /\ created \in [All -> Row] /\ \A c \in All \ {Macros} : created[c] = comp[c]
      /\ Macros \in All /\ Macros \notin Component /\ Component \subseteq All
      /\ BuiltRows(created, task)
  <2>1. Macros \in All /\ Macros \notin Component /\ Component \subseteq All
    BY ConstantsAssumption DEF All
  <2>2. /\ created \in [All -> Row] /\ \A c \in All \ {Macros} : created[c] = comp[c]
        /\ created[Macros].st = "complete" => created[Macros] = comp[Macros]
    BY DEF Inv, TypeOK, Row, CompState, All
  <2> QED BY <2>1, <2>2 DEF Inv, BuiltRows
<1> HIDE DEF created
<1>3. \/ comp[Macros].st = "complete" /\ UNCHANGED <<comp, task>>
      \/ comp[Macros].st # "complete" /\ comp' = Recovered(created, {Macros}) /\ UNCHANGED task
      \/ comp[Macros].st # "complete" /\ comp' = Submitted(created, {Macros})
           /\ StartTasks({Macros})
      \/ comp[Macros].st # "complete" /\ comp' = Refused(created, {Macros}, FALSE)
           /\ UNCHANGED task
  BY Zenon DEF BuildMacros, created
<1>4. /\ \A c \in Component : comp'[c] = comp[c] /\ task'[c] = task[c]
      /\ comp[Macros].st = "complete" => comp'[Macros] = comp[Macros]
      /\ comp'[Macros].st # "absent"
  <2>1. CASE comp[Macros].st = "complete" /\ UNCHANGED <<comp, task>>
    BY <2>1
  <2>2. CASE comp[Macros].st # "complete" /\ comp' = Recovered(created, {Macros})
             /\ UNCHANGED task
    BY <1>2, <2>2 DEF Recovered, Row
  <2>3. CASE comp[Macros].st # "complete" /\ comp' = Submitted(created, {Macros})
             /\ StartTasks({Macros})
    BY <1>2, <2>3 DEF Submitted, StartTasks, Row
  <2>4. CASE comp[Macros].st # "complete" /\ comp' = Refused(created, {Macros}, FALSE)
             /\ UNCHANGED task
    BY <1>2, <2>4 DEF Refused, Row
  <2> QED BY <1>3, <2>1, <2>2, <2>3, <2>4
<1> QED BY <1>1, <1>4, MacrosCalm, CalmStep

(* modules.wait is sound.                                                   *)
LEMMA WaitHandlerSound ==
  ASSUME Inv, Inv', BatchInv(comp, task, batch), NEW m \in events, WaitHandler(m)
  PROVE  Sound
<1>1. CASE UNCHANGED <<comp, koji, batch>>
  BY <1>1, IdleIsCalm, CalmStep DEF koji
<1> QED BY <1>1, ReuseAllSound, BuildMacrosSound, Zenon DEF WaitHandler

(* tags.tagged touches the tags of a row only.                              *)
LEMMA TaggedSound ==
  ASSUME Inv, Inv', BatchInv(comp, task, batch), NEW m \in events, Tagged(m)
  PROVE  Sound
<1>1. /\ \/ comp' = comp
         \/ comp' = [comp EXCEPT ![m.c].tags = @ \cup {m.tag}]
      /\ UNCHANGED <<mb, task>>
  BY Zenon DEF Tagged
<1>2. \A c \in All : /\ comp'[c].st = comp[c].st /\ comp'[c].task = comp[c].task
                     /\ comp'[c].reused = comp[c].reused
  BY <1>1 DEF Inv, TypeOK, Row
<1> QED BY <1>1, <1>2, LikeRowsCalm, CalmStep DEF mb

(* repos.done is sound: it starts a batch only of a build that is in one.   *)
LEMMA RepoDoneSound ==
  ASSUME Inv, Inv', BatchInv(comp, task, batch), NEW m \in events, RepoDone(m)
  PROVE  Sound
<1>1. CASE UNCHANGED <<comp, koji, batch>>
  BY <1>1, IdleIsCalm, CalmStep DEF koji
<1>2. CASE StartNextBatch({m}) /\ ~(batch = 0 /\ Present(comp) # {}) /\ Unbuilt(comp) # {}
  <2>1. Present(comp) # {}
    BY <1>2 DEF Unbuilt, InState, Present
  <2>2. batch > 0
    BY <1>2, <2>1 DEF Inv, TypeOK
  <2> QED BY <1>2, <2>2, StartNextBatchSound
<1> QED BY <1>1, <1>2, Zenon DEF RepoDone, mb

(* modules.failed cancels tasks and starts none.                            *)
LEMMA FailedHandlerSound ==
  ASSUME Inv, Inv', BatchInv(comp, task, batch), NEW m \in events, FailedHandler(m)
  PROVE  Sound
<1>1. CASE UNCHANGED <<comp, task, batch>>
  BY <1>1, IdleIsCalm, CalmStep
<1>2. CASE /\ comp' = [c \in All |-> IF c \in Leftover THEN [comp[c] EXCEPT !.st = "failed"]
                                     ELSE comp[c]]
           /\ \E K \in SUBSET {c \in Leftover : comp[c].task \in TasksIn(c, "active")} :
                task' = [c \in All |-> IF c \in K THEN [task[c] EXCEPT ![comp[c].task] = "canceled"]
                                       ELSE task[c]]
           /\ batch' = batch
  <2>1. comp \in [All -> Row] /\ task \in [All -> [TaskId -> KojiTask]] /\ All = Component \cup {Macros}
    BY DEF Inv, TypeOK, All
  <2>2. \A c \in Component, t \in TaskId : task'[c][t] = "active" => task[c][t] = "active"
    <3>1. PICK K : task' = [c \in All |-> IF c \in K
                              THEN [task[c] EXCEPT ![comp[c].task] = "canceled"] ELSE task[c]]
      BY <1>2
    <3>2. ASSUME NEW c \in Component, NEW t \in TaskId, task'[c][t] = "active"
          PROVE  task[c][t] = "active"
      <4>1. task[c] \in [TaskId -> KojiTask] /\ c \in All
        BY <2>1
      <4>2. task'[c] = task[c] \/ task'[c] = [task[c] EXCEPT ![comp[c].task] = "canceled"]
        BY <3>1, <4>1
      <4> QED BY <3>2, <4>1, <4>2
    <3> QED BY <3>2
  <2>3. \A c \in All : comp'[c] = comp[c] \/ (comp'[c].st = "failed" /\ c \in Unbuilt(comp)
                                                /\ comp'[c].task = comp[c].task)
    BY <1>2, <2>1 DEF Leftover, Row
  <2>4. \A c \in Unbuilt(comp) : comp[c].st \in {"none", "building"}
    BY DEF Unbuilt, InState
  <2>5. Running(comp') \subseteq Running(comp)
    BY <2>3 DEF Running
  <2>6. CalmRows(comp, comp')
    BY <2>1, <2>3, <2>4, <2>5 DEF CalmRows, Runs
  <2>7. Open(comp') \subseteq Open(comp)
    BY <2>6, CalmOpen
  <2>8. CalmBatch(comp, batch, comp', batch')
    BY <1>2, <2>1, <2>3, <2>4 DEF CalmBatch
  <2>9. CalmTask(comp, batch, comp', task', batch')
    <3>1. \A c \in All : /\ comp'[c].task = comp[c].task
                         /\ comp'[c].st \in {"none", "canceled"} => comp[c].st = comp'[c].st
      BY <2>3
    <3> QED BY <1>2, <2>1, <3>1 DEF CalmTask, Open
  <2> QED BY <2>2, <2>6, <2>8, <2>9, CalmStep DEF Calm, CalmTasks
<1> QED BY <1>1, <1>2, Zenon DEF FailedHandler

(* What a handler that raises leaves behind is sound.                       *)
LEMMA HandlerRaisesSound ==
  ASSUME Inv, Inv', BatchInv(comp, task, batch), NEW m \in events, HandlerRaises(m)
  PROVE  Sound
<1>1. CASE UNCHANGED <<comp, task, batch>>
  BY <1>1, IdleIsCalm, CalmStep
<1>2. CASE /\ m.type = "build" /\ Known(m) /\ comp' = [comp EXCEPT ![m.c].st = m.result]
           /\ UNCHANGED <<task, batch>>
  BY <1>2, ResultIsCalm, CalmStep
<1>3. CASE comp' = [comp EXCEPT ![m.c].tags = @ \cup {m.tag}] /\ UNCHANGED <<task, batch>>
  <2>1. \A c \in All : /\ comp'[c].st = comp[c].st /\ comp'[c].task = comp[c].task
                       /\ comp'[c].reused = comp[c].reused
    BY <1>3 DEF Inv, TypeOK, Row
  <2> QED BY <1>3, <2>1, LikeRowsCalm, CalmStep
<1>4. CASE /\ comp' = [comp EXCEPT ![Macros].st = IF @ = "absent" THEN "none" ELSE @]
           /\ batch' = 1 /\ UNCHANGED task
  <2>1. Macros \in All /\ Macros \notin Component /\ Component \subseteq All
    BY ConstantsAssumption DEF All
  <2>2. /\ \A c \in Component : comp'[c] = comp[c] /\ task'[c] = task[c]
        /\ comp[Macros].st = "complete" => comp'[Macros] = comp[Macros]
        /\ comp'[Macros].st # "absent"
    BY <1>4, <2>1 DEF Inv, TypeOK, Row
  <2> QED BY <1>4, <2>2, MacrosCalm, CalmStep
<1> QED BY <1>1, <1>2, <1>3, <1>4, Zenon DEF HandlerRaises, koji

-----------------------------------------------------------------------------
(* The frontend, the pollers, Koji and the message bus.                     *)

(* Submitting a failed build again leaves every batch.                      *)
LEMMA ResubmitSound ==
  ASSUME BInv, Inv', Resubmit
  PROVE  Sound
<1> USE DEF BInv, Agreed
<1>1. /\ comp' = [c \in All |-> IF c \in ToReset THEN [comp[c] EXCEPT !.st = "none"] ELSE comp[c]]
      /\ batch' = IF (IF lastLive = "init" THEN "init" ELSE "wait") = "init" THEN batch ELSE 0
      /\ UNCHANGED task
  BY Zenon DEF Resubmit, koji
<1>2. batch' = 0
  BY <1>1 DEF NoBatchYet
<1>3. comp \in [All -> Row] /\ All = Component \cup {Macros}
  BY DEF Inv, TypeOK, All
<1>4. \A c \in All : \/ comp'[c] = comp[c]
                     \/ comp'[c].st = "none" /\ comp[c].st \in {"building", "failed", "canceled"}
  BY <1>1, <1>3 DEF ToReset, InState, Row
<1>5. Running(comp') \subseteq Running(comp)
  BY <1>4 DEF Running
<1>6. CalmRows(comp, comp')
  BY <1>3, <1>4, <1>5 DEF CalmRows, Runs
<1>7. CalmTask(comp, batch, comp', task', batch')
  BY <1>2, ConstantsAssumption DEF CalmTask, Open
<1> QED BY <1>1, <1>2, <1>6, <1>7, CalmStep DEF Calm, CalmTasks, CalmBatch

(* Untagging what a stale build had built is sound.                         *)
LEMMA CleanupSound ==
  ASSUME Inv, Inv', BatchInv(comp, task, batch), CleanupStaleFailedBuilds
  PROVE  Sound
<1> DEFINE F == InState(comp, {"complete"})
<1>1. /\ comp' = [c \in All |-> IF c \in F THEN [comp[c] EXCEPT !.tags = {}] ELSE comp[c]]
      /\ UNCHANGED <<batch, task>>
  BY Zenon DEF CleanupStaleFailedBuilds
<1> HIDE DEF F
<1>2. \A c \in All : /\ comp'[c].st = comp[c].st /\ comp'[c].task = comp[c].task
                     /\ comp'[c].reused = comp[c].reused
  BY <1>1 DEF Inv, TypeOK, Row
<1> QED BY <1>1, <1>2, LikeRowsCalm, CalmStep

(* The end of a Koji task is sound.                                         *)
LEMMA KojiTaskEndsSound ==
  ASSUME Inv, Inv', BatchInv(comp, task, batch), NEW c \in All, NEW t \in TaskId, KojiTaskEnds(c, t)
  PROVE  Sound
<1>1. /\ \E s \in {"closed", "failed"} : task' = [task EXCEPT ![c][t] = s]
      /\ UNCHANGED <<mb, comp>>
  BY Zenon DEF KojiTaskEnds
<1>2. \A d \in Component, u \in TaskId : task'[d][u] = "active" => task[d][u] = "active"
  BY <1>1 DEF Inv, TypeOK, All
<1> QED BY <1>1, <1>2, LikeRowsCalm, CalmStep DEF mb

-----------------------------------------------------------------------------
(* The specification.                                                       *)

(* Every step is sound.                                                     *)
LEMMA NextSound == ASSUME BInv, [Next]_vars PROVE Sound
<1>0. Inv /\ Inv' /\ BatchInv(comp, task, batch)
  BY NextKeeps DEF BInv, Agreed
<1>1. CASE UNCHANGED <<comp, task, batch>>
  BY <1>0, <1>1, IdleIsCalm, CalmStep
<1>2. ASSUME NEW m \in events, Handle(m) PROVE Sound
  <2>1. CASE InitHandler(m)
    BY <1>0, <2>1, InitHandlerSound
  <2>2. CASE WaitHandler(m)
    BY <1>0, <2>2, WaitHandlerSound
  <2>3. CASE FailedHandler(m)
    BY <1>0, <2>3, FailedHandlerSound
  <2>4. CASE DoneHandler(m)
    BY <2>4, <1>1 DEF DoneHandler, koji
  <2>5. CASE BuildTaskFinalize(m)
    BY <1>0, <2>5, BuildTaskFinalizeSound
  <2>6. CASE Tagged(m)
    BY <1>0, <2>6, TaggedSound
  <2>7. CASE RepoDone(m)
    BY <1>0, <2>7, RepoDoneSound
  <2> QED BY <1>2, <2>1, <2>2, <2>3, <2>4, <2>5, <2>6, <2>7 DEF Handle
<1>3. ASSUME NEW m \in events, HandlerRaises(m) PROVE Sound
  BY <1>0, <1>3, HandlerRaisesSound
<1>4. ASSUME NEW m \in events, Lose(m) PROVE Sound
  BY <1>1, <1>4 DEF Lose, mb, koji
<1>5. CASE Cancel \/ CancelStuckModuleBuilds \/ PassGating
  BY <1>1, <1>5 DEF Cancel, CancelStuckModuleBuilds, PassGating, koji
<1>6. CASE Resubmit
  BY <1>0, <1>6, ResubmitSound
<1>7. CASE Nudge \/ FailLostBuilds \/ SyncKojiBuildTags
  BY <1>1, <1>7, Zenon DEF Nudge, FailLostBuilds, SyncKojiBuildTags, mb, koji
<1>8. CASE ProcessPausedModuleBuilds
  BY <1>0, <1>8, StartNextBatchSound DEF ProcessPausedModuleBuilds
<1>9. CASE CleanupStaleFailedBuilds
  BY <1>0, <1>9, CleanupSound
<1>10. ASSUME NEW c \in All, NEW t \in TaskId, KojiTaskEnds(c, t) PROVE Sound
  BY <1>0, <1>10, KojiTaskEndsSound
<1>11. CASE KojiRepoEnds \/ KojiRegenerates
  BY <1>1, <1>11 DEF KojiRepoEnds, KojiRegenerates, mb
<1>12. CASE UNCHANGED vars
  BY <1>1, <1>12 DEF vars, mb, koji
<1>13. CASE RunScheduled \/ Restart
  BY <1>1, <1>13, Zenon DEF RunScheduled, Restart, mb, koji
<1> QED BY <1>2, <1>3, <1>4, <1>5, <1>6, <1>7, <1>8, <1>9, <1>10, <1>11, <1>12, <1>13 DEF Next

(* A build that never left init enters no batch.                            *)
LEMMA NoBatchKeeps == ASSUME BInv, [Next]_vars PROVE NoBatchYet'
<1>0. Agreed /\ Agreed' /\ Step
  BY NextAgreed DEF BInv
<1>1. lastLive' = "init" => lastLive = "init"
  <2>1. Planned => Planned'
    BY <1>0 DEF Step, Promise!Next, Promise!Plan, Promise!Work, Promise!Fail, Promise!Resume,
                Promise!Finish, Promise!Collect, Promise!vars, Planned
  <2> QED BY <2>1 DEF Planned
<1>2. ASSUME lastLive = "init" PROVE batch' = batch
  <2>1. state \in {"init", "failed"} /\ \A m \in events : m.type = "module" => m.state # "wait"
    BY <1>0, <1>2, NotFresh
  <2>2. ASSUME NEW m \in events, Handle(m) PROVE batch' = batch
    <3>1. ~WaitHandler(m) /\ ~(m.type = "module" /\ m.state = "wait")
      BY <2>1 DEF WaitHandler
    <3>2. CASE RepoDone(m)
      BY <2>1, <3>2, Zenon DEF RepoDone, FoundByTag, mb
    <3>3. CASE BuildTaskFinalize(m)
      BY <3>3, Zenon DEF BuildTaskFinalize, mb
    <3>4. CASE InitHandler(m) \/ FailedHandler(m) \/ DoneHandler(m) \/ Tagged(m)
      BY <3>4, Zenon DEF InitHandler, FailedHandler, DoneHandler, Tagged, mb
    <3> QED BY <2>2, <3>1, <3>2, <3>3, <3>4 DEF Handle
  <2>3. ASSUME NEW m \in events, HandlerRaises(m) PROVE batch' = batch
    BY <2>1, <2>3, Zenon DEF HandlerRaises
  <2>4. ASSUME NEW m \in events, Lose(m) PROVE batch' = batch
    BY <2>4 DEF Lose, mb
  <2>5. CASE Resubmit
    BY <1>2, <2>5, Zenon DEF Resubmit
  <2>6. CASE Cancel \/ CancelStuckModuleBuilds \/ PassGating \/ CleanupStaleFailedBuilds
    BY <2>6 DEF Cancel, CancelStuckModuleBuilds, PassGating, CleanupStaleFailedBuilds
  <2>7. CASE Nudge \/ FailLostBuilds \/ SyncKojiBuildTags
    BY <2>7, Zenon DEF Nudge, FailLostBuilds, SyncKojiBuildTags, mb
  <2>8. CASE ProcessPausedModuleBuilds
    BY <2>1, <2>8 DEF ProcessPausedModuleBuilds
  <2>9. ASSUME NEW c \in All, NEW t \in TaskId, KojiTaskEnds(c, t) PROVE batch' = batch
    BY <2>9 DEF KojiTaskEnds, mb
  <2>10. CASE KojiRepoEnds \/ KojiRegenerates
    BY <2>10 DEF KojiRepoEnds, KojiRegenerates, mb
  <2>11. CASE UNCHANGED vars
    BY <2>11 DEF vars, mb
  <2>12. CASE RunScheduled \/ Restart
    BY <2>12, Zenon DEF RunScheduled, Restart, mb
  <2> QED BY <2>2, <2>3, <2>4, <2>5, <2>6, <2>7, <2>8, <2>9, <2>10, <2>11, <2>12 DEF Next
<1> QED BY <1>1, <1>2 DEF BInv, NoBatchYet

(* The invariant holds at first.                                            *)
LEMMA InitBInv == ASSUME Init PROVE BInv
<1>1. Agreed
  BY InitAgreed
<1>2. \A c \in All : comp[c].st = "absent" /\ \A t \in TaskId : task[c][t] = "none"
  BY DEF Init
<1>3. Open(comp) = {} /\ Running(comp) = {}
  BY <1>2 DEF Open, Running, All
<1>4. Few(comp)
  BY <1>3, FS_EmptySet, ConstantsAssumption DEF Few
<1>5. MacrosFirst(comp) /\ OneActive(task)
  BY <1>2 DEF MacrosFirst, Runs, OneActive, All
<1>6. Behind(comp, batch) /\ OneTask(comp, task, batch)
  BY <1>3 DEF Behind, OneTask
<1> QED BY <1>1, <1>4, <1>5, <1>6 DEF BInv, BatchInv, NoBatchYet, Init

(* It holds always.                                                         *)
LEMMA BInvAlways == Spec => []BInv
<1>1. Init => BInv
  BY InitBInv
<1>2. BInv /\ [Next]_vars => BInv'
  BY NextSound, NextAgreed, NoBatchKeeps DEF BInv, Sound
<1> QED BY <1>1, <1>2, PTL DEF Spec

(* Unless the Koji tag is too long for the name of a target, Koji never     *)
(* builds two tasks of a component at once, whatever attempts submitted     *)
(* them: the relics of earlier attempts that batches.py:192-209 looks for   *)
(* before a batch are all there can be. With a long tag it finds none of    *)
(* them (KojiModuleBuilder.py:1050-1055), and there may be two.             *)
THEOREM NeverTwice == ASSUME ~LongTag PROVE Spec => []OneLiveTask
<1>1. BInv => OneLiveTask
  <2> SUFFICES ASSUME BInv, NEW c \in Component PROVE Cardinality(TasksIn(c, "active")) <= 1
    BY DEF OneLiveTask
  <2>1. \A s, t \in TasksIn(c, "active") : s = t
    BY DEF BInv, BatchInv, OneActive, TasksIn
  <2>2. CASE TasksIn(c, "active") = {}
    BY <2>2, FS_EmptySet
  <2>3. ASSUME NEW t \in TasksIn(c, "active") PROVE Cardinality(TasksIn(c, "active")) <= 1
    <3>1. TasksIn(c, "active") = {t}
      BY <2>1, <2>3
    <3>2. Cardinality({t}) = 1
      BY FS_Singleton
    <3> QED BY <3>1, <3>2
  <2> QED BY <2>2, <2>3
<1> QED BY <1>1, BInvAlways, PTL

(* No more components build at once than conf.num_concurrent_builds allows, *)
(* although module-build-macros is submitted without asking: nothing of the *)
(* module builds before it (batches.py:39-58, modules.py:366-399).          *)
THEOREM ThresholdKept == Spec => []WithinThreshold
<1>1. BInv => WithinThreshold
  BY DEF BInv, BatchInv, Few, WithinThreshold
<1> QED BY <1>1, BInvAlways, PTL

-----------------------------------------------------------------------------
(* The repository a batch is built against.                                 *)

(* The repository and the one that is being made hold what is tagged, and   *)
(* what is behind the current batch is in it.                               *)
Kept == repo \subseteq tag["build"] /\ newRepo.snap \subseteq tag["build"]
        /\ Stored(comp, batch, repo)

(* What is tagged stays tagged, and a repository holds what was tagged.     *)
Stock == /\ tag["build"] \subseteq tag'["build"]
         /\ repo' \in {repo, repo \cup newRepo.snap, tag["build"]}
         /\ newRepo'.snap \in {newRepo.snap, tag'["build"]}

(* A step that leaves the tags and the repositories as they are.            *)
LEMMA Untouched == ASSUME UNCHANGED <<tag, newRepo, repo>> PROVE Stock
BY DEF Stock

(* continue_batch_build tags what it recovers.                              *)
LEMMA ContinueBatchStock ==
  ASSUME Inv, NEW cb, NEW U, NEW gone, NEW out, ContinueBatch(cb, U, gone, out)
  PROVE  Stock
<1>1. PICK F : tag' = [tag EXCEPT !["build"] = @ \cup F]
  BY Zenon DEF ContinueBatch
<1>2. UNCHANGED <<newRepo, repo>>
  BY Zenon DEF ContinueBatch
<1> QED BY <1>1, <1>2 DEF Stock, Inv, TypeOK, Tags

(* start_next_batch_build touches no more than that.                        *)
LEMMA StartNextBatchStock == ASSUME Inv, NEW gone, StartNextBatch(gone) PROVE Stock
<1>1. ASSUME NEW b, EnterBatch(b, gone) PROVE Stock
  BY <1>1, Untouched, ContinueBatchStock, Zenon DEF EnterBatch, koji
<1> QED BY <1>1, Untouched, ContinueBatchStock, Zenon DEF StartNextBatch, koji

(* modules.wait tags what it finds, then requests the repository.           *)
LEMMA WaitHandlerStock == ASSUME Inv, NEW m \in events, WaitHandler(m) PROVE Stock
<1>1. CASE UNCHANGED koji
  BY <1>1, Untouched DEF koji
<1>2. CASE ReuseAll(m)
  <2>1. (\E F : tag' = [g \in Tags |-> tag[g] \cup F]) /\ UNCHANGED <<newRepo, repo>>
    BY <1>2, Zenon DEF ReuseAll
  <2> QED BY <2>1 DEF Stock, Tags
<1>3. CASE BuildMacros(m)
  <2>1. /\ UNCHANGED tag \/ tag' = [tag EXCEPT !["build"] = @ \cup {Macros}]
        /\ newRepo' = [st |-> "active", snap |-> tag'["build"]] /\ UNCHANGED repo
    BY <1>3, Zenon DEF BuildMacros
  <2> QED BY <2>1 DEF Stock, Inv, TypeOK, Tags
<1> QED BY <1>1, <1>2, <1>3, Zenon DEF WaitHandler

(* components.build_task_finalize tags a batch that is complete.            *)
LEMMA BuildTaskFinalizeStock == ASSUME Inv, NEW m \in events, BuildTaskFinalize(m) PROVE Stock
<1>1. CASE (\E F, D : tag' = [build |-> tag["build"] \cup F, dest |-> D])
           /\ UNCHANGED <<newRepo, repo>>
  BY <1>1 DEF Stock
<1> QED BY <1>1, Untouched, ContinueBatchStock, Zenon DEF BuildTaskFinalize, koji

(* Only the clean-up of stale failed builds takes a tag back.               *)
LEMMA StockKept ==
  ASSUME Inv, [Next]_vars, state' # "garbage"
  PROVE  Stock
<1>1. newRepo \in [st : {"none", "active", "closed", "failed"}, snap : SUBSET All]
  BY DEF Inv, TypeOK
<1>2. ASSUME NEW m \in events, Handle(m) PROVE Stock
  <2>1. CASE InitHandler(m) \/ DoneHandler(m)
    BY <2>1, Untouched, Zenon DEF InitHandler, DoneHandler, koji
  <2>2. CASE Tagged(m)
    <3>1. /\ UNCHANGED newRepo \/ newRepo' = [st |-> "active", snap |-> tag["build"]]
          /\ UNCHANGED <<tag, repo>>
      BY <2>2, Zenon DEF Tagged
    <3> QED BY <3>1 DEF Stock
  <2>3. CASE RepoDone(m)
    BY <2>3, Untouched, StartNextBatchStock, Zenon DEF RepoDone, koji
  <2>4. CASE FailedHandler(m)
    <3>1. /\ UNCHANGED newRepo \/ newRepo' = [newRepo EXCEPT !.st = "failed"]
          /\ UNCHANGED <<tag, repo>>
      BY <2>4, Zenon DEF FailedHandler
    <3> QED BY <1>1, <3>1 DEF Stock
  <2> QED BY <1>2, <2>1, <2>2, <2>3, <2>4, WaitHandlerStock, BuildTaskFinalizeStock DEF Handle
<1>3. ASSUME NEW m \in events, HandlerRaises(m) \/ Lose(m) PROVE Stock
  BY <1>3, Untouched, Zenon DEF HandlerRaises, Lose, koji
<1>4. CASE Cancel \/ Resubmit \/ CancelStuckModuleBuilds \/ PassGating
  BY <1>4, Untouched, Zenon DEF Cancel, Resubmit, CancelStuckModuleBuilds, PassGating, koji
<1>5. CASE Nudge \/ FailLostBuilds \/ SyncKojiBuildTags
  BY <1>5, Untouched, Zenon DEF Nudge, FailLostBuilds, SyncKojiBuildTags, koji
<1>6. CASE ProcessPausedModuleBuilds
  BY <1>6, StartNextBatchStock DEF ProcessPausedModuleBuilds
<1>7. ~CleanupStaleFailedBuilds
  BY DEF CleanupStaleFailedBuilds, Transition
<1>8. ASSUME NEW c \in All, NEW t \in TaskId, KojiTaskEnds(c, t) PROVE Stock
  BY <1>8, Untouched DEF KojiTaskEnds
<1>9. CASE KojiRepoEnds \/ KojiRegenerates
  BY <1>1, <1>9 DEF KojiRepoEnds, KojiRegenerates, Stock
<1>10. CASE UNCHANGED vars
  BY <1>10, Untouched DEF vars, koji
<1>11. CASE RunScheduled \/ Restart
  BY <1>11, Untouched, Zenon DEF RunScheduled, Restart, koji
<1> QED BY <1>2, <1>3, <1>4, <1>5, <1>6, <1>7, <1>8, <1>9, <1>10, <1>11 DEF Next

(* So the barrier holds of every step until the build is cleaned up.        *)
LEMMA KeptKeeps ==
  ASSUME BInv, Kept, [Next]_vars, state' # "garbage"
  PROVE  Kept'
<1>1. Stock /\ StoredKeeps
  BY NextSound, StockKept DEF BInv, Agreed, Sound
<1>2. repo \subseteq repo'
  BY <1>1 DEF Stock, Kept
<1> QED BY <1>1, <1>2 DEF Stock, Kept, StoredKeeps

(* Until a failed build is cleaned up, and its packages untagged, Koji is   *)
(* asked to build a component only when every component of the batches      *)
(* before it is complete and in the repository it will be built against     *)
(* (batches.py:173-260, repos.py:75-140).                                   *)
THEOREM BarrierHolds == Spec /\ [](state # "garbage") => BatchBarrier
<1> DEFINE Free == state # "garbage"
<1>1. Init => Kept
  <2> SUFFICES ASSUME Init PROVE Kept
    OBVIOUS
  <2>1. Open(comp) = {}
    BY DEF Init, Open, All
  <2> QED BY <2>1 DEF Init, Kept, Stored
<1>2. BInv /\ Kept /\ [Next]_vars /\ Free' => Kept'
  BY KeptKeeps
<1>3. BInv /\ Kept /\ [Next]_vars
        => [\A c \in Component, d \in All :
              Started(c) /\ comp[d].st # "absent" /\ Batch[d] < Batch[c]
                => comp[d].st = "complete" /\ d \in repo]_vars
  BY NextSound DEF Kept, Sound, Barrier
<1> HIDE DEF Free
<1>4. Spec /\ []Free => [][\A c \in Component, d \in All :
              Started(c) /\ comp[d].st # "absent" /\ Batch[d] < Batch[c]
                => comp[d].st = "complete" /\ d \in repo]_vars
  BY <1>1, <1>2, <1>3, BInvAlways, PTL DEF Spec
<1> QED BY <1>4 DEF BatchBarrier, Free
=============================================================================
