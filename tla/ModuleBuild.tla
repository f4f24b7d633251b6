---------------------------- MODULE ModuleBuild ----------------------------
(***************************************************************************)
(* One module build of the Module Build Service on the Koji backend: the   *)
(* row of the module and of its components in the database, the handlers   *)
(* the backend worker runs on events, the periodic pollers, the requests   *)
(* of the frontend, and Koji as the handlers use it.                       *)
(*                                                                         *)
(* All handlers of one module run on one Celery queue served by one        *)
(* process (scheduler/route.py, scheduler/__init__.py), so a handler is    *)
(* one step. What happens between two handlers is not ordered: events wait *)
(* in a set, are handled in any order and may be lost on the message bus.  *)
(***************************************************************************)
EXTENDS Naturals, FiniteSets

CONSTANTS
  Component,     \* the packages a modulemd may list
  Macros,        \* module-build-macros, the package MBS adds in batch 1
  Specified,     \* the sets of packages the submitted modulemd may list
  Batch,         \* Batch[c]: the batch of package c, from its buildorder
  Weight,        \* Weight[c]: the expected build time of package c
  Reusable,      \* the packages a previous module build allows to reuse
  Strategy,      \* the rebuild strategy of the module
  Scratch,       \* whether this is a scratch build
  MacrosTarget,  \* whether conf.koji_build_macros_target is set
  LongTag,       \* whether the Koji tag is too long for the name of a target
  StuckStates,   \* conf.cleanup_stuck_builds_states
  NumConcurrent, \* conf.num_concurrent_builds
  MaxTask,       \* bound: the Koji build tasks one package ever gets
  Budget         \* bound: how often each kind of disturbance happens

All == Component \cup {Macros}
TaskId == 1..MaxTask
ReuseTask == MaxTask + 1    \* the Koji task of the previous module's build
Disturbance ==
  {"cancel", "resubmit", "reject", "refuse", "taskFail", "repoFail", "regen", "loss", "raise",
   "backlog", "restart"}

ASSUME ConstantsAssumption ==
  /\ Macros \notin Component
  /\ Specified \subseteq SUBSET Component
  /\ IsFiniteSet(Component)
  /\ Batch \in [All -> Nat] /\ Batch[Macros] = 1
  /\ \A c \in Component : Batch[c] > 1
  /\ Weight \in [All -> Nat]
  /\ Reusable \subseteq Component
  /\ Strategy \in {"all", "only-changed", "changed-and-after"}
  /\ Strategy = "all" => Reusable = {}
  /\ Scratch \in BOOLEAN /\ MacrosTarget \in BOOLEAN /\ LongTag \in BOOLEAN
  /\ StuckStates \subseteq {"init", "build"}
  /\ NumConcurrent \in Nat \ {0}
  /\ MaxTask \in Nat
  /\ Budget \in [Disturbance -> Nat]

VARIABLES
  state,     \* ModuleBuild.state
  lastLive,  \* the latest state other than failed in the module's trace
  batch,     \* ModuleBuild.batch
  kojiTag,   \* whether ModuleBuild.koji_tag is set
  comp,      \* the ComponentBuild row of each package
  task,      \* Koji: task[c][i] is the i-th build task of package c
  tag,       \* Koji: the packages tagged in the build and destination tags
  newRepo,   \* Koji: the newRepo task MBS remembers and what it will hold
  repo,      \* Koji: the packages in the newest repository of the build tag
  events,    \* events on the message bus, calls queued in Celery or yet to be
  budget     \* the disturbances that may still happen

mb   == <<state, lastLive, batch, kojiTag>>
koji == <<task, tag, newRepo, repo>>
vars == <<mb, comp, koji, events, budget>>

-----------------------------------------------------------------------------
(* Events. Those on the "bus" can be lost, those in the Celery "queue" not. *)
(* Calls that are added to events.scheduler are put into the queue when a   *)
(* handler ends in that process. For one that a handler adds this is its    *)
(* own end; one that a poller adds stays in the "memory" of its process.    *)

Handled == {"init", "wait", "done", "failed"}   \* states with a handler
Tags    == {"build", "dest"}
Outcome == {"complete", "failed", "canceled"}

ModuleMsg(via, s)      == [type |-> "module", via |-> via, state |-> s]
BuildMsg(via, c, t, r) == [type |-> "build", via |-> via, c |-> c, task |-> t, result |-> r]
TagMsg(via, g, c)      == [type |-> "tag", via |-> via, tag |-> g, c |-> c]
RepoMsg(via)           == [type |-> "repo", via |-> via]

Via == {"bus", "queue", "memory"}
Message ==
  [type : {"module"}, via : {"bus", "queue"}, state : Handled]
    \cup [type : {"build"}, via : Via, c : All, task : TaskId \cup {ReuseTask}, result : Outcome]
    \cup [type : {"tag"}, via : Via, tag : Tags, c : All]
    \cup [type : {"repo"}, via : Via]

CompState == {"absent", "none", "building"} \cup Outcome
Row == [st : CompState, task : 0..ReuseTask, tags : SUBSET Tags, reused : BOOLEAN]
KojiTask == {"none", "active", "closed", "failed", "canceled"}

TypeOK ==
  /\ state \in {"init", "wait", "build", "done", "failed", "ready", "garbage"}
  /\ lastLive \in {"init", "wait", "build", "done", "ready", "garbage"}
  /\ batch \in Nat
  /\ kojiTag \in BOOLEAN
  /\ comp \in [All -> Row]
  /\ task \in [All -> [TaskId -> KojiTask]]
  /\ tag \in [Tags -> SUBSET All]
  /\ newRepo \in [st : {"none", "active", "closed", "failed"}, snap : SUBSET All]
  /\ repo \subseteq All
  /\ events \subseteq Message
  /\ budget \in [Disturbance -> Nat]

-----------------------------------------------------------------------------
(* Queries on the rows (properties of ModuleBuild and ComponentBuild).      *)
(* cb is the component table they look at.                                  *)

Present(cb)      == {c \in All : cb[c].st # "absent"}
InState(cb, S)   == {c \in All : cb[c].st \in S}
InBatch(cb, b)   == {c \in Present(cb) : Batch[c] = b}
Current(cb)      == InBatch(cb, batch)
UpToCurrent(cb)  == {c \in Present(cb) : Batch[c] <= batch}

(* Mutant: forgets the components that wait for the threshold.              *)
UnbuiltRunning(cb) == InState(cb, {"building"})
(* Mutant: a canceled component is not an unsuccessful one.                 *)
UnsuccessfulFailed(cb) == InState(cb, {"failed"})

Waiting(cb)      == InState(cb, {"none"})
Unbuilt(cb)      == InState(cb, {"none", "building"})
Unsuccessful(cb) == InState(cb, {"failed", "canceled"})
IsTagged(cb, c)  == "build" \in cb[c].tags /\ (c = Macros \/ "dest" \in cb[c].tags)
Untagged(cb, S)  == {c \in S : cb[c].st = "complete" /\ ~IsTagged(cb, c)}

(* What continue_batch_build would submit of batch b: a canceled component  *)
(* counts as not built yet, a failed one does not.                          *)
ToBuild(cb, b)   == {c \in InBatch(cb, b) : cb[c].st \in {"none", "canceled"}}

Running(cb)      == {c \in All : cb[c].st = "building" /\ ~cb[c].reused}
AtThreshold(cb)  == Cardinality(Running(cb)) >= NumConcurrent

(* Mutant: counts what one call submits, not what is building.              *)
RoomOfCall(cb) == NumConcurrent
(* How many more components may be submitted.                               *)
Room(cb) == IF AtThreshold(cb) THEN 0 ELSE NumConcurrent - Cardinality(Running(cb))

-----------------------------------------------------------------------------
(* Koji as the builder sees it.                                             *)

TasksIn(c, s)   == {t \in TaskId : task[c][t] = s}

(* Mutant: relicts of an earlier attempt are not looked for.                *)
NoActiveTasks == {}
(* list_tasks_for_components finds a task by its package and the name of    *)
(* its build target, which it compares with the Koji tag. Those differ for  *)
(* macros that are built in a target of their own; and for all tasks if the *)
(* tag has more than the 50 characters a target may have.                   *)
OwnTarget   == IF LongTag THEN {} ELSE IF MacrosTarget THEN Component ELSE All
ActiveTasks == {c \in Present(comp) \cap OwnTarget : TasksIn(c, "active") # {}}

(* Mutant: does not wait for the repository.                                *)
BuildrootAssumed(S) == TRUE
BuildrootReady(S) == S \subseteq repo

(* An existing build of package c: tagged, or complete but not tagged.      *)
Orphan(c)       == c \in tag["build"] \cup tag["dest"] \/ TasksIn(c, "closed") # {}
OrphanTask(c)   == IF TasksIn(c, "closed") = {} THEN ReuseTask
                   ELSE CHOOSE t \in TasksIn(c, "closed") : TRUE

(* The bus messages of tagging the packages S, some of which already are.   *)
TagEvents(g, S) == {TagMsg("bus", g, c) : c \in S \ tag[g]}

(* recover_orphaned_artifact for each package of F: the row is complete,    *)
(* the build is tagged in the build tag, and handlers are called as if the  *)
(* build had just finished and been tagged.                                 *)
Recovered(cb, F) ==
  [c \in All |-> IF c \in F THEN [cb[c] EXCEPT !.st = "complete", !.task = OrphanTask(c)]
                 ELSE cb[c]]
RecoverEvents(F, via) ==
  {BuildMsg(via, c, OrphanTask(c), "complete") : c \in F}
    \cup TagEvents("build", F)
    \cup {TagMsg(via, g, c) : g \in {"build"}, c \in F \cap tag["build"]}
    \cup {TagMsg(via, g, c) : g \in {"dest"}, c \in F \cap tag["dest"]}

HasFreeTask(c) == TasksIn(c, "none") # {}
NextTask(c) == CHOOSE t \in TasksIn(c, "none") : TRUE

Submitted(cb, S) ==
  [c \in All |-> IF c \in S THEN [cb[c] EXCEPT !.st = "building", !.task = NextTask(c)] ELSE cb[c]]
StartTasks(S) ==
  task' = [c \in All |-> IF c \in S THEN [task[c] EXCEPT ![NextTask(c)] = "active"] ELSE task[c]]

(* Packages whose submission fails: Koji gives no task, or the call raises  *)
(* and the row keeps the task it had.                                       *)
Refused(cb, R, raised) ==
  [c \in All |-> IF c \in R THEN [cb[c] EXCEPT !.st = "failed", !.task = IF raised THEN @ ELSE 0]
                 ELSE cb[c]]

-----------------------------------------------------------------------------
Spend(d) == budget[d] > 0 /\ budget' = [budget EXCEPT ![d] = @ - 1]

(* ModuleBuild.transition: the message is published once the change is      *)
(* committed, and only if the state changed.                                *)
Transition(s) == /\ state' = s
                 /\ lastLive' = IF s = "failed" THEN lastLive ELSE s
(* Mutant: publishes a message for states nobody handles.                   *)
StateEventsForAll(s) == IF s # state THEN {ModuleMsg("bus", s)} ELSE {}
StateEvents(s) == IF s # state /\ s \in Handled THEN {ModuleMsg("bus", s)} ELSE {}

Deliver(gone, out) == events' = (events \ gone) \cup out

-----------------------------------------------------------------------------
(* scheduler/batches.py                                                     *)

(* continue_batch_build: recover what Koji already has of U, then submit    *)
(* the heaviest of the rest until the threshold. cb is the component table  *)
(* so far, gone and out the events consumed and produced so far; a poller   *)
(* consumes none.                                                           *)
ScheduledBy(gone) == IF gone = {} THEN "memory" ELSE "queue"

ContinueBatch(cb, U, gone, out) ==
  LET found == {c \in U : cb[c].st = "none" /\ Orphan(c)}
      todo  == U \ found
  IN  \E S \in SUBSET todo :
        /\ Cardinality(S) = IF Room(cb) < Cardinality(todo) THEN Room(cb) ELSE Cardinality(todo)
        /\ \A c \in S, d \in todo \ S : Weight[c] >= Weight[d]
        /\ \A c \in S : HasFreeTask(c)
        /\ \E R \in SUBSET S, raised \in BOOLEAN :
             /\ IF R = {} THEN ~raised /\ UNCHANGED budget ELSE Spend("refuse")
             /\ comp' = Refused(Submitted(Recovered(cb, found), S \ R), R, raised)
             /\ StartTasks(S \ R)
        /\ tag' = [tag EXCEPT !["build"] = @ \cup found]
        /\ Deliver(gone, out \cup RecoverEvents(found, ScheduledBy(gone)))
        /\ UNCHANGED <<newRepo, repo>>

(* reuse_component for each package of F, with the fake event it schedules. *)
Reused(cb, F, st) ==
  [c \in All |-> IF c \in F THEN [cb[c] EXCEPT !.st = st, !.task = ReuseTask, !.reused = TRUE]
                 ELSE cb[c]]
ReuseEvents(F, via) == {BuildMsg(via, c, ReuseTask, "complete") : c \in F}

(* start_next_batch_build calls itself when the batch it enters has nothing *)
(* to build: it stops at the first batch that has something to build, that  *)
(* still has a running component, or that is not in the repository yet.     *)
StopsAt(b) == \/ ToBuild(comp, b) # {}
              \/ \E c \in InBatch(comp, b) : comp[c].st = "building"
              \/ ~BuildrootReady(InBatch(comp, b))
NextBatch(b) == b > batch /\ StopsAt(b) /\ \A d \in (batch + 1)..(b - 1) : ~StopsAt(d)

(* Reuse is tried for the next batch, unless "changed-and-after" says that  *)
(* something before it was rebuilt.                                         *)
TryReuse(b) == Strategy = "changed-and-after" =>
                 (b = 2 \/ \A c \in Present(comp) : comp[c].reused)

EnterBatch(b, gone) ==
  LET U   == ToBuild(comp, b)
      via == ScheduledBy(gone)
      re  == IF TryReuse(b) THEN U \cap Reusable ELSE {}
  IN  /\ batch' = b
      /\ \/ /\ U \subseteq re
            /\ comp' = Reused(comp, re, "building")
            /\ Deliver(gone, ReuseEvents(re, via) \cup (IF U = {} THEN {} ELSE {RepoMsg(via)}))
            /\ UNCHANGED <<koji, budget>>
         \/ /\ ~(U \subseteq re)
            /\ ContinueBatch(Reused(comp, re, "building"), U \ re, gone, ReuseEvents(re, via))

(* start_next_batch_build, called with the events in gone consumed.         *)
StartNextBatch(gone) ==
  LET cur == Current(comp)
      done == /\ Unbuilt(comp) # {}
              /\ cur \cap Unbuilt(comp) = {}
              /\ Unsuccessful(comp) = {}
  IN  \/ \* the current batch is not finished: go on with it
         /\ cur \cap Waiting(comp) # {}
         /\ ContinueBatch(comp, ToBuild(comp, batch), gone, {})
         /\ UNCHANGED mb
      \/ \* tasks of an earlier attempt still run
         /\ done /\ ActiveTasks # {}
         /\ Transition("failed")
         /\ Deliver(gone, StateEvents("failed"))
         /\ UNCHANGED <<batch, kojiTag, comp, koji, budget>>
      \/ /\ done /\ ActiveTasks = {} /\ BuildrootReady(cur)
         /\ \E b \in {Batch[c] : c \in Present(comp)} : NextBatch(b) /\ EnterBatch(b, gone)
         /\ UNCHANGED <<state, lastLive, kojiTag>>
      \/ /\ cur \cap Waiting(comp) = {}
         /\ ~(done /\ (ActiveTasks # {} \/ BuildrootReady(cur)))
         /\ Deliver(gone, {})
         /\ UNCHANGED <<mb, comp, koji, budget>>

-----------------------------------------------------------------------------
(* scheduler/handlers: one action per handler, m the event it handles.      *)

(* modules.init: components are recorded and the build moves to wait, or    *)
(* the request is rejected. A late message finds the state changed.         *)
InitHandler(m) ==
  /\ m.type = "module" /\ m.state = "init"
  /\ \/ /\ state # "init"
        /\ Deliver({m}, {})
        /\ UNCHANGED <<mb, comp, koji, budget>>
     \/ /\ state = "init"
        /\ \E S \in Specified :
             comp' = [c \in All |-> IF c \in S /\ comp[c].st = "absent"
                                    THEN [comp[c] EXCEPT !.st = "none"] ELSE comp[c]]
        /\ Transition("wait")
        /\ Deliver({m}, StateEvents("wait"))
        /\ UNCHANGED <<batch, kojiTag, koji, budget>>
     \/ /\ state = "init" /\ Spend("reject")
        /\ Transition("failed")
        /\ Deliver({m}, StateEvents("failed"))
        /\ UNCHANGED <<batch, kojiTag, comp, koji>>

(* attempt_to_reuse_all_components: all or nothing.                         *)
AllReusable == Present(comp) # {} /\ Present(comp) \ {Macros} \subseteq Reusable

ReuseAll(m) ==
  LET F == Present(comp) \ {Macros}
  IN  /\ comp' = Reused(comp, F, "complete")
      /\ \E b \in {batch} \cup {Batch[c] : c \in F} :
           b >= batch /\ (\A c \in F : b >= Batch[c]) /\ batch' = b
      /\ tag' = [g \in Tags |-> tag[g] \cup F]
      /\ Deliver({m}, StateEvents("build") \cup UNION {TagEvents(g, F) : g \in Tags})
      /\ UNCHANGED <<task, newRepo, repo, budget>>

(* Batch 1: find or submit module-build-macros, regenerate the repository.  *)
BuildMacros(m) ==
  LET created == [comp EXCEPT ![Macros].st = IF @ = "absent" THEN "none" ELSE @]
  IN  /\ batch' = 1
      /\ \/ /\ comp[Macros].st = "complete"
            /\ Deliver({m}, StateEvents("build"))
            /\ UNCHANGED <<comp, task, tag, budget>>
         \/ /\ comp[Macros].st # "complete" /\ Orphan(Macros)
            /\ comp' = Recovered(created, {Macros})
            /\ tag' = [tag EXCEPT !["build"] = @ \cup {Macros}]
            /\ Deliver({m}, StateEvents("build") \cup RecoverEvents({Macros}, "queue"))
            /\ UNCHANGED <<task, budget>>
         \/ /\ comp[Macros].st # "complete" /\ ~Orphan(Macros)
            /\ \/ /\ HasFreeTask(Macros)
                  /\ comp' = Submitted(created, {Macros})
                  /\ StartTasks({Macros})
                  /\ UNCHANGED budget
               \/ /\ Spend("refuse")
                  /\ comp' = Refused(created, {Macros}, FALSE)
                  /\ UNCHANGED task
            /\ Deliver({m}, StateEvents("build"))
            /\ UNCHANGED tag
      /\ newRepo' = [st |-> "active", snap |-> tag'["build"]]
      /\ UNCHANGED repo

(* modules.wait: whatever state the module is in by now.                    *)
WaitHandler(m) ==
  /\ m.type = "module" /\ m.state = "wait"
  /\ \/ \* the build dependencies cannot be resolved
        /\ Spend("reject")
        /\ Transition("failed")
        /\ Deliver({m}, StateEvents("failed"))
        /\ UNCHANGED <<batch, kojiTag, comp, koji>>
     \/ \* no component at all
        /\ Present(comp) = {}
        /\ Transition("build") /\ kojiTag' = TRUE
        /\ Deliver({m}, StateEvents("build") \cup {RepoMsg("queue")})
        /\ UNCHANGED <<batch, comp, koji, budget>>
     \/ /\ AllReusable
        /\ Transition("build") /\ kojiTag' = TRUE
        /\ ReuseAll(m)
     \/ /\ Present(comp) # {} /\ ~AllReusable
        /\ Transition("build") /\ kojiTag' = TRUE
        /\ BuildMacros(m)

(* components.build_task_finalize: the row takes the result; when nothing   *)
(* of the current batch is left to build, the batch is tagged or the module *)
(* fails; when the threshold left some waiting, they are submitted.         *)

(* Mutant: finds the component by its name, whatever the task.              *)
KnownByName(m) == comp[m.c].st # "absent"
Known(m) == comp[m.c].st # "absent" /\ comp[m.c].task = m.task

BuildTaskFinalize(m) ==
  LET cb   == [comp EXCEPT ![m.c].st = m.result]
      cur  == Current(cb)
      left == cur \cap Unbuilt(cb)
      bad  == cur \cap Unsuccessful(cb)
      doomed == \/ m.c = Macros /\ m.result # "complete"
                \/ batch # 0 /\ left = {} /\ bad # {}
  IN  /\ m.type = "build"
      /\ \/ /\ ~Known(m)
            /\ Deliver({m}, {})
            /\ UNCHANGED <<mb, comp, koji, budget>>
         \/ /\ Known(m) /\ doomed
            /\ comp' = cb
            /\ Transition("failed")
            /\ Deliver({m}, StateEvents("failed"))
            /\ UNCHANGED <<batch, kojiTag, koji, budget>>
         \/ \* with batch 0 current_batch raises, after the result is saved
            /\ Known(m) /\ ~doomed
            /\ batch = 0 \/ (left # {} /\ left \cap Waiting(cb) = {})
            /\ comp' = cb
            /\ Deliver({m}, {})
            /\ UNCHANGED <<mb, koji, budget>>
         \/ \* (an empty current batch has nothing to tag)
            /\ Known(m) /\ ~doomed /\ batch # 0 /\ left = {}
            /\ comp' = cb
            /\ tag' = [build |-> tag["build"] \cup cur, dest |-> tag["dest"] \cup (cur \ {Macros})]
            /\ Deliver({m}, IF cur = {} THEN {RepoMsg("queue")}
                            ELSE TagEvents("build", cur) \cup TagEvents("dest", cur \ {Macros}))
            /\ UNCHANGED <<mb, task, newRepo, repo, budget>>
         \/ /\ Known(m) /\ ~doomed /\ batch # 0 /\ left \cap Waiting(cb) # {}
            /\ ContinueBatch(cb, ToBuild(cb, batch), {m}, {})
            /\ UNCHANGED mb

(* ModuleBuild.get_by_tag, for a tag that exists only for this build.       *)
FoundByTag == state = "build" /\ kojiTag

(* tags.tagged: once everything built so far is tagged, a new repository is *)
(* requested, or none is needed any more.                                   *)
Tagged(m) ==
  LET cb == [comp EXCEPT ![m.c].tags = @ \cup {m.tag}]
      ready == Current(cb) \cap Unbuilt(cb) = {} /\ Untagged(cb, UpToCurrent(cb)) = {}
  IN  /\ m.type = "tag"
      /\ \/ /\ ~(FoundByTag /\ m.c \in Present(comp))
            /\ Deliver({m}, {})
            /\ UNCHANGED <<comp, newRepo>>
         \/ /\ FoundByTag /\ m.c \in Present(comp)
            /\ comp' = cb
            /\ IF ready /\ Unbuilt(cb) # {} /\ newRepo.st # "active"
               THEN newRepo' = [st |-> "active", snap |-> tag["build"]]
               ELSE UNCHANGED newRepo
            /\ Deliver({m}, IF ready /\ Unbuilt(cb) = {} THEN {RepoMsg("queue")} ELSE {})
      /\ UNCHANGED <<mb, task, tag, repo, budget>>

(* repos.done: the repository of the build tag was regenerated.             *)
RepoDone(m) ==
  LET cur  == Current(comp)
      good == cur \cap InState(comp, {"complete"})
      wait == \/ batch = 0 /\ Present(comp) # {}
              \/ cur # {} /\ Untagged(comp, UpToCurrent(comp)) # {}
              \/ cur # {} /\ cur \subseteq Waiting(comp)
              \/ cur \cap InState(comp, {"building"}) # {}
      fail == \/ Present(comp) # {} /\ good = {}
              \/ Unsuccessful(comp) # {}
  IN  /\ m.type = "repo"
      /\ \/ /\ \/ ~FoundByTag
               \/ FoundByTag /\ wait
               \/ FoundByTag /\ ~wait /\ ~fail /\ Unbuilt(comp) # {} /\ ~BuildrootReady(good)
            /\ Deliver({m}, {})
            /\ UNCHANGED <<mb, comp, koji, budget>>
         \/ /\ FoundByTag /\ ~wait /\ fail
            /\ Transition("failed")
            /\ Deliver({m}, StateEvents("failed"))
            /\ UNCHANGED <<batch, kojiTag, comp, koji, budget>>
         \/ /\ FoundByTag /\ ~wait /\ ~fail /\ Unbuilt(comp) # {} /\ BuildrootReady(good)
            /\ StartNextBatch({m})
         \/ \* everything is built: import the module into Koji and be done
            /\ FoundByTag /\ ~wait /\ ~fail /\ Unbuilt(comp) = {}
            /\ Transition("done")
            /\ Deliver({m}, StateEvents("done"))
            /\ UNCHANGED <<batch, kojiTag, comp, koji, budget>>

(* modules.failed: whatever state the module is in by now, it is failed and *)
(* what is left of it is canceled. Canceling a Koji task may not succeed.   *)

(* Mutant: leaves the components it finds no task to cancel for.            *)
LeftoverWaiting == Waiting(comp)
Leftover == Unbuilt(comp)

FailedHandler(m) ==
  LET open == {c \in Leftover : comp[c].task \in TasksIn(c, "active")}
  IN  /\ m.type = "module" /\ m.state = "failed"
      /\ Transition("failed")
      /\ \/ /\ kojiTag
            /\ comp' = [c \in All |-> IF c \in Leftover THEN [comp[c] EXCEPT !.st = "failed"]
                                      ELSE comp[c]]
            /\ \E K \in SUBSET open :
                 /\ task' = [c \in All |-> IF c \in K THEN [task[c] EXCEPT ![comp[c].task] = "canceled"]
                                           ELSE task[c]]
                 /\ Deliver({m}, StateEvents("failed")
                                   \cup {BuildMsg("bus", c, comp[c].task, "canceled") : c \in K})
            /\ \/ UNCHANGED newRepo
               \/ newRepo.st = "active" /\ newRepo' = [newRepo EXCEPT !.st = "failed"]
         \/ /\ ~kojiTag
            /\ Deliver({m}, StateEvents("failed"))
            /\ UNCHANGED <<comp, task, newRepo>>
      /\ UNCHANGED <<batch, kojiTag, tag, repo, budget>>

(* modules.done: whatever state the module is in by now, a build that       *)
(* passes gating is ready. Gating may say no.                               *)
DoneHandler(m) ==
  /\ m.type = "module" /\ m.state = "done"
  /\ \/ ~Scratch /\ Transition("ready")
     \/ UNCHANGED <<state, lastLive>>
  /\ Deliver({m}, {})
  /\ UNCHANGED <<batch, kojiTag, comp, koji, budget>>

(* A handler that raises keeps what it committed before: the result of a    *)
(* build, the tag of a component, or batch 1 with the macros not submitted. *)
(* Nobody calls it again.                                                   *)
HandlerRaises(m) ==
  /\ m.via # "memory" /\ Spend("raise")
  /\ Deliver({m}, {})
  /\ \/ /\ m.type = "build" /\ Known(m)
        /\ comp' = [comp EXCEPT ![m.c].st = m.result]
        /\ UNCHANGED <<batch, kojiTag>>
     \/ /\ m.type = "tag" /\ FoundByTag /\ m.c \in Present(comp)
        /\ comp' = [comp EXCEPT ![m.c].tags = @ \cup {m.tag}]
        /\ UNCHANGED <<batch, kojiTag>>
     \/ /\ m.type = "module" /\ m.state = "wait" /\ Present(comp) # {} /\ ~AllReusable
        /\ comp' = [comp EXCEPT ![Macros].st = IF @ = "absent" THEN "none" ELSE @]
        /\ batch' = 1 /\ kojiTag' = TRUE
     \/ /\ m.type = "repo" \/ (m.type = "module" /\ m.state \in {"done", "failed"})
        /\ UNCHANGED <<comp, batch, kojiTag>>
  /\ UNCHANGED <<state, lastLive, koji>>

-----------------------------------------------------------------------------
(* The frontend (web/views.py, web/submit.py).                              *)

Cancel ==
  /\ state \in {"init", "wait", "build"} /\ Spend("cancel")
  /\ Transition("failed")
  /\ Deliver({}, StateEvents("failed"))
  /\ UNCHANGED <<batch, kojiTag, comp, koji>>

(* Submitting a failed build again resumes it: every component that did not *)
(* complete is reset, everything else of its row is kept.                   *)

(* Mutant: resets the components that completed as well.                    *)
ToResetAll == Present(comp)
ToReset    == InState(comp, {"building", "failed", "canceled"})

Resubmit ==
  LET to == IF lastLive = "init" THEN "init" ELSE "wait"
  IN  /\ state = "failed" /\ ~Scratch /\ Spend("resubmit")
      /\ comp' = [c \in All |-> IF c \in ToReset THEN [comp[c] EXCEPT !.st = "none"] ELSE comp[c]]
      /\ Transition(to)
      /\ batch' = IF to = "init" THEN batch ELSE 0
      /\ Deliver({}, StateEvents(to))
      /\ UNCHANGED <<kojiTag, koji>>

-----------------------------------------------------------------------------
(* The periodic tasks (scheduler/producer.py). "Older than ten minutes" is  *)
(* any time; "older than some days" is when nothing is under way any more.  *)

(* What a poller added to events.scheduler and no handler has queued yet.   *)
Forgotten == {m \in events : m.via = "memory"}
InFlight  == events \ Forgotten

Quiet == /\ InFlight = {} /\ newRepo.st # "active"
         /\ \A c \in Present(comp) : TasksIn(c, "active") = {}

(* A poll that finds events still waiting is one of a worker that is behind *)
(* by ten minutes: bounded.                                                 *)
Poll == (InFlight = {} /\ UNCHANGED budget) \/ (InFlight # {} /\ Spend("backlog"))

(* Mutant: only the builds in init are nudged.                              *)
NudgeInit ==
  /\ state = "init" /\ Poll
  /\ Deliver({}, {ModuleMsg("queue", state)})
  /\ UNCHANGED <<mb, comp, koji>>

Nudge ==
  /\ state \in {"init", "wait"} /\ Poll
  /\ Deliver({}, {ModuleMsg("queue", state)})
  /\ UNCHANGED <<mb, comp, koji>>

BuildResult == [closed |-> "complete", failed |-> "failed", canceled |-> "failed"]

(* fail_lost_builds looks at every running component at any time; that it   *)
(* repeats a message which is still under way is bounded, too.              *)
Ended == {c \in Running(comp) : /\ comp[c].task \in TaskId
                                /\ task[c][comp[c].task] \in DOMAIN BuildResult}
Result(c) == BuildResult[task[c][comp[c].task]]

FailLostBuilds ==
  /\ IF \E m \in events : m.type = "build" /\ m.c \in Ended /\ m.task = comp[m.c].task
     THEN Spend("backlog") ELSE UNCHANGED budget
  /\ Deliver({}, {BuildMsg("queue", c, comp[c].task, Result(c)) : c \in Ended})
  /\ UNCHANGED <<mb, comp, koji>>

(* Mutant: a newRepo task that was requested is waited for forever.         *)
NoNewRepoTask == newRepo.st = "none"
(* has_missed_new_repo_message *)
MissedNewRepo == newRepo.st \in {"none", "closed"}

ProcessPausedModuleBuilds ==
  /\ state = "build" /\ batch > 0
  /\ ~AtThreshold(comp)
  /\ Current(comp) \cap InState(comp, {"building"}) = {}
  /\ MissedNewRepo
  /\ StartNextBatch({})

SyncKojiBuildTags ==
  /\ state = "build" /\ batch > 0 /\ Poll
  /\ LET late == Untagged(comp, Current(comp))
     IN  Deliver({}, {TagMsg("queue", "build", c) :
                        c \in {d \in late \cap tag["build"] : "build" \notin comp[d].tags}}
                \cup {TagMsg("queue", "dest", c) :
                        c \in {d \in late \cap tag["dest"] : "dest" \notin comp[d].tags}})
  /\ UNCHANGED <<mb, comp, koji>>

CancelStuckModuleBuilds ==
  /\ state \in StuckStates /\ Quiet
  /\ Transition("failed")
  /\ Deliver({}, StateEvents("failed"))
  /\ UNCHANGED <<batch, kojiTag, comp, koji, budget>>

CleanupStaleFailedBuilds ==
  LET F == InState(comp, {"complete"})
  IN  /\ state = "failed" /\ Quiet
      /\ Transition("garbage")
      /\ tag' = [g \in Tags |-> tag[g] \ F]
      /\ comp' = [c \in All |-> IF c \in F THEN [comp[c] EXCEPT !.tags = {}] ELSE comp[c]]
      /\ Deliver({}, StateEvents("garbage"))
      /\ UNCHANGED <<batch, kojiTag, task, newRepo, repo, budget>>

(* poll_greenwave, and a Greenwave message (handlers/greenwave.py): a done  *)
(* build that passes gating is ready.                                       *)
PassGating ==
  /\ state = "done" /\ ~Scratch
  /\ Transition("ready")
  /\ UNCHANGED <<batch, kojiTag, comp, koji, events, budget>>

-----------------------------------------------------------------------------
(* Koji and the message bus. A task can close once per package, because the *)
(* build it makes has the same name, version and release every time. The    *)
(* macros wait for a repository, unless they are built in another target.   *)

KojiTaskEnds(c, t) ==
  /\ task[c][t] = "active"
  /\ \E s \in {"closed", "failed"} :
       /\ task' = [task EXCEPT ![c][t] = s]
       /\ \/ /\ s = "closed" /\ TasksIn(c, "closed") = {}
             /\ c # Macros \/ MacrosTarget \/ newRepo.st = "closed"
             /\ UNCHANGED budget
          \/ s = "failed" /\ TasksIn(c, "closed") # {} /\ UNCHANGED budget
          \/ /\ s = "failed" /\ c = Macros /\ ~MacrosTarget /\ newRepo.st = "failed"
             /\ UNCHANGED budget
          \/ s = "failed" /\ Spend("taskFail")
       /\ Deliver({}, {BuildMsg("bus", c, t, BuildResult[s])})
  /\ UNCHANGED <<mb, comp, tag, newRepo, repo>>

(* The repository holds what was tagged when its task started to read, some *)
(* time after it was requested; Koji offers the newest repository.          *)
KojiRepoEnds ==
  /\ newRepo.st = "active"
  /\ \/ /\ newRepo' = [newRepo EXCEPT !.st = "closed"]
        /\ repo' \in {repo \cup newRepo.snap, tag["build"]}
        /\ Deliver({}, {RepoMsg("bus")})
        /\ UNCHANGED budget
     \/ /\ Spend("repoFail")
        /\ newRepo' = [newRepo EXCEPT !.st = "failed"]
        /\ UNCHANGED <<repo, events>>
  /\ UNCHANGED <<mb, comp, task, tag>>

(* Koji regenerates the repository of the tag on its own.                   *)
KojiRegenerates ==
  /\ kojiTag /\ Spend("regen")
  /\ repo' = tag["build"]
  /\ Deliver({}, {RepoMsg("bus")})
  /\ UNCHANGED <<mb, comp, task, tag, newRepo>>

Lose(m) ==
  /\ m.via = "bus" /\ Spend("loss")
  /\ Deliver({m}, {})
  /\ UNCHANGED <<mb, comp, koji>>

(* A handler, of this module or another one, ends in the process with the   *)
(* calls in K (mbs_event_handler), or the process is restarted first.       *)
RunScheduled ==
  /\ \E K \in (SUBSET Forgotten) \ {{}} : Deliver(K, {[m EXCEPT !.via = "queue"] : m \in K})
  /\ UNCHANGED <<mb, comp, koji, budget>>

Restart ==
  /\ Spend("restart")
  /\ \E K \in (SUBSET Forgotten) \ {{}} : Deliver(K, {})
  /\ UNCHANGED <<mb, comp, koji>>

-----------------------------------------------------------------------------
Init ==
  /\ state = "init" /\ lastLive = "init" /\ batch = 0 /\ kojiTag = FALSE
  /\ comp = [c \in All |-> [st |-> "absent", task |-> 0, tags |-> {}, reused |-> FALSE]]
  /\ task = [c \in All |-> [t \in TaskId |-> "none"]]
  /\ tag = [g \in Tags |-> {}]
  /\ newRepo = [st |-> "none", snap |-> {}]
  /\ repo = {}
  /\ events = {ModuleMsg("bus", "init")}
  /\ budget = Budget

Handle(m) ==
  /\ m.via # "memory"
  /\ \/ InitHandler(m) \/ WaitHandler(m) \/ FailedHandler(m) \/ DoneHandler(m)
     \/ BuildTaskFinalize(m) \/ Tagged(m) \/ RepoDone(m)

Next ==
  \/ \E m \in events : Handle(m)
  \/ \E m \in events : HandlerRaises(m)
  \/ \E m \in events : Lose(m)
  \/ Cancel
  \/ Resubmit
  \/ Nudge
  \/ FailLostBuilds
  \/ ProcessPausedModuleBuilds
  \/ SyncKojiBuildTags
  \/ CancelStuckModuleBuilds
  \/ CleanupStaleFailedBuilds
  \/ PassGating
  \/ \E c \in All, t \in TaskId : KojiTaskEnds(c, t)
  \/ KojiRepoEnds
  \/ KojiRegenerates
  \/ RunScheduled
  \/ Restart

Spec == Init /\ [][Next]_vars

(* A worker serves the queue of the module, Koji ends what it was asked to  *)
(* do, and the periodic tasks run. Nobody cancels or resubmits for sure,    *)
(* and no handler need end in the process of a poller.                      *)
Fairness ==
  /\ WF_vars(\E m \in events : Handle(m))
  /\ WF_vars(Nudge) /\ WF_vars(FailLostBuilds)
  /\ WF_vars(ProcessPausedModuleBuilds) /\ WF_vars(SyncKojiBuildTags)
  /\ \A c \in All, t \in TaskId : WF_vars(KojiTaskEnds(c, t))
  /\ WF_vars(KojiRepoEnds) /\ WF_vars(CancelStuckModuleBuilds)

FairSpec == Spec /\ Fairness

-----------------------------------------------------------------------------
(* Safety.                                                                  *)

(* A component that is complete stays complete (components.py:69-73         *)
(* overwrites the state with that of any message that names the task): no   *)
(* late, duplicate or canceled message, retry or reset undoes a build.      *)
CompleteStable ==
  [][\A c \in All : comp[c].st = "complete" => comp'[c].st = "complete"]_vars

(* A build that is done or ready has every component complete, although     *)
(* modules.done and repos.done act on messages of earlier attempts.         *)
DoneComplete ==
  state \in {"done", "ready"} => \A c \in Component : comp[c].st \in {"absent", "complete"}

(* A package is tagged in Koji for this build only if it is complete in MBS *)
(* (components.py:107-164 tags a batch only once all of it is built).       *)
TaggedComplete == \A g \in Tags : \A c \in tag[g] : comp[c].st = "complete"

(* The batch barrier: Koji is asked to build a component only when every    *)
(* component of the batches before it is complete and in the repository the *)
(* component will be built against.                                         *)
Started(c) == \E t \in TaskId : task[c][t] = "none" /\ task'[c][t] = "active"
BatchBarrier ==
  [][\A c \in Component, d \in All :
       Started(c) /\ comp[d].st # "absent" /\ Batch[d] < Batch[c]
         => comp[d].st = "complete" /\ d \in repo]_vars

(* Koji never builds two tasks of the same component at once, in whatever   *)
(* attempts they were submitted (batches.py:192-209 looks for relics). It   *)
(* may with a tag too long for a target, for which no relic is found.       *)
OneLiveTask == \A c \in Component : Cardinality(TasksIn(c, "active")) <= 1

(* No more components are building than conf.num_concurrent_builds allows,  *)
(* reused ones aside, whatever attempts and batches they belong to.         *)
WithinThreshold == Cardinality(Running(comp)) <= NumConcurrent

(* Once a failed build has handled its failure, no component of it is left  *)
(* building: modules.failed cancels what the build had under way.           *)
FailedIsOver ==
  state = "failed" /\ kojiTag /\ ~(\E m \in events : m.type = "module" /\ m.state = "failed")
    => InState(comp, {"building"}) = {}
-----------------------------------------------------------------------------
(* The abstract specification this one implements.                          *)

Phase == CASE state \in {"init", "wait"}  -> "pending"
           [] state = "build"             -> "building"
           [] state = "failed"            -> "failed"
           [] state \in {"done", "ready"} -> "finished"
           [] state = "garbage"           -> "gone"
Planned == lastLive # "init"
Todo    == {c \in Component : comp[c].st \notin {"absent", "complete"}}

Promise == INSTANCE BuildPromise WITH phase <- Phase, planned <- Planned, todo <- Todo

(* Whatever is lost, late, duplicated or raised, a module build keeps the   *)
(* promise of BuildPromise to the one who submitted it.                     *)
KeepsPromise == Promise!Spec

-----------------------------------------------------------------------------
(* Liveness.                                                                *)

(* A module build does not hang: one that is under way ends, although a     *)
(* message of the bus was lost, a build failed or the build was canceled    *)
(* and resumed. The pollers must make up for what was lost.                 *)
BuildEnds == state \in {"init", "wait", "build"} ~> state \in {"done", "ready", "failed"}

(* With nothing that cancels a stuck build, one hangs only if a call that   *)
(* process_paused_module_builds scheduled stays in the memory of its        *)
(* process: whatever else was lost, the other pollers make up for it.       *)
EndsUnlessForgotten == []<>(Forgotten = {}) => BuildEnds

-----------------------------------------------------------------------------
(* What the documentation says and the code does not do.                    *)

(* HOW_MBS_BUILDS_MODULES.rst: every component but the macros is tagged     *)
(* into the destination tag, to be delivered as a component of the module.  *)
DoneTagged == state = "done" => Present(comp) \ {Macros} \subseteq tag["dest"]

(* CHANGELOG.rst: "Handle lost Koji messages informing MBS about a          *)
(* component being tagged".                                                 *)
TagNoticed ==
  \A c \in All :
    state = "build" /\ comp[c].st = "complete" /\ c \in tag["build"]
      ~> state # "build" \/ "build" \in comp[c].tags

(* CHANGELOG.rst: "Fail the module build immediately when a component build *)
(* submission to Koji fails".                                               *)
RefusalFails ==
  [][(\E c \in Component : comp[c].st = "none" /\ comp'[c].st = "failed") => state' = "failed"]_vars

(* tags.py: "If all components are tagged, start newRepo task", so that the *)
(* repository the next batch is built with holds what was tagged.           *)
BatchTagged == /\ state = "build" /\ batch > 0 /\ Unbuilt(comp) # {}
               /\ Current(comp) \cap Unbuilt(comp) = {} /\ Untagged(comp, UpToCurrent(comp)) = {}
RepoRequested ==
  [][~BatchTagged /\ BatchTagged' => UpToCurrent(comp') \subseteq newRepo'.snap \cup repo']_vars

(* producer.py, retrigger_new_repo_on_failure: a failed newRepo task is     *)
(* detected and retriggered.                                                *)
RepoRetriggered ==
  newRepo.st = "failed" /\ state = "build" ~> newRepo.st # "failed" \/ state # "build"
=============================================================================
