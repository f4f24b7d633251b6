--------------------------- MODULE PromiseProofs ---------------------------
(***************************************************************************)
(* ModuleBuild implements BuildPromise: the steps of the handlers, pollers *)
(* and of Koji are steps of the promise, or none it can see.               *)
(***************************************************************************)
EXTENDS ModuleBuildProofs

(* The module trace and the state of the module agree.                      *)
LastLive == state # "failed" => lastLive = state

(* A build that never left init has no components yet, and no handler of a  *)
(* later state is about to run for it.                                      *)
Fresh == lastLive = "init" =>
           /\ \A c \in All : comp[c].st = "absent"
           /\ \A m \in events : m.type = "module" => m.state \in {"init", "failed"}

(* What modules.done acts on stays true however late it runs: its message   *)
(* was sent when every component was complete.                              *)
Pending(s) == \E m \in events : m.type = "module" /\ m.state = s
DoneIsBuilt == state \in {"done", "ready"} \/ Pending("done") => Todo = {}

Agreed == Inv /\ LastLive /\ Fresh /\ DoneIsBuilt

Step == [Promise!Next]_(Promise!vars)

-----------------------------------------------------------------------------
(* The messages an action adds.                                             *)

NewStates(S) == \A m \in events' \ events : m.type = "module" => m.state \in S

(* The state messages an action adds are among those it sends.              *)
LEMMA DeliverStates ==
  ASSUME NEW gone, NEW out, NEW S, Deliver(gone, out),
         \A m \in out : m.type = "module" => m.state \in S
  PROVE  NewStates(S)
BY DEF Deliver, NewStates

(* A transition sends the message of its own state only.                    *)
LEMMA StateEventsStates ==
  ASSUME NEW s PROVE \A m \in StateEvents(s) : m.type = "module" => m.state \in {s}
BY DEF StateEvents, ModuleMsg

(* Recovery, reuse, tagging and repositories send no state message.         *)
LEMMA NoStates ==
  ASSUME NEW F, NEW g, NEW via
  PROVE  \A m \in RecoverEvents(F, via) \cup ReuseEvents(F, via) \cup TagEvents(g, F) \cup {RepoMsg(via)} :
           m.type # "module"
BY DEF RecoverEvents, ReuseEvents, TagEvents, RepoMsg, BuildMsg, TagMsg

(* An event consumed by a transition adds the message of its state only.    *)
LEMMA TransitionStates ==
  ASSUME NEW s, NEW gone, Deliver(gone, StateEvents(s)) PROVE NewStates({s})
BY StateEventsStates, DeliverStates

-----------------------------------------------------------------------------
(* A step that leaves the module in state s and preserves the components.   *)

(* Preserving the components leaves no more to do than before.              *)
LEMMA PreservedTodo ==
  ASSUME Preserves(comp, comp')
  PROVE  Todo' \subseteq Todo
BY DEF Preserves, Todo, All

(* A step to state s that adds only messages of s keeps the agreement, and  *)
(* is a step of the promise, if the promise allows to be in s.              *)
LEMMA StepKeeps ==
  ASSUME Agreed, Inv', Preserves(comp, comp'),
         NEW s \in {state, "failed", "build", "done", "ready"}, Transition(s), NewStates({s}),
         lastLive = "init" => s \in {state, "failed"} /\ \A c \in All : comp'[c].st = comp[c].st,
         s \in {"done", "ready"} => Todo = {}
  PROVE  Agreed' /\ Step
<1>1. Todo' \subseteq Todo
  BY PreservedTodo
<1>2. state' = s /\ lastLive' = IF s = "failed" THEN lastLive ELSE s
  BY DEF Transition
<1>3. LastLive'
  BY <1>2 DEF LastLive
<1>4. lastLive' = "init" => lastLive = "init"
  BY <1>2 DEF Agreed, LastLive
<1>5. Fresh'
  <2> SUFFICES ASSUME lastLive = "init"
               PROVE  /\ \A c \in All : comp'[c].st = "absent"
                      /\ \A m \in events' : m.type = "module" => m.state \in {"init", "failed"}
    BY <1>4 DEF Fresh
  <2>1. s \in {"init", "failed"}
    BY DEF Agreed, LastLive
  <2> QED BY <2>1 DEF Agreed, Fresh, NewStates
<1>6. DoneIsBuilt'
  <2>1. CASE s \in {"done", "ready"}
    BY <1>1, <2>1 DEF DoneIsBuilt
  <2>2. CASE s \notin {"done", "ready"}
    <3>1. Pending("done")' => Pending("done")
      BY <2>2 DEF Pending, NewStates
    <3> QED BY <1>1, <1>2, <2>2, <3>1 DEF Agreed, DoneIsBuilt
  <2> QED BY <2>1, <2>2
<1>7. Step
  <2>1. CASE lastLive = "init"
    <3>1. Todo' = Todo /\ Planned' = Planned
      <4>1. Todo' = Todo
        BY <2>1 DEF Todo, All
      <4>2. Planned' = Planned
        BY <1>2, <2>1 DEF Planned, Agreed, LastLive
      <4> QED BY <4>1, <4>2
    <3>2. CASE s = "failed"
      <4>1. Phase' = "failed"
        BY <1>2, <3>2 DEF Phase
      <4> QED BY <3>1, <4>1 DEF Step, Promise!Next, Promise!Fail
    <3>3. CASE s = state
      <4>1. Phase' = Phase
        BY <1>2, <3>3 DEF Phase
      <4> QED BY <3>1, <4>1 DEF Step, Promise!vars
    <3> QED BY <2>1, <3>2, <3>3
  <2>2. CASE lastLive # "init"
    <3>1. Planned /\ Planned'
      BY <1>4, <2>2 DEF Planned
    <3>2. CASE s = "failed"
      <4>1. Phase' = "failed"
        BY <1>2, <3>2 DEF Phase
      <4> QED BY <1>1, <3>1, <4>1 DEF Step, Promise!Next, Promise!Fail
    <3>3. CASE s \in {state, "build"}
      <4>1. Phase' \in {Phase, "building"}
        BY <1>2, <3>3 DEF Phase
      <4> QED BY <1>1, <3>1, <4>1 DEF Step, Promise!Next, Promise!Work
    <3>4. CASE s \in {"done", "ready"}
      <4>1. Phase' = "finished"
        BY <1>2, <3>4 DEF Phase
      <4>2. Todo = {} /\ Todo' = {}
        BY <1>1, <3>4
      <4> QED BY <3>1, <4>1, <4>2 DEF Step, Promise!Next, Promise!Finish
    <3> QED BY <3>2, <3>3, <3>4
  <2> QED BY <2>1, <2>2
<1> QED BY <1>3, <1>5, <1>6, <1>7 DEF Agreed

(* A step that leaves the module where it is.                               *)
LEMMA StayKeeps ==
  ASSUME Agreed, Inv', Preserves(comp, comp'), UNCHANGED <<state, lastLive>>, NewStates({state}),
         lastLive = "init" => \A c \in All : comp'[c].st = comp[c].st
  PROVE  Agreed' /\ Step
<1>1. Transition(state)
  BY DEF Transition, Agreed, LastLive
<1>2. state \in {"done", "ready"} => Todo = {}
  BY DEF Agreed, DoneIsBuilt
<1> QED BY <1>1, <1>2, StepKeeps

-----------------------------------------------------------------------------
(* The actions.                                                             *)

(* An event without effect keeps the agreement.                             *)
LEMMA IdleKeeps ==
  ASSUME Agreed, Inv', NEW gone, Deliver(gone, {}), UNCHANGED <<mb, comp>>
  PROVE  Agreed' /\ Step
<1>1. NewStates({state})
  BY DEF Deliver, NewStates
<1> QED BY <1>1, StayKeeps, SameRows DEF mb

(* A build may fail at any time.                                            *)
LEMMA FailKeeps ==
  ASSUME Agreed, Inv', NEW gone, Transition("failed"), Deliver(gone, StateEvents("failed")),
         UNCHANGED comp
  PROVE  Agreed' /\ Step
<1>1. NewStates({"failed"})
  BY TransitionStates
<1> QED BY <1>1, StepKeeps, SameRows

(* What a handler of a later state than init relies on.                     *)
LEMMA NotFresh ==
  ASSUME Agreed
  PROVE  /\ state \notin {"init", "failed"} => lastLive # "init"
         /\ \A m \in events : m.type = "module" /\ m.state \in {"wait", "done"} => lastLive # "init"
         /\ \A c \in All : comp[c].st # "absent" => lastLive # "init"
BY DEF Agreed, LastLive, Fresh

(* modules.init keeps the agreement: it plans, or fails.                    *)
LEMMA InitHandlerPromise ==
  ASSUME Agreed, Inv', NEW m \in events, InitHandler(m)
  PROVE  Agreed' /\ Step
<1>1. CASE Deliver({m}, {}) /\ UNCHANGED <<mb, comp, koji, budget>>
  BY <1>1, IdleKeeps
<1>2. CASE /\ state = "init"
           /\ \E S \in Specified :
                comp' = [c \in All |-> IF c \in S /\ comp[c].st = "absent"
                                       THEN [comp[c] EXCEPT !.st = "none"] ELSE comp[c]]
           /\ Transition("wait")
           /\ Deliver({m}, StateEvents("wait"))
           /\ UNCHANGED <<batch, kojiTag, koji, budget>>
  <2>1. lastLive = "init" /\ state' = "wait" /\ lastLive' = "wait"
    BY <1>2 DEF Agreed, LastLive, Transition
  <2>2. ~Planned /\ Planned' /\ Phase = "pending" /\ Phase' = Phase
    BY <1>2, <2>1 DEF Planned, Phase
  <2>3. Todo' \in SUBSET Component
    BY DEF Todo
  <2>4. Step
    BY <2>2, <2>3 DEF Step, Promise!Next, Promise!Plan
  <2>5. ~Pending("done")'
    <3>1. NewStates({"wait"})
      BY <1>2, TransitionStates
    <3>2. ~Pending("done")
      BY <2>1, NotFresh DEF Pending
    <3> QED BY <3>1, <3>2 DEF Pending, NewStates
  <2> QED BY <2>1, <2>4, <2>5 DEF Agreed, LastLive, Fresh, DoneIsBuilt
<1>3. CASE Transition("failed") /\ Deliver({m}, StateEvents("failed")) /\ UNCHANGED comp
  BY <1>3, FailKeeps
<1> QED BY <1>1, <1>2, <1>3, Zenon DEF InitHandler

(* modules.wait keeps the agreement: it works, or fails.                    *)
LEMMA WaitHandlerPromise ==
  ASSUME Agreed, Inv', NEW m \in events, WaitHandler(m)
  PROVE  Agreed' /\ Step
<1>1. CASE Transition("failed") /\ Deliver({m}, StateEvents("failed")) /\ UNCHANGED comp
  BY <1>1, FailKeeps
<1>2. ASSUME Transition("build"), NewStates({"build"})
      PROVE  Agreed' /\ Step
  <2>1. lastLive # "init"
    BY NotFresh DEF WaitHandler
  <2>2. Preserves(comp, comp')
    BY WaitHandlerKeeps DEF Agreed
  <2> QED BY <1>2, <2>1, <2>2, StepKeeps
<1>3. StateEvents("build") = {}
  BY DEF StateEvents, Handled
<1>4. CASE Transition("build") /\ Deliver({m}, StateEvents("build") \cup {RepoMsg("queue")})
  <2>1. NewStates({"build"})
    BY <1>3, <1>4, NoStates, DeliverStates
  <2> QED BY <1>2, <1>4, <2>1
<1>5. CASE Transition("build") /\ ReuseAll(m)
  <2> DEFINE out == StateEvents("build") \cup UNION {TagEvents(g, Present(comp) \ {Macros}) : g \in Tags}
  <2>1. Deliver({m}, out)
    BY <1>5, Zenon DEF ReuseAll
  <2>2. \A x \in out : x.type # "module"
    BY <1>3, NoStates
  <2> HIDE DEF out
  <2>3. NewStates({"build"})
    BY <2>1, <2>2, DeliverStates
  <2> QED BY <1>2, <1>5, <2>3
<1>6. CASE Transition("build") /\ BuildMacros(m)
  <2>1. \/ Deliver({m}, StateEvents("build"))
        \/ Deliver({m}, StateEvents("build") \cup RecoverEvents({Macros}, "queue"))
    BY <1>6, Zenon DEF BuildMacros
  <2>2. NewStates({"build"})
    BY <1>3, <2>1, NoStates, DeliverStates
  <2> QED BY <1>2, <1>6, <2>2
<1> QED BY <1>1, <1>4, <1>5, <1>6, Zenon DEF WaitHandler

(* modules.failed keeps the agreement, from whatever state it runs in.      *)
LEMMA FailedHandlerPromise ==
  ASSUME Agreed, Inv', NEW m \in events, FailedHandler(m)
  PROVE  Agreed' /\ Step
<1>1. Transition("failed") /\ m.state = "failed" /\ m.type = "module"
  BY DEF FailedHandler
<1>2. NewStates({"failed"})
  <2>1. \/ \E K \in SUBSET All :
             Deliver({m}, StateEvents("failed")
                            \cup {BuildMsg("bus", c, comp[c].task, "canceled") : c \in K})
        \/ Deliver({m}, StateEvents("failed"))
    <3>1. SUBSET {c \in Leftover : comp[c].task \in TasksIn(c, "active")} \subseteq SUBSET All
      BY DEF Leftover, Unbuilt, InState
    <3> QED BY <3>1, Zenon DEF FailedHandler
  <2>2. CASE Deliver({m}, StateEvents("failed"))
    BY <2>2, TransitionStates
  <2>3. ASSUME NEW K \in SUBSET All,
               Deliver({m}, StateEvents("failed")
                              \cup {BuildMsg("bus", c, comp[c].task, "canceled") : c \in K})
        PROVE  NewStates({"failed"})
    <3> DEFINE canceled == {BuildMsg("bus", c, comp[c].task, "canceled") : c \in K}
    <3>1. \A x \in canceled : x.type # "module"
      BY DEF BuildMsg
    <3> HIDE DEF canceled
    <3>2. \A x \in StateEvents("failed") \cup canceled : x.type = "module" => x.state \in {"failed"}
      BY <3>1, StateEventsStates
    <3>3. Deliver({m}, StateEvents("failed") \cup canceled)
      BY <2>3 DEF canceled
    <3> QED BY <3>2, <3>3, DeliverStates
  <2> QED BY <2>1, <2>2, <2>3
<1>3. lastLive = "init" => \A c \in All : comp'[c].st = comp[c].st
  BY NotFresh DEF FailedHandler, Leftover, Unbuilt, InState
<1>4. Preserves(comp, comp')
  BY FailedHandlerKeeps DEF Agreed
<1> QED BY <1>1, <1>2, <1>3, <1>4, StepKeeps

(* modules.done keeps the agreement, from whatever state it runs in.        *)
LEMMA DoneHandlerPromise ==
  ASSUME Agreed, Inv', NEW m \in events, DoneHandler(m)
  PROVE  Agreed' /\ Step
<1>1. Todo = {} /\ lastLive # "init"
  BY NotFresh DEF DoneHandler, Agreed, DoneIsBuilt, Pending
<1>2. UNCHANGED comp /\ Deliver({m}, {})
  BY DEF DoneHandler
<1>3. CASE Transition("ready")
  <2>1. NewStates({"ready"})
    BY <1>2 DEF Deliver, NewStates
  <2> QED BY <1>1, <1>2, <1>3, <2>1, StepKeeps, SameRows
<1>4. CASE UNCHANGED <<state, lastLive>>
  BY <1>2, <1>4, IdleKeeps DEF DoneHandler, mb
<1> QED BY <1>3, <1>4 DEF DoneHandler

(* continue_batch_build sends no state message.                             *)
LEMMA ContinueBatchStates ==
  ASSUME NEW cb, NEW U, NEW gone, NEW F, NEW via, NEW S,
         ContinueBatch(cb, U, gone, ReuseEvents(F, via))
  PROVE  NewStates(S)
<1>1. PICK found : Deliver(gone, ReuseEvents(F, via) \cup RecoverEvents(found, ScheduledBy(gone)))
  BY Zenon DEF ContinueBatch
<1> QED BY <1>1, NoStates, DeliverStates

(* start_next_batch_build keeps the agreement: it works, or fails.          *)
LEMMA StartNextBatchPromise ==
  ASSUME Agreed, Inv', NEW gone, StartNextBatch(gone), state = "build"
  PROVE  Agreed' /\ Step
<1>1. lastLive # "init"
  BY NotFresh
<1>2. Preserves(comp, comp')
  BY StartNextBatchKeeps DEF Agreed
<1>3. CASE Transition("failed") /\ Deliver(gone, StateEvents("failed")) /\ UNCHANGED comp
  BY <1>3, FailKeeps
<1>4. ASSUME UNCHANGED <<state, lastLive>>, NewStates({state}) PROVE Agreed' /\ Step
  BY <1>1, <1>2, <1>4, StayKeeps
<1>5. \A via : ReuseEvents({}, via) = {}
  BY DEF ReuseEvents
<1>6. CASE ContinueBatch(comp, ToBuild(comp, batch), gone, {}) /\ UNCHANGED mb
  BY <1>4, <1>5, <1>6, ContinueBatchStates DEF mb
<1>7. CASE (\E b : EnterBatch(b, gone)) /\ UNCHANGED <<state, lastLive, kojiTag>>
  <2>1. PICK b : EnterBatch(b, gone)
    BY <1>7
  <2>2. \/ \E F, via : Deliver(gone, ReuseEvents(F, via) \cup {RepoMsg(via)})
        \/ \E F, via : Deliver(gone, ReuseEvents(F, via) \cup {})
        \/ \E cb, U, F, via : ContinueBatch(cb, U, gone, ReuseEvents(F, via))
    BY <2>1, Zenon DEF EnterBatch
  <2>3. CASE \E F, via : Deliver(gone, ReuseEvents(F, via) \cup {RepoMsg(via)})
    <3>1. PICK F, via : Deliver(gone, ReuseEvents(F, via) \cup {RepoMsg(via)})
      BY <2>3
    <3>2. NewStates({state})
      BY <3>1, NoStates, DeliverStates
    <3> QED BY <1>4, <1>7, <3>2
  <2>4. CASE \E F, via : Deliver(gone, ReuseEvents(F, via) \cup {})
    <3>1. PICK F, via : Deliver(gone, ReuseEvents(F, via) \cup {})
      BY <2>4
    <3>2. NewStates({state})
      BY <3>1, NoStates, DeliverStates
    <3> QED BY <1>4, <1>7, <3>2
  <2>5. CASE \E cb, U, F, via : ContinueBatch(cb, U, gone, ReuseEvents(F, via))
    <3>1. NewStates({state})
      BY <2>5, ContinueBatchStates
    <3> QED BY <1>4, <1>7, <3>1
  <2> QED BY <2>2, <2>3, <2>4, <2>5
<1>8. CASE Deliver(gone, {}) /\ UNCHANGED <<mb, comp>>
  BY <1>8, IdleKeeps
<1> QED BY <1>3, <1>6, <1>7, <1>8, Zenon DEF StartNextBatch

(* components.build_task_finalize keeps the agreement.                      *)
LEMMA BuildTaskFinalizePromise ==
  ASSUME Agreed, Inv', NEW m \in events, BuildTaskFinalize(m)
  PROVE  Agreed' /\ Step
<1> DEFINE cb   == [comp EXCEPT ![m.c].st = m.result]
           cur  == Current(cb)
<1>1. Preserves(comp, comp')
  BY BuildTaskFinalizeKeeps DEF Agreed
<1>2. ASSUME Known(m) PROVE lastLive # "init"
  <2>1. m.type = "build"
    BY Zenon DEF BuildTaskFinalize
  <2>2. m.c \in All
    BY <2>1 DEF Agreed, Inv, TypeOK, Message
  <2> QED BY <1>2, <2>2, NotFresh DEF Known
<1> HIDE DEF cb, cur
<1>3. ASSUME Known(m), UNCHANGED mb, NEW out, Deliver({m}, out), \A x \in out : x.type # "module"
      PROVE  Agreed' /\ Step
  <2>1. NewStates({state})
    BY <1>3, DeliverStates
  <2> QED BY <1>1, <1>2, <1>3, <2>1, StayKeeps DEF mb
<1>4. CASE Deliver({m}, {}) /\ UNCHANGED <<mb, comp>>
  BY <1>4, IdleKeeps
<1>5. CASE Known(m) /\ Transition("failed") /\ Deliver({m}, StateEvents("failed"))
  <2>1. NewStates({"failed"})
    BY <1>5, TransitionStates
  <2> QED BY <1>1, <1>2, <1>5, <2>1, StepKeeps
<1>6. CASE Known(m) /\ Deliver({m}, {}) /\ UNCHANGED mb
  BY <1>3, <1>6
<1>7. CASE /\ Known(m) /\ UNCHANGED mb
           /\ Deliver({m}, IF cur = {} THEN {RepoMsg("queue")}
                           ELSE TagEvents("build", cur) \cup TagEvents("dest", cur \ {Macros}))
  <2> DEFINE out == IF cur = {} THEN {RepoMsg("queue")}
                    ELSE TagEvents("build", cur) \cup TagEvents("dest", cur \ {Macros})
  <2>1. \A x \in out : x.type # "module"
    BY NoStates
  <2>2. Deliver({m}, out)
    BY <1>7
  <2> HIDE DEF out
  <2> QED BY <1>3, <1>7, <2>1, <2>2
<1>8. CASE Known(m) /\ ContinueBatch(cb, ToBuild(cb, batch), {m}, {}) /\ UNCHANGED mb
  <2>1. \A via : ReuseEvents({}, via) = {}
    BY DEF ReuseEvents
  <2>2. NewStates({state})
    BY <1>8, <2>1, ContinueBatchStates
  <2> QED BY <1>1, <1>2, <1>8, <2>2, StayKeeps DEF mb
<1> QED BY <1>4, <1>5, <1>6, <1>7, <1>8, Zenon DEF BuildTaskFinalize, cb, cur

(* tags.tagged keeps the agreement.                                         *)
LEMMA TaggedPromise ==
  ASSUME Agreed, Inv', NEW m \in events, Tagged(m)
  PROVE  Agreed' /\ Step
<1>1. UNCHANGED mb /\ (Deliver({m}, {}) \/ Deliver({m}, {RepoMsg("queue")}))
  BY Zenon DEF Tagged
<1>2. NewStates({state})
  BY <1>1, NoStates, DeliverStates
<1>3. UNCHANGED comp \/ lastLive # "init"
  <2>1. UNCHANGED comp \/ FoundByTag
    BY Zenon DEF Tagged
  <2> QED BY <2>1, NotFresh DEF FoundByTag
<1>4. Preserves(comp, comp')
  BY TaggedKeeps DEF Agreed
<1> QED BY <1>1, <1>2, <1>3, <1>4, StayKeeps DEF mb

(* repos.done keeps the agreement: it finishes when nothing is left to do.  *)
LEMMA RepoDonePromise ==
  ASSUME Agreed, Inv', NEW m \in events, RepoDone(m)
  PROVE  Agreed' /\ Step
<1>1. CASE Deliver({m}, {}) /\ UNCHANGED <<mb, comp>>
  BY <1>1, IdleKeeps
<1>2. CASE Transition("failed") /\ Deliver({m}, StateEvents("failed")) /\ UNCHANGED comp
  BY <1>2, FailKeeps
<1>3. CASE FoundByTag /\ StartNextBatch({m})
  BY <1>3, StartNextBatchPromise DEF FoundByTag
<1>4. CASE /\ FoundByTag /\ Unbuilt(comp) = {} /\ Unsuccessful(comp) = {}
           /\ Transition("done") /\ Deliver({m}, StateEvents("done")) /\ UNCHANGED comp
  <2>1. lastLive # "init"
    BY <1>4, NotFresh DEF FoundByTag
  <2>2. Todo = {}
    <3>1. \A c \in All : comp[c].st \in CompState
      BY DEF Agreed, Inv, TypeOK, Row
    <3> QED BY <1>4, <3>1 DEF Todo, Unbuilt, Unsuccessful, InState, CompState, Outcome, All
  <2>3. NewStates({"done"})
    BY <1>4, TransitionStates
  <2> QED BY <1>4, <2>1, <2>2, <2>3, StepKeeps, SameRows
<1> QED BY <1>1, <1>2, <1>3, <1>4, Zenon DEF RepoDone

(* What a handler that raises leaves behind keeps the agreement.            *)
LEMMA HandlerRaisesPromise ==
  ASSUME Agreed, Inv', NEW m \in events, HandlerRaises(m)
  PROVE  Agreed' /\ Step
<1>1. UNCHANGED <<state, lastLive>> /\ Deliver({m}, {})
  BY Zenon DEF HandlerRaises
<1>2. NewStates({state})
  BY <1>1 DEF Deliver, NewStates
<1>3. Preserves(comp, comp')
  BY HandlerRaisesKeeps DEF Agreed
<1>4. UNCHANGED comp \/ lastLive # "init"
  <2>1. CASE m.type = "build" /\ Known(m)
    <3>1. m.c \in All
      BY <2>1 DEF Agreed, Inv, TypeOK, Message
    <3> QED BY <2>1, <3>1, NotFresh DEF Known
  <2>2. CASE FoundByTag
    BY <2>2, NotFresh DEF FoundByTag
  <2>3. CASE m.type = "module" /\ m.state = "wait"
    BY <2>3, NotFresh
  <2>4. CASE UNCHANGED comp
    BY <2>4
  <2> QED BY <2>1, <2>2, <2>3, <2>4, Zenon DEF HandlerRaises
<1> QED BY <1>1, <1>2, <1>3, <1>4, StayKeeps

(* Resuming a build keeps the agreement.                                    *)
LEMMA ResubmitPromise ==
  ASSUME Agreed, Inv', Resubmit
  PROVE  Agreed' /\ Step
<1> DEFINE to == IF lastLive = "init" THEN "init" ELSE "wait"
<1>1. /\ state = "failed" /\ Transition(to) /\ Deliver({}, StateEvents(to))
      /\ comp' = [c \in All |-> IF c \in ToReset THEN [comp[c] EXCEPT !.st = "none"] ELSE comp[c]]
  BY Zenon DEF Resubmit
<1>2. state' = to /\ lastLive' = to /\ NewStates({to})
  BY <1>1, TransitionStates DEF Transition
<1>3. \A c \in All : /\ c \in ToReset => comp'[c].st = "none"
                     /\ c \notin ToReset => comp'[c] = comp[c]
  BY <1>1 DEF Agreed, Inv, TypeOK, Row
<1>4. \A c \in ToReset : comp[c].st \notin {"absent", "complete"}
  BY DEF ToReset, InState
<1>5. Todo' = Todo
  BY <1>3, <1>4 DEF Todo, All
<1>6. Planned' = Planned /\ Phase = "failed" /\ Phase' = "pending"
  BY <1>1, <1>2 DEF Planned, Phase
<1>7. Step
  BY <1>5, <1>6 DEF Step, Promise!Next, Promise!Resume
<1>8. Fresh'
  BY <1>2, <1>3, <1>4 DEF Fresh, Agreed, NewStates
<1>9. DoneIsBuilt'
  BY <1>2, <1>5 DEF DoneIsBuilt, Agreed, Pending, NewStates
<1> QED BY <1>2, <1>7, <1>8, <1>9 DEF Agreed, LastLive

(* cleanup_stale_failed_builds keeps the agreement.                         *)
LEMMA CleanupPromise ==
  ASSUME Agreed, Inv', CleanupStaleFailedBuilds
  PROVE  Agreed' /\ Step
<1>1. state = "failed" /\ Transition("garbage") /\ Deliver({}, StateEvents("garbage"))
  BY Zenon DEF CleanupStaleFailedBuilds
<1>2. \A c \in All : comp'[c].st = comp[c].st
  BY DEF CleanupStaleFailedBuilds, Agreed, Inv, TypeOK, Row
<1>3. state' = "garbage" /\ lastLive' = "garbage" /\ NewStates({"garbage"})
  BY <1>1, TransitionStates DEF Transition
<1>4. Todo' = Todo /\ Planned' /\ Phase = "failed" /\ Phase' = "gone"
  BY <1>1, <1>2, <1>3 DEF Todo, All, Planned, Phase
<1>5. Step
  BY <1>4 DEF Step, Promise!Next, Promise!Collect
<1>6. DoneIsBuilt'
  BY <1>3, <1>4 DEF DoneIsBuilt, Agreed, Pending, NewStates
<1> QED BY <1>3, <1>5, <1>6 DEF Agreed, LastLive, Fresh

(* The pollers that only call handlers again keep the agreement.            *)
LEMMA PollersPromise ==
  ASSUME Agreed, Inv', Nudge \/ FailLostBuilds \/ SyncKojiBuildTags
  PROVE  Agreed' /\ Step
<1>1. UNCHANGED <<mb, comp>>
  BY Zenon DEF Nudge, FailLostBuilds, SyncKojiBuildTags
<1>2. NewStates({state})
  BY DEF Nudge, FailLostBuilds, SyncKojiBuildTags, Deliver, NewStates, ModuleMsg, BuildMsg, TagMsg
<1> QED BY <1>1, <1>2, StayKeeps, SameRows DEF mb

(* What Koji does keeps the agreement.                                      *)
LEMMA KojiPromise ==
  ASSUME Agreed, Inv',
         (\E c \in All, t \in TaskId : KojiTaskEnds(c, t)) \/ KojiRepoEnds \/ KojiRegenerates
  PROVE  Agreed' /\ Step
<1>1. UNCHANGED <<mb, comp>>
  BY DEF KojiTaskEnds, KojiRepoEnds, KojiRegenerates
<1>2. NewStates({state})
  BY DEF KojiTaskEnds, KojiRepoEnds, KojiRegenerates, Deliver, NewStates, BuildMsg, RepoMsg
<1> QED BY <1>1, <1>2, StayKeeps, SameRows DEF mb

(* So does what waits in the memory of a poller.                            *)
LEMMA ScheduledPromise ==
  ASSUME Agreed, Inv', RunScheduled \/ Restart
  PROVE  Agreed' /\ Step
<1>1. UNCHANGED <<mb, comp>>
  BY DEF RunScheduled, Restart
<1>2. PICK K \in SUBSET events :
        /\ \A m \in K : m.type # "module"
        /\ \/ Deliver(K, {})
           \/ Deliver(K, {[m EXCEPT !.via = "queue"] : m \in K})
  BY ScheduledStep DEF Agreed, Inv
<1>3. \A m \in {[n EXCEPT !.via = "queue"] : n \in K} : m.type # "module"
  <2> SUFFICES ASSUME NEW n \in K PROVE [n EXCEPT !.via = "queue"].type # "module"
    OBVIOUS
  <2>1. n \in Message
    BY DEF Agreed, Inv, TypeOK
  <2> QED BY <1>2, <2>1 DEF Message
<1>4. NewStates({state})
  BY <1>2, <1>3, DeliverStates
<1> QED BY <1>1, <1>4, StayKeeps, SameRows DEF mb

(* poll_greenwave keeps the agreement.                                      *)
LEMMA PassGatingPromise ==
  ASSUME Agreed, Inv', PassGating
  PROVE  Agreed' /\ Step
<1>1. Todo = {} /\ lastLive # "init" /\ NewStates({"ready"}) /\ UNCHANGED comp /\ Transition("ready")
  BY NotFresh DEF PassGating, Agreed, DoneIsBuilt, NewStates
<1> QED BY <1>1, StepKeeps, SameRows

-----------------------------------------------------------------------------
(* The specification.                                                       *)

(* A new module build satisfies the agreement and starts the promise.       *)
LEMMA InitAgreed == ASSUME Init PROVE Agreed /\ Promise!Init
<1>1. /\ state = "init" /\ lastLive = "init" /\ events = {ModuleMsg("bus", "init")}
      /\ \A c \in All : comp[c].st = "absent"
  BY DEF Init
<1>2. Todo = {} /\ ~Planned /\ Phase = "pending"
  BY <1>1 DEF Todo, All, Planned, Phase
<1>3. LastLive /\ Fresh /\ DoneIsBuilt
  BY <1>1, <1>2 DEF LastLive, Fresh, DoneIsBuilt, ModuleMsg
<1> QED BY <1>2, <1>3, InitInv DEF Agreed, Promise!Init

(* Every step keeps the agreement and is a step of the promise or a stutter. *)
LEMMA NextAgreed == ASSUME Agreed, [Next]_vars PROVE Agreed' /\ Step
<1>0. Inv'
  BY NextKeeps DEF Agreed
<1>1. CASE UNCHANGED vars
  <2>1. UNCHANGED <<mb, comp, events>>
    BY <1>1 DEF vars
  <2>2. NewStates({state})
    BY <2>1 DEF NewStates
  <2> QED BY <1>0, <2>1, <2>2, StayKeeps, SameRows DEF mb
<1>2. ASSUME NEW m \in events, Handle(m) PROVE Agreed' /\ Step
  <2>1. CASE InitHandler(m)
    BY <1>0, <2>1, InitHandlerPromise
  <2>2. CASE WaitHandler(m)
    BY <1>0, <2>2, WaitHandlerPromise
  <2>3. CASE FailedHandler(m)
    BY <1>0, <2>3, FailedHandlerPromise
  <2>4. CASE DoneHandler(m)
    BY <1>0, <2>4, DoneHandlerPromise
  <2>5. CASE BuildTaskFinalize(m)
    BY <1>0, <2>5, BuildTaskFinalizePromise
  <2>6. CASE Tagged(m)
    BY <1>0, <2>6, TaggedPromise
  <2>7. CASE RepoDone(m)
    BY <1>0, <2>7, RepoDonePromise
  <2> QED BY <1>2, <2>1, <2>2, <2>3, <2>4, <2>5, <2>6, <2>7 DEF Handle
<1>3. CASE \E m \in events : HandlerRaises(m)
  BY <1>0, <1>3, HandlerRaisesPromise
<1>4. CASE \E m \in events : Lose(m)
  BY <1>0, <1>4, IdleKeeps DEF Lose
<1>5. CASE Cancel \/ CancelStuckModuleBuilds
  BY <1>0, <1>5, FailKeeps DEF Cancel, CancelStuckModuleBuilds
<1>6. CASE Resubmit
  BY <1>0, <1>6, ResubmitPromise
<1>7. CASE Nudge \/ FailLostBuilds \/ SyncKojiBuildTags
  BY <1>0, <1>7, PollersPromise
<1>8. CASE ProcessPausedModuleBuilds
  BY <1>0, <1>8, StartNextBatchPromise DEF ProcessPausedModuleBuilds
<1>9. CASE CleanupStaleFailedBuilds
  BY <1>0, <1>9, CleanupPromise
<1>10. CASE PassGating
  BY <1>0, <1>10, PassGatingPromise
<1>11. CASE (\E c \in All, t \in TaskId : KojiTaskEnds(c, t)) \/ KojiRepoEnds \/ KojiRegenerates
  BY <1>0, <1>11, KojiPromise
<1>12. CASE RunScheduled \/ Restart
  BY <1>0, <1>12, ScheduledPromise
<1> QED BY <1>1, <1>2, <1>3, <1>4, <1>5, <1>6, <1>7, <1>8, <1>9, <1>10, <1>11, <1>12 DEF Next

(* The agreement always holds.                                              *)
LEMMA AgreedAlways == Spec => []Agreed
<1>1. Init => Agreed
  BY InitAgreed
<1>2. Agreed /\ [Next]_vars => Agreed'
  BY NextAgreed
<1> QED BY <1>1, <1>2, PTL DEF Spec

(* A build that is done or ready has every component complete, although     *)
(* modules.done and repos.done act on messages of earlier attempts.         *)
THEOREM DoneIsComplete == Spec => []DoneComplete
<1>1. Agreed => DoneComplete
  BY DEF Agreed, DoneIsBuilt, DoneComplete, Todo
<1> QED BY <1>1, AgreedAlways, PTL

(* Every module build, of any packages and with any number of failures,     *)
(* resubmissions and lost messages, keeps what BuildPromise promises.       *)
THEOREM PromiseKept == Spec => KeepsPromise
<1>1. Init => Promise!Init
  BY InitAgreed
<1>2. Agreed /\ [Next]_vars => [Promise!Next]_(Promise!vars)
  BY NextAgreed DEF Step
<1> QED BY <1>1, <1>2, AgreedAlways, PTL DEF Spec, KeepsPromise, Promise!Spec
============================================================================
