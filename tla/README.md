# Module Build Service: specifications, model checking and proofs

The Module Build Service (MBS) builds *modules*: it reads a modulemd file, asks
Koji to build its packages batch by batch, each batch against a repository that
holds the batches before it, and delivers the result. This directory holds TLA+
specifications of the service, the TLC configurations that check them on small
instances, and TLAPS proofs for all instances. Paths below are relative to
`module_build_service/`; `PROJECT.json` maps every definition to its lines.

Contents: [the system](#the-system) · [modules](#modules) · [one build's
life](#one-builds-life) · [requests](#requests) · [stream
expansion](#stream-expansion) · [what a build is made of](#what-a-build-is-made-of)
· [what is checked](#what-is-checked) · [what is proved](#what-is-proved) ·
[disagreements with the documentation](#disagreements-with-the-documentation) ·
[observations](#observations) · [what is left out](#what-is-left-out)

## The system

Three kinds of processes share one SQL database. The **frontend** (Flask)
accepts submissions, cancellations and queries. The **consumer** (fedmsg-hub)
receives messages of Koji, of Greenwave and of MBS itself, and turns each into a
call of a handler. The **backend workers** (Celery) run the handlers and the
periodic tasks. Koji, kojira and the message bus are outside.

| Component | State it keeps | Operations | Talks to | Hard behaviour | Correct when |
| --- | --- | --- | --- | --- | --- |
| Module life cycle: `scheduler/handlers/{modules,components,repos,tags}.py` | rows of the module and its components | `init`, `wait`, `failed`, `done`, `build_task_finalize`, `tagged`, `repos.done` | Koji, batches, reuse, gating; its own events | handlers run late, twice, for an earlier attempt, or raise half-way | a finished build is complete; what is built stays built; every build ends |
| Batches: `scheduler/batches.py` | `ModuleBuild.batch`, component states | `start_next_batch_build`, `continue_batch_build`, the threshold | builder, reuse, a thread pool | several handlers and a poller start batches; submissions fail in threads | barrier between batches; threshold; never two tasks for a component |
| Periodic tasks: `scheduler/producer.py` | none | nudge, `fail_lost_builds`, `process_paused_module_builds`, `sync_koji_build_tags`, `cancel_stuck…`, `cleanup_stale…`, `poll_greenwave` | handlers, Koji, Greenwave | make up for lost messages; race the handlers | no build hangs; no poll undoes a result |
| Rows: `common/models.py` | state, trace, batch, tag; component state, task, tags, reuse | `create`, `transition`, queries | the outbox | partial commits | trace and state agree; stable queries |
| Koji builder: `builder/KojiModuleBuilder.py` | tags, target and tasks in Koji | `build`, `recover_orphaned_artifact`, tag, untag, `cancel_build`, `buildroot_ready` | Koji | tasks outlive attempts; a call fails | a component is tagged only if it is complete |
| Consumer, routing, in-process events: `scheduler/{consumer,parser,route,events}.py` | queue of events of the process | map a message to a handler, route a handler to the queue of its module | bus, Celery | lost messages; the wrong queue | handlers of one module are serial |
| Frontend requests: `web/{views,submit}.py` | rows | submit, resume, cancel | resolvers, expansion | requests race handlers and each other | a resumed build keeps its results |
| State change messages: `common/messaging.py`, `scheduler/db_session.py` | queue of unsent messages of the process, sessions | publish after commit | bus | rollback, threads, sessions that outlive a task | a message per committed change, none for others |
| Reuse: `scheduler/reuse.py` | none | which components of an earlier build can be reused | database | three strategies, stale inputs | a component is reused only if its inputs are the same |
| Gating: `scheduler/greenwave.py`, its handler | none | decision, `done` to `ready` | Greenwave | message races poll | only a done build becomes ready |
| Recording of components: `scheduler/submit.py` | component rows, batch numbers | `record_component_builds` | SCM, database | nested modules; recording twice | batches follow the build order |
| Expansion and resolution: `web/mse.py`, `web/mmd_resolver.py`, `resolver/*` | none | one submission to several builds; choose dependencies | database, another MBS | combinatorics, conflicts | every combination once, no conflict |
| Stream versions: `common/models.py`, `web/submit.py` | none | numeric versions of streams, prefixes | – | padding, overflow | order is preserved |
| Default modules, ursine: `scheduler/{default_modules,ursine}.py` | none | rewrite build requirements | Koji, files | – | – |
| Mock, content generator, CLI: `builder/{Mock…,KojiContent…}.py`, `manage.py`, `scheduler/local.py` | files | local builds; import into Koji | mock, Koji | threads on files | – |

`PROJECT.json` lists the hazards of this code, each at the line where it bites,
with the properties that would notice or the reason why none does yet.

## Modules

| Module | Models | Runs |
| --- | --- | --- |
| `ModuleBuild` | the life of one build: every handler, the pollers, requests, Koji, the bus | `Attempts`, `Batches`, `Pollers` and the violating ones (`MCModuleBuild`) |
| `BuildPromise` | what a submitter is promised; `ModuleBuild` implements it | `Attempts` |
| `Submission` | the threads of the frontend, their commits, the process-wide message queue | `Submission`, `Resubmissions` (`MCSubmission`) |
| `Registry` | the table of builds, the queries of the resolvers, the search for base modules | with `Expansion`, `Content` |
| `Streams` (extends `Registry`) | overrides, virtual and support streams, version prefixes | with `Expansion` |
| `Expansion` (extends `Streams`) | one modulemd to the modulemds that can be built | `Expansion` (`MCExpansion`) |
| `Recording` | components and batch numbers from a modulemd | with `Production` |
| `Content` (extends `Registry`) | default modules, ursine content, conflicting RPMs | with `Production` |
| `Reuse` (extends `Recording`) | which components may be those of an earlier build | with `Production` |
| `ContentGenerator` (extends `Recording`) | which RPMs the imported modulemds list | with `Production` |
| `Production` (extends these four) | several builds of one module, call by call: init handler, tags, reuse, batches, import | `Production` (`MCProduction`) |
| `ModuleBuildProofs`, `TagProofs`, `PromiseProofs`, `BatchProofs`, `FailureProofs` | proofs about `ModuleBuild` | |
| `SubmissionProofs` | proofs about `Submission` | |
| `ExpansionProofs` | proofs about `Expansion` | |
| `ProductionProofs` | proofs about `Production` | |

Three state machines divide the service between them. `Submission` is about
several requests at once and takes of a build only its state; `ModuleBuild` is
about the interleaving of handlers, messages, polls and Koji for one build, and
takes packages, batches and what can be reused as constants; `Production` has
handlers in their normal order, interrupted anywhere, but computes those
constants from modulemds, tags and earlier builds. `Expansion` comes before all
of these: it makes the modulemds that `Submission` calls the contexts of a
request and `Production` takes from its plans.

## One build's life

### ModuleBuild

| Variable | In the code |
| --- | --- |
| `state`, `batch`, `kojiTag` | `ModuleBuild.state`, `.batch`, whether `.koji_tag` is set |
| `lastLive` | the newest entry of the trace that is not `failed` (`previous_non_failed_state`) |
| `comp[c]` | the row of package `c`: `st` is `absent` until it is recorded; `task` is `task_id` (0: none); `tags` are `tagged` and `tagged_in_final`; `reused` is `reused_component_id` being set |
| `task[c][i]` | Koji's i-th build task of `c`; numbers stand for task ids, `ReuseTask` for that of the earlier module build |
| `tag["build"]`, `tag["dest"]` | what Koji has tagged in the two tags of the module |
| `newRepo`, `repo` | the `newRepo` task that `new_repo_task_id` names with what was tagged when it was requested; the packages in the newest repository |
| `events` | messages on the bus (`via = "bus"`, can be lost), calls in the queues of Celery or about to be put there (`via = "queue"`, not lost), and calls a poller left in `events.scheduler` (`via = "memory"`) |
| `budget` | how often each disturbance may still happen: a bound of the model |

Each handler is one action, named for it; so is each poller and each request.
The helpers `ContinueBatch` and `StartNextBatch` are parts of the actions that
call them. `recover_orphaned_artifact`, `reuse_component` and tagging appear as
functions from component table to component table, with the events they cause.

Choices a reader should know of:

- **Handlers are steps.** `route.py` sends the handlers of one module to one
  queue, and `scheduler/__init__.py` gives it one process. A poll that starts a
  batch runs on the default queue and is a step between handlers here; what
  follows from running it at the same time is not modelled.
- **Events are a set.** They are handled in any order, which includes the order
  of the bus and of the queues. Two equal events are one. A lost message also
  stands for one the consumer dropped because the row it names was not committed
  yet.
- **Calls in memory.** Recovery and reuse add calls to `events.scheduler`, which
  `mbs_event_handler` empties when a handler ends. Pollers are plain Celery tasks:
  what `process_paused_module_builds` adds waits in its process until some
  handler, perhaps of another module, ends there (`RunScheduled`), or goes with
  the process (`Restart`). Neither need ever happen.
- **Build targets.** `list_tasks_for_components` compares the name of a task's
  build target with the Koji tag. A target has 50 characters at most, and a hash
  stands in for a longer name, whereas a tag may have 256. `LongTag` says which
  is the case; if it is `TRUE`, no relic is found (`OwnTarget`).
- **Raising handlers.** `HandlerRaises` leaves what was committed first. What a
  handler changed but did not commit stays in the session of the worker and is
  committed by its next handler; the model takes it as committed at once
  (a refused component, the number of a batch that was entered).
- **Time.** "Ten minutes ago" can be any time. Delays of days are `Quiet`:
  nothing is under way any more but calls in memory. The budget `backlog` bounds
  the polls of a worker that is more than ten minutes behind (`Poll`), and the
  calls of `fail_lost_builds` for tasks whose message is still under way.
- **Koji.** The NVR of a package is the same in each attempt, so Koji closes only
  one task of it. A repository holds what was tagged when its task started to
  read, at some time after it was requested. kojira may regenerate the tag
  (`KojiRegenerates`), but need not. The macros wait for the first repository,
  unless `koji_build_macros_target` builds them elsewhere; that option also
  hides them from the search for relic tasks, which goes by build target.
- **Recursion.** `start_next_batch_build` calls itself when a batch has nothing
  to build; `NextBatch` says where this ends.
- **Data.** Reasons, NVRs, times, RPM filters, arches and the content generator
  are left out. Dependencies that cannot be resolved, and whatever else makes
  `init` and `wait` give up, is the disturbance `reject`.

### BuildPromise

A submitter sees a build that is pending, building, failed, finished or gone,
whether its packages are known, and which are left. Packages are planned once;
what is built stays built, also across failures; the build is finished only
with nothing left; only failed builds are resumed or collected. `ModuleBuild`
maps `init` and `wait` to pending and `done` and `ready` to finished, and
`planned` to the trace having left `init`. The promise says nothing of the
order of failures: a finished build can fail again, because `modules.failed`
sets the state whatever it is when a late message arrives.

## Requests

`Submission` has one module, name, stream and version: a build is found by its
context, and `<<c, n>>` is the context `c` with the number `n` that a scratch
build's ends in. `rows` is the table, `queue` is
`module_build_state_change_out_queue`, `bus` what was published, `thread[p]` the
place of a thread in its request.

A thread goes step by step from query to commit: `Check` is the look for a build
of the next expanded modulemd in `submit_module_build`; `Resume` is the
`transition` of a failed one, which queues the message; `Restart` the commit;
`Create` and `SetContext` are the two commits that make a new row; `Notify` is
the message a new build is announced with. After each commit `Flush` and `Get`
are `send_message_after_module_build_state_change`: they look whether the queue
is empty and take from it in two steps, so one thread may send the message of
another, or wait for one that another took. `Cancel` and `CommitCancel` are
`patch`, `Import` is `import_mmd`. `Refused` is what the handlers of
`web/views.py` refuse before any of that.

`CommitFails` (a database error; the message stays queued), `PublishFails` and
`Crash` are the faults. The backend is what `ModuleBuild` shows of it in one
step: a build that is announced (`Handle`) or found by the poller (`Nudge`)
moves on, ends, or fails. `wait` stands for `build` too.

What is not there: the row's owner and the modulemd; several processes (each has
a queue of its own; the table is what they share); resubmitted components, which
are `ModuleBuild`'s `Resubmit`.

## Stream expansion

`Expansion` runs through `submit_module_build` and `generate_expanded_mmds` for
one modulemd: `ApplyOverrides`, `ResolveBaseStreams` (from `Streams`),
`ExpandStreams`, `CollectBuildrequires` and `CollectRequires` (what may be built
against, through the queries of `Registry`), `Solve`, `TestCombination`,
`NextPair` and `Generate`. `pc` holds the error the request is refused with, if
it is.

libsolv is external. `TestCombination` takes, for the streams of one
combination, any minimal set of modules that satisfies the dependencies as
`MMDResolver` writes them for libsolv: what a module provides (`Provides`), what
the submitted modulemd requires (`MetExactly`), what a build requires, with the
version of the base module it was built against (`MetBy`), and that two builds
of one module exclude each other (`Consistent`).
A stream version is computed with its padding and width (`StreamVersion`,
`RawVersion`), because properties depend on it: `el8.10.0` is newer than
`el8.2.0`, and a stream such as `el8` has no minor version.
Product Pages and Koji's inheritance are data (`released`, `Inheritance`).

## What a build is made of

`Production` takes a sequence of submissions of one module (`Plans`) and runs
the handlers of each build one call at a time. `b` is the build, `koji` its two
tags, `history` the builds that became ready, `heads` the branches.

| Part | Actions | Rests on |
| --- | --- | --- |
| `modules.init` | `RecordArches`, `AddDefaultModules`, `FormatMain`, `RecordPackage`, `IncludeModule`, `EndOfModule`, `Save` | `Recording`, `Content` |
| `KojiModuleBuilder.buildroot_connect`, called by each handler | `LookForTag`, `CreateTag`, `WhitelistPackages`, `BlockPackages`, `AddGroup`, `AddGroupPackages`, `AddTarget` | |
| `modules.wait` | `AddRepos`, `ReuseAll`, `BuildMacros` | `Reuse`, `Content` |
| `repos.done`, batches | `NextBatch`, `BuildBatch`, `Finalize` | `Reuse` |
| `KojiContentGenerator.koji_import` | `Import`, `TagImported`, `Finish` | `ContentGenerator` |
| faults | `Crash`, `RetryGroups`, `FailBuild`, `Resubmit`, `Abandon`, `Push` | |

What lives only in the memory of the init handler (`frames`, `refs`, `pending`)
is lost with the worker; what `format_mmd` commits while it waits for the
branches of an included module is not. `frames` is the stack of
`record_component_builds`, one frame for each included module under way.

A modulemd is a set of components with their buildorder, commit or branch,
arches and multilib, and of included modules; an RPM is its name, architecture,
source, build and, for debug information, main package. What a handler does when
it raises is that the build fails, as the consumer has it; that the exception of
a task in Celery leaves the build where it is, is in `ModuleBuild`.

## What is checked

| Run | Properties | Shows | Distinct states |
| --- | --- | --- | --- |
| `Attempts` | `TypeOK`, `DoneComplete`, `TaggedComplete`, `CompleteStable`, `KeepsPromise`, `BuildEnds` | a build without packages, with one that can be reused, or with two, one of them reusable, through a cancellation, a resubmission, a rejection, a failed task, a failed repository, a lost message and a raising handler, with a tag too long for a target | 575,112 |
| `Batches` | `OneLiveTask`, `WithinThreshold`, `FailedIsOver`, `BatchBarrier` | three packages in two batches, one place to build, a cancellation, a resubmission, a refused submission, a regeneration by Koji, a restarted worker | 932,073 |
| `Pollers` | `EndsUnlessForgotten` | without `cancel_stuck_module_builds`, the other pollers make up for two lost messages, under `changed-and-after` | 5,324 |
| `Submission` | `TypeOK`, `AnsweredWithItsOwn`, `AllSent`, `AcceptedEnds` | two requests at once in two threads, among submissions of one or two contexts, a scratch build, a private branch with another strategy, a cancellation, an import, a refused request; one fault | 179,124 |
| `Expansion` | `BuiltAgainstOlder`, `OnlyReadyBases`, `Complete`, `LocalUnambiguous`, `BaseAsked`, `DistinctBuilds` | 512 tables, seven modulemds, seven requests | 125,696 |
| `Production` | `TypeOK`, `RecordedAsResolved`, `BatchOrder`, `DefaultsFit`, `NoShadowing`, `ReuseSound`, `OwnRpmsInstallable`, `NotBlockedAgain`, `BuildRoot`, `Split`, `DebugFollows`, `TaggedWhenDone` | twenty sequences of up to three builds, two killed workers or resubmissions, a branch that moves | 281,390 |

What the properties say that is not obvious:

- `CompleteStable`: `build_task_finalize` overwrites the state of a row with that
  of any message that names its task; still nothing undoes a result.
- `DoneComplete`: a build that is done or ready has all its components, although
  handlers act on messages of earlier attempts and in states they did not expect.
- `TaggedComplete`: Koji has only complete packages in the tags of the build, so
  no component is ever built against a package MBS thinks is not built.
- `BatchBarrier`: Koji is asked for a package only when the batches before are
  complete and in the repository it is built with.
- `OneLiveTask`: not even tasks that could not be canceled run along with those
  of a later attempt, if the tag is short enough for a target; see the
  observations for one that is not. (The macros are excluded: `modules.wait`
  submits them without looking for relics.)
- `WithinThreshold` counts over attempts; reused components do not count.
- `FailedIsOver`: once the failed message is handled, nothing is left building.
- `BuildEnds`: a build that is under way ends, or fails, whatever was lost, be it
  with the memory of a process.
- `EndsUnlessForgotten`: `cancel_stuck_module_builds` waits for days, and is not
  on the list of `Pollers`. Without it, a build ends if no call stays in memory
  for good. That hypothesis is needed: `fail_lost_builds` leaves reused
  components out, and nothing else repeats a call for them.
- `AnsweredWithItsOwn`: `CREATED` and `CONFLICT` name one build for each modulemd,
  with its context; two submissions that both found none do not get each other's
  row, and a scratch build is never a normal one.
- `AllSent`: the hook of one thread may run with the message of another; none is
  left behind while nothing fails. (One that does fail leaves its message for the
  next commit of the process to send.)
- `AcceptedEnds`: messages may come before the commit they announce, or never;
  the poller finds the build.
- `BuiltAgainstOlder`: the reason for the versions in what libsolv is told: a
  module built against a newer platform is not used on an older one. It must
  require a stream of the platform; what requires the platform alone, without a
  stream, is told to libsolv without versions.
- `Complete`: stream expansion is compared with its definition, the sets of
  modules that satisfy the dependencies, instead of the sequence of combinations
  the code tries.
- `DistinctBuilds`: modulemds of one request that differ have another version or
  context; otherwise one would be taken for the other and skipped. It is stated
  for two modulemds of one pair, and of two pairs that are `Apart`: some module is
  asked for in streams of which no build can satisfy both. The seventh modulemd
  of the run has two pairs that overlap, whose modulemds do get one context.
- `RecordedAsResolved`: the rows that make Koji build agree with the commits in
  the final modulemd, whatever an interrupted handler had recorded before.
- `BatchOrder` compares batches with the buildorder from the outermost modulemd
  inward. What is compared is the place each component was recorded at
  (`b.placed`, which only this property reads), and not the rows, because a
  module may be included twice. Components that got no batch are excepted; see
  the observations.
- `ReuseSound`: reuse under `changed-and-after` compares commits, batches and
  arches of two builds; the property compares what the artifact was made from,
  through any chain of reuse. A build that names the build to reuse is excepted:
  its strategy is not looked at.
- `NoShadowing` and `OwnRpmsInstallable` pull in opposite directions: what
  module-build-macros must conflict with, and what it must not.
- `Split`, `DebugFollows`: the module and its `-devel` module share no RPM and
  have them all; debug information follows its package.

Every property of a passing run has a mutant in `PROJECT.json`: a definition of
the model changed the way a bug would change the code, under which TLC reports
the property violated. Their definitions stand beside the ones they change,
marked "Mutant".

### Bounds

Three packages in two batches are enough for a batch that is full, one that
waits for it, and a component that waits for the threshold; module-build-macros
makes the first batch. With one place to build, every submission is decided by
the threshold. Three tasks per package: an attempt, the attempt after a
resubmission and one more, so that `HasFreeTask` never decides in a run with one
resubmission. Each disturbance happens once per behaviour, the lost message twice in
`Pollers`: the interesting cases are those where different ones meet. The
constants of the violating runs are the smallest that show the case.
Deadlock is checked in all runs.

A worker is restarted in `Batches` only; in `Attempts` what is in its memory may
stay there for ever, which `BuildEnds` has to survive all the same. `LongTag` is
`TRUE` in `Attempts`, and `FALSE` in `Batches`, which is about relics, and in
`Pollers`.

`backlog` is 0 in all runs. A worker that is more than ten minutes behind can be
given a second `wait` call for a build; handled after the build is done, it
takes the build back to batch 1, with nothing left to build that would finish
it, and `BuildEnds` fails. A second call for a task makes `tagged` request a
repository again; if the older request is still active when the batch is tagged,
no repository with the batch comes (see `RepoRequested` below), and
`EndsUnlessForgotten` fails. The hazards list this. The proofs allow any backlog.

*Submission.* Two requests and two threads: every hazard there is a race of two
requests, or of a request and the backend. Four rows are as many as two requests
with two contexts make, so `MaxRows` never decides. One fault per behaviour.
`CHECK_DEADLOCK FALSE`: the system stops when both requests are answered and
their builds have ended. The proofs have any number of each.

*Expansion.* Three platform streams with two minor versions, one of them
possibly past its end of life and then with a support stream; up to seven builds
of `gtk`, `foo` and `bar`, in any combination (512 tables with the choices of
the platforms): enough for a module built against a newer platform, for two
versions in two Koji tags, for a build under way in another context, for
requires that go in a circle, and for two pairs that allow the same streams. `CHECK_DEADLOCK FALSE`: a request ends.

*Production.* The plans are chosen for a case each: the three strategies one
after the other, Koji and the database as resolver, default modules that do and
do not fit or are not built in all contexts yet, arches that are configured, asked
for or those of a privileged module, ursine content, a module that buildrequires itself, included modules
of one, two and no components and one with a component of the same name, a
branch that does not exist, no components, blocked packages, custom SRPMs in a
scratch build, a whitelist, multilib. Two restarts, so that a handler
interrupted once is interrupted again, or the build resubmitted after it;
one commit on one branch. `CHECK_DEADLOCK FALSE`: the plans end.

### Fairness

`FairSpec` has weak fairness for: some event being handled (a worker serves the
queue; which event is open), the nudge, `fail_lost_builds`,
`process_paused_module_builds`, `sync_koji_build_tags` and
`cancel_stuck_module_builds` (Celery beat runs them; the last is disabled in
`Pollers` and in the runs about hanging builds by its setting `StuckStates`),
and Koji ending each task and each repository it was asked for. Nothing is
assumed of users, of kojira, of Greenwave, of garbage collection, or of losses.
Nothing is assumed of `RunScheduled` either: a handler need not end in the process
of a poller. As the order of events is open, fairness is needed only for the
handling of some event: an event that is overtaken forever would need infinitely many
others, which polls do not produce while events wait.

`Submission` has weak fairness for the steps of each thread (the server runs
them) and for the poller on each row. No message need arrive, so `AcceptedEnds`
does not rest on the bus. A thread at `Get` with an empty queue is disabled, so
nothing is promised of its answer. `Expansion` and `Production` state safety
only.

## What is proved

`tlapm` checks all eight proof modules with no open obligation. A theorem holds
for every value of the constants that satisfies the assumptions of the module it
is about; TLC evaluates these assumptions in the runs.

| Module | Theorem | Statement |
| --- | --- | --- |
| `ModuleBuildProofs` | `TypeCorrect`, `Invariant` | `Spec => []TypeOK`, `Spec => []Inv` |
| | `BuiltStaysBuilt` | `Spec => CompleteStable` |
| `TagProofs` | `TaggedIsComplete` | `Spec => []TaggedComplete` |
| `PromiseProofs` | `DoneIsComplete` | `Spec => []DoneComplete` |
| | `PromiseKept` | `Spec => KeepsPromise` |
| `BatchProofs` | `NeverTwice` | `~LongTag` implies `Spec => []OneLiveTask` |
| | `ThresholdKept` | `Spec => []WithinThreshold` |
| | `BarrierHolds` | `Spec /\ [](state # "garbage") => BatchBarrier` |
| `FailureProofs` | `FailureIsFinal` | `Spec => [](NothingLost => FailedIsOver)` |
| `SubmissionProofs` | `Types`, `OwnBuilds`, `NothingUnsent` | `Spec => []TypeOK`, `[]AnsweredWithItsOwn`, `[]AllSent` |
| `ExpansionProofs` | `CompleteHolds`, `OnePerChoiceHolds` | `Spec => []Complete`, `[]OnePerChoice` |
| | `OnlyReadyBasesHolds` | `BasesAlike` implies `Spec => []OnlyReadyBases` |
| | `BestExists` | `Spec => [](pc = "solve" => \A k \in DOMAIN alts : Best(alts[k]) # {})` |
| | `DistinctBuildsHolds` | `Spec => []DistinctBuilds` |
| | `BuiltAgainstOlderHolds` | `Spec /\ UsualBuilds => []BuiltAgainstOlder` |
| | `LocalUnambiguousHolds` | `Spec /\ UsualTable /\ UsualDefaults => []LocalUnambiguous` |
| | `BaseAskedHolds` | `Spec /\ UsualTable /\ UsualBases => []BaseAsked` |
| `ProductionProofs` | `ProductionTyped` | `Spec => []TypeOK` |
| | `RecordedAsResolvedHolds`, `BatchOrderHolds`, `DefaultsFitHolds`, `NoShadowingHolds`, `ReuseSoundHolds`, `OwnRpmsInstallableHolds`, `NotBlockedAgainHolds`, `BuildRootHolds`, `SplitHolds`, `DebugFollowsHolds`, `TaggedWhenDoneHolds` | `Spec => []P` for the property `P` each is named for |

### Proofs about one build

The five modules about `ModuleBuild` assume only `ConstantsAssumption`, which says
what configuration and modulemd may be: batch 1 is for the macros alone, packages
are finitely many, `all` reuses nothing, the threshold is positive. It bounds no
constant, and the budget can be any natural number for any disturbance.

*The first invariant.* `CompleteStable` is not inductive: a failed message about
the task that a complete row names would undo it. `Inv` adds that such a message
cannot exist. `BuiltRows`: a complete row names a task that Koji closed, or the
one of a reused build. `TrueEvents`: each build message in flight agrees with
Koji about its task. Koji's ended tasks stay as they are (`EndedStay`), so both
last. The proof has one lemma per action, `…Keeps`, which shows `Inv'` and that
complete rows stay complete; they rest on lemmas about the functions on the
component table and about the messages each operation sends.

*Tags.* `TaggedComplete` follows from that: no step undoes a complete row, and no
step tags anything that is not complete after it (`TagsBuilt`). The latter has
a lemma for each operation that tags: recovery, reuse of all components, the
macros `wait` recovers, and `build_task_finalize`, where a batch of which
nothing is unbuilt and nothing unsuccessful is a complete one.

*The second invariant.* `DoneComplete` fails to be inductive because
`modules.done` makes a build ready from any state. `Agreed` adds `DoneIsBuilt`:
while a done message is in flight, nothing is left to build; which holds
because packages are recorded only in `init` and never reset once complete.
`LastLive` (the trace agrees with the state) and `Fresh` (a build that never
left init has no components and no message of a later state) show that no
package is recorded later than that. The lemmas `…Promise` show for each action
that it keeps `Agreed` and is a step of `BuildPromise` or a stutter.

*Batches.* `BatchInv` is about a table of components, Koji's tasks and a batch
that are not always those of a state: a handler changes the rows before it asks
what to submit, so most lemmas are about the tables in between. Its parts need
each other. `Few`, the threshold, is not inductive because `modules.wait` submits
the macros without asking; `MacrosFirst` says that nothing else builds before the
macros are complete, and `Behind` that with anything left the batches before the
current one are complete. `OneTask` says of the current batch that no task runs
of a component that is to be submitted, because a batch is entered with a search
for relics, which fail the build instead. It holds only if relics are found,
and so has the hypothesis `~LongTag`, which nothing else here needs. A step that submits nothing is `Calm`, and one lemma
shows that calm steps keep everything; the others are `ContinueBatch` and
`StartNextBatch`, which five actions call.

For `BatchBarrier` the batches before must also be in the repository (`Stored`,
`Kept`). They are as long as what is tagged stays tagged, which
`cleanup_stale_failed_builds` undoes: it takes the packages of a failed build out
of the tags and makes the build garbage. Hence the hypothesis. Without it the
theorem is false, and TLC finds why when a message is lost twice: a build is
failed and its failed message lost, so a component is still building when the
build becomes garbage; its task ends, and that message is lost too. kojira
regenerates the repository, now empty, and `fail_lost_builds`, which looks for
components that are building and not at the state of their module, delivers the
result; `build_task_finalize` goes on with the batch, and submits a component
whose predecessors are in no repository. The budget of `Batches` has no lost
message, so its run checks `BatchBarrier` with garbage as well.

*Failure.* `FailedIsOver` has no invariant of its own once a message is lost or
a handler raises: `modules.failed` is what ends the components. `NothingLost`
says that neither happened so far; any other disturbance may have. `OverInv` is
stronger than the property: nothing is left that *waits* either, because the next
`build_task_finalize` would submit it.

### Proofs about requests

*Submissions.* `SubmissionProofs` has any set of threads, any requests, and any
bounds. It assumes `RequestsAssumption`: a context is a string other than
`default`, imports are no scratch builds. `AnsweredWithItsOwn` is about the end
of a request; `Inv` says what holds on the way there. `TableInv`: a context finds
one row, and the number in it is that of a scratch build. `ThreadInv`: the ids a
thread has are rows for the modulemds it has dealt with, in their order
(`InOrder`, `OwnIds`), the row or context it works on is for the next
(`OwnRow`), and what is left comes after (`After`). What makes it inductive with
other threads about is that a row with a context keeps it, and that a row
without one belongs to one thread at most: `ModuleBuild.create` commits each row
with the default context first, so the unique index admits one at a time. The
lemma `ThreadStable` uses the former for the threads that do nothing, `CreateInv`
and `SetContextInv` show the latter. `SentInv`, for `AllSent`, says that while
there is a message some thread is between queueing it and the end of its hook.

### Proofs about stream expansion

`ExpansionAssumption` says that a modulemd's pairs are a sequence, that tables
and the lists of streams in a modulemd and a request are finite, and that module
versions are numbers; `SectionsAssumption` that so are the sections of a stream.
Otherwise tables, streams, requires and requests are any. `Progress` says of the search that every
combination tried is stored if some solution has its modules (`TriedStored`), and
that what is stored has the modules of a combination with the streams it is
stored for (`AltsChosen`) and is consistent. A solution always has the modules of
some combination (`SolutionHasCombination`), and two modules of one name in a
consistent set are one module, so that what is stored for a solution's
combination has its streams. `OnePerChoice`, that the build contexts of one pair's
modulemds differ, follows from the same invariant. That `Generate` makes a
modulemd of every stored choice is `BestExists`: of finitely many sets of modules
one is not worse than any other.

Some properties are not true of all data. Their theorems have the hypothesis
that is needed, a predicate of the table, the request or the modulemd, and TLC
confirms on all states of `Expansion` that each holds there, with one exception
named below.

`MadeInv` is what these proofs share: each modulemd was made from one of the sets
stored for its pair and choice of streams (`MadeFrom`), which are consistent and
hold only modules of the table.

- `DistinctBuilds`: the runtime context joins the streams of a name over all pairs
  and is the same for all modulemds of a request, so the build context must tell
  them apart. Of one pair the choices differ in a stream; of two pairs that are
  `Apart` no two choices have the same streams.
- `BuiltAgainstOlder` compares the numbers of two streams one by one; the code
  compares them written one after another, and el9.1 (901) comes before el8.1.0
  (80100). `UsualBuilds` says that streams whose version is compared have three
  numbers below 100, and that a build was built against one base module.
  `DigitsWritten` and `VersionOrder` show that such streams are then in the order
  of their versions, digit by digit; `NotNewer` that what libsolv is told excludes
  the newer ones.
- `LocalUnambiguous` needs a stream listed for a module to mean one stream.
  `UsualTable`: only base modules have virtual streams, and no stream or support
  stream is also a virtual one. `UsualDefaults`: a default stream is not excluded
  with `-` where nothing is listed, because the empty list that remains matches any
  stream. The invariant follows the lists of streams through overrides, real
  streams, support streams and expansion (`SettledNext`, `OneStreamNext`): each is
  settled, so that what is expanded is one real stream for each module.
- `BaseAsked` follows the base module on the same way (`OverridesTaken`,
  `AskedBases`, `ExpandedBases`). `UsualBases`: builds of one base stream have the
  same virtual streams; a released stream with a support stream has a version, and
  the support stream is not such a one itself; default streams are not of base
  modules; an override of a base module names a stream, or none at all and then
  not together with an override from the branch; and every pair with
  buildrequires names the base modules (`BasesNamed`). The last one does not hold
  for the last of the seven modulemds of the run, which has no platform; there the
  run alone shows the property.

`OnlyReadyBases` has the hypothesis `BasesAlike`: of one version of a base module,
no context is past its end of life while another is ready. The query behind
`get_base_module_mmds` returns every build of the newest ready version, and the
first one is taken; the comment there relies on there being only one, "it can
appear only in single context", which is more than the theorem needs.
`BaseModulesReady` shows that the search for base modules finds only ready ones
to build against, besides those past their end of life whose modules may be
used. It goes through pairs and streams with recursive functions. The induction
theorems of the library take an operator, which the provers cannot instantiate;
`AllNumbers` is induction with a set of numbers for the formula, by the least
number that is not in it, and `RecursionExists` and `LastInside` say that the
recursive functions exist and stay in a set that each step keeps. The recursion
over streams needs the lists to stay finite (`Lists`, `FewStreams`): `EveryPlace`
counts places, and shows that each is taken when the pairs of a modulemd are
replaced. The rest is that nothing looked up by name is a base module
(`LookedUp`), so that among what was found (`ReadyPool`), stored (`AltsInPool`)
and made only the ready ones are.

### Proofs about what a build is made of

`ProductionAssumption` says what data may be: a build to reuse is an earlier one;
buildorders are numbers; a modulemd names each package and each module once;
branches have commits; ids are unique in the table, and those above 100 are
builds of this module; a base module is no default module; RPMs of tagged modules
are not among the module's own artifacts. Restarts and moves of branches may be
any number, modules may include each other to any depth, and builds follow each
other in any number.

- `Typed` says in which part of which handler the build can be, and what is in
  the memory of the handler. Everything else rests on it.
- `RecordedAsResolved`: what was resolved is either recorded so, in the row or
  among what is not committed yet, or waits in a frame of
  `record_component_builds` (`ResolvedOK`).
- `BatchOrder` is about what `record_component_builds` does with its recursion,
  here a stack. `Nested`: each module under way has its place where the next one
  outward is. `PlacedOK`: what was recorded is in no later batch than the current
  one, and for each frame it is under in an earlier one, unless the frame is at
  the same buildorder (`Reached`). The property compares any two places, so it
  must be shown for pairs that share only some of the frames.
- `TagsOK`, for `NotBlockedAgain` and `BuildRoot`: how far `buildroot_connect` got
  says what the tags have, also when it is called by a later handler, or after a
  crash; and what is in a build root is known to have been there before
  (`RootedOK`), which is why nothing is blocked a second time.
- `ImportsOK`, for `Split`, `DebugFollows` and `TaggedWhenDone`: what was imported
  is what would be imported now, because nothing is built any more.
- `NoShadowing`: collisions are computed after default modules are added, from
  the same buildrequires the build has from then on (`Shadowed`).
- `ReuseSound` goes by induction over the history: a build made under `all` or
  `changed-and-after` has only components made from what it asks for, and one
  under `changed-and-after` reuses only from such builds (`ReusedOK`).
  `SameMade` shows that the comparison in `scheduler/reuse.py` implies equal
  inputs.
- `DefaultsFit`: all builds that are buildrequired of a stream are of one version,
  and the one taken has a sibling that runs on the base (`FitIn`).
- `OwnRpmsInstallable`: the conflicts spare the builds of what can be reused when
  the macros are made; the build that is then reused from is that one, or has
  the same components taken from it (`OwnOK`).

### Only model-checked

`BuildEnds`, `EndsUnlessForgotten` and `AcceptedEnds`: liveness under fairness is out of the prover's
reach. Every other property of a passing run is stated by a theorem, some with a
hypothesis: `FailedIsOver`, `BatchBarrier`, `OneLiveTask` and four of the
properties of `Expansion`, as described above. On the data that a hypothesis leaves out, only
the runs speak, as far as they have such data.

## Disagreements with the documentation

Six runs check a sentence of the documentation and find it violated.

| Run | The text | What the run shows |
| --- | --- | --- |
| `DoneTagged` | every component is tagged in the destination tag to be delivered | Cancel a build and resume it. A component of the first attempt completes before `wait` has run: its result is saved, then `current_batch` raises because the batch is 0. Nothing tags it later; the build is done without it. |
| `TagNoticed` | lost messages about tagging are handled | A tag message handled while the module is failed or waiting is dropped; the poller looks at the current batch only, and the build waits forever. |
| `RefusalFails` | the module fails at once when a submission fails | `transition` is called without its session argument, so the component fails and the module stays in build. |
| `RepoRequested` | a newRepo task is started when all components are tagged | With `koji_build_macros_target`, the macros are tagged while the first repository is generated; it does not hold them and no other is requested. |
| `RepoRetriggered` | failed newRepo tasks are retriggered | The function that does so is not scheduled. |
| `Resubmissions` | only failed builds are rebuilt | Two resubmissions find a build failed. The first restarts it, and it moves on; the second, which does not look again, restarts it too, be it building or ready by then. |

The builds of `TagNoticed`, `RefusalFails`, `RepoRequested` and
`RepoRetriggered` need not hang in practice: `cancel_stuck_module_builds` fails
what does not move for a week, and kojira may regenerate the tag. The two runs
about hanging builds have the first switched off, and no kojira. Nothing repairs
the build of `DoneTagged`.

## Observations

Read in the code while modelling it. The models have them; none contradicts a
sentence of the documentation that a run could check, unless a line says so.

*One build.* With a Koji tag of more than 50 characters the search for relics
finds nothing (`KojiModuleBuilder.py:1050` compares the tag with the hashed name
of the target), and TLC finds two tasks of one component: a build is canceled,
Koji does not cancel a task, the build is resubmitted, and its batch entered
again. The threshold does not count components that were reused once
(`reused_component_id` is never reset), nor does `fail_lost_builds` look at them.
A message for `modules.wait` that comes late takes the build back to `build` from
any state, and one for `modules.failed` fails it. What a poller schedules may
stay in its process (`scheduler/producer.py:174` is no `mbs_event_handler`).

*Submission.* A name that is overridden and occurs in two pairs of dependencies
raises a `KeyError` (`web/submit.py:231`; `KeyRemovedTwice`). A crash between
the two commits that make a row leaves one with the default context, and every
later submission of that name, stream and version fails on the unique index
(`common/models.py:133`, `web/submit.py:638`). The hook after a commit looks
whether the queue is empty and then waits for a message: with two threads one
may wait for good (`common/models.py:1336`). The message of a transition that is
rolled back is sent after the next commit. `import_mmd` makes any build of its
context ready, whatever its state, without a transition.

*Expansion.* Two pairs of dependencies that allow the same choice of streams give
two modulemds with one name, stream, version and context, as
`calculate_runtime_context` joins the pairs; the second is skipped as a
duplicate (`web/submit.py:575`). The queries for the last builds in a stream find the newest ready
version, and return every build of it (`LastBuildsInStream`). Modules that
require each other at runtime are looked up until Python's stack is full
(`CollectRequires`). A pair without buildrequires is the only result, whatever
the other pairs ask. The Koji resolver filters by inheritance before it compares
streams, which Koji writes with `_` for `-`: a tag that has only the other
stream of that spelling hides the parent tags. A virtual stream may stand for a
base module past its end of life (`RealStream`), and such a request is refused
only later.

*Components.* `format_mmd` waits with a loop that commits the session, and with
it half of the components. After a failure there and a push to the branch, each
resubmission fails with a `ValidationError`; `format_mmd` keeps commits that were
resolved before (the comment at `scheduler/submit.py:225`), but the modulemd that
holds them is not saved when the handler fails. A component that an included
module no longer has keeps its row and is built. An included module without
components makes `record_component_builds` return `None`: the next one with
another buildorder raises a `TypeError`, others get no batch, and
`start_next_batch_build` then calls itself without end. Components of included
modules have no entry in the modulemd: reuse that asks for their arches raises
an `AttributeError`, and the imported modulemd lists none of their RPMs.

*Content and reuse.* If several builds of a default module's version fit, the
last one listed is taken, even if another was the one that runs on the base
(`scheduler/default_modules.py:133`). The build context is computed before
default modules are added, so on bases without a Koji tag no build with default
modules is reused, which the comment at `scheduler/reuse.py:394` does not
expect. A build that is told what to reuse bypasses the comparison of
strategies. Under `changed-and-after`, reuse of a batch asks whether *all*
components of the build were reused, so only batch 2 is ever reused in part.

*Tags.* A worker killed after the build tag was made and before packages were
blocked never blocks them: the tag is not new any more. One killed between adding
a group and its packages leaves the group empty. (`BuildRoot` says so.)

## What is left out

Several modules and workers at once: the threshold over all modules, a poll that
runs beside a handler, the session that handlers of one worker share. The
decision of Greenwave. The suffixes of `stream_suffixes`. The list of binary
packages of `build-requires` profiles. `MBSResolver` and `LocalResolver`, which
ask the same of another MBS and of files. For good: configuration, logging,
metrics, SCM and web input and output, queries and their paging, authentication,
migrations, the metadata the content generator collects on the build host, and
local builds with Mock: threads that run mock on one user's files, almost all
of it input and output.
