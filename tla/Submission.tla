----------------------------- MODULE Submission -----------------------------
(***************************************************************************)
(* The frontend: the threads of one process that answer requests           *)
(* (web/views.py, web/submit.py), the rows they share with the backend,    *)
(* and the process-wide queue of state change messages that every commit   *)
(* of the process sends (common/models.py, common/messaging.py).           *)
(*                                                                         *)
(* One module, stream and version: a row is found by its context, <<c, n>> *)
(* with n the number a scratch build's context ends in, or 0. The backend  *)
(* is what ModuleBuild shows of it: it takes a build that is announced or  *)
(* found by the poller on, until it is ready or failed.                    *)
(***************************************************************************)
EXTENDS Integers, Sequences, FiniteSets, SequencesExt

CONSTANTS
  Thread,          \* the threads of the frontend's process
  Requests,        \* the requests each thread may get
  MaxRequests,     \* bound: how many do
  MaxRows,         \* bound: how many rows those can make
  MaxFaults,       \* bound: failed commits and publications, crashes
  Allowed          \* the configuration: [scratch, yaml, override, strategies, strategy, import]

(* A context is a hash, and never the default one. A module is imported     *)
(* under one, and not as a scratch build.                                   *)
ASSUME RequestsAssumption ==
  \A p \in Thread : \A q \in Requests[p] :
    /\ q.kind \in {"submit", "cancel", "import"}
    /\ q.contexts \in Seq(STRING \ {"default"})
    /\ q.kind # "cancel" => q.scratch \in BOOLEAN
    /\ q.kind = "import" => ~q.scratch /\ q.contexts # <<>>

VARIABLES
  rows,      \* the table: a sequence of rows, the id of a row its place
  queue,     \* module_build_state_change_out_queue
  bus,       \* the messages published and not handled yet: <<id, state>>
  thread,    \* what each thread is at
  received,  \* how many requests came in
  faults     \* how many faults happened

vars == <<rows, queue, bus, thread, received, faults>>

None    == "none"
Default == <<"default", 0>>      \* DEFAULT_MODULE_CONTEXT
Live    == {"init", "wait"}      \* wait stands for build too

(* pc, and what follows a flush; the request, the contexts it is yet to     *)
(* submit, the row it works on with the context that row gets, and the ids  *)
(* it will answer with, those it skipped among them.                        *)
Idle == [pc |-> "idle", next |-> "idle", req |-> [kind |-> None], todo |-> <<>>, id |-> 0,
         context |-> Default, ids |-> <<>>, skipped |-> {}, answer |-> None]

-----------------------------------------------------------------------------
(* What a request must be like.                                             *)

ReadyRow(id) == id \in DOMAIN rows /\ rows[id].state = "ready"

(* BaseHandler and YAMLFileHandler.                                         *)
Acceptable(q) ==
  /\ q.scratch => Allowed.scratch
  /\ q.srpms => q.scratch
  /\ q.yaml => q.scratch \/ Allowed.yaml
  /\ ~q.yaml => q.branch # None
  /\ q.strategy # None => Allowed.override /\ q.strategy \in Allowed.strategies
  /\ q.reuse # 0 => q.strategy # "all" /\ ReadyRow(q.reuse)

Refused(q) == \/ q.kind = "submit" /\ ~Acceptable(q)
              \/ q.kind = "import" /\ ~Allowed.import
              \/ q.kind = "cancel" /\ (q.row \notin DOMAIN rows \/ ~q.owner)

-----------------------------------------------------------------------------
(* Steps of a thread.                                                       *)

Goto(p, pc)   == thread' = [thread EXCEPT ![p].pc = pc]
Answer(p, a)  == thread' = [thread EXCEPT ![p] =
                   [Idle EXCEPT !.req = thread[p].req, !.ids = thread[p].ids, !.answer = a]]
Push(id, s)   == queue' = Append(queue, <<id, s>>)
Publish(m)    == bus' = bus \cup {m}
RowWith(c)    == {i \in DOMAIN rows : rows[i].context = c}
Counted       == UNCHANGED <<received, faults>>
(* Mutant: the index over name, stream, version and context is not unique.  *)
NeverTaken(c) == FALSE
Taken(c)      == RowWith(c) # {}

Receive(p, q) ==
  /\ thread[p].pc = "idle" /\ received < MaxRequests
  /\ received' = received + 1
  /\ thread' = [thread EXCEPT ![p] =
       [Idle EXCEPT !.req = q, !.answer = IF Refused(q) THEN "refused" ELSE None,
                    !.pc = IF Refused(q) THEN "idle" ELSE q.kind,
                    !.todo = q.contexts]]
  /\ UNCHANGED <<rows, queue, bus, faults>>

(* Mutant: a scratch build has the context of a normal one.                 *)
NoSuffix(c) == 0
(* One more than there are scratch builds of this context.                  *)
Suffix(c) == Cardinality({i \in DOMAIN rows : rows[i].scratch /\ rows[i].context[1] = c}) + 1

Forbidden(q, i) == q.strategy # None /\ q.strategy # rows[i].strategy

(* The next expanded modulemd: skip it, restart its failed build, or make   *)
(* a new build.                                                             *)
Check(p) ==
  LET me == thread[p]
      c  == Head(me.todo)
      found == IF me.req.scratch THEN {} ELSE RowWith(<<c, 0>>)
      go(pc, i) == [me EXCEPT !.pc = pc, !.id = i, !.todo = Tail(@)]
      mine(i, s) == [go("submit", i) EXCEPT !.ids = Append(@, i), !.skipped = @ \cup s]
  IN /\ me.pc = "submit" /\ me.todo # <<>>
     /\ IF found # {}
        THEN LET i == CHOOSE i \in found : TRUE
             IN thread' = [thread EXCEPT ![p] =
                  IF rows[i].state # "failed" THEN mine(i, {i})
                  ELSE IF Forbidden(me.req, i) THEN [Idle EXCEPT !.req = me.req, !.answer = "invalid"]
                  ELSE go("resume", i)]
        ELSE IF ~me.req.scratch /\ me.req.branch = "private"
        THEN Answer(p, "invalid")
        ELSE thread' = [thread EXCEPT ![p] = [go("create", 0) EXCEPT !.context =
                          <<c, IF me.req.scratch THEN Suffix(c) ELSE 0>>]]
     /\ UNCHANGED <<rows, queue, bus>> /\ Counted

ResumeState(i) == IF rows[i].last = "init" THEN "init" ELSE "wait"

(* The message is put on the queue before the commit.                       *)
Resume(p) ==
  LET i == thread[p].id
  IN /\ thread[p].pc = "resume"
     /\ Push(i, ResumeState(i))
     /\ thread' = [thread EXCEPT ![p].pc = "restart", ![p].next = ResumeState(i)]
     /\ UNCHANGED <<rows, bus>> /\ Counted

(* What was read in Check is not read again: the row is overwritten.        *)
Restart(p) ==
  LET i == thread[p].id
  IN /\ thread[p].pc = "restart"
     /\ rows' = [rows EXCEPT ![i].state = thread[p].next, ![i].last = thread[p].next,
                             ![i].stopped = FALSE]
     /\ thread' = [thread EXCEPT ![p].pc = "flush", ![p].next = "submit", ![p].ids = Append(@, i)]
     /\ UNCHANGED <<queue, bus>> /\ Counted

NewRow(q) == [context |-> Default, state |-> "init", last |-> "init", scratch |-> q.scratch,
              strategy |-> IF q.strategy = None THEN Allowed.strategy ELSE q.strategy,
              stopped |-> FALSE]

(* ModuleBuild.create commits the row without a context of its own: there   *)
(* can be only one such row.                                                *)
Create(p) ==
  /\ thread[p].pc = "create"
  /\ IF Taken(Default) THEN Answer(p, "error") /\ UNCHANGED rows
     ELSE /\ rows' = Append(rows, NewRow(thread[p].req))
          /\ thread' = [thread EXCEPT ![p].pc = "flush", ![p].id = Len(rows) + 1,
                                      ![p].next = "context"]
  /\ UNCHANGED <<queue, bus>> /\ Counted

SetContext(p) ==
  LET c == thread[p].context
  IN /\ thread[p].pc = "context"
     /\ IF Taken(c) THEN Answer(p, "error") /\ UNCHANGED rows
        ELSE /\ rows' = [rows EXCEPT ![thread[p].id].context = c]
             /\ thread' = [thread EXCEPT ![p].pc = "flush", ![p].next = "notify"]
     /\ UNCHANGED <<queue, bus>> /\ Counted

Notify(p) ==
  /\ thread[p].pc = "notify"
  /\ Publish(<<thread[p].id, "init">>)
  /\ thread' = [thread EXCEPT ![p].pc = "submit", ![p].ids = Append(@, thread[p].id)]
  /\ UNCHANGED <<rows, queue>> /\ Counted

Finish(p) ==
  LET me == thread[p]
  IN /\ me.pc = "submit" /\ me.todo = <<>>
     /\ Answer(p, IF Range(me.ids) \subseteq me.skipped THEN "conflict" ELSE "created")
     /\ UNCHANGED <<rows, queue, bus>> /\ Counted

-----------------------------------------------------------------------------
(* The hook after each commit. A thread that saw a message may find the     *)
(* queue empty when it gets it: then it waits for another one.              *)

(* Mutant: the hook is not registered.                                      *)
NothingQueued == FALSE
Queued == queue # <<>>

Flush(p) ==
  /\ thread[p].pc = "flush"
  /\ Goto(p, IF Queued THEN "get" ELSE thread[p].next)
  /\ UNCHANGED <<rows, queue, bus>> /\ Counted

Get(p) ==
  /\ thread[p].pc = "get" /\ queue # <<>>
  /\ queue' = Tail(queue)
  /\ Publish(Head(queue))
  /\ Goto(p, "flush")
  /\ UNCHANGED rows /\ Counted

-----------------------------------------------------------------------------
(* Cancellation and import.                                                 *)

Cancel(p) ==
  LET i == thread[p].req.row
  IN /\ thread[p].pc = "cancel"
     /\ IF rows[i].state \in Live
        THEN Push(i, "failed") /\ Goto(p, "commit cancel")
        ELSE UNCHANGED queue /\ Answer(p, "invalid")
     /\ UNCHANGED <<rows, bus>> /\ Counted

CommitCancel(p) ==
  LET i == thread[p].req.row
  IN /\ thread[p].pc = "commit cancel"
     /\ rows' = [rows EXCEPT ![i].state = "failed"]
     /\ thread' = [thread EXCEPT ![p].pc = "flush", ![p].next = "answer"]
     /\ UNCHANGED <<queue, bus>> /\ Counted

Answered(p) ==
  /\ thread[p].pc = "answer" /\ Answer(p, "done")
  /\ UNCHANGED <<rows, queue, bus>> /\ Counted

(* import_mmd: the row of that context becomes a ready build, whatever it   *)
(* was. The state is set without a transition: nothing is announced.        *)
Import(p) ==
  LET c == <<Head(thread[p].todo), 0>>
      found == RowWith(c)
      ready == [NewRow(thread[p].req) EXCEPT !.context = c, !.state = "ready", !.strategy = "all"]
  IN /\ thread[p].pc = "import"
     /\ rows' = IF found = {} THEN Append(rows, ready)
                ELSE [i \in DOMAIN rows |-> IF i \in found
                        THEN [rows[i] EXCEPT !.state = "ready", !.strategy = "all"] ELSE rows[i]]
     /\ thread' = [thread EXCEPT ![p].pc = "flush", ![p].next = "answer"]
     /\ UNCHANGED <<queue, bus>> /\ Counted

-----------------------------------------------------------------------------
(* Faults.                                                                  *)

Fault == faults < MaxFaults /\ faults' = faults + 1 /\ UNCHANGED received

(* The message of a transition that was rolled back stays on the queue.     *)
CommitFails(p) ==
  /\ thread[p].pc \in {"restart", "create", "context", "commit cancel", "import"}
  /\ Answer(p, "error") /\ Fault
  /\ UNCHANGED <<rows, queue, bus>>

PublishFails(p) ==
  /\ thread[p].pc = "notify" \/ (thread[p].pc = "get" /\ queue # <<>>)
  /\ queue' = IF thread[p].pc = "get" THEN Tail(queue) ELSE queue
  /\ Answer(p, "error") /\ Fault
  /\ UNCHANGED <<rows, bus>>

Crash ==
  /\ thread' = [p \in Thread |-> Idle] /\ queue' = <<>> /\ Fault
  /\ UNCHANGED <<rows, bus>>

-----------------------------------------------------------------------------
(* The backend. What it says itself is left out: the poller finds its builds*)
(* where they are.                                                          *)

(* Mutant: only builds that wait are looked for.                            *)
OnlyWaiting == {"wait"}
NudgedStates == {"init", "wait"}

(* What a message leads a build to: from init to wait, and from wait, by    *)
(* way of build, to its end, which is a failure if a component stopped in   *)
(* an earlier attempt. An init message is ignored if the build has moved    *)
(* on, a failed one fails the build whatever state it is in, and a wait one *)
(* takes it to build from any, unless its handler fails it or raises.       *)
Successors(m) ==
  LET r == rows[m[1]]
  IN CASE m[2] = "failed" -> {"failed"}
       [] m[2] = "init" /\ r.state = "init" -> {"wait", "failed"}
       [] m[2] = "wait" /\ r.state = "wait" -> {"failed"} \cup (IF r.stopped THEN {} ELSE {"ready"})
       [] m[2] = "wait" /\ r.state # "wait" -> {"wait", "failed", r.state}
       [] OTHER -> {r.state}

Leads(m) ==
  /\ \E s \in Successors(m) :
       rows' = [rows EXCEPT ![m[1]].state = s, ![m[1]].last = IF s = "failed" THEN @ ELSE s,
                            ![m[1]].stopped = @ \/ s = "failed"]
  /\ UNCHANGED <<queue, thread>> /\ Counted

Handle == \E m \in bus : Leads(m) /\ bus' = bus \ {m}

(* The poller calls the handler of a build that stays in its state.         *)
Nudge(i) ==
  /\ i \in DOMAIN rows /\ rows[i].state \in NudgedStates
  /\ Leads(<<i, rows[i].state>>) /\ UNCHANGED bus

-----------------------------------------------------------------------------
Init ==
  /\ rows = <<>> /\ queue = <<>> /\ bus = {}
  /\ thread = [p \in Thread |-> Idle] /\ received = 0 /\ faults = 0

Step(p) ==
  \/ Check(p) \/ Resume(p) \/ Restart(p) \/ Create(p) \/ SetContext(p) \/ Notify(p) \/ Finish(p)
  \/ Flush(p) \/ Get(p) \/ Cancel(p) \/ CommitCancel(p) \/ Answered(p) \/ Import(p)

Id == 1..MaxRows

Next ==
  \/ \E p \in Thread : Step(p) \/ (\E q \in Requests[p] : Receive(p, q))
  \/ \E p \in Thread : CommitFails(p) \/ PublishFails(p)
  \/ Crash \/ Handle
  \/ \E i \in Id : Nudge(i)

(* Threads run, and the poller looks for builds every couple of minutes; no *)
(* message need ever arrive.                                                *)
Fairness ==
  /\ \A p \in Thread : WF_vars(Step(p))
  /\ \A i \in Id : WF_vars(Nudge(i))

Spec == Init /\ [][Next]_vars /\ Fairness

-----------------------------------------------------------------------------
(* Properties.                                                              *)

(* The types: among them that a build is found by its context, and that     *)
(* messages and answers are about builds there are.                        *)
TypeOK ==
  /\ \A i, j \in DOMAIN rows : rows[i].context = rows[j].context => i = j
  /\ \A i \in DOMAIN rows : rows[i].state \in Live \cup {"ready", "failed"}
  /\ \A m \in bus \cup Range(queue) : m[1] \in DOMAIN rows
  /\ \A p \in Thread : Range(thread[p].ids) \subseteq DOMAIN rows

(* A request is answered with one build for each of its modulemds: the one  *)
(* with that context, and a scratch build only if it asked for one, however *)
(* many requests for the same module come in meanwhile                      *)
(* (submit_module_build).                                                   *)
AnsweredWithItsOwn ==
  \A p \in Thread : LET me == thread[p] IN
    me.req.kind = "submit" /\ me.answer \in {"created", "conflict"} =>
      /\ Len(me.ids) = Len(me.req.contexts)
      /\ \A k \in DOMAIN me.ids : /\ rows[me.ids[k]].context[1] = me.req.contexts[k]
                                  /\ rows[me.ids[k]].scratch = me.req.scratch

(* When the threads are done no state change is left unsent, unless a       *)
(* commit or a publication failed: a thread may send the message of another *)
(* (send_message_after_module_build_state_change).                          *)
AllSent == faults = 0 /\ (\A p \in Thread : thread[p].pc = "idle") => queue = <<>>

(* Every build ends, though its message may be sent too early, or lost with *)
(* the process: the poller finds it (process_waiting_module_builds).        *)
AcceptedEnds ==
  \A i \in Id : (i \in DOMAIN rows /\ rows[i].state \in Live)
                  ~> (i \in DOMAIN rows /\ rows[i].state \notin Live)

(* Only rebuild of modules in failed state is allowed (submit.py, when it   *)
(* skips a modulemd): a request never takes a build back to a state it has  *)
(* passed unless it failed.                                                 *)
Rank(s) == CASE s = "init" -> 1 [] s = "wait" -> 2 [] OTHER -> 3
OnlyFailedRestarted ==
  [][\A i \in DOMAIN rows :
       thread' # thread /\ Rank(rows'[i].state) < Rank(rows[i].state) => rows[i].state = "failed"]_vars
=============================================================================
