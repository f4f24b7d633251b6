-------------------------- MODULE SubmissionProofs --------------------------
(***************************************************************************)
(* Proofs about Submission, for any threads, requests and bounds.          *)
(***************************************************************************)
EXTENDS Submission, FiniteSetTheorems, TLAPS

-----------------------------------------------------------------------------
(* The inductive invariant.                                                 *)

Hash    == STRING \ {"default"}
Context == (Hash \cup {"default"}) \X Nat
Pc      == {"idle", "submit", "resume", "restart", "create", "context", "notify",
            "flush", "get", "cancel", "commit cancel", "import", "answer"}
Result  == {None, "refused", "invalid", "error", "created", "conflict", "done"}
State   == Live \cup {"ready", "failed"}
Message == Nat \X State
Made    == {q \in UNION {Requests[p] : p \in Thread} : q.kind # "cancel"}
Strategy == {"all", Allowed.strategy} \cup {q.strategy : q \in Made}
Request  == {[kind |-> None]} \cup UNION {Requests[p] : p \in Thread}

Row == [context : Context, state : State, last : State, scratch : BOOLEAN,
        strategy : Strategy, stopped : BOOLEAN]
ThreadState ==
  [pc : Pc, next : Pc \cup Live, req : Request, todo : Seq(Hash), id : Nat, context : Context,
   ids : Seq(Nat), skipped : SUBSET Nat, answer : Result]

(* A context finds one row, and the number in it tells scratch builds.      *)
TableInv(R) ==
  /\ R \in Seq(Row)
  /\ \A i, j \in DOMAIN R : R[i].context = R[j].context => i = j
  /\ \A i \in DOMAIN R : R[i].context[1] # "default" => (R[i].scratch <=> R[i].context[2] # 0)

(* What a thread is at, once what it commits has been announced.            *)
Phase(me) == IF me.pc \in {"flush", "get"} THEN me.next ELSE me.pc
Making    == {"resume", "restart", "create", "context", "notify"}

(* The modulemd a thread works on is the one after those it has ids for.    *)
Ahead(me) == IF Phase(me) \in Making THEN 1 ELSE 0
Done(me)  == Len(me.ids) + Ahead(me)
Asked(me) == me.req.contexts[Len(me.ids) + 1]

IsFor(R, i, c, scratch) == i \in DOMAIN R /\ R[i].context[1] = c /\ R[i].scratch = scratch

(* t is what comes after the first n of s.                                  *)
After(s, n, t) ==
  Len(s) = n + Len(t) /\ \A k \in 1..Len(t) : t[k] = s[n + k]

(* A submission answers its modulemds one after the other.                  *)
InOrder(me) ==
  /\ Len(me.ids) <= Len(me.req.contexts)
  /\ Phase(me) \in Making \cup {"submit"} => After(me.req.contexts, Done(me), me.todo)
  /\ me.answer \in {"created", "conflict"} => Len(me.ids) = Len(me.req.contexts)
OwnIds(me, R) ==
  \A k \in 1..Len(me.ids) : IsFor(R, me.ids[k], me.req.contexts[k], me.req.scratch)
OwnRow(me, R) ==
  /\ Phase(me) \in {"resume", "restart", "notify"} => IsFor(R, me.id, Asked(me), me.req.scratch)
  /\ Phase(me) \in {"create", "context"} =>
       me.context[1] = Asked(me) /\ (me.req.scratch <=> me.context[2] # 0)
  /\ Phase(me) = "context" => me.id \in DOMAIN R /\ R[me.id].context = Default
                              /\ R[me.id].scratch = me.req.scratch

ThreadInv(me, R) ==
  /\ me.pc \in {"flush", "get"} => me.next \in {"submit", "context", "notify", "answer"}
  /\ me.pc # "idle" => me.answer = None
  /\ me.pc = "restart" => me.next \in Live
  /\ Phase(me) \in Making \cup {"submit"} => me.req.kind = "submit"
  /\ Phase(me) \in {"cancel", "commit cancel"} => me.req.row \in DOMAIN R
  /\ Phase(me) = "import" => me.req.kind = "import" /\ me.todo = me.req.contexts
  /\ IF me.req.kind = "submit" THEN InOrder(me) /\ OwnIds(me, R) /\ OwnRow(me, R)
     ELSE me.ids = <<>>

(* Only one thread has a row without a context of its own.                  *)
ThreadsInv ==
  /\ thread \in [Thread -> ThreadState]
  /\ \A p \in Thread : ThreadInv(thread[p], rows)
  /\ \A p, q \in Thread : Phase(thread[p]) = "context" /\ Phase(thread[q]) = "context" => p = q

MessagesInv ==
  /\ queue \in Seq(Message) /\ bus \subseteq Message
  /\ \A m \in bus \cup Range(queue) : m[1] \in DOMAIN rows

(* A thread that queued a message looks at the queue before it is done.     *)
Sends(me) == me.pc \in {"restart", "commit cancel", "flush", "get"}
SentInv   == /\ faults \in Nat
             /\ faults = 0 /\ queue # <<>> => \E p \in Thread : Sends(thread[p])

Inv == TableInv(rows) /\ ThreadsInv /\ MessagesInv /\ SentInv

-----------------------------------------------------------------------------
(* Threads and rows.                                                        *)

(* An idle thread is in order.                                              *)
LEMMA IdleType == Idle \in ThreadState
<1>1. <<>> \in Seq(Hash) /\ <<>> \in Seq(Nat)
  OBVIOUS
<1>2. Default \in Context
  BY DEF Default, Context
<1> QED BY <1>1, <1>2 DEF Idle, ThreadState, Request, None, Pc, Result

(* What comes after the first n + 1 is the tail of what comes after n.      *)
LEMMA AfterTail ==
  ASSUME NEW s \in Seq(Hash), NEW n \in Nat, NEW t \in Seq(Hash), t # <<>>, After(s, n, t)
  PROVE  /\ Head(t) \in Hash /\ Head(t) = s[n + 1] /\ After(s, n + 1, Tail(t))
         /\ n + 1 <= Len(s)
<1>1. /\ Head(t) \in Hash /\ Head(t) = t[1] /\ Len(t) \in Nat \ {0} /\ Len(s) \in Nat
      /\ Len(Tail(t)) = Len(t) - 1 /\ \A k \in 1..Len(Tail(t)) : Tail(t)[k] = t[k + 1]
  OBVIOUS
<1>2. Len(s) = n + Len(t) /\ \A k \in 1..Len(t) : t[k] = s[n + k]
  BY DEF After
<1>3. Len(s) = (n + 1) + Len(Tail(t)) /\ n + 1 <= Len(s)
  BY <1>1, <1>2
<1>4. ASSUME NEW k \in 1..Len(Tail(t)) PROVE Tail(t)[k] = s[(n + 1) + k]
  <2>1. k + 1 \in 1..Len(t) /\ n + (k + 1) = (n + 1) + k
    BY <1>1
  <2> QED BY <1>1, <1>2, <2>1
<1>5. After(s, n + 1, Tail(t))
  BY <1>3, <1>4 DEF After
<1>6. 1 \in 1..Len(t) /\ t[1] = s[n + 1]
  BY <1>1, <1>2
<1> QED BY <1>1, <1>3, <1>5, <1>6

(* There is that much of s.                                                 *)
LEMMA AfterLen ==
  ASSUME NEW s \in Seq(Hash), NEW n \in Nat, NEW t \in Seq(Hash), After(s, n, t)
  PROVE  n <= Len(s)
BY DEF After

(* All of s comes after none of it.                                         *)
LEMMA AfterNone == ASSUME NEW s \in Seq(Hash) PROVE After(s, 0, s)
BY DEF After

(* What a request of a thread is like.                                      *)
LEMMA RequestType ==
  ASSUME NEW p \in Thread, NEW q \in Requests[p]
  PROVE  /\ q \in Request /\ q.contexts \in Seq(Hash) /\ q.kind \in {"submit", "cancel", "import"}
         /\ q.kind # "cancel" => q.scratch \in BOOLEAN /\ q.strategy \in Strategy
         /\ q.kind = "import" => ~q.scratch /\ q.contexts # <<>>
BY RequestsAssumption DEF Request, Strategy, Made, Hash

(* So is the request a thread works on.                                     *)
LEMMA RequestOf ==
  ASSUME NEW me \in ThreadState, me.req.kind \in {"submit", "import"}
  PROVE  /\ me.req.contexts \in Seq(Hash) /\ me.req.scratch \in BOOLEAN
         /\ me.req.strategy \in Strategy
         /\ me.req.kind = "import" => ~me.req.scratch /\ me.req.contexts # <<>>
<1>1. me.req # [kind |-> None]
  BY DEF None
<1>2. PICK p \in Thread : me.req \in Requests[p]
  BY <1>1 DEF ThreadState, Request
<1> QED BY <1>2, RequestType

(* The table goes from R to S: rows stay, and so do the contexts of rows    *)
(* that have one, and that of the row the thread is to give one.            *)
Keeps(R, S, me) ==
  \A i \in DOMAIN R :
    /\ i \in DOMAIN S
    /\ R[i].context[1] # "default" \/ (Phase(me) = "context" /\ i = me.id)
         => S[i].context = R[i].context /\ S[i].scratch = R[i].scratch

(* A thread that does nothing stays in order while the table changes so.    *)
LEMMA ThreadStable ==
  ASSUME NEW me \in ThreadState, NEW R, NEW S, ThreadInv(me, R), Keeps(R, S, me)
  PROVE  ThreadInv(me, S)
<1>1. ASSUME NEW i, NEW c \in Hash, NEW s, IsFor(R, i, c, s) PROVE IsFor(S, i, c, s)
  BY <1>1 DEF IsFor, Keeps, Hash
<1>2. CASE me.req.kind = "submit"
  <2>1. me.req.contexts \in Seq(Hash)
    BY <1>2, RequestOf
  <2>2. InOrder(me) /\ OwnIds(me, R) /\ OwnRow(me, R)
    BY <1>2 DEF ThreadInv
  <2>3. OwnIds(me, S)
    BY <1>1, <2>1, <2>2 DEF OwnIds, InOrder, ThreadState
  <2>4. Phase(me) \in Making => Asked(me) \in Hash
    <3> SUFFICES ASSUME Phase(me) \in Making PROVE Asked(me) \in Hash
      OBVIOUS
    <3>1. Done(me) = Len(me.ids) + 1 /\ Len(me.ids) \in Nat /\ Len(me.todo) \in Nat
      BY DEF Done, Ahead, ThreadState
    <3>2. After(me.req.contexts, Len(me.ids) + 1, me.todo)
      BY <2>2, <3>1 DEF InOrder
    <3>3. Len(me.ids) + 1 <= Len(me.req.contexts)
      BY <2>1, <3>1, <3>2, AfterLen DEF ThreadState
    <3>4. Len(me.ids) + 1 \in 1..Len(me.req.contexts)
      BY <2>1, <3>1, <3>3
    <3> QED BY <2>1, <3>4 DEF Asked
  <2>5. OwnRow(me, S)
    BY <1>1, <2>2, <2>4 DEF OwnRow, Making, Keeps
  <2> QED BY <1>2, <2>2, <2>3, <2>5 DEF ThreadInv, Keeps
<1>3. CASE me.req.kind # "submit"
  BY <1>3 DEF ThreadInv, Keeps
<1> QED BY <1>2, <1>3

(* A thread's step keeps all of them in order if it keeps itself in order,  *)
(* and gets a row without a context only if no other has one.               *)
LEMMA ThreadStep ==
  ASSUME ThreadsInv, NEW p \in Thread, NEW me \in ThreadState,
         thread' = [thread EXCEPT ![p] = me], ThreadInv(me, rows'),
         \A q \in Thread \ {p} : Keeps(rows, rows', thread[q]),
         Phase(me) = "context" => \A q \in Thread \ {p} : Phase(thread[q]) # "context"
  PROVE  ThreadsInv'
<1>1. thread' \in [Thread -> ThreadState] /\ thread'[p] = me
      /\ \A q \in Thread \ {p} : thread'[q] = thread[q]
  BY DEF ThreadsInv
<1>2. \A q \in Thread : ThreadInv(thread'[q], rows')
  BY <1>1, ThreadStable DEF ThreadsInv
<1>3. \A q, r \in Thread : Phase(thread'[q]) = "context" /\ Phase(thread'[r]) = "context" => q = r
  BY <1>1 DEF ThreadsInv
<1> QED BY <1>1, <1>2, <1>3 DEF ThreadsInv

(* It does if it leaves the table alone, or only changes what may change.   *)
LEMMA UnchangedKeeps == ASSUME NEW R, NEW me PROVE Keeps(R, R, me)
BY DEF Keeps

(* Only states change.                                                      *)
LEMMA StatesChange ==
  ASSUME NEW R, NEW S \in Seq(Row), TableInv(R), DOMAIN S = DOMAIN R,
         \A i \in DOMAIN R : S[i].context = R[i].context /\ S[i].scratch = R[i].scratch
  PROVE  TableInv(S) /\ \A me : Keeps(R, S, me)
BY DEF TableInv, Keeps

(* One row changes, and stays a row.                                        *)
LEMMA RowChanges ==
  ASSUME NEW R \in Seq(Row), NEW i \in DOMAIN R, NEW r \in Row, NEW S, S = [R EXCEPT ![i] = r]
  PROVE  /\ S \in Seq(Row) /\ DOMAIN S = DOMAIN R
         /\ S[i] = r /\ \A j \in DOMAIN R \ {i} : S[j] = R[j]
OBVIOUS

(* A row is added whose context no other has.                               *)
LEMMA RowAdded ==
  ASSUME NEW R, NEW r \in Row, TableInv(R), \A i \in DOMAIN R : R[i].context # r.context,
         r.context[1] # "default" => (r.scratch <=> r.context[2] # 0)
  PROVE  /\ TableInv(Append(R, r)) /\ \A me : Keeps(R, Append(R, r), me)
         /\ DOMAIN Append(R, r) = 1..(Len(R) + 1) /\ Append(R, r)[Len(R) + 1] = r
         /\ \A i \in DOMAIN R : i \in DOMAIN Append(R, r) /\ Append(R, r)[i] = R[i]
<1> DEFINE S == Append(R, r)
<1>1. /\ S \in Seq(Row) /\ DOMAIN S = 1..(Len(R) + 1) /\ DOMAIN R = 1..Len(R)
      /\ S[Len(R) + 1] = r /\ \A i \in DOMAIN R : S[i] = R[i]
  BY DEF TableInv
<1>2. \A i \in DOMAIN S : i \in DOMAIN R \/ i = Len(R) + 1
  BY <1>1
<1>3. \A i, j \in DOMAIN S : S[i].context = S[j].context => i = j
  BY <1>1, <1>2 DEF TableInv
<1>4. \A i \in DOMAIN S : S[i].context[1] # "default" => (S[i].scratch <=> S[i].context[2] # 0)
  BY <1>1, <1>2 DEF TableInv
<1>5. TableInv(S)
  BY <1>1, <1>3, <1>4 DEF TableInv
<1>6. Len(R) \in Nat
  BY DEF TableInv
<1>7. \A i \in DOMAIN R : i \in DOMAIN S
  BY <1>1, <1>6
<1>8. \A me : Keeps(R, S, me)
  BY <1>1, <1>7 DEF Keeps
<1> QED BY <1>1, <1>5, <1>7, <1>8

-----------------------------------------------------------------------------
(* Messages.                                                                *)

(* Messages stay about builds there are while no row goes,                  *)
LEMMA MessagesKept ==
  ASSUME MessagesInv, DOMAIN rows \subseteq DOMAIN rows', UNCHANGED <<queue, bus>>
  PROVE  MessagesInv'
BY DEF MessagesInv, Range

(* when a build's message is queued, as a transition does,                  *)
LEMMA MessageQueued ==
  ASSUME MessagesInv, TableInv(rows), NEW i \in DOMAIN rows, NEW s \in State,
         Push(i, s), UNCHANGED <<rows, bus>>
  PROVE  MessagesInv' /\ queue' # <<>>
<1>1. <<i, s>> \in Message
  BY DEF Message, TableInv
<1>2. queue' \in Seq(Message) /\ queue' # <<>> /\ DOMAIN queue' = 1..(Len(queue) + 1)
      /\ queue'[Len(queue) + 1] = <<i, s>> /\ \A k \in DOMAIN queue : queue'[k] = queue[k]
      /\ DOMAIN queue = 1..Len(queue)
  BY <1>1 DEF Push, MessagesInv
<1>3. \A k \in DOMAIN queue' : k \in DOMAIN queue \/ k = Len(queue) + 1
  BY <1>2 DEF MessagesInv
<1>4. \A m \in Range(queue') : m \in Range(queue) \/ m = <<i, s>>
  BY <1>2, <1>3 DEF Range
<1> QED BY <1>2, <1>4 DEF MessagesInv

(* when the first is taken from the queue,                                  *)
LEMMA MessageTaken ==
  ASSUME MessagesInv, queue # <<>>
  PROVE  /\ Head(queue) \in Message /\ Head(queue)[1] \in DOMAIN rows
         /\ Tail(queue) \in Seq(Message) /\ Range(Tail(queue)) \subseteq Range(queue)
<1>1. queue \in Seq(Message) /\ Head(queue) = queue[1] /\ 1 \in DOMAIN queue
      /\ Tail(queue) \in Seq(Message) /\ Len(queue) \in Nat \ {0}
      /\ DOMAIN queue = 1..Len(queue) /\ DOMAIN Tail(queue) = 1..(Len(queue) - 1)
      /\ \A k \in DOMAIN Tail(queue) : Tail(queue)[k] = queue[k + 1]
  BY DEF MessagesInv
<1>2. \A k \in DOMAIN Tail(queue) : k + 1 \in DOMAIN queue
  BY <1>1
<1> QED BY <1>1, <1>2 DEF MessagesInv, Range

(* and when a message is published.                                         *)
LEMMA MessageSent ==
  ASSUME MessagesInv, NEW m \in Message, m[1] \in DOMAIN rows, Publish(m), UNCHANGED rows,
         queue' \in Seq(Message), Range(queue') \subseteq Range(queue)
  PROVE  MessagesInv'
BY DEF MessagesInv, Publish

(* The step of a thread leaves no message behind if it is going to look at  *)
(* the queue itself, or was not before while there was a message.           *)
LEMMA SentStep ==
  ASSUME SentInv, ThreadsInv, NEW p \in Thread, NEW me \in ThreadState,
         thread' = [thread EXCEPT ![p] = me], UNCHANGED faults,
         queue' # <<>> => Sends(me) \/ (queue # <<>> /\ ~Sends(thread[p]))
  PROVE  SentInv'
<1>1. thread'[p] = me /\ \A q \in Thread \ {p} : thread'[q] = thread[q]
  BY DEF ThreadsInv
<1> QED BY <1>1 DEF SentInv

(* After a fault nothing is promised.                                       *)
LEMMA SentFault == ASSUME SentInv, faults' = faults + 1 PROVE SentInv'
BY DEF SentInv

-----------------------------------------------------------------------------
(* The hook after a commit, and the ends of a request.                      *)

(* What holds of each thread.                                               *)
LEMMA Facts ==
  ASSUME Inv, NEW p \in Thread
  PROVE  thread[p] \in ThreadState /\ ThreadInv(thread[p], rows) /\ rows \in Seq(Row)
BY DEF Inv, ThreadsInv, TableInv

(* Where a step leaves the table alone, ThreadStep asks less.               *)
LEMMA OnlyThread ==
  ASSUME ThreadsInv, UNCHANGED rows, NEW p \in Thread, NEW me \in ThreadState,
         thread' = [thread EXCEPT ![p] = me], ThreadInv(me, rows),
         Phase(me) = "context" => \A q \in Thread \ {p} : Phase(thread[q]) # "context"
  PROVE  ThreadsInv'
<1>1. \A q \in Thread : Keeps(rows, rows', thread[q])
  BY UnchangedKeeps
<1> QED BY <1>1, ThreadStep

(* Only the place of the thread in the hook changes.                        *)
LEMMA SamePhase ==
  ASSUME NEW me \in ThreadState, NEW R, NEW pc \in Pc, ThreadInv(me, R),
         Phase([me EXCEPT !.pc = pc]) = Phase(me), me.pc \in {"flush", "get"}, pc # "idle"
  PROVE  ThreadInv([me EXCEPT !.pc = pc], R) /\ [me EXCEPT !.pc = pc] \in ThreadState
<1> DEFINE new == [me EXCEPT !.pc = pc]
<1>1. /\ new \in ThreadState /\ Phase(new) = Phase(me) /\ new.req = me.req /\ new.ids = me.ids
      /\ new.todo = me.todo /\ new.next = me.next /\ new.answer = me.answer /\ new.id = me.id
      /\ new.context = me.context /\ new.pc = pc
  BY DEF ThreadState
<1>2. InOrder(me) => InOrder(new)
  BY <1>1 DEF InOrder, Done, Ahead
<1>3. OwnIds(me, R) => OwnIds(new, R)
  BY <1>1 DEF OwnIds
<1>4. OwnRow(me, R) => OwnRow(new, R)
  BY <1>1 DEF OwnRow, Asked
<1>5. new.pc # "restart"
  BY <1>1 DEF ThreadInv, Phase
<1> QED BY <1>1, <1>2, <1>3, <1>4, <1>5 DEF ThreadInv

(* Flush: the hook looks at the queue, or is done.                          *)
LEMMA FlushInv == ASSUME Inv, NEW p \in Thread, Flush(p) PROVE Inv'
<1> DEFINE me == thread[p]
           pc == IF Queued THEN "get" ELSE me.next
           new == [me EXCEPT !.pc = pc]
<1>1. me.pc = "flush" /\ me.next \in {"submit", "context", "notify", "answer"}
      /\ me \in ThreadState /\ ThreadInv(me, rows)
  BY Facts DEF Flush, ThreadInv
<1>2. thread' = [thread EXCEPT ![p] = new] /\ UNCHANGED <<rows, queue, bus, faults>>
  BY DEF Flush, Goto, Counted
<1>3. pc \in Pc /\ pc # "idle" /\ Phase(new) = Phase(me)
  BY <1>1 DEF Pc, Phase, ThreadState
<1>4. new \in ThreadState /\ ThreadInv(new, rows)
  BY <1>1, <1>3, SamePhase
<1>5. ThreadsInv'
  BY <1>2, <1>3, <1>4, OnlyThread DEF Inv, ThreadsInv
<1>6. SentInv'
  BY <1>2, <1>4, SentStep, <1>1 DEF Inv, Sends, Queued, ThreadState
<1> QED BY <1>2, <1>5, <1>6, MessagesKept DEF Inv

(* Get: the hook publishes the first message.                               *)
LEMMA GetInv == ASSUME Inv, NEW p \in Thread, Get(p) PROVE Inv'
<1> DEFINE me == thread[p]
           new == [me EXCEPT !.pc = "flush"]
<1>1. me.pc = "get" /\ me \in ThreadState /\ ThreadInv(me, rows) /\ queue # <<>>
  BY Facts DEF Get
<1>2. thread' = [thread EXCEPT ![p] = new] /\ UNCHANGED <<rows, faults>>
      /\ queue' = Tail(queue) /\ Publish(Head(queue))
  BY DEF Get, Goto, Counted
<1>3. "flush" \in Pc /\ Phase(new) = Phase(me)
  BY <1>1 DEF Pc, Phase, ThreadState
<1>4. new \in ThreadState /\ ThreadInv(new, rows)
  BY <1>1, <1>3, SamePhase
<1>5. ThreadsInv'
  BY <1>2, <1>3, <1>4, OnlyThread DEF Inv, ThreadsInv
<1>6. SentInv'
  BY <1>2, <1>4, SentStep, <1>1 DEF Inv, Sends, ThreadState
<1>7. MessagesInv'
  BY <1>1, <1>2, MessageTaken, MessageSent DEF Inv
<1> QED BY <1>2, <1>5, <1>6, <1>7 DEF Inv

(* A request may be answered as soon as its ids are in order.               *)
LEMMA AnswerInv ==
  ASSUME Inv, NEW p \in Thread, NEW a \in Result, Answer(p, a), UNCHANGED rows,
         thread[p].req.kind = "submit" /\ a \in {"created", "conflict"}
           => Len(thread[p].ids) = Len(thread[p].req.contexts)
  PROVE  /\ ThreadsInv'
         /\ \E new \in ThreadState : thread' = [thread EXCEPT ![p] = new]
<1> DEFINE me == thread[p]
           new == [Idle EXCEPT !.req = me.req, !.ids = me.ids, !.answer = a]
<1>1. me \in ThreadState /\ ThreadInv(me, rows)
  BY Facts
<1>2. /\ new \in ThreadState /\ new.pc = "idle" /\ Phase(new) = "idle" /\ new.req = me.req
      /\ new.ids = me.ids /\ new.answer = a
  BY <1>1, IdleType DEF ThreadState, Idle, Phase
<1>3. me.req.kind = "submit" => InOrder(new) /\ OwnIds(new, rows) /\ OwnRow(new, rows)
  BY <1>1, <1>2 DEF ThreadInv, InOrder, OwnIds, OwnRow, Making
<1>4. ThreadInv(new, rows)
  BY <1>1, <1>2, <1>3 DEF ThreadInv, Making
<1>5. thread' = [thread EXCEPT ![p] = new]
  BY DEF Answer
<1> QED BY <1>2, <1>4, <1>5, OnlyThread DEF Inv

(* Finish: every modulemd has been dealt with.                              *)
LEMMA FinishInv == ASSUME Inv, NEW p \in Thread, Finish(p) PROVE Inv'
<1> DEFINE me == thread[p]
           a  == IF Range(me.ids) \subseteq me.skipped THEN "conflict" ELSE "created"
<1>1. me \in ThreadState /\ ThreadInv(me, rows) /\ me.pc = "submit" /\ me.todo = <<>>
      /\ Answer(p, a) /\ UNCHANGED <<rows, queue, bus, faults>>
  BY Facts DEF Finish, Counted
<1>2. me.req.kind = "submit" /\ Len(me.ids) = Len(me.req.contexts)
  <2>1. Phase(me) = "submit" /\ Done(me) = Len(me.ids)
    BY <1>1 DEF Phase, Done, Ahead, Making, ThreadState
  <2>2. me.req.kind = "submit" /\ InOrder(me)
    BY <1>1, <2>1 DEF ThreadInv
  <2>3. After(me.req.contexts, Len(me.ids), <<>>) /\ Len(me.ids) \in Nat
    BY <1>1, <2>1, <2>2 DEF InOrder, ThreadState
  <2> QED BY <2>2, <2>3 DEF After
<1>3. a \in Result
  BY DEF Result
<1>4. ThreadsInv' /\ \E new \in ThreadState : thread' = [thread EXCEPT ![p] = new]
  BY <1>1, <1>2, <1>3, AnswerInv
<1>5. SentInv'
  BY <1>1, <1>4, SentStep DEF Inv, Sends
<1> QED BY <1>1, <1>4, <1>5, MessagesKept DEF Inv

(* Answered: a cancellation or an import is done.                           *)
LEMMA AnsweredInv == ASSUME Inv, NEW p \in Thread, Answered(p) PROVE Inv'
<1>1. thread[p].pc = "answer" /\ Answer(p, "done") /\ UNCHANGED <<rows, queue, bus, faults>>
  BY DEF Answered, Counted
<1>2. ThreadsInv' /\ \E new \in ThreadState : thread' = [thread EXCEPT ![p] = new]
  BY <1>1, AnswerInv DEF Result
<1>3. SentInv'
  BY <1>1, <1>2, SentStep DEF Inv, Sends
<1> QED BY <1>1, <1>2, <1>3, MessagesKept DEF Inv

-----------------------------------------------------------------------------
(* Requests.                                                                *)

(* Receive: a request comes in, and may be refused at once.                 *)
LEMMA ReceiveInv ==
  ASSUME Inv, NEW p \in Thread, NEW q \in Requests[p], Receive(p, q) PROVE Inv'
<1> DEFINE new == [Idle EXCEPT !.req = q, !.answer = IF Refused(q) THEN "refused" ELSE None,
                              !.pc = IF Refused(q) THEN "idle" ELSE q.kind, !.todo = q.contexts]
<1>1. thread' = [thread EXCEPT ![p] = new] /\ UNCHANGED <<rows, queue, bus, faults>>
      /\ thread[p].pc = "idle"
  BY DEF Receive
<1>2. q \in Request /\ q.contexts \in Seq(Hash) /\ q.kind \in {"submit", "cancel", "import"}
  BY RequestType
<1>3. /\ new \in ThreadState /\ new.req = q /\ new.ids = <<>> /\ new.todo = q.contexts
      /\ new.pc = (IF Refused(q) THEN "idle" ELSE q.kind) /\ Phase(new) = new.pc
      /\ new.answer = (IF Refused(q) THEN "refused" ELSE None)
  BY <1>2, IdleType DEF ThreadState, Idle, Pc, Result, Phase
<1>4. q.kind = "submit" => InOrder(new) /\ OwnIds(new, rows) /\ OwnRow(new, rows)
  <2> SUFFICES ASSUME q.kind = "submit"
               PROVE  InOrder(new) /\ OwnIds(new, rows) /\ OwnRow(new, rows)
    OBVIOUS
  <2> HIDE DEF new
  <2>1. /\ Len(new.ids) = 0 /\ Phase(new) \in {"idle", "submit"}
        /\ new.answer \notin {"created", "conflict"}
    BY <1>3 DEF None
  <2>2. Ahead(new) = 0 /\ Phase(new) \notin Making
    BY <2>1 DEF Ahead, Making
  <2>3. After(new.req.contexts, Done(new), new.todo)
    BY <1>2, <1>3, <2>1, <2>2, AfterNone DEF Done
  <2>4. 0 <= Len(new.req.contexts)
    BY <1>2, <1>3
  <2>5. InOrder(new)
    BY <2>1, <2>3, <2>4 DEF InOrder
  <2> QED BY <2>1, <2>2, <2>5 DEF OwnIds, OwnRow, Making
<1>5. q.kind = "cancel" /\ ~Refused(q) => q.row \in DOMAIN rows
  BY DEF Refused
<1>6. ThreadInv(new, rows)
  <2> HIDE DEF new
  <2> QED BY <1>2, <1>3, <1>4, <1>5 DEF ThreadInv, Making
<1>7. ThreadsInv'
  BY <1>1, <1>2, <1>3, <1>6, OnlyThread DEF Inv
<1>8. SentInv'
  BY <1>1, <1>3, SentStep DEF Inv, Sends
<1> QED BY <1>1, <1>7, <1>8, MessagesKept DEF Inv

(* A thread takes up the next modulemd, and makes or restarts its build.    *)
LEMMA TakesUp ==
  ASSUME NEW me \in ThreadState, NEW R, ThreadInv(me, R), Phase(me) = "submit", me.todo # <<>>
  PROVE  /\ me.req.kind = "submit" /\ Head(me.todo) \in Hash /\ Head(me.todo) = Asked(me)
         /\ After(me.req.contexts, Len(me.ids) + 1, Tail(me.todo))
         /\ Len(me.ids) + 1 <= Len(me.req.contexts)
<1>1. me.req.kind = "submit" /\ InOrder(me)
  BY DEF ThreadInv
<1>2. me.req.contexts \in Seq(Hash) /\ Len(me.ids) \in Nat /\ me.todo \in Seq(Hash)
  BY <1>1, RequestOf DEF ThreadState
<1>3. After(me.req.contexts, Len(me.ids), me.todo)
  <2>1. Done(me) = Len(me.ids)
    BY <1>2 DEF Done, Ahead, Making
  <2> QED BY <1>1, <2>1 DEF InOrder
<1> QED BY <1>1, <1>2, <1>3, AfterTail DEF Asked

(* It has ids for all those before that one.                                *)
LEMMA MakesBuild ==
  ASSUME NEW me \in ThreadState, NEW new \in ThreadState, NEW R,
         ThreadInv(me, R), Phase(me) = "submit", me.todo # <<>>,
         new.req = me.req, new.todo = Tail(me.todo), new.answer = me.answer, me.answer = None,
         Phase(new) \in Making, new.ids = me.ids
  PROVE  InOrder(new) /\ OwnIds(new, R)
<1>1. me.req.kind = "submit" /\ InOrder(me) /\ OwnIds(me, R)
  BY TakesUp DEF ThreadInv
<1>2. Done(new) = Len(me.ids) + 1 /\ Len(new.ids) <= Len(new.req.contexts)
  BY <1>1 DEF Done, Ahead, InOrder
<1> QED BY <1>1, <1>2, TakesUp DEF InOrder, OwnIds, None

(* The build of a modulemd is added to the answer.                          *)
LEMMA AddsId ==
  ASSUME NEW me \in ThreadState, NEW new \in ThreadState, NEW R, NEW i \in Nat,
         OwnIds(me, R), new.req = me.req, me.req.kind = "submit",
         After(me.req.contexts, Len(me.ids) + 1, new.todo),
         Len(me.ids) + 1 <= Len(me.req.contexts), new.answer = None,
         Phase(new) = "submit", new.ids = Append(me.ids, i), IsFor(R, i, Asked(me), me.req.scratch)
  PROVE  InOrder(new) /\ OwnIds(new, R)
<1> DEFINE n == Len(me.ids)
<1>1. /\ Len(new.ids) = n + 1 /\ new.ids[n + 1] = i /\ n \in Nat
      /\ \A k \in 1..n : new.ids[k] = me.ids[k]
  BY DEF ThreadState
<1>2. Done(new) = n + 1
  BY <1>1 DEF Done, Ahead, Making
<1>3. InOrder(new)
  BY <1>1, <1>2 DEF InOrder, None
<1>4. \A k \in 1..Len(new.ids) : k \in 1..n \/ k = n + 1
  BY <1>1
<1>5. OwnIds(new, R)
  BY <1>1, <1>4 DEF OwnIds, Asked
<1> QED BY <1>3, <1>5

(* Scratch builds are numbered from one on.                                 *)
LEMMA SuffixNat == ASSUME NEW c, TableInv(rows) PROVE Suffix(c) \in Nat \ {0}
<1> DEFINE S == {i \in DOMAIN rows : rows[i].scratch /\ rows[i].context[1] = c}
<1>1. S \subseteq 1..Len(rows) /\ Len(rows) \in Nat
  BY DEF TableInv
<1>2. IsFiniteSet(S)
  BY <1>1, FS_Interval, FS_Subset
<1>3. Cardinality(S) \in Nat
  BY <1>2, FS_CardinalityType
<1> QED BY <1>3 DEF Suffix

-----------------------------------------------------------------------------
(* The modulemds of a submission.                                           *)

(* A step that only moves a thread that looked at no message.               *)
LEMMA QuietStep ==
  ASSUME Inv, NEW p \in Thread, NEW new \in ThreadState,
         thread' = [thread EXCEPT ![p] = new], UNCHANGED <<rows, queue, bus, faults>>,
         ThreadInv(new, rows), Phase(new) # "context", ~Sends(thread[p])
  PROVE  Inv'
<1>1. ThreadsInv'
  BY OnlyThread DEF Inv
<1>2. SentInv'
  BY SentStep DEF Inv
<1> QED BY <1>1, <1>2, MessagesKept DEF Inv

(* A request that is refused half way is answered with no ids.              *)
LEMMA InvalidAnswer ==
  ASSUME NEW me \in ThreadState, NEW R, ThreadInv(me, R),
         NEW new, new = [Idle EXCEPT !.req = me.req, !.answer = "invalid"]
  PROVE  new \in ThreadState /\ ThreadInv(new, R) /\ Phase(new) = "idle"
<1>1. /\ new \in ThreadState /\ new.pc = "idle" /\ Phase(new) = "idle" /\ new.req = me.req
      /\ new.ids = <<>> /\ new.answer = "invalid"
  BY IdleType DEF ThreadState, Idle, Phase, Result
<1>2. me.req.kind = "submit" => 0 <= Len(me.req.contexts)
  BY RequestOf
<1>3. Len(new.ids) = 0
  BY <1>1
<1>4. me.req.kind = "submit" => InOrder(new) /\ OwnIds(new, R) /\ OwnRow(new, R)
  BY <1>1, <1>2, <1>3 DEF InOrder, OwnIds, OwnRow, Making
<1> QED BY <1>1, <1>4 DEF ThreadInv, Making

(* What is left after the next one are contexts too.                        *)
LEMMA TailType ==
  ASSUME NEW me \in ThreadState, me.todo # <<>> PROVE Tail(me.todo) \in Seq(Hash)
<1>1. me.todo \in Seq(Hash)
  BY DEF ThreadState
<1> QED BY <1>1

(* A modulemd whose build is found and has not failed.                      *)
LEMMA Skips ==
  ASSUME NEW me \in ThreadState, NEW R, ThreadInv(me, R), me.pc = "submit", me.todo # <<>>,
         NEW i \in Nat, IsFor(R, i, Head(me.todo), me.req.scratch),
         NEW new, new = [me EXCEPT !.pc = "submit", !.id = i, !.todo = Tail(@),
                                   !.ids = Append(@, i), !.skipped = @ \cup {i}]
  PROVE  new \in ThreadState /\ ThreadInv(new, R) /\ Phase(new) = "submit"
<1>1. /\ new \in ThreadState /\ new.pc = "submit" /\ Phase(new) = "submit" /\ new.req = me.req
      /\ new.todo = Tail(me.todo) /\ new.ids = Append(me.ids, i) /\ new.answer = me.answer
  <2>1. Append(me.ids, i) \in Seq(Nat) /\ me.skipped \cup {i} \in SUBSET Nat
    BY DEF ThreadState
  <2> QED BY <2>1, TailType DEF ThreadState, Phase, Pc
<1>2. me.answer = None /\ Phase(me) = "submit"
  BY DEF ThreadInv, Phase
<1>3. me.req.kind = "submit" /\ OwnIds(me, R)
  BY <1>2, TakesUp DEF ThreadInv
<1>4. InOrder(new) /\ OwnIds(new, R)
  <2>1. /\ After(me.req.contexts, Len(me.ids) + 1, new.todo)
        /\ Len(me.ids) + 1 <= Len(me.req.contexts) /\ IsFor(R, i, Asked(me), me.req.scratch)
    BY <1>1, <1>2, TakesUp
  <2> QED BY <1>1, <1>2, <1>3, <2>1, AddsId
<1>5. OwnRow(new, R)
  BY <1>1 DEF OwnRow
<1> QED BY <1>1, <1>2, <1>3, <1>4, <1>5 DEF ThreadInv

(* One whose failed build is restarted.                                     *)
LEMMA Resumes ==
  ASSUME NEW me \in ThreadState, NEW R, ThreadInv(me, R), me.pc = "submit", me.todo # <<>>,
         NEW i \in Nat, IsFor(R, i, Head(me.todo), me.req.scratch),
         NEW new, new = [me EXCEPT !.pc = "resume", !.id = i, !.todo = Tail(@)]
  PROVE  new \in ThreadState /\ ThreadInv(new, R) /\ Phase(new) = "resume"
<1>1. /\ new \in ThreadState /\ new.pc = "resume" /\ Phase(new) = "resume" /\ new.req = me.req
      /\ new.todo = Tail(me.todo) /\ new.ids = me.ids /\ new.answer = me.answer /\ new.id = i
  BY TailType DEF ThreadState, Phase, Pc
<1>2. me.answer = None /\ Phase(me) = "submit" /\ Phase(new) \in Making
  BY <1>1 DEF ThreadInv, Phase, Making
<1>3. me.req.kind = "submit" /\ Head(me.todo) = Asked(me)
  BY <1>2, TakesUp
<1>4. InOrder(new) /\ OwnIds(new, R)
  BY <1>1, <1>2, <1>3, MakesBuild
<1>5. OwnRow(new, R)
  BY <1>1, <1>3 DEF OwnRow, Asked
<1> QED BY <1>1, <1>2, <1>3, <1>4, <1>5 DEF ThreadInv

(* One that a new build is made for.                                        *)
LEMMA Makes ==
  ASSUME NEW me \in ThreadState, NEW R, ThreadInv(me, R), me.pc = "submit", me.todo # <<>>,
         NEW k \in Nat, me.req.scratch <=> k # 0,
         NEW new, new = [me EXCEPT !.pc = "create", !.id = 0, !.todo = Tail(@),
                                   !.context = <<Head(me.todo), k>>]
  PROVE  new \in ThreadState /\ ThreadInv(new, R) /\ Phase(new) = "create"
<1>1. me.answer = None /\ Phase(me) = "submit"
  BY DEF ThreadInv, Phase
<1>2. me.req.kind = "submit" /\ Head(me.todo) = Asked(me) /\ Head(me.todo) \in Hash
  BY <1>1, TakesUp
<1>3. <<Head(me.todo), k>> \in Context
  BY <1>2 DEF Context
<1>4. /\ new \in ThreadState /\ new.pc = "create" /\ Phase(new) = "create" /\ new.req = me.req
      /\ new.todo = Tail(me.todo) /\ new.ids = me.ids /\ new.answer = me.answer
      /\ new.context = <<Head(me.todo), k>>
  BY <1>3, TailType DEF ThreadState, Phase, Pc
<1>5. Phase(new) \in Making
  BY <1>4 DEF Making
<1>6. InOrder(new) /\ OwnIds(new, R)
  BY <1>1, <1>2, <1>4, <1>5, MakesBuild
<1>7. OwnRow(new, R)
  BY <1>2, <1>4 DEF OwnRow, Asked
<1> QED BY <1>1, <1>2, <1>4, <1>6, <1>7 DEF ThreadInv

(* Check: skip, resume or make the build of the next modulemd.              *)
LEMMA CheckInv == ASSUME Inv, NEW p \in Thread, Check(p) PROVE Inv'
<1> DEFINE me == thread[p]
           c  == Head(me.todo)
           found == IF me.req.scratch THEN {} ELSE RowWith(<<c, 0>>)
<1>1. /\ me \in ThreadState /\ ThreadInv(me, rows) /\ me.pc = "submit" /\ me.todo # <<>>
      /\ UNCHANGED <<rows, queue, bus, faults>> /\ Phase(me) = "submit" /\ ~Sends(me)
  BY Facts DEF Check, Counted, Phase, Sends
<1>2. me.req.kind = "submit" /\ c \in Hash /\ me.req.scratch \in BOOLEAN
  BY <1>1, TakesUp, RequestOf
<1>3. CASE found # {}
  <2> DEFINE i == CHOOSE i \in found : TRUE
  <2>1. i \in DOMAIN rows /\ rows[i].context = <<c, 0>> /\ me.req.scratch = FALSE
    BY <1>2, <1>3 DEF RowWith
  <2>2. IsFor(rows, i, c, me.req.scratch) /\ i \in Nat
    <3>1. TableInv(rows)
      BY DEF Inv
    <3>2. rows[i] \in Row /\ i \in Nat
      BY <2>1, <3>1 DEF TableInv
    <3>3. c # "default" /\ rows[i].scratch \in BOOLEAN
      BY <1>2, <3>2 DEF Hash, Row
    <3>4. rows[i].context[1] = c /\ rows[i].context[2] = 0
      BY <2>1
    <3>5. rows[i].context[1] # "default" => (rows[i].scratch <=> rows[i].context[2] # 0)
      BY <2>1, <3>1 DEF TableInv
    <3> QED BY <2>1, <3>2, <3>3, <3>4, <3>5 DEF IsFor
  <2>3. thread' = [thread EXCEPT ![p] =
           IF rows[i].state # "failed"
           THEN [me EXCEPT !.pc = "submit", !.id = i, !.todo = Tail(@),
                           !.ids = Append(@, i), !.skipped = @ \cup {i}]
           ELSE IF Forbidden(me.req, i) THEN [Idle EXCEPT !.req = me.req, !.answer = "invalid"]
           ELSE [me EXCEPT !.pc = "resume", !.id = i, !.todo = Tail(@)]]
    BY <1>3 DEF Check
  <2> HIDE DEF i, c
  <2>4. ASSUME NEW new, thread' = [thread EXCEPT ![p] = new], new \in ThreadState,
               ThreadInv(new, rows), Phase(new) # "context"
        PROVE  Inv'
    BY <1>1, <2>4, QuietStep
  <2>5. CASE rows[i].state # "failed"
    BY <1>1, <2>2, <2>3, <2>4, <2>5, Skips DEF c
  <2>6. CASE rows[i].state = "failed" /\ Forbidden(me.req, i)
    BY <1>1, <2>3, <2>4, <2>6, InvalidAnswer
  <2>7. CASE rows[i].state = "failed" /\ ~Forbidden(me.req, i)
    BY <1>1, <2>2, <2>3, <2>4, <2>7, Resumes DEF c
  <2> QED BY <2>5, <2>6, <2>7
<1>4. CASE found = {} /\ ~me.req.scratch /\ me.req.branch = "private"
  <2>1. Answer(p, "invalid")
    BY <1>4 DEF Check
  <2>2. ThreadsInv' /\ \E new \in ThreadState : thread' = [thread EXCEPT ![p] = new]
    BY <1>1, <2>1, AnswerInv DEF Result
  <2>3. SentInv'
    BY <1>1, <2>2, SentStep DEF Inv
  <2> QED BY <1>1, <2>2, <2>3, MessagesKept DEF Inv
<1>5. CASE found = {} /\ ~(~me.req.scratch /\ me.req.branch = "private")
  <2> DEFINE k == IF me.req.scratch THEN Suffix(c) ELSE 0
             new == [me EXCEPT !.pc = "create", !.id = 0, !.todo = Tail(@), !.context = <<c, k>>]
  <2>1. k \in Nat /\ (me.req.scratch <=> k # 0)
    BY SuffixNat, <1>2 DEF Inv
  <2>2. thread' = [thread EXCEPT ![p] = new]
    BY <1>5 DEF Check
  <2>3. new \in ThreadState /\ ThreadInv(new, rows) /\ Phase(new) = "create"
    BY <1>1, <2>1, Makes
  <2> QED BY <1>1, <2>2, <2>3, QuietStep
<1> QED BY <1>3, <1>4, <1>5

-----------------------------------------------------------------------------
(* The steps that make a build or restart it.                               *)

(* What a thread has is still in order while it works on a build.           *)
LEMMA StillMaking ==
  ASSUME NEW me \in ThreadState, NEW new \in ThreadState, NEW R, NEW S,
         InOrder(me), OwnIds(me, R), me.req.kind = "submit",
         \A i : \A c \in Hash : \A s : IsFor(R, i, c, s) => IsFor(S, i, c, s),
         Phase(me) \in Making, Phase(new) \in Making,
         new.req = me.req, new.todo = me.todo, new.ids = me.ids, new.answer = me.answer
  PROVE  InOrder(new) /\ OwnIds(new, S)
<1>1. Done(new) = Done(me)
  BY DEF Done, Ahead
<1>2. InOrder(new)
  BY <1>1 DEF InOrder
<1>3. me.req.contexts \in Seq(Hash) /\ Len(me.ids) <= Len(me.req.contexts) /\ Len(me.ids) \in Nat
  BY RequestOf DEF InOrder, ThreadState
<1>4. \A k \in 1..Len(me.ids) : me.req.contexts[k] \in Hash
  BY <1>3
<1> QED BY <1>2, <1>4 DEF OwnIds

(* A thread that works on a build for its next modulemd.                    *)
LEMMA WorksOn ==
  ASSUME NEW me \in ThreadState, NEW R, ThreadInv(me, R), Phase(me) \in Making
  PROVE  /\ me.req.kind = "submit" /\ InOrder(me) /\ OwnIds(me, R) /\ OwnRow(me, R)
         /\ me.req.contexts \in Seq(Hash) /\ me.req.scratch \in BOOLEAN
         /\ After(me.req.contexts, Len(me.ids) + 1, me.todo)
         /\ Len(me.ids) + 1 <= Len(me.req.contexts) /\ Asked(me) \in Hash
<1>1. me.req.kind = "submit" /\ InOrder(me) /\ OwnIds(me, R) /\ OwnRow(me, R)
  BY DEF ThreadInv
<1>2. /\ me.req.contexts \in Seq(Hash) /\ me.req.scratch \in BOOLEAN
      /\ Len(me.ids) \in Nat /\ me.todo \in Seq(Hash)
  BY <1>1, RequestOf DEF ThreadState
<1>3. After(me.req.contexts, Len(me.ids) + 1, me.todo)
  <2>1. Done(me) = Len(me.ids) + 1
    BY DEF Done, Ahead
  <2> QED BY <1>1, <2>1 DEF InOrder
<1>4. Len(me.ids) + 1 <= Len(me.req.contexts)
  BY <1>2, <1>3, AfterLen
<1>5. Len(me.ids) + 1 \in 1..Len(me.req.contexts)
  BY <1>2, <1>4
<1>6. Asked(me) \in Hash
  BY <1>2, <1>5 DEF Asked
<1> QED BY <1>1, <1>2, <1>3, <1>4, <1>6

(* A build that is announced is added to the answer.                        *)
LEMMA Announced ==
  ASSUME NEW me \in ThreadState, NEW new \in ThreadState, NEW R, ThreadInv(me, R),
         Phase(me) \in {"restart", "notify"}, Phase(new) = "submit", new.pc \in {"submit", "flush"},
         new.req = me.req, new.todo = me.todo, new.ids = Append(me.ids, me.id),
         new.answer = None
  PROVE  ThreadInv(new, R)
<1>1. Phase(me) \in Making
  BY DEF Making
<1>2. IsFor(R, me.id, Asked(me), me.req.scratch) /\ me.req.kind = "submit" /\ me.id \in Nat
  BY <1>1, WorksOn DEF OwnRow, ThreadState
<1>3. InOrder(new) /\ OwnIds(new, R)
  BY <1>1, <1>2, WorksOn, AddsId
<1>4. OwnRow(new, R)
  BY DEF OwnRow
<1> QED BY <1>2, <1>3, <1>4 DEF ThreadInv, Phase

(* Resume: the message of the restart is queued first.                      *)
LEMMA ResumeInv == ASSUME Inv, NEW p \in Thread, Resume(p) PROVE Inv'
<1> DEFINE me == thread[p]
           s  == ResumeState(me.id)
           new == [me EXCEPT !.pc = "restart", !.next = s]
<1>1. /\ me \in ThreadState /\ ThreadInv(me, rows) /\ me.pc = "resume" /\ Push(me.id, s)
      /\ thread' = [thread EXCEPT ![p] = new] /\ UNCHANGED <<rows, bus, faults>>
  <2>1. me \in ThreadState /\ ThreadInv(me, rows)
    BY Facts
  <2> QED BY <2>1 DEF Resume, Counted, ThreadState
<1>2. s \in Live /\ s \in State
  BY DEF ResumeState, Live, State
<1>3. /\ new \in ThreadState /\ new.pc = "restart" /\ new.next = s /\ Phase(new) = "restart"
      /\ new.req = me.req /\ new.ids = me.ids /\ new.todo = me.todo /\ new.answer = me.answer
      /\ new.id = me.id
  BY <1>1, <1>2 DEF ThreadState, Pc, Phase
<1>4. Phase(me) = "resume" /\ Phase(me) \in Making /\ Phase(new) \in Making /\ me.answer = None
  BY <1>1, <1>3 DEF Phase, Making, ThreadInv
<1> HIDE DEF new, s
<1>5. InOrder(new) /\ OwnIds(new, rows)
  BY <1>1, <1>3, <1>4, WorksOn, StillMaking
<1>6. me.id \in DOMAIN rows /\ OwnRow(new, rows) /\ me.req.kind = "submit"
  <2>1. IsFor(rows, me.id, Asked(me), me.req.scratch) /\ me.req.kind = "submit"
    BY <1>1, <1>4, WorksOn DEF OwnRow
  <2>2. Asked(new) = Asked(me)
    BY <1>3 DEF Asked
  <2> QED BY <1>3, <2>1, <2>2 DEF OwnRow, IsFor
<1>7. ThreadInv(new, rows)
  BY <1>2, <1>3, <1>4, <1>5, <1>6 DEF ThreadInv
<1>8. ThreadsInv'
  BY <1>1, <1>3, <1>7, OnlyThread DEF Inv
<1>9. SentInv'
  BY <1>1, <1>3, SentStep DEF Inv, Sends
<1> QED BY <1>1, <1>2, <1>6, <1>8, <1>9, MessageQueued DEF Inv

(* Restart: the failed row is overwritten.                                  *)
LEMMA RestartInv == ASSUME Inv, NEW p \in Thread, Restart(p) PROVE Inv'
<1> DEFINE me == thread[p]
           i  == me.id
           new == [me EXCEPT !.pc = "flush", !.next = "submit", !.ids = Append(@, i)]
           S  == [rows EXCEPT ![i].state = me.next, ![i].last = me.next, ![i].stopped = FALSE]
<1>1. /\ me \in ThreadState /\ ThreadInv(me, rows) /\ me.pc = "restart" /\ rows' = S
      /\ thread' = [thread EXCEPT ![p] = new] /\ UNCHANGED <<queue, bus, faults>>
  <2>1. me \in ThreadState /\ ThreadInv(me, rows)
    BY Facts
  <2> QED BY <2>1 DEF Restart, Counted, ThreadState
<1>2. Phase(me) = "restart" /\ Phase(me) \in Making /\ me.next \in State /\ me.answer = None
  BY <1>1 DEF Phase, Making, ThreadInv, State
<1>3. i \in DOMAIN rows
  BY <1>1, <1>2, WorksOn DEF OwnRow, IsFor
<1>4. /\ new \in ThreadState /\ new.pc = "flush" /\ Phase(new) = "submit" /\ new.req = me.req
      /\ new.todo = me.todo /\ new.ids = Append(me.ids, i) /\ new.answer = me.answer
  <2>1. Append(me.ids, i) \in Seq(Nat)
    BY <1>1 DEF ThreadState
  <2> QED BY <1>1, <2>1 DEF ThreadState, Pc, Phase
<1>5. S \in Seq(Row) /\ DOMAIN S = DOMAIN rows
      /\ \A j \in DOMAIN rows : S[j].context = rows[j].context /\ S[j].scratch = rows[j].scratch
  <2> DEFINE r == [rows[i] EXCEPT !.state = me.next, !.last = me.next, !.stopped = FALSE]
  <2>1. rows \in Seq(Row) /\ rows[i] \in Row
    BY <1>3 DEF Inv, TableInv
  <2>2. r \in Row /\ r.context = rows[i].context /\ r.scratch = rows[i].scratch
    BY <1>2, <2>1 DEF Row
  <2>3. S = [rows EXCEPT ![i] = r]
    BY <1>3, <2>1 DEF Row
  <2> QED BY <1>3, <2>1, <2>2, <2>3, RowChanges, SMTT(60)
<1> HIDE DEF new, S
<1>6. TableInv(rows') /\ \A m : Keeps(rows, rows', m)
  BY <1>1, <1>5, StatesChange DEF Inv
<1>7. ThreadInv(me, rows')
  BY <1>1, <1>6, ThreadStable
<1>8. ThreadInv(new, rows')
  BY <1>1, <1>2, <1>4, <1>7, Announced
<1>9. ThreadsInv'
  BY <1>1, <1>4, <1>6, <1>8, ThreadStep DEF Inv
<1>10. SentInv'
  BY <1>1, <1>4, SentStep DEF Inv, Sends
<1>11. MessagesInv'
  BY <1>1, <1>5, MessagesKept DEF Inv
<1> QED BY <1>6, <1>9, <1>10, <1>11 DEF Inv

(* Notify: the new build is announced, and added to the answer.             *)
LEMMA NotifyInv == ASSUME Inv, NEW p \in Thread, Notify(p) PROVE Inv'
<1> DEFINE me == thread[p]
           new == [me EXCEPT !.pc = "submit", !.ids = Append(@, me.id)]
           m  == <<me.id, "init">>
<1>1. /\ me \in ThreadState /\ ThreadInv(me, rows) /\ me.pc = "notify" /\ Publish(m)
      /\ thread' = [thread EXCEPT ![p] = new] /\ UNCHANGED <<rows, queue, faults>>
  <2>1. me \in ThreadState /\ ThreadInv(me, rows)
    BY Facts
  <2> QED BY <2>1 DEF Notify, Counted, ThreadState
<1>2. Phase(me) = "notify" /\ Phase(me) \in Making /\ me.answer = None
  BY <1>1 DEF Phase, Making, ThreadInv
<1>3. me.id \in DOMAIN rows
  BY <1>1, <1>2, WorksOn DEF OwnRow, IsFor
<1>4. /\ new \in ThreadState /\ new.pc = "submit" /\ Phase(new) = "submit" /\ new.req = me.req
      /\ new.todo = me.todo /\ new.ids = Append(me.ids, me.id) /\ new.answer = me.answer
  <2>1. Append(me.ids, me.id) \in Seq(Nat)
    BY <1>1 DEF ThreadState
  <2> QED BY <1>1, <2>1 DEF ThreadState, Pc, Phase
<1>5. m \in Message /\ m[1] = me.id
  BY <1>1 DEF Message, State, Live, ThreadState
<1> HIDE DEF new, m
<1>6. ThreadInv(new, rows)
  BY <1>1, <1>2, <1>4, Announced
<1>7. ThreadsInv'
  BY <1>1, <1>4, <1>6, OnlyThread DEF Inv
<1>8. SentInv'
  BY <1>1, <1>4, SentStep DEF Inv, Sends
<1>9. MessagesInv'
  BY <1>1, <1>3, <1>5, MessageSent DEF Inv, MessagesInv
<1> QED BY <1>1, <1>7, <1>8, <1>9 DEF Inv

(* A step that answers a request with an error.                             *)
LEMMA ErrorInv ==
  ASSUME Inv, NEW p \in Thread, NEW a \in {"error", "invalid"}, Answer(p, a),
         UNCHANGED <<rows, bus>>,
         \/ ~Sends(thread[p]) /\ UNCHANGED <<queue, faults>>
         \/ /\ faults' = faults + 1
            /\ queue' \in Seq(Message) /\ Range(queue') \subseteq Range(queue)
  PROVE  Inv'
<1>1. ThreadsInv' /\ \E new \in ThreadState : thread' = [thread EXCEPT ![p] = new]
  BY AnswerInv DEF Result
<1>2. SentInv'
  BY <1>1, SentStep, SentFault DEF Inv
<1>3. MessagesInv'
  BY DEF Inv, MessagesInv
<1> QED BY <1>1, <1>2, <1>3 DEF Inv

(* A new row is one a table may have.                                       *)
LEMMA NewRowType ==
  ASSUME NEW me \in ThreadState, me.req.kind \in {"submit", "import"}
  PROVE  /\ NewRow(me.req) \in Row /\ NewRow(me.req).context = Default
         /\ NewRow(me.req).scratch = me.req.scratch
<1>1. me.req.scratch \in BOOLEAN /\ me.req.strategy \in Strategy /\ Allowed.strategy \in Strategy
  BY RequestOf DEF Strategy
<1>2. Default \in Context
  BY DEF Default, Context
<1> QED BY <1>1, <1>2 DEF NewRow, Row, State, Live

(* Create: only one row at a time has the default context.                  *)
LEMMA CreateInv == ASSUME Inv, NEW p \in Thread, Create(p) PROVE Inv'
<1> DEFINE me == thread[p]
           r  == NewRow(me.req)
           S  == Append(rows, r)
           new == [me EXCEPT !.pc = "flush", !.id = Len(rows) + 1, !.next = "context"]
<1>1. /\ me \in ThreadState /\ ThreadInv(me, rows) /\ me.pc = "create"
      /\ UNCHANGED <<queue, bus, faults>> /\ ~Sends(me)
  BY Facts DEF Create, Counted, Sends
<1>2. CASE Taken(Default)
  BY <1>1, <1>2, ErrorInv DEF Create
<1>3. CASE ~Taken(Default)
  <2>1. rows' = S /\ thread' = [thread EXCEPT ![p] = new]
    BY <1>1, <1>3 DEF Create, ThreadState
  <2>2. Phase(me) = "create" /\ Phase(me) \in Making /\ me.answer = None
    BY <1>1 DEF Phase, Making, ThreadInv
  <2>3. me.req.kind = "submit" /\ OwnRow(me, rows) /\ InOrder(me) /\ OwnIds(me, rows)
    BY <1>1, <2>2, WorksOn
  <2>4. r \in Row /\ r.context = Default /\ r.scratch = me.req.scratch
    BY <1>1, <2>3, NewRowType
  <2>5. \A i \in DOMAIN rows : rows[i].context # Default
    BY <1>3 DEF Taken, RowWith
  <2>6. /\ TableInv(S) /\ \A m : Keeps(rows, S, m)
        /\ DOMAIN S = 1..(Len(rows) + 1) /\ S[Len(rows) + 1] = r
        /\ \A i \in DOMAIN rows : i \in DOMAIN S /\ S[i] = rows[i]
    BY <2>4, <2>5, RowAdded DEF Inv, Default
  <2>7. Len(rows) + 1 \in Nat /\ Len(rows) + 1 \in DOMAIN S
    <3>1. Len(rows) \in Nat
      BY DEF Inv, TableInv
    <3> QED BY <2>6, <3>1
  <2>8. /\ new \in ThreadState /\ new.pc = "flush" /\ new.next = "context" /\ Phase(new) = "context"
        /\ new.req = me.req /\ new.ids = me.ids /\ new.todo = me.todo /\ new.answer = me.answer
        /\ new.id = Len(rows) + 1 /\ new.context = me.context
    BY <1>1, <2>7 DEF ThreadState, Pc, Phase
  <2> HIDE DEF new, S, r
  <2>9. InOrder(new) /\ OwnIds(new, S)
    <3>1. \A i : \A c \in Hash : \A s : IsFor(rows, i, c, s) => IsFor(S, i, c, s)
      BY <2>6 DEF IsFor
    <3>2. Phase(new) \in Making
      BY <2>8 DEF Making
    <3> QED BY <1>1, <2>2, <2>3, <2>8, <3>1, <3>2, StillMaking
  <2>10. OwnRow(new, S)
    <3>1. Asked(new) = Asked(me)
      BY <2>8 DEF Asked
    <3> QED BY <2>2, <2>3, <2>4, <2>6, <2>7, <2>8, <3>1 DEF OwnRow
  <2>11. ThreadInv(new, S)
    BY <2>2, <2>3, <2>8, <2>9, <2>10 DEF ThreadInv
  <2>12. \A q \in Thread \ {p} : Phase(thread[q]) # "context"
    <3> SUFFICES ASSUME NEW q \in Thread, Phase(thread[q]) = "context" PROVE FALSE
      OBVIOUS
    <3>1. thread[q] \in ThreadState /\ ThreadInv(thread[q], rows) /\ Phase(thread[q]) \in Making
      BY Facts DEF Making
    <3>2. OwnRow(thread[q], rows)
      BY <3>1, WorksOn
    <3> QED BY <2>5, <3>2 DEF OwnRow
  <2>13. ThreadsInv'
    BY <2>1, <2>6, <2>8, <2>11, <2>12, ThreadStep DEF Inv
  <2>14. SentInv'
    BY <1>1, <2>1, <2>8, SentStep DEF Inv, Sends
  <2>15. MessagesInv'
    BY <1>1, <2>1, <2>6, MessagesKept DEF Inv
  <2> QED BY <2>1, <2>6, <2>13, <2>14, <2>15 DEF Inv
<1> QED BY <1>2, <1>3

(* The row of a thread gets a context of its own.                           *)
LEMMA RowNamed ==
  ASSUME NEW R, TableInv(R), NEW i \in DOMAIN R, NEW c \in Context, R[i].context = Default,
         \A j \in DOMAIN R : R[j].context # c, c[1] # "default" => (R[i].scratch <=> c[2] # 0),
         NEW S, S = [R EXCEPT ![i].context = c]
  PROVE  /\ TableInv(S) /\ DOMAIN S = DOMAIN R /\ S[i].context = c /\ S[i].scratch = R[i].scratch
         /\ \A j \in DOMAIN R \ {i} : S[j] = R[j]
<1> DEFINE r == [R[i] EXCEPT !.context = c]
<1>1. R \in Seq(Row) /\ R[i] \in Row
  BY DEF TableInv
<1>2. r \in Row /\ r.context = c /\ r.scratch = R[i].scratch
  BY <1>1 DEF Row
<1>3. S = [R EXCEPT ![i] = r]
  BY <1>1 DEF Row
<1>4. S \in Seq(Row) /\ DOMAIN S = DOMAIN R /\ S[i] = r /\ \A j \in DOMAIN R \ {i} : S[j] = R[j]
  BY <1>1, <1>2, <1>3, RowChanges
<1> HIDE DEF r
<1>5. TableInv(S)
  BY <1>2, <1>4 DEF TableInv
<1> QED BY <1>2, <1>4, <1>5

(* SetContext: the row gets its own context, if no other has it.            *)
LEMMA SetContextInv == ASSUME Inv, NEW p \in Thread, SetContext(p) PROVE Inv'
<1> DEFINE me == thread[p]
           c  == me.context
           S  == [rows EXCEPT ![me.id].context = c]
           new == [me EXCEPT !.pc = "flush", !.next = "notify"]
<1>1. /\ me \in ThreadState /\ ThreadInv(me, rows) /\ me.pc = "context"
      /\ UNCHANGED <<queue, bus, faults>> /\ ~Sends(me)
  BY Facts DEF SetContext, Counted, Sends
<1>2. CASE Taken(c)
  BY <1>1, <1>2, ErrorInv DEF SetContext
<1>3. CASE ~Taken(c)
  <2>1. rows' = S /\ thread' = [thread EXCEPT ![p] = new]
    BY <1>1, <1>3 DEF SetContext, ThreadState
  <2>2. Phase(me) = "context" /\ Phase(me) \in Making /\ me.answer = None
    BY <1>1 DEF Phase, Making, ThreadInv
  <2>3. me.req.kind = "submit" /\ OwnRow(me, rows) /\ InOrder(me) /\ OwnIds(me, rows)
        /\ Asked(me) \in Hash
    BY <1>1, <2>2, WorksOn
  <2>4. /\ me.id \in DOMAIN rows /\ rows[me.id].context = Default
        /\ rows[me.id].scratch = me.req.scratch
        /\ c[1] = Asked(me) /\ (me.req.scratch <=> c[2] # 0) /\ c \in Context
    BY <1>1, <2>2, <2>3 DEF OwnRow, ThreadState
  <2>5. \A i \in DOMAIN rows : rows[i].context # c
    BY <1>3 DEF Taken, RowWith
  <2>6. /\ TableInv(S) /\ DOMAIN S = DOMAIN rows /\ S[me.id].context = c
        /\ S[me.id].scratch = me.req.scratch /\ \A j \in DOMAIN rows \ {me.id} : S[j] = rows[j]
    BY <2>4, <2>5, RowNamed DEF Inv
  <2>7. /\ new \in ThreadState /\ new.pc = "flush" /\ new.next = "notify" /\ Phase(new) = "notify"
        /\ new.req = me.req /\ new.ids = me.ids /\ new.todo = me.todo /\ new.answer = me.answer
        /\ new.id = me.id
    BY <1>1 DEF ThreadState, Pc, Phase
  <2> HIDE DEF new, S, c
  <2>8. InOrder(new) /\ OwnIds(new, S)
    <3>1. \A i : \A h \in Hash : \A s : IsFor(rows, i, h, s) => IsFor(S, i, h, s)
      BY <2>4, <2>6 DEF IsFor, Hash, Default
    <3>2. Phase(new) \in Making
      BY <2>7 DEF Making
    <3> QED BY <1>1, <2>2, <2>3, <2>7, <3>1, <3>2, StillMaking
  <2>9. OwnRow(new, S)
    <3>1. Asked(new) = Asked(me)
      BY <2>7 DEF Asked
    <3> QED BY <2>4, <2>6, <2>7, <3>1 DEF OwnRow, IsFor
  <2>10. ThreadInv(new, S)
    BY <2>2, <2>3, <2>7, <2>8, <2>9 DEF ThreadInv
  <2>11. \A q \in Thread \ {p} : Keeps(rows, S, thread[q])
    <3>1. \A q \in Thread \ {p} : Phase(thread[q]) # "context"
      BY <2>2 DEF Inv, ThreadsInv
    <3> QED BY <2>4, <2>6, <3>1 DEF Keeps, Default
  <2>12. ThreadsInv'
    BY <2>1, <2>7, <2>10, <2>11, ThreadStep DEF Inv
  <2>13. SentInv'
    BY <1>1, <2>1, <2>7, SentStep DEF Inv, Sends
  <2>14. MessagesInv'
    BY <1>1, <2>1, <2>6, MessagesKept DEF Inv
  <2> QED BY <2>1, <2>6, <2>12, <2>13, <2>14 DEF Inv
<1> QED BY <1>2, <1>3

-----------------------------------------------------------------------------
(* Cancellation and import.                                                 *)

(* A thread that is to answer, or to commit what it announced, needs little.*)
LEMMA OnlyAnswers ==
  ASSUME NEW me \in ThreadState, NEW R, ThreadInv(me, R), me.answer = None,
         NEW new \in ThreadState, new.req = me.req, new.ids = me.ids, new.answer = me.answer,
         \/ new.pc = "flush" /\ new.next = "answer"
         \/ new.pc = "commit cancel" /\ me.pc = "cancel"
  PROVE  ThreadInv(new, R)
<1>1. Phase(new) \in {"answer", "commit cancel"} /\ new.pc # "restart"
      /\ (Phase(new) = "commit cancel" => me.pc = "cancel")
  BY DEF Phase
<1>2. me.req.kind = "submit" => InOrder(me) /\ OwnIds(me, R)
  BY DEF ThreadInv
<1>3. me.req.kind = "submit" => InOrder(new) /\ OwnIds(new, R) /\ OwnRow(new, R)
  BY <1>1, <1>2 DEF InOrder, OwnIds, OwnRow, Making, None
<1>4. me.pc = "cancel" => me.req.row \in DOMAIN R
  BY DEF ThreadInv, Phase
<1>5. me.req.kind # "submit" => me.ids = <<>>
  BY DEF ThreadInv
<1> QED BY <1>1, <1>3, <1>4, <1>5 DEF ThreadInv, Making

(* Cancel: the message of the failure is queued first.                      *)
LEMMA CancelInv == ASSUME Inv, NEW p \in Thread, Cancel(p) PROVE Inv'
<1> DEFINE me == thread[p]
           i  == me.req.row
           new == [me EXCEPT !.pc = "commit cancel"]
<1>1. /\ me \in ThreadState /\ ThreadInv(me, rows) /\ me.pc = "cancel"
      /\ UNCHANGED <<rows, bus, faults>> /\ ~Sends(me)
  BY Facts DEF Cancel, Counted, Sends
<1>2. CASE rows[i].state \notin Live
  BY <1>1, <1>2, ErrorInv DEF Cancel
<1>3. CASE rows[i].state \in Live
  <2>1. Push(i, "failed") /\ thread' = [thread EXCEPT ![p] = new]
    BY <1>1, <1>3 DEF Cancel, Goto
  <2>2. i \in DOMAIN rows /\ "failed" \in State /\ me.answer = None
    BY <1>1 DEF ThreadInv, Phase, State
  <2>3. /\ new \in ThreadState /\ new.pc = "commit cancel" /\ Phase(new) = "commit cancel"
        /\ new.req = me.req /\ new.ids = me.ids /\ new.answer = me.answer
    BY <1>1 DEF ThreadState, Pc, Phase
  <2> HIDE DEF new
  <2>4. ThreadInv(new, rows)
    BY <1>1, <2>2, <2>3, OnlyAnswers
  <2>5. ThreadsInv'
    BY <1>1, <2>1, <2>3, <2>4, OnlyThread DEF Inv
  <2>6. SentInv'
    BY <1>1, <2>1, <2>3, SentStep DEF Inv, Sends
  <2> QED BY <1>1, <2>1, <2>2, <2>5, <2>6, MessageQueued DEF Inv
<1> QED BY <1>2, <1>3

(* CommitCancel: the row fails.                                             *)
LEMMA CommitCancelInv == ASSUME Inv, NEW p \in Thread, CommitCancel(p) PROVE Inv'
<1> DEFINE me == thread[p]
           i  == me.req.row
           r  == [rows[i] EXCEPT !.state = "failed"]
           S  == [rows EXCEPT ![i].state = "failed"]
           new == [me EXCEPT !.pc = "flush", !.next = "answer"]
<1>1. /\ me \in ThreadState /\ ThreadInv(me, rows) /\ me.pc = "commit cancel" /\ rows' = S
      /\ thread' = [thread EXCEPT ![p] = new] /\ UNCHANGED <<queue, bus, faults>>
  <2>1. me \in ThreadState /\ ThreadInv(me, rows)
    BY Facts
  <2> QED BY <2>1 DEF CommitCancel, Counted, ThreadState
<1>2. i \in DOMAIN rows /\ me.answer = None
  BY <1>1 DEF ThreadInv, Phase
<1>3. S \in Seq(Row) /\ DOMAIN S = DOMAIN rows
      /\ \A j \in DOMAIN rows : S[j].context = rows[j].context /\ S[j].scratch = rows[j].scratch
  <2>1. rows \in Seq(Row) /\ rows[i] \in Row
    BY <1>2 DEF Inv, TableInv
  <2>2. r \in Row /\ r.context = rows[i].context /\ r.scratch = rows[i].scratch
    BY <2>1 DEF Row, State
  <2>3. S = [rows EXCEPT ![i] = r]
    BY <1>2, <2>1 DEF Row
  <2> QED BY <1>2, <2>1, <2>2, <2>3, RowChanges
<1>4. /\ new \in ThreadState /\ new.pc = "flush" /\ new.next = "answer" /\ Phase(new) = "answer"
      /\ new.req = me.req /\ new.ids = me.ids /\ new.answer = me.answer
  BY <1>1 DEF ThreadState, Pc, Phase
<1> HIDE DEF new, S
<1>5. TableInv(rows') /\ \A m : Keeps(rows, rows', m)
  BY <1>1, <1>3, StatesChange DEF Inv
<1>6. ThreadInv(new, rows')
  BY <1>1, <1>2, <1>4, <1>5, ThreadStable, OnlyAnswers
<1>7. ThreadsInv'
  BY <1>1, <1>4, <1>5, <1>6, ThreadStep DEF Inv
<1>8. SentInv'
  BY <1>1, <1>4, SentStep DEF Inv, Sends
<1>9. MessagesInv'
  BY <1>1, <1>3, MessagesKept DEF Inv
<1> QED BY <1>5, <1>7, <1>8, <1>9 DEF Inv

(* Import: a ready row is added, or one becomes ready.                      *)
LEMMA ImportInv == ASSUME Inv, NEW p \in Thread, Import(p) PROVE Inv'
<1> DEFINE me == thread[p]
           c  == <<Head(me.todo), 0>>
           found == RowWith(c)
           ready == [NewRow(me.req) EXCEPT !.context = c, !.state = "ready", !.strategy = "all"]
           was(i) == [rows[i] EXCEPT !.state = "ready", !.strategy = "all"]
           S  == [i \in DOMAIN rows |-> IF i \in found THEN was(i) ELSE rows[i]]
           new == [me EXCEPT !.pc = "flush", !.next = "answer"]
<1>1. /\ me \in ThreadState /\ ThreadInv(me, rows) /\ me.pc = "import"
      /\ rows' = (IF found = {} THEN Append(rows, ready) ELSE S)
      /\ thread' = [thread EXCEPT ![p] = new] /\ UNCHANGED <<queue, bus, faults>>
  <2>1. me \in ThreadState /\ ThreadInv(me, rows)
    BY Facts
  <2> QED BY <2>1 DEF Import, Counted, ThreadState
<1>2. me.req.kind = "import" /\ Head(me.todo) \in Hash /\ ~me.req.scratch /\ me.answer = None
  <2>1. me.req.kind = "import" /\ me.todo = me.req.contexts /\ me.answer = None
    BY <1>1 DEF ThreadInv, Phase
  <2>2. me.req.contexts \in Seq(Hash) /\ me.req.contexts # <<>> /\ ~me.req.scratch
    BY <1>1, <2>1, RequestOf
  <2> QED BY <2>1, <2>2
<1>3. "all" \in Strategy /\ "ready" \in State /\ c \in Context
  BY <1>2 DEF Strategy, State, Context
<1>4. /\ new \in ThreadState /\ new.pc = "flush" /\ new.next = "answer" /\ Phase(new) = "answer"
      /\ new.req = me.req /\ new.ids = me.ids /\ new.answer = me.answer
  BY <1>1 DEF ThreadState, Pc, Phase
<1>5. TableInv(rows') /\ (\A m : Keeps(rows, rows', m)) /\ DOMAIN rows \subseteq DOMAIN rows'
  <2>1. CASE found = {}
    <3>1. ready \in Row /\ ready.context = c /\ ready.scratch = FALSE
      <4>1. NewRow(me.req) \in Row /\ NewRow(me.req).scratch = FALSE
        BY <1>1, <1>2, NewRowType DEF Row
      <4> QED BY <1>3, <4>1 DEF Row
    <3>2. \A i \in DOMAIN rows : rows[i].context # c
      BY <2>1 DEF RowWith
    <3> HIDE DEF ready
    <3>3. /\ TableInv(Append(rows, ready)) /\ \A m : Keeps(rows, Append(rows, ready), m)
          /\ \A i \in DOMAIN rows : i \in DOMAIN Append(rows, ready)
      <4>1. ready.context[2] = 0 /\ \A i \in DOMAIN rows : rows[i].context # ready.context
        BY <3>1, <3>2
      <4>2. ready.context[1] # "default" => (ready.scratch <=> ready.context[2] # 0)
        BY <3>1, <4>1
      <4> QED BY <3>1, <4>1, <4>2, RowAdded DEF Inv
    <3> QED BY <1>1, <2>1, <3>3
  <2>2. CASE found # {}
    <3>1. rows \in Seq(Row) /\ \A i \in DOMAIN rows : rows[i] \in Row
      BY DEF Inv, TableInv
    <3>2. \A i \in DOMAIN rows : /\ was(i) \in Row /\ was(i).context = rows[i].context
                                 /\ was(i).scratch = rows[i].scratch
      BY <1>3, <3>1 DEF Row
    <3>3. S \in Seq(Row) /\ DOMAIN S = DOMAIN rows
      <4> HIDE DEF was, found
      <4>1. \A i \in DOMAIN rows : (IF i \in found THEN was(i) ELSE rows[i]) \in Row
        BY <3>1, <3>2
      <4> QED BY <3>1, <4>1
    <3>4. \A j \in DOMAIN rows : S[j].context = rows[j].context /\ S[j].scratch = rows[j].scratch
      BY <3>2
    <3> HIDE DEF S
    <3> QED BY <1>1, <2>2, <3>3, <3>4, StatesChange DEF Inv
  <2> QED BY <2>1, <2>2
<1> HIDE DEF new, S, ready, found
<1>6. ThreadInv(new, rows')
  BY <1>1, <1>2, <1>4, <1>5, ThreadStable, OnlyAnswers
<1>7. ThreadsInv'
  BY <1>1, <1>4, <1>5, <1>6, ThreadStep DEF Inv
<1>8. SentInv'
  BY <1>1, <1>4, SentStep DEF Inv, Sends
<1>9. MessagesInv'
  BY <1>1, <1>5, MessagesKept DEF Inv
<1> QED BY <1>5, <1>7, <1>8, <1>9 DEF Inv

-----------------------------------------------------------------------------
(* Faults and the backend.                                                  *)

(* CommitFails: what was queued stays.                                      *)
LEMMA CommitFailsInv == ASSUME Inv, NEW p \in Thread, CommitFails(p) PROVE Inv'
<1>1. queue \in Seq(Message)
  BY DEF Inv, MessagesInv
<1> QED BY <1>1, ErrorInv DEF CommitFails, Fault

(* PublishFails: what was taken is lost.                                    *)
LEMMA PublishFailsInv == ASSUME Inv, NEW p \in Thread, PublishFails(p) PROVE Inv'
<1>1. queue' \in Seq(Message) /\ Range(queue') \subseteq Range(queue)
  BY MessageTaken DEF PublishFails, Inv, MessagesInv
<1> QED BY <1>1, ErrorInv DEF PublishFails, Fault

(* Crash: the threads and the queue are gone, the rows stay.                *)
LEMMA CrashInv == ASSUME Inv, Crash PROVE Inv'
<1>1. Idle.pc = "idle" /\ Phase(Idle) = "idle" /\ Idle.req.kind = None /\ Idle.ids = <<>>
  BY DEF Idle, Phase
<1>2. ThreadInv(Idle, rows)
  BY <1>1 DEF ThreadInv, Making, None
<1>3. ThreadsInv'
  BY <1>1, <1>2, IdleType DEF Crash, ThreadsInv
<1>4. MessagesInv'
  BY DEF Crash, Inv, MessagesInv, Range
<1>5. SentInv'
  BY SentFault DEF Crash, Fault, Inv
<1> QED BY <1>3, <1>4, <1>5 DEF Inv, Crash

(* What the backend does about a message changes a state only.              *)
LEMMA LeadsInv ==
  ASSUME Inv, NEW m, m[1] \in DOMAIN rows, Leads(m), bus' \subseteq bus PROVE Inv'
<1> DEFINE i == m[1]
<1>1. PICK s \in Successors(m) :
        rows' = [rows EXCEPT ![i].state = s, ![i].last = IF s = "failed" THEN @ ELSE s,
                             ![i].stopped = @ \/ s = "failed"]
  BY DEF Leads
<1> DEFINE r == [rows[i] EXCEPT !.state = s, !.last = IF s = "failed" THEN @ ELSE s,
                                !.stopped = @ \/ s = "failed"]
<1>2. rows \in Seq(Row) /\ rows[i] \in Row
  BY DEF Inv, TableInv
<1>3. s \in State
  <2>1. rows[i].state \in State
    BY <1>2 DEF Row
  <2>2. {"failed", "wait", "ready"} \subseteq State
    BY DEF State, Live
  <2> QED BY <2>1, <2>2 DEF Successors
<1>4. r \in Row /\ r.context = rows[i].context /\ r.scratch = rows[i].scratch
  BY <1>2, <1>3 DEF Row
<1>5. rows' = [rows EXCEPT ![i] = r]
  BY <1>1, <1>2 DEF Row
<1> HIDE DEF r, i
<1>6. rows' \in Seq(Row) /\ DOMAIN rows' = DOMAIN rows /\ \A j \in DOMAIN rows :
        rows'[j].context = rows[j].context /\ rows'[j].scratch = rows[j].scratch
  BY <1>2, <1>4, <1>5, RowChanges DEF i
<1>7. TableInv(rows') /\ \A me : Keeps(rows, rows', me)
  BY <1>6, StatesChange DEF Inv
<1>8. UNCHANGED <<queue, thread, faults>>
  BY DEF Leads, Counted
<1>9. ThreadsInv'
  BY <1>7, <1>8, ThreadStable DEF Inv, ThreadsInv
<1>10. MessagesInv'
  BY <1>6, <1>8 DEF Inv, MessagesInv, Range
<1>11. SentInv'
  BY <1>8 DEF Inv, SentInv
<1> QED BY <1>7, <1>9, <1>10, <1>11 DEF Inv

(* Handle: a message arrives.                                               *)
LEMMA HandleInv == ASSUME Inv, Handle PROVE Inv'
<1>1. PICK m \in bus : Leads(m) /\ bus' = bus \ {m}
  BY DEF Handle
<1>2. m[1] \in DOMAIN rows
  BY DEF Inv, MessagesInv
<1> QED BY <1>1, <1>2, LeadsInv

(* Nudge: the poller finds a build.                                         *)
LEMMA NudgeInv == ASSUME Inv, NEW i, Nudge(i) PROVE Inv'
<1> DEFINE m == <<i, rows[i].state>>
<1>1. m[1] \in DOMAIN rows /\ Leads(m) /\ bus' \subseteq bus
  BY DEF Nudge
<1> QED BY <1>1, LeadsInv

-----------------------------------------------------------------------------
(* The invariant holds of every state.                                      *)

(* The invariant holds at first, when nothing happens,                      *)
LEMMA InitInv == Init => Inv
<1> SUFFICES ASSUME Init PROVE Inv
  OBVIOUS
<1>1. TableInv(rows)
  BY DEF Init, TableInv
<1>2. Idle.pc = "idle" /\ Phase(Idle) = "idle" /\ Idle.req.kind = None /\ Idle.ids = <<>>
  BY DEF Idle, Phase
<1>3. ThreadInv(Idle, rows)
  BY <1>2 DEF ThreadInv, Making, None
<1>4. ThreadsInv
  BY <1>2, <1>3, IdleType DEF Init, ThreadsInv
<1>5. MessagesInv /\ SentInv
  BY DEF Init, MessagesInv, SentInv, Range
<1> QED BY <1>1, <1>4, <1>5 DEF Inv

(* when the system stops for a moment,                                      *)
LEMMA UnchangedInv == Inv /\ UNCHANGED vars => Inv'
<1> SUFFICES ASSUME Inv, UNCHANGED vars PROVE Inv'
  OBVIOUS
<1>1. UNCHANGED <<rows, queue, bus, thread, received, faults>>
  BY DEF vars
<1>2. ThreadsInv'
  BY <1>1 DEF Inv, ThreadsInv
<1>3. MessagesInv' /\ SentInv'
  BY <1>1 DEF Inv, MessagesInv, SentInv
<1> QED BY <1>1, <1>2, <1>3 DEF Inv

(* and after each step,                                                     *)
LEMMA NextInv == Inv /\ [Next]_vars => Inv'
<1> SUFFICES ASSUME Inv, Next PROVE Inv'
  BY UnchangedInv
<1>1. ASSUME NEW p \in Thread, Step(p) PROVE Inv'
  BY <1>1, CheckInv, ResumeInv, RestartInv, CreateInv, SetContextInv, NotifyInv, FinishInv,
     FlushInv, GetInv, CancelInv, CommitCancelInv, AnsweredInv, ImportInv DEF Step
<1>2. ASSUME NEW p \in Thread, NEW q \in Requests[p], Receive(p, q) PROVE Inv'
  BY <1>2, ReceiveInv
<1>3. ASSUME NEW p \in Thread, CommitFails(p) \/ PublishFails(p) PROVE Inv'
  BY <1>3, CommitFailsInv, PublishFailsInv
<1>4. ASSUME NEW i \in Id, Nudge(i) PROVE Inv'
  BY <1>4, NudgeInv
<1> QED BY <1>1, <1>2, <1>3, <1>4, CrashInv, HandleInv DEF Next

(* hence always.                                                            *)
LEMMA SpecInv == Spec => []Inv
BY InitInv, NextInv, PTL DEF Spec

-----------------------------------------------------------------------------
(* The properties.                                                          *)

(* A context finds one build at most, messages are about builds there are,  *)
(* and so are answers, whatever requests come in and whatever fails.        *)
THEOREM Types == Spec => []TypeOK
<1>1. Inv => TypeOK
  <2> SUFFICES ASSUME Inv PROVE TypeOK
    OBVIOUS
  <2>1. \A i, j \in DOMAIN rows : rows[i].context = rows[j].context => i = j
    BY DEF Inv, TableInv
  <2>2. \A i \in DOMAIN rows : rows[i].state \in Live \cup {"ready", "failed"}
    <3>1. \A i \in DOMAIN rows : rows[i] \in Row
      BY DEF Inv, TableInv
    <3> QED BY <3>1 DEF Row, State
  <2>3. \A m \in bus \cup Range(queue) : m[1] \in DOMAIN rows
    BY DEF Inv, MessagesInv
  <2>4. ASSUME NEW p \in Thread PROVE Range(thread[p].ids) \subseteq DOMAIN rows
    <3>1. thread[p] \in ThreadState /\ ThreadInv(thread[p], rows)
      BY Facts
    <3>2. DOMAIN thread[p].ids = 1..Len(thread[p].ids)
      BY <3>1 DEF ThreadState
    <3>3. CASE thread[p].req.kind = "submit"
      BY <3>1, <3>2, <3>3 DEF ThreadInv, OwnIds, IsFor, Range
    <3>4. CASE thread[p].req.kind # "submit"
      <4>1. thread[p].ids = <<>>
        BY <3>1, <3>4 DEF ThreadInv
      <4>2. DOMAIN thread[p].ids = {}
        BY <4>1
      <4> QED BY <4>2 DEF Range
    <3> QED BY <3>3, <3>4
  <2> QED BY <2>1, <2>2, <2>3, <2>4 DEF TypeOK
<1> QED BY <1>1, SpecInv, PTL

(* A submission that is answered with builds is answered with one for each  *)
(* of its modulemds, its own and of its kind, however many submissions of   *)
(* the same module run at once.                                             *)
THEOREM OwnBuilds == Spec => []AnsweredWithItsOwn
<1>1. Inv => AnsweredWithItsOwn
  <2> SUFFICES ASSUME Inv, NEW p \in Thread, thread[p].req.kind = "submit",
                      thread[p].answer \in {"created", "conflict"}
               PROVE  /\ Len(thread[p].ids) = Len(thread[p].req.contexts)
                      /\ \A k \in DOMAIN thread[p].ids :
                           /\ rows[thread[p].ids[k]].context[1] = thread[p].req.contexts[k]
                           /\ rows[thread[p].ids[k]].scratch = thread[p].req.scratch
    BY DEF AnsweredWithItsOwn
  <2>1. thread[p] \in ThreadState /\ ThreadInv(thread[p], rows)
    BY Facts
  <2>2. DOMAIN thread[p].ids = 1..Len(thread[p].ids)
    BY <2>1 DEF ThreadState
  <2> QED BY <2>1, <2>2 DEF ThreadInv, InOrder, OwnIds, IsFor
<1> QED BY <1>1, SpecInv, PTL

(* As long as nothing failed, no message of a state change is left on the   *)
(* queue when the last thread is done.                                      *)
THEOREM NothingUnsent == Spec => []AllSent
<1>1. Inv => AllSent
  BY DEF Inv, SentInv, AllSent, Sends
<1> QED BY <1>1, SpecInv, PTL
=============================================================================
