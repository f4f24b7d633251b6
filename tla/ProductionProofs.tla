-------------------------- MODULE ProductionProofs --------------------------
(***************************************************************************)
(* What is recorded of the builds of a module, put into their build roots, *)
(* taken over from earlier builds and imported, however often the worker   *)
(* is killed, a build is submitted again or a branch moves.                *)
(***************************************************************************)
EXTENDS Production, FiniteSetTheorems, TLAPS

Fields ==
  {"sub", "stage", "then", "arches", "br", "added", "refs", "rows", "frames", "batch", "pending",
   "placed", "ursine", "collisions", "conflicts", "macros", "current", "todo", "reused", "existed",
   "groups", "group", "imported", "tagged"}
TagFields ==
  {"dest", "build", "packages", "blocked", "rooted", "groups", "target", "parents"}

(* A build, and its tags, always have the same fields.                      *)
Shape == DOMAIN b = Fields /\ DOMAIN koji = TagFields

(* Where the handler is, and the state the build is in.                     *)
BuildPcs == {"batch", "build", "module", "tag module", "devel", "tag devel", "done"}
Staged ==
  /\ pc \in Pcs
  /\ b.stage \in {"init", "wait", "build"}
  /\ b.then = IF b.stage = "build" THEN "batch" ELSE "repos"
  /\ pc \in InitPcs => b.stage = "init"
  /\ b.stage = "init" => pc \in InitPcs \cup {"idle", "failed"}
  /\ pc \in {"repos", "reuse", "macros"} => b.stage = "wait"
  /\ pc \in BuildPcs => b.stage = "build"

(* Submissions are those of the plans.                                      *)
Planned == b.sub \in Submissions /\ todo \in Seq(Submissions)

(* Heads of branches that are commits there are.                            *)
HeadsOK ==
  /\ heads \in [DOMAIN Heads -> Nat]
  /\ \A n \in DOMAIN IncludedMmd : heads[n] <= Len(IncludedMmd[n])

Counted == faults.restarts \in 0..MaxRestarts /\ faults.moves \in 0..MaxMoves
           /\ DOMAIN faults = {"restarts", "moves"}

-----------------------------------------------------------------------------
(* Functions and sequences.                                                 *)

(* Overlay(f, g) is f where f is defined, and g elsewhere.                  *)
LEMMA Overlaid ==
  ASSUME NEW f, NEW g
  PROVE  /\ DOMAIN Overlay(f, g) = DOMAIN f \cup DOMAIN g
         /\ \A x \in DOMAIN f : Overlay(f, g)[x] = f[x]
         /\ \A x \in DOMAIN g \ DOMAIN f : Overlay(f, g)[x] = g[x]
BY DEF Overlay

-----------------------------------------------------------------------------
(* The fields of a build and its tags stay.                                 *)
LEMMA ShapeInit == ASSUME Init PROVE Shape
BY DEF Init, Shape, New, NoTags, Fields, TagFields

(* No step adds or removes a field.                                         *)
LEMMA ShapeNext == ASSUME Shape, [Next]_vars PROVE Shape'
<1>1. CASE Submit
  BY <1>1 DEF Submit, Shape, New, NoTags, Fields, TagFields
<1>2. CASE InitHandler
  <2>1. CASE RecordArches \/ FormatMain \/ EndOfModule \/ Save
    BY <2>1 DEF RecordArches, FormatMain, EndOfModule, Save, OnlyBuild, Shape
  <2>2. CASE AddDefaultModules
    BY <2>2 DEF AddDefaultModules, OnlyBuild, Shape
  <2>3. CASE RecordPackage
    BY <2>3 DEF RecordPackage, OnlyBuild, Shape
  <2>4. CASE IncludeModule
    BY <2>4 DEF IncludeModule, OnlyBuild, Shape
  <2> QED BY <1>2, <2>1, <2>2, <2>3, <2>4 DEF InitHandler
<1>3. CASE Connecting
  BY <1>3 DEF Connecting, LookForTag, CreateTag, WhitelistPackages, BlockPackages, AddGroup,
              AddGroupPackages, AddTarget, OnlyTags, Shape
<1>4. CASE WaitHandler
  BY <1>4 DEF WaitHandler, AddRepos, ReuseAll, BuildMacros, OnlyTags, Rooted, Shape
<1>5. CASE RepoHandler
  BY <1>5 DEF RepoHandler, NextBatch, BuildBatch, Finalize, Import, TagImported, Finish, OnlyTags,
              OnlyBuild, Rooted, Shape
<1>6. CASE Faults
  BY <1>6 DEF Faults, Crash, RetryGroups, FailBuild, Resubmit, Abandon, Push, Restart, Restarted,
              Shape
<1>7. CASE UNCHANGED vars
  BY <1>7 DEF vars, Shape
<1> QED BY <1>1, <1>2, <1>3, <1>4, <1>5, <1>6, <1>7 DEF Next

(* What the state of a build says about where its handlers are.             *)
LEMMA StagedNext == ASSUME Shape, Staged, [Next]_vars PROVE Staged'
<1>0. /\ DOMAIN b = Fields /\ "then" \in Fields /\ "stage" \in Fields
      /\ Pcs = {"idle", "failed", "arches", "defaults", "format", "record", "save", "look",
                "dest tag", "build tag", "whitelist", "block", "groups", "group packages",
                "repos", "reuse", "macros", "batch", "build", "module", "tag module", "devel",
                "tag devel", "done"}
  BY DEF Shape, Fields, Pcs, InitPcs, TagPcs
<1> USE DEF Staged, InitPcs, BuildPcs, Fail
<1>1. CASE Submit
  <2>1. CASE pc' = "arches" /\ b' = New(Head(todo))
    <3>1. b'.stage = "init" /\ b'.then = "repos"
      BY <2>1 DEF New
    <3> QED BY <1>0, <2>1, <3>1
  <2>2. CASE UNCHANGED <<b, pc>>
    BY <2>2
  <2> QED BY <1>1, <2>1, <2>2 DEF Submit
<1>2. CASE InitHandler
  <2>1. CASE RecordArches \/ FormatMain \/ EndOfModule \/ Save
    BY <1>0, <2>1 DEF RecordArches, FormatMain, EndOfModule, Save, OnlyBuild, InRecord
  <2>2. CASE AddDefaultModules
    BY <1>0, <2>2 DEF AddDefaultModules, OnlyBuild
  <2>3. CASE RecordPackage
    BY <1>0, <2>3 DEF RecordPackage, OnlyBuild, InRecord
  <2>4. CASE IncludeModule
    BY <1>0, <2>4, ZenonT(60) DEF IncludeModule, OnlyBuild, InRecord
  <2> QED BY <1>2, <2>1, <2>2, <2>3, <2>4 DEF InitHandler
<1>3. CASE Connecting
  BY <1>0, <1>3 DEF Connecting, LookForTag, CreateTag, WhitelistPackages, BlockPackages, AddGroup,
                    AddGroupPackages, AddTarget, OnlyTags
<1>4. CASE WaitHandler
  BY <1>0, <1>4 DEF WaitHandler, AddRepos, ReuseAll, BuildMacros, OnlyTags
<1>5. CASE RepoHandler
  BY <1>0, <1>5 DEF RepoHandler, NextBatch, BuildBatch, Finalize, Import, TagImported, Finish,
                    OnlyTags, OnlyBuild
<1>6. CASE Faults
  BY <1>0, <1>6 DEF Faults, Crash, RetryGroups, FailBuild, Resubmit, Abandon, Push, Restart,
                    Restarted, Running
<1>7. CASE UNCHANGED vars
  BY <1>7 DEF vars
<1> QED BY <1>1, <1>2, <1>3, <1>4, <1>5, <1>6, <1>7 DEF Next

-----------------------------------------------------------------------------
(* The submissions, the branches and the bounds.                            *)

(* A build stays that of its submission until the next one.                 *)
LEMMA SubmissionKept ==
  ASSUME Shape, [Next]_vars
  PROVE  Submit \/ (b'.sub = b.sub /\ todo' = todo)
<1>0. DOMAIN b = Fields /\ "sub" \in Fields
  BY DEF Shape, Fields
<1>2. CASE InitHandler
  BY <1>0, <1>2 DEF InitHandler, RecordArches, AddDefaultModules, FormatMain, RecordPackage,
                    IncludeModule, EndOfModule, Save, OnlyBuild
<1>3. CASE Connecting
  BY <1>0, <1>3 DEF Connecting, LookForTag, CreateTag, WhitelistPackages, BlockPackages, AddGroup,
                    AddGroupPackages, AddTarget, OnlyTags
<1>4. CASE WaitHandler
  BY <1>0, <1>4 DEF WaitHandler, AddRepos, ReuseAll, BuildMacros, OnlyTags
<1>5. CASE RepoHandler
  BY <1>0, <1>5 DEF RepoHandler, NextBatch, BuildBatch, Finalize, Import, TagImported, Finish,
                    OnlyTags, OnlyBuild
<1>6. CASE Faults
  BY <1>0, <1>6 DEF Faults, Crash, RetryGroups, FailBuild, Resubmit, Abandon, Push, Restart,
                    Restarted
<1>7. CASE UNCHANGED vars
  BY <1>7 DEF vars
<1> QED BY <1>2, <1>3, <1>4, <1>5, <1>6, <1>7 DEF Next

(* The submissions that are left stay ones the plan allows.                 *)
LEMMA PlannedNext == ASSUME Shape, Planned, [Next]_vars PROVE Planned'
<1>1. CASE Submit
  <2>1. todo' = Tail(todo) /\ todo # <<>>
    BY <1>1 DEF Submit
  <2>2. todo' \in Seq(Submissions) /\ Head(todo) \in Submissions
    BY <2>1 DEF Planned
  <2>3. CASE b' = New(Head(todo))
    BY <2>2, <2>3 DEF New, Planned
  <2>4. CASE b' = b
    BY <2>2, <2>4 DEF Planned
  <2> QED BY <1>1, <2>3, <2>4 DEF Submit
<1>2. CASE b'.sub = b.sub /\ todo' = todo
  BY <1>2 DEF Planned
<1> QED BY <1>1, <1>2, SubmissionKept

(* Branches move, and workers are killed, only so often.                    *)
LEMMA BoundsNext == ASSUME HeadsOK, Counted, [Next]_vars PROVE HeadsOK' /\ Counted'
<1>1. CASE UNCHANGED <<heads, faults>>
  BY <1>1 DEF HeadsOK, Counted
<1>2. CASE Push
  <2>1. HeadsOK'
    <3>1. PICK n \in DOMAIN heads : /\ n \in DOMAIN IncludedMmd => heads[n] < Len(IncludedMmd[n])
                                    /\ heads' = [heads EXCEPT ![n] = @ + 1]
      BY <1>2 DEF Push
    <3>2. heads' \in [DOMAIN Heads -> Nat]
      BY <3>1 DEF HeadsOK
    <3>3. ASSUME NEW k \in DOMAIN IncludedMmd PROVE heads'[k] <= Len(IncludedMmd[k])
      <4>1. k \in DOMAIN Heads /\ Len(IncludedMmd[k]) \in Nat /\ heads[k] \in Nat
        BY ProductionAssumption DEF HeadsOK
      <4> QED BY <3>1, <4>1 DEF HeadsOK
    <3> QED BY <3>2, <3>3 DEF HeadsOK
  <2>2. Counted'
    BY <1>2, ProductionAssumption DEF Push, Counted
  <2> QED BY <2>1, <2>2
<1>3. CASE (RetryGroups \/ \E x : Restart(x))
  <2>1. faults' = [faults EXCEPT !.restarts = @ + 1] /\ faults.restarts < MaxRestarts
        /\ UNCHANGED heads
    BY <1>3 DEF RetryGroups, Restart
  <2> QED BY <2>1, ProductionAssumption DEF HeadsOK, Counted
<1>4. CASE Faults
  BY <1>1, <1>2, <1>3, <1>4 DEF Faults, Crash, FailBuild, Resubmit, Abandon
<1>5. CASE Submit \/ InitHandler \/ Connecting
  <2>1. UNCHANGED <<heads, faults>>
    BY <1>5, Zenon DEF Submit, InitHandler, RecordArches, AddDefaultModules, FormatMain,
      RecordPackage, IncludeModule, EndOfModule, Save, OnlyBuild, Connecting, LookForTag, CreateTag,
      WhitelistPackages, BlockPackages, AddGroup, AddGroupPackages, AddTarget, OnlyTags
  <2> QED BY <1>1, <2>1
<1>6. CASE WaitHandler \/ RepoHandler
  <2>1. UNCHANGED <<heads, faults>>
    BY <1>6, Zenon DEF WaitHandler, AddRepos, ReuseAll, BuildMacros, RepoHandler, NextBatch,
      BuildBatch, Finalize, Import, TagImported, Finish, OnlyTags, OnlyBuild
  <2> QED BY <1>1, <2>1
<1>7. CASE UNCHANGED vars
  BY <1>1, <1>7 DEF vars
<1> QED BY <1>4, <1>5, <1>6, <1>7 DEF Next

-----------------------------------------------------------------------------
(* Rows.                                                                    *)

(* A finite set in a sequence, each element once.                           *)
LEMMA InSequence ==
  ASSUME NEW S, IsFiniteSet(S)
  PROVE  LET s == SetToSeq(S)
         IN /\ Cardinality(S) \in Nat /\ s \in [1..Cardinality(S) -> S]
            /\ IsInjective(s) /\ \A x \in S : \E i \in DOMAIN s : s[i] = x
<1> DEFINE n == Cardinality(S)
           s == SetToSeq(S)
<1>1. n \in Nat /\ \E f \in [1..n -> S] : IsInjective(f)
  BY FS_CardinalityType DEF ExistsBijection, Bijection, Injection
<1>2. s \in [1..n -> S] /\ IsInjective(s)
  BY <1>1 DEF SetToSeq
<1>3. s \in Injection(1..n, S)
  BY <1>2 DEF Injection
<1>4. Cardinality(1..n) = n
  BY <1>1, FS_Interval
<1>5. s \in Surjection(1..n, S)
  BY <1>3, <1>4, FS_Injection
<1> QED BY <1>1, <1>2, <1>5 DEF Surjection

(* Components in a batch or in none, that n artifacts are enough for.       *)
BatchNo == {NoBatch} \cup (Nat \ 0..1)
RowOK(r, n) ==
  DOMAIN r = {"batch", "ref", "built"} /\ r.batch \in BatchNo /\ r.built \in 0..n
RowsOK(rows, n) == IsFiniteSet(DOMAIN rows) /\ \A c \in DOMAIN rows : RowOK(rows[c], n)

(* What the init handler has in memory: the modulemds it is in, and the     *)
(* batch it is in, the first one only until something is recorded.          *)
FrameOK(f) ==
  /\ DOMAIN f = {"todo", "prev", "of", "place"}
  /\ f.of \in Modulemds /\ f.todo \subseteq f.of.rpms \cup f.of.modules
FramesOK ==
  /\ b.frames \in Seq(Range(b.frames))
  /\ \A i \in DOMAIN b.frames : FrameOK(b.frames[i])
  /\ b.batch \in BatchNo \cup {1}
  /\ b.batch = 1 /\ b.frames # <<>> => Len(b.frames) = 1 /\ b.frames[1].prev = NoOrder

(* Nothing is built of a build in init, and everything of one that is       *)
(* imported.                                                                *)
DonePcs == {"module", "tag module", "devel", "tag devel", "done"}
Recorded1 ==
  /\ RowsOK(b.pending, 0)
  /\ RowsOK(b.rows, IF b.stage = "init" THEN 0 ELSE Len(artifacts))
  /\ b.todo \subseteq Components
  /\ pc \in DonePcs => Unbuilt = {}

(* Every component of a build that became ready was built.                  *)
Past ==
  /\ history \in Seq(Range(history)) /\ artifacts \in Seq(Range(artifacts))
  /\ \A k \in DOMAIN history :
       /\ RowsOK(history[k].rows, Len(artifacts))
       /\ \A c \in DOMAIN history[k].rows : history[k].rows[c].built # 0
  /\ b.reused \in 0..Len(history)

Typed == Shape /\ Staged /\ Planned /\ HeadsOK /\ Counted /\ FramesOK /\ Recorded1 /\ Past


-----------------------------------------------------------------------------
(* What it is to record a package, or to begin with a module.               *)

KnownRows   == Overlay(b.pending, b.rows)
RowFor(item) ==
  [batch |-> BatchOf(Top, item, b.batch), ref |-> b.refs[item.name], built |-> 0]
Records(item) ==
  /\ item \in Nexts(Top) /\ item \in Top.of.rpms
  /\ ~Uncountable(Top, item, b.batch)
  /\ item.name \in DOMAIN KnownRows
       => ~Differs(KnownRows[item.name], BatchOf(Top, item, b.batch), b.refs[item.name])
  /\ b'.frames = Advanced(item) /\ b'.batch = BatchOf(Top, item, b.batch)
  /\ b'.pending = Overlay(b.pending, [d \in {item.name} \ DOMAIN KnownRows |-> RowFor(item)])
  /\ b'.placed = b.placed \cup {[name |-> item.name, place |-> Place(item, None)]}
  /\ b'.refs = b.refs /\ b'.rows = b.rows /\ b'.stage = b.stage /\ pc' = pc

(* A package is recorded, or the build fails.                               *)
LEMMA RecordsPackage ==
  ASSUME Shape, RecordPackage
  PROVE  (b' = b /\ pc' = "failed") \/ \E item : Records(item)
<1>0. /\ DOMAIN b = Fields
      /\ {"frames", "batch", "pending", "placed", "refs", "rows", "stage"} \subseteq Fields
  BY DEF Shape, Fields
<1>1. PICK item \in Nexts(Top) \cap Top.of.rpms :
        LET c     == item.name
            batch == BatchOf(Top, item, b.batch)
            known == Overlay(b.pending, b.rows)
            row   == [batch |-> batch, ref |-> b.refs[c], built |-> 0]
        IN IF \/ Uncountable(Top, item, b.batch)
              \/ c \in DOMAIN known /\ Differs(known[c], batch, b.refs[c])
           THEN Fail /\ UNCHANGED b
           ELSE /\ b' = [b EXCEPT !.frames = Advanced(item), !.batch = batch,
                                  !.pending = Overlay(@, [d \in {c} \ DOMAIN known |-> row]),
                                  !.placed = @ \cup {[name |-> c, place |-> Place(item, None)]}]
                /\ UNCHANGED pc
  BY DEF RecordPackage
<1>2. CASE \/ Uncountable(Top, item, b.batch)
           \/ /\ item.name \in DOMAIN KnownRows
              /\ Differs(KnownRows[item.name], BatchOf(Top, item, b.batch), b.refs[item.name])
  BY <1>1, <1>2 DEF KnownRows, Fail
<1>3. CASE ~(\/ Uncountable(Top, item, b.batch)
             \/ /\ item.name \in DOMAIN KnownRows
                /\ Differs(KnownRows[item.name], BatchOf(Top, item, b.batch), b.refs[item.name]))
  <2>1. /\ b' = [b EXCEPT !.frames = Advanced(item), !.batch = BatchOf(Top, item, b.batch),
                   !.pending = Overlay(@, [d \in {item.name} \ DOMAIN KnownRows |-> RowFor(item)]),
                   !.placed = @ \cup {[name |-> item.name, place |-> Place(item, None)]}]
        /\ pc' = pc
    BY <1>1, <1>3 DEF KnownRows, RowFor
  <2>2. Records(item)
    BY <1>0, <1>1, <1>3, <2>1 DEF Records
  <2> QED BY <2>2
<1> QED BY <1>2, <1>3

MmdOf(item) == IncludedMmd[item.name][heads[item.name]]
FrameFor(item) == Frame(MmdOf(item), item.order, Place(item, item.name))
Includes(item) ==
  /\ item \in Nexts(Top) /\ item \in Top.of.modules /\ heads[item.name] # NoCommit
  /\ ~Uncountable(Top, item, b.batch)
  /\ Names(MmdOf(item)) \cap Names(b.sub.mmd) = {}
  /\ \/ b'.pending = b.pending /\ b'.rows = b.rows
     \/ b'.pending = NoRows /\ b'.rows = KnownRows
  /\ \/ /\ IsEmpty(MmdOf(item)) /\ b'.frames = Advanced(item) /\ b'.batch = NoBatch
        /\ b'.refs = b.refs
     \/ /\ b'.frames = <<FrameFor(item)>> \o Advanced(item)
        /\ b'.batch = BatchOf(Top, item, b.batch)
        /\ b'.refs = Overlay(Refs(MmdOf(item), heads, b.sub.srpms), b.refs)
  /\ b'.placed = b.placed /\ b'.stage = b.stage /\ pc' = pc

(* A module is begun with, or the build fails; either may commit.           *)
LEMMA IncludesModule ==
  ASSUME Shape, IncludeModule
  PROVE  \/ /\ pc' = "failed" /\ b'.stage = b.stage
            /\ \/ b' = b
               \/ b' = [b EXCEPT !.rows = KnownRows, !.pending = NoRows]
         \/ \E item : Includes(item)
<1>0. /\ DOMAIN b = Fields
      /\ {"frames", "batch", "pending", "placed", "refs", "rows", "stage", "sub"} \subseteq Fields
  BY DEF Shape, Fields
<1> DEFINE saved == [b EXCEPT !.rows = KnownRows, !.pending = NoRows]
<1>1. PICK item \in Nexts(Top) \cap Top.of.modules :
        LET n     == item.name
            batch == BatchOf(Top, item, b.batch)
            inc   == IncludedMmd[n][heads[n]]
        IN IF Uncountable(Top, item, b.batch) \/ heads[n] = NoCommit THEN Fail /\ UNCHANGED b
           ELSE IF Forbidden(inc) THEN Fail /\ UNCHANGED b
           ELSE \E waited \in IF IsEmpty(inc) THEN {FALSE} ELSE BOOLEAN :
             LET s == IF waited THEN saved ELSE b
             IN IF Unresolved(inc, heads, b.sub.srpms) \/ Names(inc) \cap Names(b.sub.mmd) # {}
                THEN Fail /\ b' = s
                ELSE /\ UNCHANGED pc
                     /\ b' = IF IsEmpty(inc)
                             THEN [s EXCEPT !.frames = Advanced(item), !.batch = NoBatch]
                             ELSE [s EXCEPT !.batch = batch,
                                            !.refs = Overlay(Refs(inc, heads, b.sub.srpms), @),
                                            !.frames =
                                              <<Frame(inc, item.order, Place(item, n))>>
                                                \o Advanced(item)]
  BY DEF IncludeModule, KnownRows
<1> DEFINE inc == MmdOf(item)
<1>2. CASE pc' = "failed" /\ b' = b
  BY <1>2
<1>3. CASE ~(pc' = "failed" /\ b' = b)
  <2>1. PICK s \in {b, saved} :
          /\ ~Uncountable(Top, item, b.batch) /\ heads[item.name] # NoCommit
          /\ IsEmpty(inc) => s = b
          /\ IF Unresolved(inc, heads, b.sub.srpms) \/ Names(inc) \cap Names(b.sub.mmd) # {}
             THEN Fail /\ b' = s
             ELSE /\ UNCHANGED pc
                  /\ b' = IF IsEmpty(inc)
                          THEN [s EXCEPT !.frames = Advanced(item), !.batch = NoBatch]
                          ELSE [s EXCEPT !.batch = BatchOf(Top, item, b.batch),
                                         !.refs = Overlay(Refs(inc, heads, b.sub.srpms), @),
                                         !.frames = <<FrameFor(item)>> \o Advanced(item)]
    BY <1>1, <1>3 DEF MmdOf, FrameFor, Fail
  <2>2. /\ DOMAIN s = Fields /\ s.placed = b.placed /\ s.stage = b.stage /\ s.refs = b.refs
        /\ \/ s.pending = b.pending /\ s.rows = b.rows
           \/ s.pending = NoRows /\ s.rows = KnownRows
    BY <1>0
  <2>3. CASE pc' = "failed" /\ b' = s
    BY <2>2, <2>3
  <2>4. CASE ~(pc' = "failed" /\ b' = s)
    <3>1. Names(inc) \cap Names(b.sub.mmd) = {} /\ pc' = pc
      BY <2>1, <2>4 DEF Fail
    <3>2. \/ /\ IsEmpty(inc)
             /\ b' = [s EXCEPT !.frames = Advanced(item), !.batch = NoBatch]
          \/ b' = [s EXCEPT !.batch = BatchOf(Top, item, b.batch),
                            !.refs = Overlay(Refs(inc, heads, b.sub.srpms), @),
                            !.frames = <<FrameFor(item)>> \o Advanced(item)]
      BY <2>1, <2>4 DEF Fail
    <3> HIDE DEF saved
    <3>3. /\ b'.pending = s.pending /\ b'.rows = s.rows /\ b'.placed = s.placed
          /\ b'.stage = s.stage
      BY <1>0, <2>2, <3>2
    <3>4. \/ /\ IsEmpty(inc) /\ b'.frames = Advanced(item) /\ b'.batch = NoBatch
             /\ b'.refs = b.refs
          \/ /\ b'.frames = <<FrameFor(item)>> \o Advanced(item)
             /\ b'.batch = BatchOf(Top, item, b.batch)
             /\ b'.refs = Overlay(Refs(MmdOf(item), heads, b.sub.srpms), b.refs)
      BY <1>0, <2>2, <3>2
    <3>5. Includes(item)
      BY <1>1, <2>1, <2>2, <3>1, <3>3, <3>4 DEF Includes
    <3> QED BY <3>5
  <2> QED BY <2>3, <2>4
<1> QED BY <1>2, <1>3

-----------------------------------------------------------------------------
(* Which steps change what.                                                 *)

(* The init handler begins again.                                           *)
Redo == b.stage = "init" /\ b' = Restarted /\ (Crash \/ Resubmit)

(* Of each field of a build, and of each variable, the steps that change it.*)
LEMMA Changes ==
  ASSUME Shape, Staged, [Next]_vars, ~Submit
  PROVE  /\ b'.arches = b.arches \/ RecordArches
         /\ b'.br = b.br \/ AddDefaultModules \/ Redo
         /\ b'.refs = b.refs \/ FormatMain \/ IncludeModule \/ Redo
         /\ (b'.frames = b.frames /\ b'.batch = b.batch)
              \/ FormatMain \/ RecordPackage \/ IncludeModule \/ EndOfModule \/ Redo
         /\ b'.pending = b.pending \/ RecordPackage \/ IncludeModule \/ Save \/ Redo
         /\ b'.rows = b.rows \/ IncludeModule \/ Save \/ ReuseAll \/ NextBatch \/ BuildBatch
         /\ b'.todo = b.todo \/ b'.todo = {} \/ NextBatch
         /\ b'.reused = b.reused \/ ReuseAll \/ NextBatch
         /\ b'.stage = "init" => b.stage = "init"
         /\ pc' \in DonePcs => pc \in DonePcs \/ Finalize
         /\ UNCHANGED artifacts \/ BuildBatch
         /\ UNCHANGED history \/ Finish
<1> USE DEF Shape, Fields, DonePcs, Fail
<1>2. CASE InitHandler
  <2>1. CASE RecordArches \/ FormatMain \/ EndOfModule \/ Save
    BY <2>1, ZenonT(60) DEF RecordArches, FormatMain, EndOfModule, Save, OnlyBuild
  <2>2. CASE AddDefaultModules
    BY <2>2 DEF AddDefaultModules, OnlyBuild
  <2>3. CASE RecordPackage
    BY <2>3, ZenonT(60) DEF RecordPackage, OnlyBuild
  <2>4. CASE IncludeModule
    <3>1. pc' \in {"failed", "record"}
      BY <2>4 DEF IncludeModule, InRecord
    <3>2. b'.stage = b.stage /\ b'.todo = b.todo /\ b'.reused = b.reused
      BY <2>4, ZenonT(60) DEF IncludeModule
    <3>3. b'.arches = b.arches /\ b'.br = b.br /\ UNCHANGED <<artifacts, history>>
      BY <2>4, ZenonT(60) DEF IncludeModule, OnlyBuild
    <3> QED BY <2>4, <3>1, <3>2, <3>3
  <2> QED BY <1>2, <2>1, <2>2, <2>3, <2>4 DEF InitHandler
<1>3. CASE Connecting
  <2>1. pc' \notin DonePcs
    <3>1. CASE AddTarget
      BY <3>1 DEF AddTarget, Staged
    <3> QED BY <1>3, <3>1 DEF Connecting, LookForTag, CreateTag, WhitelistPackages, BlockPackages,
                              AddGroup, AddGroupPackages
  <2>2. UNCHANGED <<artifacts, history>> /\ b'.reused = b.reused /\ b'.stage = b.stage
    BY <1>3 DEF Connecting, LookForTag, CreateTag, WhitelistPackages, BlockPackages, AddGroup,
                AddGroupPackages, AddTarget, OnlyTags
  <2>3. /\ b'.arches = b.arches /\ b'.br = b.br /\ b'.refs = b.refs /\ b'.frames = b.frames
        /\ b'.batch = b.batch /\ b'.pending = b.pending /\ b'.rows = b.rows /\ b'.todo = b.todo
    BY <1>3, ZenonT(60) DEF Connecting, LookForTag, CreateTag, WhitelistPackages, BlockPackages, AddGroup,
                AddGroupPackages, AddTarget, OnlyTags
  <2> QED BY <2>1, <2>2, <2>3
<1>4. CASE WaitHandler
  <2>1. pc' \in {"reuse", "look", "failed", "macros"} /\ UNCHANGED <<artifacts, history>>
    BY <1>4 DEF WaitHandler, AddRepos, ReuseAll, BuildMacros, OnlyTags
  <2>2. b'.stage = "init" => b.stage = "init"
    BY <1>4 DEF WaitHandler, AddRepos, ReuseAll, BuildMacros, OnlyTags
  <2>3. /\ b'.arches = b.arches /\ b'.br = b.br /\ b'.refs = b.refs /\ b'.frames = b.frames
        /\ b'.batch = b.batch /\ b'.pending = b.pending /\ b'.todo = b.todo
    BY <1>4, ZenonT(60) DEF WaitHandler, AddRepos, ReuseAll, BuildMacros, OnlyTags
  <2>4. (b'.rows = b.rows /\ b'.reused = b.reused) \/ ReuseAll
    BY <1>4 DEF WaitHandler, AddRepos, BuildMacros
  <2> QED BY <2>1, <2>2, <2>3, <2>4
<1>5. CASE RepoHandler
  BY <1>5, ZenonT(60) DEF RepoHandler, NextBatch, BuildBatch, Finalize, Import, TagImported, Finish, OnlyTags,
              OnlyBuild, Rooted
<1>6. CASE Faults
  <2>1. CASE Crash \/ Resubmit
    BY <2>1, ZenonT(60) DEF Crash, Resubmit, Restart, Restarted, Redo
  <2>2. CASE RetryGroups \/ FailBuild \/ Abandon \/ Push
    BY <2>2 DEF RetryGroups, FailBuild, Abandon, Push
  <2> QED BY <1>6, <2>1, <2>2 DEF Faults
<1>7. CASE UNCHANGED vars
  BY <1>7 DEF vars
<1> QED BY <1>2, <1>3, <1>4, <1>5, <1>6, <1>7 DEF Next

(* A sequence is one of its elements.                                       *)
LEMMA OfItsRange == ASSUME NEW S, NEW s \in Seq(S) PROVE s \in Seq(Range(s))
<1>1. Len(s) \in Nat /\ s = [i \in 1..Len(s) |-> s[i]] /\ DOMAIN s = 1..Len(s)
  OBVIOUS
<1>2. s \in [1..Len(s) -> Range(s)]
  BY <1>1 DEF Range
<1> QED BY <1>1, <1>2

(* The batch of what is recorded next.                                      *)
LEMMA NextBatchNo ==
  ASSUME FramesOK, InRecord, NEW item, item.order # NoOrder, ~Uncountable(Top, item, b.batch)
  PROVE  BatchOf(Top, item, b.batch) \in BatchNo
<1>1. b.frames # <<>> /\ Top = b.frames[1]
  BY DEF InRecord, Top, FramesOK
<1>2. b.batch \in {NoBatch, 1} \cup Nat /\ NoBatch = -1
  BY DEF FramesOK, BatchNo, NoBatch
<1>3. CASE item.order = Top.prev
  BY <1>1, <1>3 DEF FramesOK, BatchOf, BatchNo
<1>4. CASE item.order # Top.prev
  BY <1>2, <1>4 DEF FramesOK, BatchOf, BatchNo, Uncountable, NoBatch
<1> QED BY <1>3, <1>4

(* What is left of the modulemd being recorded, and those it is included in.*)
LEMMA AdvancedOK ==
  ASSUME FramesOK, InRecord, NEW item
  PROVE  /\ Advanced(item) \in Seq(Range(Advanced(item)))
         /\ Advanced(item) # <<>>
         /\ \A i \in DOMAIN Advanced(item) : FrameOK(Advanced(item)[i])
<1> DEFINE f == [Top EXCEPT !.todo = @ \ {item}, !.prev = item.order]
           S == {f} \cup Range(b.frames)
<1>1. b.frames \in Seq(S) /\ b.frames # <<>>
  <2>1. b.frames \in Seq(Range(b.frames))
    BY DEF FramesOK
  <2>2. b.frames \in [1..Len(b.frames) -> Range(b.frames)] /\ Len(b.frames) \in Nat
    BY <2>1
  <2>3. b.frames \in [1..Len(b.frames) -> S]
    BY <2>2
  <2> QED BY <2>2, <2>3 DEF InRecord
<1>2. Top = b.frames[1] /\ FrameOK(Top)
  BY <1>1 DEF Top, FramesOK
<1>3. FrameOK(f)
  BY <1>2 DEF FrameOK
<1>4. Tail(b.frames) \in Seq(S) /\ \A i \in DOMAIN Tail(b.frames) : FrameOK(Tail(b.frames)[i])
  BY <1>1 DEF FramesOK
<1>5. Advanced(item) = <<f>> \o Tail(b.frames)
  BY DEF Advanced
<1> HIDE DEF f, S
<1>6. <<f>> \in Seq(S)
  BY DEF S
<1>7. Advanced(item) \in Seq(S) /\ Advanced(item) # <<>>
  BY <1>4, <1>5, <1>6
<1>8. ASSUME NEW i \in DOMAIN Advanced(item) PROVE FrameOK(Advanced(item)[i])
  <2>1. CASE i = 1
    BY <1>3, <1>4, <1>5, <1>6, <2>1
  <2>2. CASE i # 1
    <3>1. i - 1 \in DOMAIN Tail(b.frames) /\ Advanced(item)[i] = Tail(b.frames)[i - 1]
      BY <1>4, <1>5, <1>6, <2>2
    <3> QED BY <1>4, <3>1
  <2> QED BY <2>1, <2>2
<1> QED BY <1>7, <1>8, OfItsRange


(* What a modulemd includes is a modulemd.                                  *)
LEMMA IncludedOK ==
  ASSUME HeadsOK, FramesOK, InRecord, NEW item \in Nexts(Top) \cap Top.of.modules,
         heads[item.name] # NoCommit
  PROVE  IncludedMmd[item.name][heads[item.name]] \in Modulemds
<1> DEFINE n == item.name
<1>1. Top.of \in Modulemds
  BY DEF InRecord, Top, FramesOK, FrameOK
<1>2. n \in DOMAIN IncludedMmd
  BY <1>1, ProductionAssumption
<1>3. heads[n] \in 1..Len(IncludedMmd[n]) /\ IncludedMmd[n] \in Seq(Range(IncludedMmd[n]))
  BY <1>2, ProductionAssumption DEF HeadsOK, NoCommit
<1>4. IncludedMmd[n][heads[n]] \in Range(IncludedMmd[n])
  BY <1>3
<1> QED BY <1>2, <1>4 DEF Modulemds

(* Components of what is being recorded have a buildorder.                  *)
LEMMA Ordered ==
  ASSUME FramesOK, InRecord, NEW item \in Nexts(Top)
  PROVE  item.order # NoOrder
<1>1. Top.of \in Modulemds /\ item \in Top.of.rpms \cup Top.of.modules
  BY DEF InRecord, Top, FramesOK, FrameOK, Nexts
<1> QED BY <1>1, ProductionAssumption

(* What the init handler has in memory stays well formed.                   *)
LEMMA FramesNext ==
  ASSUME Shape, Staged, Planned, HeadsOK, FramesOK, [Next]_vars
  PROVE  FramesOK'
<1> USE DEF Shape, Fields
<1>1. CASE Submit
  <2>1. CASE b' = New(Head(todo))
    <3>1. b'.frames = <<>> /\ b'.batch = 1
      BY <2>1 DEF New, InitialBatch
    <3> QED BY <3>1 DEF FramesOK, Range
  <2>2. CASE b' = b
    BY <2>2 DEF FramesOK
  <2> QED BY <1>1, <2>1, <2>2 DEF Submit
<1>2. CASE b'.frames = b.frames /\ b'.batch = b.batch
  BY <1>2 DEF FramesOK
<1>3. CASE FormatMain
  <2> DEFINE f == Frame(b.sub.mmd, NoOrder, <<>>)
  <2>1. CASE b'.frames = <<f>> /\ b'.batch = b.batch
    <3>1. FrameOK(f) /\ f.prev = NoOrder
      BY DEF Planned, Modulemds, FrameOK, Frame
    <3> HIDE DEF f
    <3>2. <<f>> \in Seq(Range(<<f>>))
      BY DEF Range
    <3> QED BY <2>1, <3>1, <3>2 DEF FramesOK
  <2> QED BY <1>2, <1>3, <2>1 DEF FormatMain, OnlyBuild
<1>4. CASE RecordPackage
  <2>1. CASE b' = b
    BY <1>2, <2>1
  <2>2. CASE b' # b
    <3>1. PICK item \in Nexts(Top) :
            /\ ~Uncountable(Top, item, b.batch)
            /\ b'.frames = Advanced(item) /\ b'.batch = BatchOf(Top, item, b.batch)
      BY <1>4, <2>2 DEF RecordPackage
    <3>2. InRecord /\ item.order # NoOrder
      BY <1>4, Ordered DEF RecordPackage
    <3>3. b'.batch \in BatchNo
      BY <3>1, <3>2, NextBatchNo
    <3>4. b'.batch # 1
      BY <3>3 DEF BatchNo, NoBatch
    <3> QED BY <3>1, <3>2, <3>3, <3>4, AdvancedOK DEF FramesOK
  <2> QED BY <2>1, <2>2
<1>5. CASE IncludeModule
  <2>1. CASE b'.frames = b.frames /\ b'.batch = b.batch
    BY <1>2, <2>1
  <2>2. CASE ~(b'.frames = b.frames /\ b'.batch = b.batch)
    <3>1. PICK item : Includes(item)
      BY <1>5, <2>2, IncludesModule
    <3> DEFINE new == FrameFor(item)
    <3>2. InRecord /\ item.order # NoOrder
      BY <1>5, <3>1, Ordered DEF IncludeModule, Includes
    <3>3. b'.batch \in BatchNo
      BY <3>1, <3>2, NextBatchNo DEF BatchNo, Includes
    <3>4. b'.batch # 1
      BY <3>3 DEF BatchNo, NoBatch
    <3>5. FrameOK(new)
      <4>1. MmdOf(item) \in Modulemds
        BY <3>1, <3>2, IncludedOK DEF Includes, MmdOf
      <4> QED BY <4>1 DEF FrameOK, Frame, FrameFor
    <3>6. /\ Advanced(item) \in Seq(Range(Advanced(item)))
          /\ \A i \in DOMAIN Advanced(item) : FrameOK(Advanced(item)[i])
      BY <3>1, <3>2, AdvancedOK DEF Includes
    <3>7. b'.frames = Advanced(item) \/ b'.frames = <<new>> \o Advanced(item)
      BY <3>1 DEF Includes
    <3> HIDE DEF new
    <3>8. CASE b'.frames = <<new>> \o Advanced(item)
      <4> DEFINE S == {new} \cup Range(Advanced(item))
      <4>1. Advanced(item) \in [1..Len(Advanced(item)) -> S] /\ Len(Advanced(item)) \in Nat
        BY <3>6 DEF Range
      <4>2. <<new>> \in Seq(S) /\ Advanced(item) \in Seq(S)
        BY <3>6, <4>1
      <4> HIDE DEF S
      <4>3. b'.frames \in Seq(S)
        BY <3>8, <4>2
      <4>4. ASSUME NEW i \in DOMAIN b'.frames PROVE FrameOK(b'.frames[i])
        <5>1. CASE i = 1
          BY <3>5, <3>8, <4>2, <5>1
        <5>2. CASE i # 1
          <6>1. i - 1 \in DOMAIN Advanced(item) /\ b'.frames[i] = Advanced(item)[i - 1]
            BY <3>8, <4>2, <5>2
          <6> QED BY <3>6, <6>1
        <5> QED BY <5>1, <5>2
      <4> QED BY <3>3, <3>4, <4>3, <4>4, OfItsRange DEF FramesOK
    <3> QED BY <3>3, <3>4, <3>6, <3>7, <3>8 DEF FramesOK
  <2> QED BY <2>1, <2>2
<1>6. CASE EndOfModule
  <2>1. b'.frames = Tail(b.frames) /\ b'.batch = b.batch /\ b.frames # <<>>
    BY <1>6 DEF EndOfModule, InRecord
  <2>2. Len(b.frames) = 1 => Tail(b.frames) = <<>>
    BY DEF FramesOK
  <2>3. Tail(b.frames) \in Seq(Range(Tail(b.frames)))
    <3>1. b.frames \in Seq(Range(b.frames))
      BY DEF FramesOK
    <3>2. Tail(b.frames) \in Seq(Range(b.frames))
      BY <2>1, <3>1
    <3> QED BY <3>2, OfItsRange
  <2>4. \A i \in DOMAIN Tail(b.frames) : FrameOK(Tail(b.frames)[i])
    BY <2>1 DEF FramesOK
  <2> QED BY <2>1, <2>2, <2>3, <2>4 DEF FramesOK
<1>7. CASE Redo
  <2>1. b'.frames = <<>> /\ b'.batch = 1
    BY <1>7 DEF Redo, Restarted, InitialBatch
  <2> QED BY <2>1 DEF FramesOK, Range
<1> QED BY <1>1, <1>2, <1>3, <1>4, <1>5, <1>6, <1>7, Changes


(* More artifacts do not harm.                                              *)
LEMMA RowsStay ==
  ASSUME NEW rows, NEW m \in Nat, NEW n \in Nat, m <= n, RowsOK(rows, m)
  PROVE  RowsOK(rows, n)
BY DEF RowsOK, RowOK

(* What was recorded on top of what is recorded already.                    *)
LEMMA RowsOverlay ==
  ASSUME NEW f, NEW g, NEW n, RowsOK(f, n), RowsOK(g, n)
  PROVE  RowsOK(Overlay(f, g), n)
<1>1. IsFiniteSet(DOMAIN f \cup DOMAIN g)
  BY FS_Union DEF RowsOK
<1>2. DOMAIN Overlay(f, g) = DOMAIN f \cup DOMAIN g
  BY DEF Overlay
<1>3. ASSUME NEW c \in DOMAIN f \cup DOMAIN g PROVE RowOK(Overlay(f, g)[c], n)
  <2>1. Overlay(f, g)[c] = IF c \in DOMAIN f THEN f[c] ELSE g[c]
    BY DEF Overlay
  <2> QED BY <2>1 DEF RowsOK
<1> QED BY <1>1, <1>2, <1>3 DEF RowsOK

(* The build to reuse from is one of those that became ready.               *)
LEMMA ReusableThere == ASSUME Past PROVE ReusableModule \in 0..Len(history)
<1> DEFINE on(bases) == [i \in DOMAIN bases |-> ReusableOn(bases[i])]
<1>1. DOMAIN history = 1..Len(history) /\ Len(history) \in Nat
  BY DEF Past
<1>2. ASSUME NEW bases PROVE FirstNewest(on(bases)) \subseteq DOMAIN history
  <2>1. \A i \in DOMAIN on(bases) : on(bases)[i] \subseteq DOMAIN history
    BY DEF ReusableOn
  <2> HIDE DEF on
  <2> QED BY <2>1 DEF FirstNewest
<1>3. ASSUME NEW bases PROVE ReusableIn(bases) \in 0..Len(history)
  <2> DEFINE fit == FirstNewest(on(bases))
  <2>1. fit \subseteq 1..Len(history)
    BY <1>1, <1>2
  <2>2. ReusableIn(bases) = IF fit = {} THEN 0 ELSE CHOOSE k \in fit : TRUE
    BY DEF ReusableIn
  <2> HIDE DEF fit
  <2>3. fit # {} => (CHOOSE k \in fit : TRUE) \in fit
    OBVIOUS
  <2>4. CASE fit = {}
    BY <1>1, <2>2, <2>4
  <2>5. CASE fit # {}
    <3>1. ReusableIn(bases) = CHOOSE k \in fit : TRUE
      BY <2>2, <2>5
    <3>2. ReusableIn(bases) \in fit
      BY <2>3, <2>5, <3>1
    <3>3. \A k \in 1..Len(history) : k \in 0..Len(history)
      BY <1>1
    <3> QED BY <2>1, <3>2, <3>3, Zenon
  <2> QED BY <2>4, <2>5
<1> QED BY <1>3 DEF ReusableModule, Past

(* What can be taken over has been built by then.                           *)
LEMMA TakenOver ==
  ASSUME Past, NEW k \in 0..Len(history), NEW C, NEW c \in FromBuild(k, C)
  PROVE  /\ k \in DOMAIN history /\ c \in C /\ c \in DOMAIN history[k].rows
         /\ history[k].rows[c].built \in 1..Len(artifacts)
<1>1. k # 0 /\ c \in C /\ Reusable(View, history[k], c)
  BY DEF FromBuild
<1>2. k \in DOMAIN history /\ Len(artifacts) \in Nat
  BY <1>1 DEF Past
<1>3. c \in DOMAIN history[k].rows
  BY <1>1 DEF Reusable, SameCommit, Recorded
<1>4. history[k].rows[c].built \in 0..Len(artifacts) /\ history[k].rows[c].built # 0
  BY <1>2, <1>3 DEF Past, RowsOK, RowOK
<1> QED BY <1>1, <1>2, <1>3, <1>4

(* Rows stay well formed when builds are taken over.                        *)
LEMMA TakenOK ==
  ASSUME Past, RowsOK(b.rows, Len(artifacts)), NEW k \in 0..Len(history), NEW C,
         \A c \in C : c \in FromBuild(k, C)
  PROVE  RowsOK(Taken(C, k), Len(artifacts))
<1>1. DOMAIN Taken(C, k) = DOMAIN b.rows
  BY DEF Taken, Components
<1>2. ASSUME NEW c \in DOMAIN b.rows PROVE RowOK(Taken(C, k)[c], Len(artifacts))
  <2>1. RowOK(b.rows[c], Len(artifacts))
    BY DEF RowsOK
  <2>2. CASE c \in C
    <3>1. history[k].rows[c].built \in 1..Len(artifacts)
      BY <2>2, TakenOver
    <3>2. Taken(C, k)[c] = [b.rows[c] EXCEPT !.built = history[k].rows[c].built]
      BY <2>2 DEF Taken, Components
    <3>3. Len(artifacts) \in Nat
      BY DEF Past
    <3> QED BY <2>1, <3>1, <3>2, <3>3 DEF RowOK
  <2>3. CASE c \notin C
    BY <2>1, <2>3 DEF Taken, Components
  <2> QED BY <2>2, <2>3
<1> QED BY <1>1, <1>2 DEF RowsOK

(* Taken over, or asked for and not taken over, are the same of any set.    *)
LEMMA FromItself ==
  ASSUME NEW k, NEW C, NEW c \in FromBuild(k, C) PROVE c \in FromBuild(k, FromBuild(k, C))
BY DEF FromBuild, Raising

(* The builds of a batch come after those there are, one for each.          *)
LEMMA BatchBuilt ==
  ASSUME Shape, Past, Recorded1, BuildBatch
  PROVE  /\ artifacts' \in Seq(Range(artifacts')) /\ Len(artifacts) <= Len(artifacts')
         /\ \A i \in DOMAIN artifacts : artifacts'[i] = artifacts[i]
         /\ DOMAIN b'.rows = Components /\ b'.todo = {}
         /\ \A c \in Components \ b.todo : b'.rows[c] = b.rows[c]
         /\ \A c \in b.todo :
              /\ b'.rows[c] = [b.rows[c] EXCEPT !.built = b'.rows[c].built]
              /\ b'.rows[c].built \in (Len(artifacts) + 1)..Len(artifacts')
              /\ artifacts'[b'.rows[c].built] = [package |-> c, made |-> MadeFrom(View, c)]
<1> DEFINE order == SetToSeq(b.todo)
           n == Cardinality(b.todo)
           new == [i \in DOMAIN order |-> [package |-> order[i],
                                           made |-> MadeFrom(View, order[i])]]
           at(c) == Len(artifacts) + (CHOOSE i \in DOMAIN order : order[i] = c)
<1>1. IsFiniteSet(b.todo) /\ b.todo \subseteq Components
  BY FS_Subset DEF Recorded1, RowsOK, Components
<1>2. n \in Nat /\ order \in [1..n -> b.todo] /\ \A c \in b.todo : \E i \in DOMAIN order : order[i] = c
  BY <1>1, InSequence
<1>3. /\ artifacts' = artifacts \o new
      /\ b' = [b EXCEPT !.rows = [c \in Components |-> IF c \in b.todo
                                    THEN [b.rows[c] EXCEPT !.built = at(c)] ELSE b.rows[c]],
                        !.todo = {}]
  BY DEF BuildBatch
<1> DEFINE X == Range(artifacts) \cup Range(new)
<1>4. artifacts \in Seq(X) /\ new \in Seq(X) /\ Len(new) = n /\ DOMAIN new = 1..n
  <2>1. artifacts \in Seq(Range(artifacts))
    BY DEF Past
  <2>2. DOMAIN new = 1..n /\ new = [i \in 1..n |-> new[i]]
    BY <1>2
  <2> HIDE DEF new
  <2>3. new \in [1..n -> X]
    BY <2>2 DEF Range
  <2>4. artifacts \in [1..Len(artifacts) -> X] /\ Len(artifacts) \in Nat
    BY <2>1
  <2> HIDE DEF X, n
  <2>5. new \in Seq(X) /\ Len(new) = n
    BY <1>2, <2>3
  <2>6. artifacts \in Seq(X)
    BY <2>4
  <2> QED BY <2>2, <2>5, <2>6
<1>5. ASSUME NEW c \in b.todo
      PROVE  /\ at(c) \in (Len(artifacts) + 1)..(Len(artifacts) + n)
             /\ new[at(c) - Len(artifacts)] = [package |-> c, made |-> MadeFrom(View, c)]
  <2>1. PICK i \in DOMAIN order : i = (CHOOSE j \in DOMAIN order : order[j] = c) /\ order[i] = c
    BY <1>2
  <2>2. at(c) = Len(artifacts) + i /\ i \in 1..n /\ Len(artifacts) \in Nat
    BY <1>2, <1>4, <2>1
  <2>3. at(c) - Len(artifacts) = i
    BY <2>2
  <2>4. new[i] = [package |-> c, made |-> MadeFrom(View, c)]
    BY <2>1
  <2> HIDE DEF at, new, n
  <2> QED BY <1>2, <2>2, <2>3, <2>4
<1> HIDE DEF order, n, new, X
<1>6. artifacts' \in Seq(X) /\ Len(artifacts') = Len(artifacts) + n /\ Len(artifacts) \in Nat
  BY <1>2, <1>3, <1>4
<1>7. /\ \A i \in DOMAIN artifacts : artifacts'[i] = artifacts[i]
      /\ \A i \in (Len(artifacts) + 1)..(Len(artifacts) + n) :
           artifacts'[i] = new[i - Len(artifacts)]
  BY <1>2, <1>3, <1>4
<1>8. artifacts' \in Seq(Range(artifacts'))
  BY <1>6, OfItsRange
<1> HIDE DEF at
<1>9. /\ DOMAIN b'.rows = Components /\ b'.todo = {}
      /\ \A c \in Components \ b.todo : b'.rows[c] = b.rows[c]
      /\ \A c \in b.todo : b'.rows[c] = [b.rows[c] EXCEPT !.built = at(c)]
  BY <1>1, <1>3 DEF Shape, Fields
<1>10. \A c \in b.todo : b'.rows[c].built = at(c)
  <2>1. \A c \in b.todo : DOMAIN b.rows[c] = {"batch", "ref", "built"}
    BY <1>1 DEF Recorded1, RowsOK, RowOK, Components
  <2> QED BY <1>9, <2>1
<1> QED BY <1>2, <1>5, <1>6, <1>7, <1>8, <1>9, <1>10


(* A package that is recorded has a row as it should be.                    *)
LEMMA PackageRecorded ==
  ASSUME Shape, FramesOK, Recorded1, RecordPackage
  PROVE  RowsOK(b'.pending, 0)
<1>1. CASE b' = b
  BY <1>1 DEF Recorded1
<1>2. CASE b' # b
  <2> DEFINE more(item) == [d \in {item.name} \ DOMAIN KnownRows |-> RowFor(item)]
  <2>1. PICK item \in Nexts(Top) : /\ ~Uncountable(Top, item, b.batch)
                                   /\ b'.pending = Overlay(b.pending, more(item))
    BY <1>2, RecordsPackage DEF Records
  <2>2. BatchOf(Top, item, b.batch) \in BatchNo
    <3>1. InRecord
      BY DEF RecordPackage
    <3> QED BY <2>1, <3>1, Ordered, NextBatchNo
  <2>3. RowsOK(more(item), 0)
    <3> DEFINE S == {item.name} \ DOMAIN KnownRows
    <3>1. IsFiniteSet(S)
      <4>1. IsFiniteSet({item.name}) /\ S \subseteq {item.name}
        BY FS_Singleton
      <4> QED BY <4>1, FS_Subset
    <3>2. RowOK(RowFor(item), 0)
      BY <2>2 DEF RowOK, RowFor
    <3> QED BY <3>1, <3>2 DEF RowsOK
  <2> HIDE DEF more
  <2> QED BY <2>1, <2>3, RowsOverlay DEF Recorded1
<1> QED BY <1>1, <1>2

(* The rows of a build stay well formed, and all built once it is imported. *)
LEMMA RecordedNext ==
  ASSUME Shape, Staged, FramesOK, Recorded1, Past, [Next]_vars
  PROVE  Recorded1'
<1> USE DEF Shape, Fields
<1>a. RowsOK(NoRows, 0)
  <2>1. DOMAIN NoRows = {}
    BY DEF NoRows
  <2> QED BY <2>1, FS_EmptySet DEF RowsOK
<1>b. Len(artifacts) \in Nat
  BY DEF Past
<1>1. CASE Submit
  <2>1. CASE b' = New(Head(todo)) /\ pc' = "arches"
    <3>1. b'.rows = NoRows /\ b'.pending = NoRows /\ b'.todo = {} /\ b'.stage = "init"
      BY <2>1 DEF New
    <3> QED BY <1>a, <2>1, <3>1 DEF Recorded1, DonePcs
  <2>2. CASE UNCHANGED <<b, pc, artifacts>>
    BY <2>2 DEF Recorded1, Unbuilt, Components
  <2> QED BY <1>1, <2>1, <2>2 DEF Submit
<1>2. CASE ~Submit
  <2>1. RowsOK(b'.pending, 0)
    <3>1. CASE RecordPackage
      BY <3>1, PackageRecorded
    <3>2. CASE IncludeModule
      <4>1. b'.pending = b.pending \/ b'.pending = NoRows
        BY <3>2 DEF IncludeModule
      <4> QED BY <1>a, <4>1 DEF Recorded1
    <3>3. CASE Save \/ Redo
      BY <1>a, <3>3 DEF Save, Redo, Restarted
    <3> QED BY <1>2, <3>1, <3>2, <3>3, Changes DEF Recorded1
  <2>2. CASE IncludeModule
    <3>1. b'.rows \in {b.rows, Overlay(b.pending, b.rows)} /\ b'.todo = b.todo
          /\ b'.stage = b.stage /\ pc' \in {"failed", "record"} /\ b.stage = "init"
      BY <2>2, ZenonT(60) DEF IncludeModule, Staged, InitPcs, InRecord, Fail
    <3>2. RowsOK(Overlay(b.pending, b.rows), 0) /\ RowsOK(b.rows, 0)
      BY <3>1, RowsOverlay DEF Recorded1
    <3>3. b.todo \subseteq DOMAIN b'.rows
      <4>1. DOMAIN Overlay(b.pending, b.rows) = DOMAIN b.pending \cup DOMAIN b.rows
        BY DEF Overlay
      <4> QED BY <3>1, <4>1 DEF Recorded1, Components
    <3> QED BY <2>1, <3>1, <3>2, <3>3 DEF Recorded1, DonePcs, Components
  <2>3. CASE Save
    <3>1. b'.rows = Overlay(b.pending, b.rows) /\ b'.todo = b.todo /\ b.stage = "init"
          /\ pc' = "look" /\ artifacts' = artifacts
      BY <2>3 DEF Save, OnlyBuild, Staged, InitPcs
    <3>2. RowsOK(b'.rows, 0) /\ RowsOK(b'.rows, Len(artifacts'))
      BY <1>b, <3>1, RowsOverlay, RowsStay DEF Recorded1
    <3>3. b.todo \subseteq DOMAIN b'.rows
      <4>1. DOMAIN Overlay(b.pending, b.rows) = DOMAIN b.pending \cup DOMAIN b.rows
        BY DEF Overlay
      <4> QED BY <3>1, <4>1 DEF Recorded1, Components
    <3> QED BY <2>1, <3>1, <3>2, <3>3 DEF Recorded1, DonePcs, Components
  <2>4. CASE ReuseAll
    <3>1. b.stage = "wait" /\ RowsOK(b.rows, Len(artifacts)) /\ artifacts' = artifacts
          /\ pc' \in {"look", "failed", "macros"} /\ b'.stage # "init" /\ b'.todo = b.todo
      BY <2>4 DEF ReuseAll, OnlyTags, Fail, Staged, Recorded1
    <3>2. CASE b'.rows = b.rows
      BY <2>1, <3>1, <3>2 DEF Recorded1, DonePcs, Components
    <3>3. CASE b'.rows # b.rows
      <4>1. PICK k : k = ReusableModule /\ b'.rows = Taken(Components, k)
                     /\ Components \ (FromBuild(k, Components) \cup Raising(k, Components)) = {}
                     /\ Raising(k, Components) = {}
        BY <2>4, <3>3 DEF ReuseAll
      <4>2. RowsOK(b'.rows, Len(artifacts))
        BY <3>1, <4>1, ReusableThere, TakenOK
      <4>3. DOMAIN b'.rows = Components
        BY <4>1 DEF Taken
      <4> QED BY <2>1, <3>1, <4>2, <4>3 DEF Recorded1, DonePcs, Components
    <3> QED BY <3>2, <3>3
  <2>5. CASE NextBatch
    <3>1. b.stage = "build" /\ RowsOK(b.rows, Len(artifacts)) /\ artifacts' = artifacts
          /\ pc' \in {"look", "failed", "build"} /\ b'.stage = b.stage
      BY <2>5 DEF NextBatch, OnlyTags, Fail, Staged, BuildPcs, Recorded1
    <3>2. CASE b' = b
      BY <2>1, <3>1, <3>2 DEF Recorded1, DonePcs, Components
    <3>3. CASE b' # b
      <4>1. PICK k \in {0, ReusableModule}, C \in SUBSET Unbuilt :
              b'.rows = Taken(FromBuild(k, C), k) /\ b'.todo = C \ FromBuild(k, C)
        <5> DEFINE batch == Min(Later)
                   C == {c \in Unbuilt : b.rows[c].batch = batch}
                   k == IF TriesReuse(batch) THEN ReusableModule ELSE 0
        <5>1. /\ b'.rows = Taken(FromBuild(k, C), k) /\ b'.todo = C \ FromBuild(k, C)
              /\ C \in SUBSET Unbuilt /\ k \in {0, ReusableModule}
          BY <2>5, <3>3 DEF NextBatch
        <5> HIDE DEF k, C
        <5> QED BY <5>1
      <4>2. k \in 0..Len(history)
        BY ReusableThere DEF Past
      <4>3. RowsOK(b'.rows, Len(artifacts))
        BY <3>1, <4>1, <4>2, TakenOK, FromItself
      <4>4. DOMAIN b'.rows = Components /\ C \subseteq Components
        BY <4>1 DEF Taken, Unbuilt
      <4> QED BY <2>1, <3>1, <4>1, <4>3, <4>4 DEF Recorded1, DonePcs, Components
    <3> QED BY <3>2, <3>3
  <2>6. CASE BuildBatch
    <3>1. b.stage = "build" /\ RowsOK(b.rows, Len(artifacts)) /\ pc' = "look" /\ b'.stage = b.stage
      BY <2>6 DEF BuildBatch, Staged, BuildPcs, Recorded1
    <3>2. /\ Len(artifacts) <= Len(artifacts') /\ Len(artifacts') \in Nat
          /\ DOMAIN b'.rows = Components /\ b'.todo = {}
          /\ \A c \in Components \ b.todo : b'.rows[c] = b.rows[c]
          /\ \A c \in b.todo :
               /\ b'.rows[c] = [b.rows[c] EXCEPT !.built = b'.rows[c].built]
               /\ b'.rows[c].built \in (Len(artifacts) + 1)..Len(artifacts')
      <4>1. artifacts' \in Seq(Range(artifacts'))
        BY <2>6, BatchBuilt
      <4>2. Len(artifacts') \in Nat
        BY <4>1
      <4> QED BY <2>6, <4>2, BatchBuilt, Zenon DEF Shape, Fields
    <3>3. ASSUME NEW c \in Components PROVE RowOK(b'.rows[c], Len(artifacts'))
      <4>1. RowOK(b.rows[c], Len(artifacts))
        BY <3>1 DEF RowsOK, Components
      <4>2. CASE c \in b.todo
        <5>1. /\ b'.rows[c] = [b.rows[c] EXCEPT !.built = b'.rows[c].built]
              /\ b'.rows[c].built \in 0..Len(artifacts')
          BY <1>b, <3>2, <4>2
        <5> QED BY <4>1, <5>1 DEF RowOK
      <4>3. CASE c \notin b.todo
        BY <1>b, <3>2, <4>1, <4>3 DEF RowOK
      <4> QED BY <4>2, <4>3
    <3>4. RowsOK(b'.rows, Len(artifacts'))
      BY <3>1, <3>2, <3>3 DEF RowsOK, Components
    <3> QED BY <2>1, <3>1, <3>2, <3>4 DEF Recorded1, DonePcs, Components
  <2>7. CASE ~(IncludeModule \/ Save \/ ReuseAll \/ NextBatch \/ BuildBatch)
    <3>1. /\ b'.rows = b.rows /\ b'.todo \subseteq b.todo /\ artifacts' = artifacts
          /\ b'.stage = "init" => b.stage = "init"
          /\ pc' \in DonePcs => pc \in DonePcs \/ Finalize
      BY <1>2, <2>7, Changes
    <3>2. RowsOK(b.rows, 0) => RowsOK(b.rows, Len(artifacts))
      BY <1>b, RowsStay
    <3>3. pc' \in DonePcs => Unbuilt' = {}
      BY <3>1 DEF Finalize, Recorded1, Unbuilt, Components
    <3> QED BY <2>1, <3>1, <3>2, <3>3 DEF Recorded1, Components
  <2> QED BY <2>2, <2>3, <2>4, <2>5, <2>6, <2>7
<1> QED BY <1>1, <1>2


(* What was built, and what became ready, stays as it was.                  *)
LEMMA PastNext ==
  ASSUME Shape, Staged, Planned, Recorded1, Past, [Next]_vars
  PROVE  Past'
<1> USE DEF Shape, Fields
<1>0. Len(artifacts) \in Nat /\ Len(history) \in Nat /\ DOMAIN history = 1..Len(history)
  BY DEF Past
<1>1. b'.reused \in 0..Len(history)
  <2>1. CASE Submit
    <3>1. CASE b' = New(Head(todo)) /\ Known(Head(todo))
      BY <3>1 DEF New, Known
    <3>2. CASE b' = b
      BY <3>2 DEF Past
    <3> QED BY <2>1, <3>1, <3>2 DEF Submit
  <2>2. CASE ReuseAll \/ NextBatch
    <3>1. b'.reused = b.reused \/ b'.reused = ReusableModule
      BY <2>2 DEF ReuseAll, NextBatch
    <3> QED BY <3>1, ReusableThere DEF Past
  <2> QED BY <2>1, <2>2, Changes DEF Past
<1>2. CASE BuildBatch
  <2>1. history' = history /\ artifacts' \in Seq(Range(artifacts'))
        /\ Len(artifacts) <= Len(artifacts')
    BY <1>2, BatchBuilt DEF BuildBatch
  <2>2. Len(artifacts') \in Nat
    BY <2>1
  <2>3. \A k \in DOMAIN history : RowsOK(history[k].rows, Len(artifacts'))
    BY <1>0, <2>1, <2>2, RowsStay DEF Past
  <2> QED BY <1>1, <2>1, <2>3 DEF Past
<1>3. CASE Finish
  <2>1. b.stage = "build" /\ pc \in DonePcs /\ artifacts' = artifacts
    BY <1>3 DEF Finish, Staged, BuildPcs, DonePcs
  <2>2. CASE history' = history
    BY <1>1, <2>1, <2>2 DEF Past
  <2>3. CASE history' # history
    <3>1. PICK h : history' = Append(history, h) /\ h.rows = b.rows
      BY <1>3, <2>3 DEF Finish
    <3>2. RowsOK(h.rows, Len(artifacts)) /\ \A c \in DOMAIN h.rows : h.rows[c].built # 0
      <4>1. \A c \in DOMAIN h.rows : c \notin Unbuilt
        BY <2>1 DEF Recorded1
      <4> QED BY <2>1, <3>1, <4>1 DEF Recorded1, Unbuilt, Components
    <3> DEFINE S == Range(history) \cup {h}
    <3>3. history \in Seq(S)
      <4>1. history \in [1..Len(history) -> S]
        BY <1>0 DEF Range, Past
      <4> QED BY <1>0, <4>1
    <3> HIDE DEF S
    <3>4. h \in S
      BY DEF S
    <3>5. history' \in Seq(S) /\ DOMAIN history' = 1..(Len(history) + 1)
          /\ Len(history') = Len(history) + 1
      BY <3>1, <3>3, <3>4
    <3>6. ASSUME NEW k \in DOMAIN history'
          PROVE  history'[k] = h \/ (k \in DOMAIN history /\ history'[k] = history[k])
      BY <1>0, <3>1, <3>3, <3>4, <3>5
    <3>7. history' \in Seq(Range(history'))
      BY <3>5, OfItsRange
    <3>8. b'.reused \in 0..Len(history')
      BY <1>0, <1>1, <3>5
    <3> QED BY <2>1, <3>2, <3>6, <3>7, <3>8 DEF Past
  <2> QED BY <2>2, <2>3
<1>4. CASE ~(BuildBatch \/ Finish)
  <2>1. artifacts' = artifacts /\ history' = history
    BY <1>4, Changes DEF Submit
  <2> QED BY <1>1, <2>1 DEF Past
<1> QED BY <1>2, <1>3, <1>4

(* The first build, and what there is before it.                            *)
LEMMA TypedInit == ASSUME Init PROVE Typed
<1> USE DEF Init
<1>1. PICK p \in Plans : todo = p
  OBVIOUS
<1>2. todo \in Seq(Submissions) /\ todo # <<>> /\ Head(todo) = todo[1] /\ todo[1].reuse = 0
  BY <1>1, ProductionAssumption
<1>3. Head(todo) \in Submissions
  BY <1>2
<1>4. /\ b.sub = Head(todo) /\ b.stage = "init" /\ b.then = "repos" /\ b.frames = <<>>
      /\ b.batch = 1 /\ b.pending = NoRows /\ b.rows = NoRows /\ b.todo = {} /\ b.reused = 0
  BY <1>2 DEF New, InitialBatch
<1>5. DOMAIN NoRows = {} /\ IsFiniteSet({})
  BY FS_EmptySet DEF NoRows
<1>6. Shape
  BY ShapeInit
<1>7. Staged
  BY <1>4 DEF Staged, Pcs, InitPcs, BuildPcs
<1>8. Planned
  BY <1>2, <1>3, <1>4 DEF Planned
<1>9. HeadsOK /\ Counted
  <2>1. \A n \in DOMAIN IncludedMmd : Heads[n] <= Len(IncludedMmd[n])
    BY ProductionAssumption
  <2>2. faults = [restarts |-> 0, moves |-> 0] /\ 0 \in 0..MaxRestarts /\ 0 \in 0..MaxMoves
    BY ProductionAssumption
  <2> QED BY <2>1, <2>2, ProductionAssumption DEF HeadsOK, Counted
<1>10. FramesOK
  <2> HIDE DEF Init
  <2> QED BY <1>4 DEF FramesOK, Range
<1>11. Recorded1
  BY <1>4, <1>5 DEF Recorded1, RowsOK, Components, DonePcs
<1>12. Past
  BY <1>4 DEF Past, Range
<1> QED BY <1>6, <1>7, <1>8, <1>9, <1>10, <1>11, <1>12 DEF Typed

(* Every step keeps a build well formed.                                    *)
LEMMA TypedNext == ASSUME Typed, [Next]_vars PROVE Typed'
BY ShapeNext, StagedNext, PlannedNext, BoundsNext, FramesNext, RecordedNext, PastNext DEF Typed

(* What is known of every build, and of those before it.                    *)
THEOREM TypedAlways == Spec => []Typed
<1>1. Init => Typed
  BY TypedInit
<1>2. Typed /\ [Next]_vars => Typed'
  BY TypedNext
<1> QED BY <1>1, <1>2, PTL DEF Spec

(* Type correctness: every component has a number for a batch that is not   *)
(* that of module-build-macros, or none, and what is recorded as built or   *)
(* as reused is there.                                                      *)
THEOREM ProductionTyped == Spec => []TypeOK
<1>1. Typed => TypeOK
  <2> SUFFICES ASSUME Typed PROVE TypeOK
    OBVIOUS
  <2> USE DEF Typed
  <2>1. pc \in Pcs /\ b.stage \in {"init", "wait", "build"} /\ (pc \in InitPcs => b.stage = "init")
    BY DEF Staged
  <2>2. \A c \in Components : /\ b.rows[c].batch \in {NoBatch} \cup (Nat \ 0..1)
                              /\ b.rows[c].built \in 0..Len(artifacts)
    <3>1. Len(artifacts) \in Nat
      BY DEF Past
    <3>2. RowsOK(b.rows, Len(artifacts))
      BY <3>1, RowsStay DEF Recorded1
    <3> QED BY <3>2 DEF RowsOK, RowOK, BatchNo, Components
  <2>3. b.reused \in 0..Len(history)
    BY DEF Past
  <2> QED BY <2>1, <2>2, <2>3 DEF TypeOK, Counted
<1> QED BY <1>1, TypedAlways, PTL


-----------------------------------------------------------------------------
(* The tags of a build.                                                     *)

(* What the handlers have done to the tags by then.                         *)
AfterTarget == {"repos", "reuse", "macros"} \cup BuildPcs
AfterBlock  == {"groups", "group packages"} \cup AfterTarget
AfterBuild  == {"whitelist", "block"} \cup AfterBlock
AfterDest   == {"build tag"} \cup AfterBuild
TagsThere ==
  /\ pc \in AfterDest => koji.dest
  /\ pc \in AfterBuild => koji.build
  /\ pc \in AfterTarget => koji.target
  /\ pc \in {"block"} \cup AfterBlock => ToWhitelist \subseteq koji.packages
  /\ b.stage = "init" => koji = NoTags

(* Nothing is in a build root that is not there, and the handlers know that *)
(* one with packages in it was there before.                                *)
RootedOK ==
  /\ NotBlockedAgain
  /\ koji.rooted # {} => koji.build
  /\ pc \in {"dest tag", "build tag", "whitelist", "block"} /\ koji.rooted # {} => b.existed

(* The build tag inherits from buildrequires only, from each once, and from *)
(* all once they were added.                                                *)
ParentsOK ==
  /\ IsFiniteSet(DOMAIN b.br)
  /\ koji.parents \in Seq(Range(koji.parents)) /\ IsInjective(koji.parents)
  /\ Range(koji.parents) \subseteq Range(b.br)
  /\ pc \in {"reuse", "macros"} \/ b.stage = "build" => Range(koji.parents) = Range(b.br)

(* Groups that are there have their packages, but for the one that is being *)
(* filled, as long as no worker was killed.                                 *)
GroupsOK ==
  faults.restarts = 0 =>
    /\ koji.groups = [g \in DOMAIN koji.groups |-> koji.groups[g]]
    /\ DOMAIN koji.groups \subseteq DOMAIN Groups
    /\ \A g \in DOMAIN koji.groups :
         koji.groups[g] = Groups[g] \/ (pc = "group packages" /\ g = b.group)
    /\ pc = "group packages" => b.group \in DOMAIN koji.groups
    /\ pc \in {"groups", "group packages"} => DOMAIN Groups \ DOMAIN koji.groups = b.groups
    /\ pc \in AfterTarget => DOMAIN koji.groups = DOMAIN Groups

(* Until then a build tag is new when the builder looks for it first.       *)
BlockedOK ==
  faults.restarts = 0 =>
    /\ pc \in AfterBlock \/ b.stage = "build" =>
         b.sub.blocked \subseteq koji.blocked \cup koji.rooted
    /\ b.stage = "wait" /\ pc = "look" => ~koji.build
    /\ b.stage = "wait" /\ pc \in {"dest tag", "build tag", "whitelist", "block"} => ~b.existed


(* Of each field of the tags, the steps that change it.                     *)
LEMMA TagChanges ==
  ASSUME Shape, [Next]_vars, ~Submit
  PROVE  /\ (koji.dest => koji'.dest) /\ (koji.build => koji'.build)
         /\ koji.target => koji'.target
         /\ koji'.groups = koji.groups \/ AddGroup \/ AddGroupPackages
         /\ koji'.parents = koji.parents \/ AddRepos
         /\ koji'.rooted = koji.rooted \/ ReuseAll \/ NextBatch \/ BuildBatch
         /\ koji'.blocked = koji.blocked \/ BlockPackages \/ ReuseAll \/ NextBatch \/ BuildBatch
         /\ koji.packages \subseteq koji'.packages
         /\ koji.rooted \cup koji.blocked \subseteq koji'.rooted \cup koji'.blocked
         /\ b'.existed = b.existed \/ LookForTag
         /\ b'.groups = b.groups \/ BlockPackages \/ AddGroup
         /\ b'.group = b.group \/ AddGroup
         /\ InitHandler => koji' = koji
<1> USE DEF Shape, TagFields, Fields
<1>1. InitHandler => koji' = koji
  BY Zenon DEF InitHandler, RecordArches, AddDefaultModules, FormatMain, RecordPackage,
               IncludeModule, EndOfModule, Save, OnlyBuild
<1>2. CASE InitHandler
  <2>1. CASE RecordArches \/ FormatMain \/ EndOfModule \/ Save
    BY <2>1, ZenonT(60) DEF RecordArches, FormatMain, EndOfModule, Save, OnlyBuild
  <2>2. CASE AddDefaultModules
    BY <2>2 DEF AddDefaultModules, OnlyBuild
  <2>3. CASE RecordPackage
    BY <2>3 DEF RecordPackage, OnlyBuild
  <2>4. CASE IncludeModule
    <3>1. b'.existed = b.existed /\ b'.groups = b.groups /\ b'.group = b.group
      BY <2>4, ZenonT(60) DEF IncludeModule
    <3> QED BY <1>1, <1>2, <3>1
  <2> QED BY <1>2, <2>1, <2>2, <2>3, <2>4 DEF InitHandler
<1>3. CASE Connecting
  <2>1. CASE LookForTag \/ CreateTag
    BY <1>1, <2>1 DEF LookForTag, CreateTag
  <2>3. CASE WhitelistPackages
    <3>1. b' = b /\ koji' = [koji EXCEPT !.packages = @ \cup ToWhitelist]
      BY <2>3 DEF WhitelistPackages
    <3> QED BY <1>1, <3>1
  <2>4. CASE BlockPackages
    <3>1. koji' = koji \/ koji' = [koji EXCEPT !.blocked = @ \cup b.sub.blocked]
      BY <2>4 DEF BlockPackages
    <3>2. b'.existed = b.existed /\ b'.group = b.group
      BY <2>4 DEF BlockPackages
    <3> QED BY <1>1, <2>4, <3>1, <3>2
  <2>2. CASE AddGroup \/ AddGroupPackages \/ AddTarget
    BY <1>1, <2>2, ZenonT(60) DEF AddGroup, AddGroupPackages, AddTarget
  <2> QED BY <1>3, <2>1, <2>2, <2>3, <2>4 DEF Connecting
<1>4. CASE WaitHandler
  <2>1. CASE AddRepos
    BY <1>1, <2>1 DEF AddRepos
  <2>2. CASE ReuseAll
    <3>1. koji' = koji \/ koji' = Rooted(Components)
      BY <2>2 DEF ReuseAll
    <3>2. b'.existed = b.existed /\ b'.groups = b.groups /\ b'.group = b.group
      BY <2>2 DEF ReuseAll
    <3> QED BY <1>1, <2>2, <3>1, <3>2 DEF Rooted
  <2>3. CASE BuildMacros
    <3>1. koji' = koji \/ koji' = [koji EXCEPT !.packages = @ \cup {"module-build-macros"}]
      BY <2>3 DEF BuildMacros
    <3>2. b'.existed = b.existed /\ b'.groups = b.groups /\ b'.group = b.group
      BY <2>3 DEF BuildMacros
    <3> QED BY <1>1, <3>1, <3>2
  <2> QED BY <1>4, <2>1, <2>2, <2>3 DEF WaitHandler
<1>5. CASE RepoHandler
  <2>1. CASE NextBatch
    <3>1. koji' = koji \/ \E S, C : koji' = [Rooted(S) EXCEPT !.packages = @ \cup C]
      BY <2>1 DEF NextBatch
    <3>2. b'.existed = b.existed /\ b'.groups = b.groups /\ b'.group = b.group
      BY <2>1 DEF NextBatch
    <3>3. CASE koji' # koji
      <4>1. PICK S, C : koji' = [Rooted(S) EXCEPT !.packages = @ \cup C]
        BY <3>1, <3>3
      <4>2. /\ koji'.rooted = koji.rooted \cup S /\ koji'.blocked = koji.blocked \ S
            /\ koji'.packages = koji.packages \cup C /\ koji'.dest = koji.dest
            /\ koji'.build = koji.build /\ koji'.groups = koji.groups
            /\ koji'.target = koji.target /\ koji'.parents = koji.parents
        BY <4>1 DEF Rooted
      <4> QED BY <1>1, <2>1, <3>2, <4>2
    <3> QED BY <1>1, <3>2, <3>3
  <2>2. CASE BuildBatch
    BY <1>1, <2>2 DEF BuildBatch, Rooted
  <2>3. CASE Finalize \/ Import \/ TagImported \/ Finish
    BY <2>3 DEF Finalize, Import, TagImported, Finish, OnlyBuild
  <2> QED BY <1>5, <2>1, <2>2, <2>3 DEF RepoHandler
<1>6. CASE Faults
  BY <1>6, ZenonT(60) DEF Faults, Crash, RetryGroups, FailBuild, Resubmit, Abandon, Push, Restart, Restarted
<1>7. CASE UNCHANGED vars
  BY <1>7 DEF vars
<1> QED BY <1>1, <1>2, <1>3, <1>4, <1>5, <1>6, <1>7 DEF Next


(* After init a build keeps its components, its submission and what it      *)
(* buildrequires.                                                           *)
LEMMA Settled ==
  ASSUME Shape, Staged, [Next]_vars, ~Submit, b.stage # "init"
  PROVE  /\ b'.sub = b.sub /\ b'.br = b.br /\ b'.arches = b.arches /\ b'.refs = b.refs
         /\ Components' = Components /\ b'.stage # "init"
<1>1. b'.sub = b.sub
  BY SubmissionKept
<1>2. pc \notin InitPcs /\ ~Redo
  BY DEF Staged, Redo
<1>3. ~(RecordArches \/ AddDefaultModules \/ FormatMain \/ IncludeModule \/ Save)
  BY <1>2 DEF RecordArches, AddDefaultModules, FormatMain, IncludeModule, Save, InRecord, InitPcs
<1>4. Components' = Components
  <2>1. CASE ReuseAll
    <3>1. CASE b'.rows # b.rows
      <4>1. PICK k : k = ReusableModule /\ b'.rows = Taken(Components, k)
                     /\ Raising(k, Components) = {}
        <5> DOMAIN b = Fields
          BY DEF Shape
        <5> QED BY <2>1, <3>1 DEF ReuseAll, Fields
      <4> QED BY <4>1 DEF Components, Taken
    <3> QED BY <3>1 DEF Components
  <2>2. CASE NextBatch
    <3> DEFINE k == IF TriesReuse(Min(Later)) THEN ReusableModule ELSE 0
               C == {c \in Unbuilt : b.rows[c].batch = Min(Later)}
    <3>1. b'.rows = b.rows \/ b'.rows = Taken(FromBuild(k, C), k)
      BY <2>2 DEF NextBatch, Shape, Fields
    <3> QED BY <3>1 DEF Components, Taken
  <2>3. CASE BuildBatch
    BY <2>3 DEF BuildBatch, Components, Shape, Fields
  <2> QED BY <1>3, <2>1, <2>2, <2>3, Changes DEF Components
<1> QED BY <1>1, <1>2, <1>3, <1>4, Changes

(* How the builder goes on.                                                 *)
LEMMA Flow ==
  ASSUME Shape, Staged, [Next]_vars
  PROVE  /\ pc' = "look" => b'.stage # "init"
         /\ pc' = "dest tag" => pc = "dest tag" \/ LookForTag
         /\ pc' = "build tag" => pc = "build tag" \/ (CreateTag /\ pc = "dest tag")
         /\ pc' = "whitelist" => pc = "whitelist" \/ (CreateTag /\ pc = "build tag")
         /\ pc' = "block" => pc = "block" \/ WhitelistPackages
         /\ pc' \in {"groups", "group packages"} =>
              pc \in {"groups", "group packages"} \/ BlockPackages
         /\ pc' \in AfterTarget => pc \in AfterTarget \/ AddTarget
         /\ pc' \in {"reuse", "macros"} => pc \in {"reuse", "macros"} \/ AddRepos
         /\ b'.stage = "build" => b.stage = "build" \/ pc \in {"reuse", "macros"}
<1>0. Staged'
  BY StagedNext
<1> USE DEF AfterTarget, BuildPcs, InitPcs, Fail
<1>1. pc' = "look" => b'.stage # "init"
  BY <1>0 DEF Staged
<1>2. b'.stage = "build" => b.stage = "build" \/ pc \in {"reuse", "macros"}
  <2>1. CASE Submit
    BY <2>1 DEF Submit, New
  <2>2. CASE InitHandler
    <3>1. b'.stage \in {b.stage, "wait"}
      BY <2>2, ZenonT(60) DEF InitHandler, RecordArches, AddDefaultModules, FormatMain, RecordPackage,
                  IncludeModule, EndOfModule, Save, Shape, Fields
    <3> QED BY <3>1
  <2>3. CASE WaitHandler
    BY <2>3 DEF WaitHandler, AddRepos, ReuseAll, BuildMacros
  <2>4. CASE Connecting
    BY <2>4 DEF Connecting, LookForTag, CreateTag, WhitelistPackages, BlockPackages, AddGroup,
                AddGroupPackages, AddTarget, Shape, Fields
  <2>5. CASE RepoHandler
    BY <2>5 DEF RepoHandler, NextBatch, BuildBatch, Finalize, Import, TagImported, Finish,
                OnlyBuild, Shape, Fields
  <2>6. CASE Faults
    BY <2>6 DEF Faults, Crash, RetryGroups, FailBuild, Resubmit, Abandon, Push, Restart, Restarted,
                Shape, Fields
  <2>7. CASE UNCHANGED vars
    BY <2>7 DEF vars
  <2> QED BY <2>1, <2>2, <2>3, <2>4, <2>5, <2>6, <2>7 DEF Next
<1> DEFINE Steps ==
         /\ pc' = "dest tag" => pc = "dest tag" \/ LookForTag
         /\ pc' = "build tag" => pc = "build tag" \/ (CreateTag /\ pc = "dest tag")
         /\ pc' = "whitelist" => pc = "whitelist" \/ (CreateTag /\ pc = "build tag")
         /\ pc' = "block" => pc = "block" \/ WhitelistPackages
         /\ pc' \in {"groups", "group packages"} =>
              pc \in {"groups", "group packages"} \/ BlockPackages
         /\ pc' \in AfterTarget => pc \in AfterTarget \/ AddTarget
         /\ pc' \in {"reuse", "macros"} => pc \in {"reuse", "macros"} \/ AddRepos
<1>3. CASE Submit \/ InitHandler \/ Faults \/ UNCHANGED vars
  <2>1. pc' \in InitPcs \cup {"look", "failed", "idle", "groups"} \/ pc' = pc
    BY <1>3 DEF Submit, InitHandler, RecordArches, AddDefaultModules, FormatMain, RecordPackage,
         IncludeModule, EndOfModule, Save, InRecord, Faults, Crash, RetryGroups, FailBuild,
         Resubmit, Abandon, Push, Restart, vars
  <2>2. pc' = "groups" => pc = "groups" \/ pc = "group packages"
    BY <1>3 DEF Submit, InitHandler, RecordArches, AddDefaultModules, FormatMain, RecordPackage,
         IncludeModule, EndOfModule, Save, InRecord, Faults, Crash, RetryGroups, FailBuild,
         Resubmit, Abandon, Push, Restart, vars
  <2>3. Steps
    BY <2>1, <2>2
  <2> QED BY <1>1, <1>2, <2>3
<1>4. CASE Connecting
  <2>1. Steps
    BY <1>4 DEF Connecting, LookForTag, CreateTag, WhitelistPackages, BlockPackages, AddGroup,
                AddGroupPackages, AddTarget, Staged
  <2> QED BY <1>1, <1>2, <2>1
<1>5. CASE WaitHandler \/ RepoHandler
  <2>1. pc \in AfterTarget /\ pc' \in AfterTarget \cup {"look", "failed", "idle"}
    BY <1>5 DEF WaitHandler, AddRepos, ReuseAll, BuildMacros, RepoHandler, NextBatch, BuildBatch,
                Finalize, Import, TagImported, Finish
  <2>2. pc' \in {"reuse", "macros"} => pc \in {"reuse", "macros"} \/ AddRepos
    BY <1>5 DEF WaitHandler, AddRepos, ReuseAll, BuildMacros, RepoHandler, NextBatch, BuildBatch,
                Finalize, Import, TagImported, Finish
  <2>3. Steps
    BY <2>1, <2>2
  <2> QED BY <1>1, <1>2, <2>3
<1> QED BY <1>3, <1>4, <1>5 DEF Next

(* Tags are made one after another, and not before init is over.            *)
LEMMA TagsThereNext ==
  ASSUME Shape, Staged, TagsThere, [Next]_vars
  PROVE  TagsThere'
<1> USE DEF Shape, Fields, TagFields
<1>1. CASE Submit
  <2>1. CASE b' = New(Head(todo)) /\ koji' = NoTags /\ pc' = "arches"
    BY <2>1 DEF TagsThere, AfterDest, AfterBuild, AfterBlock, AfterTarget, BuildPcs
  <2>2. CASE UNCHANGED <<b, koji, pc>>
    BY <2>2 DEF TagsThere, ToWhitelist, Components
  <2> QED BY <1>1, <2>1, <2>2 DEF Submit
<1>2. CASE ~Submit /\ b.stage = "init"
  <2>1. pc \in InitPcs \cup {"idle", "failed"} /\ Staged'
    BY <1>2, StagedNext DEF Staged
  <2>2. pc' \notin AfterDest
    <3>1. ~(LookForTag \/ CreateTag \/ WhitelistPackages \/ BlockPackages \/ AddTarget)
      BY <2>1 DEF LookForTag, CreateTag, WhitelistPackages, BlockPackages, AddTarget, InitPcs
    <3> QED BY <2>1, <3>1, Flow DEF AfterDest, AfterBuild, AfterBlock, AfterTarget, BuildPcs,
                                    InitPcs
  <2>3. koji' = koji
    <3>1. InitHandler => koji' = koji
      BY <1>2, TagChanges
    <3>2. ~(Connecting \/ WaitHandler \/ RepoHandler)
      BY <2>1 DEF Connecting, LookForTag, CreateTag, WhitelistPackages, BlockPackages, AddGroup,
           AddGroupPackages, AddTarget, WaitHandler, AddRepos, ReuseAll, BuildMacros, RepoHandler,
           NextBatch, BuildBatch, Finalize, Import, TagImported, Finish, InitPcs
    <3>3. Faults => koji' = koji
      BY DEF Faults, Crash, RetryGroups, FailBuild, Resubmit, Abandon, Push, Restart
    <3> QED BY <1>2, <3>1, <3>2, <3>3 DEF Next, vars
  <2> QED BY <1>2, <2>2, <2>3 DEF TagsThere, AfterDest, AfterBuild, AfterBlock, AfterTarget
<1>3. CASE ~Submit /\ b.stage # "init"
  <2>1. b'.stage # "init" /\ ToWhitelist' = ToWhitelist
    BY <1>3, Settled DEF ToWhitelist
  <2>2. /\ (koji.dest => koji'.dest) /\ (koji.build => koji'.build)
        /\ (koji.target => koji'.target) /\ koji.packages \subseteq koji'.packages
    BY <1>3, TagChanges
  <2> USE DEF TagsThere, AfterDest, AfterBuild, AfterBlock, BuildPcs
  <2>3. pc' \in AfterDest => koji'.dest
    BY <2>2, Flow DEF CreateTag, LookForTag, AddTarget, BlockPackages, WhitelistPackages
  <2>4. pc' \in AfterBuild => koji'.build
    BY <2>2, Flow DEF CreateTag, AddTarget, BlockPackages, WhitelistPackages
  <2>5. pc' \in AfterTarget => koji'.target
    BY <2>2, Flow DEF AddTarget
  <2>6. pc' \in {"block"} \cup AfterBlock => ToWhitelist \subseteq koji'.packages
    <3>1. WhitelistPackages => ToWhitelist \subseteq koji'.packages
      BY DEF WhitelistPackages
    <3>2. pc' \in {"block"} \cup AfterBlock => pc \in {"block"} \cup AfterBlock \/ WhitelistPackages
      BY Flow DEF AddTarget, BlockPackages
    <3> QED BY <2>2, <3>1, <3>2
  <2> QED BY <2>1, <2>3, <2>4, <2>5, <2>6
<1> QED BY <1>1, <1>2, <1>3


(* What is tagged is not blocked, whoever connects to the build root again. *)
LEMMA RootedNext ==
  ASSUME Shape, Staged, TagsThere, RootedOK, [Next]_vars
  PROVE  RootedOK'
<1> USE DEF Shape, Fields, TagFields
<1>1. CASE Submit
  <2>1. CASE b' = New(Head(todo)) /\ koji' = NoTags /\ pc' = "arches"
    BY <2>1 DEF RootedOK, NotBlockedAgain, NoTags
  <2>2. CASE UNCHANGED <<b, koji, pc>>
    BY <2>2 DEF RootedOK, NotBlockedAgain
  <2> QED BY <1>1, <2>1, <2>2 DEF Submit
<1>2. CASE ~Submit
  <2>1. NotBlockedAgain'
    <3>1. CASE BlockPackages
      <4>1. pc = "block" /\ koji' \in {koji, [koji EXCEPT !.blocked = @ \cup b.sub.blocked]}
            /\ (koji' # koji => ~b.existed)
        BY <3>1 DEF BlockPackages, NewTag
      <4>2. koji' # koji => koji.rooted = {}
        BY <4>1 DEF RootedOK
      <4> QED BY <4>1, <4>2 DEF RootedOK, NotBlockedAgain
    <3> DEFINE Moved == koji' = koji \/ \E S : /\ koji'.rooted = koji.rooted \cup S
                                               /\ koji'.blocked = koji.blocked \ S
    <3>2. CASE ReuseAll
      <4>1. koji' = koji \/ koji' = Rooted(Components)
        BY <3>2 DEF ReuseAll
      <4>2. Moved
        BY <4>1 DEF Rooted
      <4> QED BY <4>2 DEF RootedOK, NotBlockedAgain
    <3>3. CASE NextBatch
      <4>1. koji' = koji \/ \E S, C : koji' = [Rooted(S) EXCEPT !.packages = @ \cup C]
        BY <3>3 DEF NextBatch
      <4>2. CASE koji' # koji
        <5>1. PICK S, C : koji' = [Rooted(S) EXCEPT !.packages = @ \cup C]
          BY <4>1, <4>2
        <5>2. koji'.rooted = koji.rooted \cup S /\ koji'.blocked = koji.blocked \ S
          BY <5>1 DEF Rooted
        <5> QED BY <5>2 DEF RootedOK, NotBlockedAgain
      <4> QED BY <4>2 DEF RootedOK, NotBlockedAgain
    <3>4. CASE BuildBatch
      <4>1. koji' = Rooted(b.todo)
        BY <3>4 DEF BuildBatch
      <4>2. koji'.rooted = koji.rooted \cup b.todo /\ koji'.blocked = koji.blocked \ b.todo
        BY <4>1 DEF Rooted
      <4> QED BY <4>2 DEF RootedOK, NotBlockedAgain
    <3>5. CASE ~(BlockPackages \/ ReuseAll \/ NextBatch \/ BuildBatch)
      <4>1. koji'.rooted = koji.rooted /\ koji'.blocked = koji.blocked
        BY <1>2, <3>5, TagChanges
      <4> QED BY <4>1 DEF RootedOK, NotBlockedAgain
    <3> QED BY <3>1, <3>2, <3>3, <3>4, <3>5
  <2>2. ReuseAll \/ NextBatch \/ BuildBatch => koji.build /\ pc \in AfterTarget
    BY DEF ReuseAll, NextBatch, BuildBatch, TagsThere, AfterBuild, AfterBlock, AfterTarget, BuildPcs
  <2>3. koji'.rooted # {} => koji'.build
    BY <1>2, <2>2, TagChanges DEF RootedOK
  <2>4. ASSUME pc' \in {"dest tag", "build tag", "whitelist", "block"}, koji'.rooted # {}
        PROVE  b'.existed
    <3>1. CASE LookForTag
      <4>1. b'.existed = koji.build /\ koji' = koji
        BY <3>1 DEF LookForTag
      <4> QED BY <2>4, <4>1 DEF RootedOK
    <3>2. CASE ~LookForTag
      <4>1. pc \in {"dest tag", "build tag", "whitelist", "block"}
        BY <2>4, <3>2, Flow DEF CreateTag, WhitelistPackages
      <4>2. koji'.rooted = koji.rooted /\ b'.existed = b.existed
        BY <1>2, <2>2, <3>2, <4>1, TagChanges DEF AfterTarget, BuildPcs
      <4> QED BY <2>4, <4>1, <4>2 DEF RootedOK
    <3> QED BY <3>1, <3>2
  <2> QED BY <2>1, <2>3, <2>4 DEF RootedOK
<1> QED BY <1>1, <1>2

(* Images of finite sets.                                                   *)
LEMMA FiniteRange == ASSUME NEW f, IsFiniteSet(DOMAIN f) PROVE IsFiniteSet(Range(f))
<1> DEFINE g == [x \in DOMAIN f |-> f[x]]
<1>1. g \in Surjection(DOMAIN f, Range(f))
  BY DEF Surjection, Range
<1> HIDE DEF g
<1> QED BY <1>1, FS_Surjection

(* What is added for default modules is finite.                             *)
LEMMA DefaultsFinite ==
  ASSUME NEW br, NEW d \in WithDefaults(T, br), ~DefaultsFail(T, br), IsFiniteSet(DOMAIN br)
  PROVE  IsFiniteSet(DOMAIN d)
<1>1. CASE ~HasDefaults(T, br)
  BY <1>1 DEF WithDefaults
<1>2. CASE HasDefaults(T, br)
  <2> DEFINE base == BaseRow(T, br)
             D == DefaultStreams(base.stream)
             builds == DefaultsOf(T, br, D, base)
             new == {n \in DOMAIN builds : builds[n] # {}}
  <2>1. IsFiniteSet(DOMAIN D)
    BY <1>2, ProductionAssumption DEF DefaultsFail, NoDefaults, DefaultStreams
  <2>2. new \subseteq DOMAIN D
    BY DEF DefaultsOf
  <2>3. PICK f : d = Overlay([n \in new |-> f[n].id], br)
    BY <1>2 DEF WithDefaults, Added
  <2>4. IsFiniteSet(new \cup DOMAIN br)
    BY <2>1, <2>2, FS_Subset, FS_Union
  <2> HIDE DEF new
  <2>5. DOMAIN d = new \cup DOMAIN br
    BY <2>3 DEF Overlay
  <2> QED BY <2>4, <2>5
<1> QED BY <1>1, <1>2

(* Nothing is added to the build tag twice, and nothing else.               *)
LEMMA ParentsNext ==
  ASSUME Shape, Staged, Planned, TagsThere, ParentsOK, [Next]_vars
  PROVE  ParentsOK'
<1> USE DEF Shape, Fields, TagFields
<1>0. Range(<<>>) = {} /\ NoTags.parents = <<>> /\ <<>> \in Seq(Range(<<>>)) /\ IsInjective(<<>>)
  BY DEF Range, NoTags, IsInjective
<1>1. CASE Submit
  <2>1. CASE b' = New(Head(todo)) /\ koji' = NoTags /\ pc' = "arches"
    <3>1. b'.br = Head(todo).br /\ b'.stage = "init" /\ Head(todo) \in Submissions
      BY <1>1, <2>1 DEF New, Submit, Planned
    <3>2. IsFiniteSet(DOMAIN b'.br)
      BY <3>1, ProductionAssumption
    <3> QED BY <1>0, <2>1, <3>1, <3>2 DEF ParentsOK
  <2>2. CASE UNCHANGED <<b, koji, pc>>
    BY <2>2 DEF ParentsOK
  <2> QED BY <1>1, <2>1, <2>2 DEF Submit
<1>2. CASE ~Submit
  <2>1. IsFiniteSet(DOMAIN b'.br)
    <3>1. CASE AddDefaultModules
      BY <3>1, DefaultsFinite DEF AddDefaultModules, ParentsOK
    <3>2. CASE Redo
      <4>1. b'.br = b.sub.br
        BY <3>2 DEF Redo, Restarted
      <4> QED BY <4>1, ProductionAssumption DEF Planned
    <3> QED BY <1>2, <3>1, <3>2, Changes DEF ParentsOK
  <2>2. CASE AddRepos
    <3> DEFINE new == SetToSeq(NewParents)
               n == Cardinality(NewParents)
    <3>1. koji'.parents = koji.parents \o new /\ b' = b
      BY <2>2 DEF AddRepos
    <3>2. IsFiniteSet(NewParents)
      BY FiniteRange, FS_Subset DEF ParentsOK, NewParents
    <3>3. n \in Nat /\ new \in [1..n -> NewParents] /\ IsInjective(new)
          /\ \A x \in NewParents : \E i \in DOMAIN new : new[i] = x
      BY <3>2, InSequence
    <3> DEFINE S == Range(koji.parents) \cup NewParents
               m == Len(koji.parents)
    <3>4. koji.parents \in [1..m -> S] /\ m \in Nat /\ DOMAIN koji.parents = 1..m
      BY DEF ParentsOK, Range
    <3>5. new \in Seq(S) /\ koji.parents \in Seq(S) /\ Len(new) = n
      BY <3>3, <3>4
    <3> HIDE DEF new, n, S, m
    <3>6. koji'.parents \in Seq(S) /\ DOMAIN koji'.parents = 1..(m + n)
      BY <3>1, <3>3, <3>4, <3>5 DEF m
    <3>7. /\ \A i \in 1..m : koji'.parents[i] = koji.parents[i]
          /\ \A i \in 1..n : koji'.parents[m + i] = new[i]
      BY <3>1, <3>3, <3>4, <3>5 DEF m
    <3>8. \A i \in 1..(m + n) : i \in 1..m \/ (i - m \in 1..n /\ m + (i - m) = i)
      BY <3>3, <3>4
    <3>9. Range(koji'.parents) = Range(b.br)
      <4>1. Range(koji.parents) \cup NewParents = Range(b.br)
        BY DEF ParentsOK, NewParents
      <4>2. ASSUME NEW x \in Range(koji'.parents) PROVE x \in S
        <5>1. PICK i \in DOMAIN koji'.parents : x = koji'.parents[i]
          BY <4>2 DEF Range
        <5>2. i \in 1..(m + n)
          BY <3>6, <5>1
        <5>3. CASE i \in 1..m
          BY <3>4, <3>7, <5>1, <5>3
        <5>4. CASE i - m \in 1..n /\ m + (i - m) = i
          <6>1. x = new[i - m]
            BY <3>7, <5>1, <5>4
          <6> QED BY <3>3, <5>4, <6>1 DEF S
        <5> QED BY <3>8, <5>2, <5>3, <5>4
      <4>3. ASSUME NEW x \in S PROVE x \in Range(koji'.parents)
        <5>1. CASE x \in NewParents
          <6>1. PICK i \in 1..n : new[i] = x
            BY <3>3, <5>1
          <6>2. koji'.parents[m + i] = x /\ m + i \in 1..(m + n)
            BY <3>3, <3>4, <3>7, <6>1
          <6> QED BY <3>6, <6>2 DEF Range
        <5>2. CASE x \in Range(koji.parents)
          <6>1. PICK i \in 1..m : koji.parents[i] = x
            BY <3>4, <5>2 DEF Range
          <6>2. koji'.parents[i] = x /\ i \in 1..(m + n)
            BY <3>3, <3>4, <3>7, <6>1
          <6> QED BY <3>6, <6>2 DEF Range
        <5> QED BY <4>3, <5>1, <5>2 DEF S
      <4> QED BY <4>1, <4>2, <4>3 DEF S
    <3>10. IsInjective(koji'.parents)
      <4>1. \A i \in 1..m, j \in 1..n : koji.parents[i] # new[j]
        BY <3>3, <3>4 DEF NewParents, Range
      <4>2. ASSUME NEW i \in 1..(m + n), NEW j \in 1..(m + n),
                   koji'.parents[i] = koji'.parents[j]
            PROVE  i = j
        <5>1. CASE i \in 1..m /\ j \in 1..m
          BY <3>4, <3>7, <4>2, <5>1 DEF ParentsOK, IsInjective
        <5>2. CASE i \in 1..m /\ j - m \in 1..n
          BY <3>4, <3>7, <3>8, <4>1, <4>2, <5>2
        <5>3. CASE j \in 1..m /\ i - m \in 1..n
          BY <3>4, <3>7, <3>8, <4>1, <4>2, <5>3
        <5>4. CASE i - m \in 1..n /\ j - m \in 1..n
          <6>1. new[i - m] = new[j - m]
            BY <3>3, <3>4, <3>7, <3>8, <4>2, <5>4
          <6>2. i - m = j - m
            BY <3>3, <5>4, <6>1 DEF IsInjective
          <6> QED BY <3>3, <3>4, <6>2
        <5> QED BY <3>8, <5>1, <5>2, <5>3, <5>4
      <4> QED BY <3>6, <4>2 DEF IsInjective
    <3>11. koji'.parents \in Seq(Range(koji'.parents))
      BY <3>6, OfItsRange
    <3> QED BY <2>1, <3>1, <3>9, <3>10, <3>11 DEF ParentsOK
  <2>3. CASE ~AddRepos
    <3>1. koji'.parents = koji.parents
      BY <1>2, <2>3, TagChanges
    <3>2. CASE b.stage = "init"
      <4>1. koji.parents = <<>>
        BY <1>0, <3>2 DEF TagsThere
      <4>2. pc' \notin {"reuse", "macros"} /\ b'.stage # "build"
        BY <2>3, <3>2, Flow DEF Staged, InitPcs
      <4> QED BY <1>0, <2>1, <3>1, <4>1, <4>2 DEF ParentsOK
    <3>3. CASE b.stage # "init"
      <4>1. b'.br = b.br
        BY <1>2, <3>3, Settled
      <4>2. pc' \in {"reuse", "macros"} \/ b'.stage = "build"
              => pc \in {"reuse", "macros"} \/ b.stage = "build"
        BY <2>3, Flow
      <4> QED BY <2>1, <3>1, <4>1, <4>2 DEF ParentsOK
    <3> QED BY <3>2, <3>3
  <2> QED BY <2>2, <2>3
<1> QED BY <1>1, <1>2


(* As long as no worker was killed nothing is begun again.                  *)
LEMMA NoFault ==
  ASSUME Counted, [Next]_vars, faults'.restarts = 0
  PROVE  faults.restarts = 0 /\ ~Crash /\ ~RetryGroups /\ ~Resubmit
<1>1. ~(\E x : Restart(x)) /\ ~RetryGroups
  <2>1. MaxRestarts \in Nat
    BY ProductionAssumption
  <2>2. faults' # [faults EXCEPT !.restarts = @ + 1]
    BY <2>1 DEF Counted
  <2> QED BY <2>2, Zenon DEF Restart, RetryGroups
<1>2. faults' = faults \/ Push
  BY <1>1, Zenon DEF Next, Submit, InitHandler, RecordArches, AddDefaultModules, FormatMain,
    RecordPackage, IncludeModule, EndOfModule, Save, OnlyBuild, Connecting, LookForTag, CreateTag,
    WhitelistPackages, BlockPackages, AddGroup, AddGroupPackages, AddTarget, OnlyTags,
    WaitHandler, AddRepos, ReuseAll, BuildMacros, RepoHandler, NextBatch, BuildBatch, Finalize,
    Import, TagImported, Finish, Faults, Crash, FailBuild, Resubmit, Abandon, vars
<1>3. faults'.restarts = faults.restarts
  BY <1>2 DEF Push, Counted
<1> QED BY <1>1, <1>3 DEF Crash, Resubmit

(* How groups are added.                                                    *)
LEMMA GroupFlow ==
  ASSUME Shape, Staged, [Next]_vars
  PROVE  /\ pc' = "group packages" => pc = "group packages" \/ AddGroup
         /\ pc' = "groups" => pc = "groups" \/ BlockPackages \/ AddGroupPackages \/ RetryGroups
         /\ pc = "group packages" =>
              pc' = "group packages" \/ AddGroupPackages \/ RetryGroups \/ Crash
<1>1. pc = "group packages" =>
        pc' = "group packages" \/ AddGroupPackages \/ RetryGroups \/ Crash
  BY DEF Next, Submit, InitHandler, RecordArches, AddDefaultModules, FormatMain, InRecord,
    RecordPackage, IncludeModule, EndOfModule, Save, Connecting, LookForTag, CreateTag,
    WhitelistPackages, BlockPackages, AddGroup, AddTarget, WaitHandler, AddRepos, ReuseAll,
    BuildMacros, RepoHandler, NextBatch, BuildBatch, Finalize, Import, TagImported, Finish,
    Faults, FailBuild, Resubmit, Abandon, Push, vars
<1>2. pc' = "groups" /\ pc = "group packages" => AddGroupPackages \/ RetryGroups \/ Crash
  BY <1>1
<1>3. ~Crash \/ pc' # "groups"
  BY DEF Crash, Restart
<1>4. pc' = "group packages" => pc = "group packages" \/ AddGroup
  <2>1. CASE pc = "groups"
    BY <2>1 DEF Next, Submit, InitHandler, RecordArches, AddDefaultModules, FormatMain, InRecord,
      RecordPackage, IncludeModule, EndOfModule, Save, Connecting, LookForTag, CreateTag,
      WhitelistPackages, BlockPackages, AddGroupPackages, AddTarget, WaitHandler, AddRepos,
      ReuseAll, BuildMacros, RepoHandler, NextBatch, BuildBatch, Finalize, Import, TagImported,
      Finish, Faults, Crash, Restart, RetryGroups, FailBuild, Resubmit, Abandon, Push, vars,
      Staged
  <2>2. BlockPackages => pc' # "group packages"
    BY DEF BlockPackages
  <2> QED BY <2>1, <2>2, Flow
<1> QED BY <1>1, <1>2, <1>3, <1>4, Flow

(* Groups are filled one after another.                                     *)
LEMMA GroupsNext ==
  ASSUME Shape, Staged, Counted, GroupsOK, [Next]_vars
  PROVE  GroupsOK'
<1> SUFFICES ASSUME faults'.restarts = 0 PROVE GroupsOK'
  BY DEF GroupsOK
<1> USE DEF Shape, Fields, TagFields
<1>0. faults.restarts = 0 /\ ~Crash /\ ~RetryGroups /\ ~Resubmit
  BY NoFault
<1>1. CASE Submit
  <2>1. CASE b' = New(Head(todo)) /\ koji' = NoTags /\ pc' = "arches"
    <3>1. koji'.groups = [g \in {} |-> {}]
      BY <2>1 DEF NoTags
    <3> QED BY <2>1, <3>1 DEF GroupsOK, AfterTarget, BuildPcs
  <2>2. CASE UNCHANGED <<b, koji, pc>>
    BY <1>0, <2>2 DEF GroupsOK
  <2> QED BY <1>1, <2>1, <2>2 DEF Submit
<1>2. CASE AddGroup
  <2>1. PICK g \in b.groups : /\ koji'.groups = Overlay(koji.groups, [h \in {g} |-> {}])
                              /\ b'.groups = b.groups \ {g} /\ b'.group = g
    BY <1>2 DEF AddGroup
  <2>2. pc = "groups" /\ pc' = "group packages"
    BY <1>2 DEF AddGroup
  <2>3. /\ DOMAIN koji'.groups = DOMAIN koji.groups \cup {g}
        /\ koji'.groups = [h \in DOMAIN koji'.groups |-> koji'.groups[h]]
        /\ \A h \in DOMAIN koji.groups : koji'.groups[h] = koji.groups[h]
    BY <2>1 DEF Overlay
  <2> QED BY <1>0, <2>1, <2>2, <2>3 DEF GroupsOK, AfterTarget, BuildPcs
<1>3. CASE AddGroupPackages
  <2>1. /\ pc = "group packages" /\ pc' = "groups" /\ b' = b
        /\ koji'.groups = [koji.groups EXCEPT ![b.group] = Groups[b.group]]
    BY <1>3 DEF AddGroupPackages
  <2>2. b.group \in DOMAIN koji.groups
    BY <1>0, <2>1 DEF GroupsOK
  <2>3. /\ DOMAIN koji'.groups = DOMAIN koji.groups
        /\ koji'.groups = [h \in DOMAIN koji'.groups |-> koji'.groups[h]]
        /\ \A h \in DOMAIN koji.groups :
             koji'.groups[h] = IF h = b.group THEN Groups[h] ELSE koji.groups[h]
    BY <2>1, <2>2
  <2> QED BY <1>0, <2>1, <2>2, <2>3 DEF GroupsOK, AfterTarget, BuildPcs
<1>4. CASE ~(Submit \/ AddGroup \/ AddGroupPackages)
  <2>1. koji'.groups = koji.groups /\ b'.group = b.group
    BY <1>4, TagChanges
  <2>2. pc' = "group packages" <=> pc = "group packages"
    BY <1>0, <1>4, GroupFlow
  <2>3. CASE BlockPackages
    <3>1. b'.groups = DOMAIN Groups \ DOMAIN koji.groups /\ pc = "block" /\ pc' = "groups"
      BY <2>3 DEF BlockPackages
    <3> QED BY <1>0, <2>1, <2>2, <3>1 DEF GroupsOK, AfterTarget, BuildPcs
  <2>4. CASE ~BlockPackages
    <3>1. b'.groups = b.groups
      BY <1>4, <2>4, TagChanges
    <3>2. pc' \in {"groups", "group packages"} => pc \in {"groups", "group packages"}
      BY <2>4, Flow
    <3>3. pc' \in AfterTarget => DOMAIN koji.groups = DOMAIN Groups
      <4>1. CASE AddTarget
        BY <1>0, <4>1 DEF AddTarget, GroupsOK
      <4> QED BY <1>0, <4>1, Flow DEF GroupsOK
    <3> QED BY <1>0, <2>1, <2>2, <3>1, <3>2, <3>3 DEF GroupsOK
  <2> QED BY <2>3, <2>4
<1> QED BY <1>1, <1>2, <1>3, <1>4

(* How a builder comes to look for the build tag, and what it does next.    *)
LEMMA LookFlow ==
  ASSUME Shape, Staged, [Next]_vars
  PROVE  /\ pc' = "look" /\ b'.stage = "wait" =>
              UNCHANGED <<pc, b, koji>> \/ Save \/ Crash \/ Resubmit
         /\ pc \in {"look", "dest tag", "build tag", "whitelist", "block"} =>
              b'.stage = b.stage
<1> USE DEF Shape, Fields
<1>1. pc \in {"look", "dest tag", "build tag", "whitelist", "block"} => b'.stage = b.stage
  BY DEF Next, Submit, InitHandler, RecordArches, AddDefaultModules, FormatMain, InRecord,
    RecordPackage, IncludeModule, EndOfModule, Save, Connecting, LookForTag, CreateTag,
    WhitelistPackages, BlockPackages, AddGroup, AddGroupPackages, AddTarget, WaitHandler, AddRepos,
    ReuseAll, BuildMacros, RepoHandler, NextBatch, BuildBatch, Finalize, Import, TagImported,
    Finish, Faults, Crash, Restart, Restarted, RetryGroups, FailBuild, Resubmit, Abandon, Push, vars
<1>2. ASSUME pc' = "look", b'.stage = "wait"
      PROVE  UNCHANGED <<pc, b, koji>> \/ Save \/ Crash \/ Resubmit
  <2>1. CASE Submit
    BY <1>2, <2>1 DEF Submit
  <2>2. CASE InitHandler
    BY <1>2, <2>2 DEF InitHandler, RecordArches, AddDefaultModules, FormatMain, InRecord,
                      RecordPackage, IncludeModule, EndOfModule, Fail
  <2>3. CASE Connecting
    BY <1>2, <2>3 DEF Connecting, LookForTag, CreateTag, WhitelistPackages, BlockPackages,
                      AddGroup, AddGroupPackages, AddTarget, Staged
  <2>4. CASE WaitHandler
    <3>1. pc' = "look" => b'.stage = "build"
      <4>1. CASE AddRepos
        BY <4>1 DEF AddRepos
      <4>2. CASE ReuseAll
        BY <4>2 DEF ReuseAll, Fail
      <4>3. CASE BuildMacros
        BY <4>3 DEF BuildMacros, Fail
      <4> QED BY <2>4, <4>1, <4>2, <4>3 DEF WaitHandler
    <3> QED BY <1>2, <3>1
  <2>5. CASE RepoHandler
    <3>1. b.stage = "build"
      BY <2>5 DEF RepoHandler, NextBatch, BuildBatch, Finalize, Import, TagImported, Finish,
                  Staged, BuildPcs
    <3>2. CASE NextBatch \/ BuildBatch
      <4>1. b'.stage = b.stage
        <5>1. CASE NextBatch
          BY <5>1 DEF NextBatch
        <5>2. CASE BuildBatch
          BY <5>2 DEF BuildBatch
        <5> QED BY <3>2, <5>1, <5>2
      <4> QED BY <1>2, <3>1, <4>1
    <3>3. CASE Finalize \/ Import \/ TagImported \/ Finish
      BY <1>2, <3>3 DEF Finalize, Import, TagImported, Finish
    <3> QED BY <2>5, <3>2, <3>3 DEF RepoHandler
  <2>6. CASE Faults
    BY <1>2, <2>6 DEF Faults, RetryGroups, FailBuild, Abandon, Push, Fail
  <2>7. CASE UNCHANGED vars
    BY <2>7 DEF vars
  <2> QED BY <2>1, <2>2, <2>3, <2>4, <2>5, <2>6, <2>7 DEF Next
<1> QED BY <1>1, <1>2

(* Packages are blocked in a build tag when it is new.                      *)
LEMMA BlockedNext ==
  ASSUME Shape, Staged, Counted, TagsThere, BlockedOK, [Next]_vars
  PROVE  BlockedOK'
<1> SUFFICES ASSUME faults'.restarts = 0 PROVE BlockedOK'
  BY DEF BlockedOK
<1> USE DEF Shape, Fields, TagFields
<1>0. faults.restarts = 0 /\ ~Crash /\ ~RetryGroups /\ ~Resubmit
  BY NoFault
<1>1. CASE Submit
  <2>1. CASE b' = New(Head(todo)) /\ pc' = "arches"
    <3>1. b'.stage = "init"
      BY <2>1 DEF New
    <3> QED BY <2>1, <3>1 DEF BlockedOK, AfterBlock, AfterTarget, BuildPcs
  <2>2. CASE UNCHANGED <<b, koji, pc>>
    BY <1>0, <2>2 DEF BlockedOK
  <2> QED BY <1>1, <2>1, <2>2 DEF Submit
<1>2. CASE ~Submit
  <2>1. ASSUME pc' \in AfterBlock \/ b'.stage = "build"
        PROVE  b'.sub.blocked \subseteq koji'.blocked \cup koji'.rooted
    <3>1. b'.sub = b.sub
      BY <1>2, SubmissionKept
    <3>2. CASE BlockPackages
      <4>1. pc = "block" /\ koji' = (IF ~b.existed THEN [koji EXCEPT !.blocked = @ \cup b.sub.blocked]
                                     ELSE koji)
        BY <3>2 DEF BlockPackages, NewTag
      <4>2. CASE b.stage = "build"
        <5>1. b.sub.blocked \subseteq koji.blocked \cup koji.rooted
          BY <1>0, <4>2 DEF BlockedOK
        <5> QED BY <1>2, <3>1, <5>1, TagChanges
      <4>3. CASE b.stage # "build"
        <5>1. b.stage = "wait"
          BY <4>1, <4>3 DEF Staged, InitPcs
        <5>2. ~b.existed
          BY <1>0, <4>1, <5>1 DEF BlockedOK
        <5> QED BY <3>1, <4>1, <5>2
      <4> QED BY <4>2, <4>3
    <3>3. CASE ~BlockPackages
      <4>1. pc \in AfterBlock \/ b.stage = "build"
        BY <2>1, <3>3, Flow DEF AddTarget, AfterBlock, AfterTarget
      <4>2. b.sub.blocked \subseteq koji.blocked \cup koji.rooted
        BY <1>0, <4>1 DEF BlockedOK
      <4> QED BY <1>2, <3>1, <4>2, TagChanges
    <3> QED BY <3>2, <3>3
  <2>2. ASSUME b'.stage = "wait", pc' = "look" PROVE ~koji'.build
    <3>1. CASE UNCHANGED <<pc, b, koji>>
      BY <1>0, <2>2, <3>1 DEF BlockedOK
    <3>2. CASE Save
      <4>1. b.stage = "init" /\ InitHandler
        BY <3>2 DEF Save, Staged, InitPcs, InitHandler
      <4>2. koji' = NoTags
        BY <1>2, <4>1, TagChanges DEF TagsThere
      <4> QED BY <4>2 DEF NoTags
    <3> QED BY <1>0, <2>2, <3>1, <3>2, LookFlow
  <2>3. ASSUME b'.stage = "wait", pc' \in {"dest tag", "build tag", "whitelist", "block"}
        PROVE  ~b'.existed
    <3>1. CASE LookForTag
      <4>1. b'.existed = koji.build /\ pc = "look" /\ b.stage = "wait"
        BY <2>3, <3>1, LookFlow DEF LookForTag
      <4> QED BY <1>0, <4>1 DEF BlockedOK
    <3>2. CASE ~LookForTag
      <4>1. pc \in {"dest tag", "build tag", "whitelist", "block"}
        BY <2>3, <3>2, Flow DEF CreateTag, WhitelistPackages
      <4>2. b.stage = "wait" /\ b'.existed = b.existed
        BY <1>2, <2>3, <3>2, <4>1, LookFlow, TagChanges
      <4> QED BY <1>0, <4>1, <4>2 DEF BlockedOK
    <3> QED BY <3>1, <3>2
  <2> QED BY <2>1, <2>2, <2>3 DEF BlockedOK
<1> QED BY <1>1, <1>2

(* What is known of the tags of every build.                                *)
TagsOK == TagsThere /\ RootedOK /\ ParentsOK /\ GroupsOK /\ BlockedOK

(* Of the tags of the first build, before anything is done to them.         *)
LEMMA TagsInit == ASSUME Init PROVE TagsOK
<1>1. PICK p \in Plans : todo = p
  BY DEF Init
<1>2. todo \in Seq(Submissions) /\ todo # <<>>
  BY <1>1, ProductionAssumption
<1>3. Head(todo) \in Submissions
  BY <1>2
<1>4. b.br = Head(todo).br /\ b.stage = "init" /\ pc = "idle" /\ koji = NoTags
  BY DEF Init, New
<1>5. IsFiniteSet(DOMAIN b.br)
  BY <1>3, <1>4, ProductionAssumption
<1>6. ParentsOK
  BY <1>4, <1>5 DEF ParentsOK, NoTags, Range, IsInjective
<1>7. TagsThere /\ RootedOK /\ GroupsOK /\ BlockedOK
  BY <1>4 DEF TagsThere, RootedOK, NotBlockedAgain, GroupsOK, BlockedOK, NoTags, AfterDest,
              AfterBuild, AfterBlock, AfterTarget, BuildPcs
<1> QED BY <1>6, <1>7 DEF TagsOK

(* What every state satisfies of the tags of a build.                       *)
THEOREM TagsAlways == Spec => []TagsOK
<1>1. Init => TagsOK
  BY TagsInit
<1>2. Typed /\ TagsOK /\ [Next]_vars => TagsOK'
  BY TagsThereNext, RootedNext, ParentsNext, GroupsNext, BlockedNext DEF TagsOK, Typed
<1> QED BY <1>1, <1>2, TypedAlways, PTL DEF Spec

(* A package that is in the build root is not blocked there again.          *)
THEOREM NotBlockedAgainHolds == Spec => []NotBlockedAgain
<1>1. TagsOK => NotBlockedAgain
  BY DEF TagsOK, RootedOK
<1> QED BY <1>1, TagsAlways, PTL

(* The build root is as it should be whenever components are built in it.   *)
THEOREM BuildRootHolds == Spec => []BuildRoot
<1>1. Typed /\ TagsOK => BuildRoot
  <2> SUFFICES ASSUME Typed, TagsOK, pc \in {"reuse", "macros", "batch", "build"}
               PROVE  /\ koji.dest /\ koji.build /\ koji.target
                      /\ Range(koji.parents) = Range(b.br) /\ IsInjective(koji.parents)
                      /\ ToWhitelist \subseteq koji.packages
                      /\ faults.restarts = 0 => /\ koji.groups = Groups
                                                /\ b.sub.blocked \subseteq
                                                     koji.blocked \cup koji.rooted
    BY DEF BuildRoot
  <2>1. pc \in AfterTarget /\ pc \in AfterBlock /\ pc \in AfterBuild /\ pc \in AfterDest
    BY DEF AfterDest, AfterBuild, AfterBlock, AfterTarget, BuildPcs
  <2>2. pc \in {"reuse", "macros"} \/ b.stage = "build"
    BY DEF Typed, Staged, BuildPcs
  <2>3. faults.restarts = 0 => koji.groups = Groups
    <3>1. ASSUME faults.restarts = 0 PROVE koji.groups = Groups
      <4>1. /\ koji.groups = [g \in DOMAIN Groups |-> koji.groups[g]]
            /\ \A g \in DOMAIN Groups : koji.groups[g] = Groups[g]
        BY <2>1, <3>1 DEF TagsOK, GroupsOK
      <4> QED BY <4>1, ProductionAssumption
    <3> QED BY <3>1
  <2>4. koji.dest /\ koji.build /\ koji.target /\ ToWhitelist \subseteq koji.packages
    BY <2>1 DEF TagsOK, TagsThere
  <2>5. Range(koji.parents) = Range(b.br) /\ IsInjective(koji.parents)
    BY <2>2 DEF TagsOK, ParentsOK
  <2>6. faults.restarts = 0 => b.sub.blocked \subseteq koji.blocked \cup koji.rooted
    BY <2>1 DEF TagsOK, BlockedOK
  <2> QED BY <2>3, <2>4, <2>5, <2>6
<1> QED BY <1>1, TypedAlways, TagsAlways, PTL


-----------------------------------------------------------------------------
(* What is imported of a build.                                             *)

(* Components are packages there are.                                       *)
PackagesOK ==
  /\ DOMAIN b.pending \cup DOMAIN b.rows \subseteq DOMAIN Makes
  /\ \A i \in DOMAIN artifacts : artifacts[i].package \in DOMAIN Makes

(* What is imported is what would be imported now: nothing is built of a    *)
(* build any more once some of it is imported.                              *)
ImportedOK ==
  /\ DOMAIN b.imported \subseteq {"module", "devel"}
  /\ \A d \in DOMAIN b.imported : b.imported[d] = ListOf(d)
  /\ DOMAIN b.imported # {} =>
       b.stage = "build" /\ Unbuilt = {} /\ pc \notin {"failed", "build"}

(* The module is imported and tagged, then the -devel module is.            *)
TaggedOK ==
  LET found == TagFound # None
  IN /\ b.tagged \subseteq {"module", "devel"}
     /\ pc \in {"module", "tag module", "devel", "tag devel"} => ~b.sub.scratch
     /\ pc \in {"tag module", "devel", "tag devel"} => "module" \in DOMAIN b.imported
     /\ pc \in {"devel", "tag devel"} /\ found => "module" \in b.tagged
     /\ pc = "tag devel" => "devel" \in DOMAIN b.imported
     /\ pc = "done" /\ ~b.sub.scratch =>
          /\ DOMAIN b.imported = {"module", "devel"}
          /\ found => b.tagged = {"module", "devel"}


(* How a build ends.                                                        *)
LEMMA DoneFlow ==
  ASSUME Shape, Staged, [Next]_vars, ~Submit
  PROVE  /\ pc' = "module" => pc = "module" \/ (Finalize /\ ~b.sub.scratch)
         /\ pc' = "tag module" => pc = "tag module" \/ (Import /\ pc = "module")
         /\ pc' = "devel" => pc = "devel" \/ (TagImported /\ pc = "tag module")
         /\ pc' = "tag devel" => pc = "tag devel" \/ (Import /\ pc = "devel")
         /\ pc' = "done" => pc = "done" \/ (TagImported /\ pc = "tag devel")
                              \/ (Finalize /\ b.sub.scratch)
         /\ pc' = "build" => pc = "build" \/ NextBatch
         /\ pc' = "failed" /\ b.stage = "build" => pc \in {"failed", "build"} \/ NextBatch
         /\ b.stage = "build" /\ pc # "failed" => b'.stage = "build"
         /\ b'.imported = b.imported \/ Import
         /\ b'.tagged = b.tagged \/ TagImported
<1> USE DEF Shape, Fields, Fail
<1>1. CASE InitHandler
  <2>1. /\ b.stage = "init" /\ pc \in InitPcs /\ pc' \in InitPcs \cup {"look", "failed"}
    BY <1>1 DEF InitHandler, RecordArches, AddDefaultModules, FormatMain, RecordPackage,
                IncludeModule, EndOfModule, Save, InRecord, Staged, InitPcs
  <2>2. CASE RecordArches \/ AddDefaultModules \/ FormatMain \/ RecordPackage
    <3>1. b'.imported = b.imported /\ b'.tagged = b.tagged
      BY <2>2 DEF RecordArches, AddDefaultModules, FormatMain, RecordPackage
    <3> QED BY <2>1, <3>1 DEF InitPcs
  <2>3. CASE IncludeModule \/ EndOfModule \/ Save
    <3>1. b'.imported = b.imported /\ b'.tagged = b.tagged
      BY <2>3 DEF IncludeModule, EndOfModule, Save
    <3> QED BY <2>1, <3>1 DEF InitPcs
  <2> QED BY <1>1, <2>2, <2>3 DEF InitHandler
<1>2. CASE Connecting
  <2>1. /\ pc' \in TagPcs \cup {"repos", "batch"}
    BY <1>2 DEF Connecting, LookForTag, CreateTag, WhitelistPackages, BlockPackages, AddGroup,
                AddGroupPackages, AddTarget, TagPcs, Staged
  <2>2. b'.imported = b.imported /\ b'.tagged = b.tagged /\ b'.stage = b.stage
    BY <1>2 DEF Connecting, LookForTag, CreateTag, WhitelistPackages, BlockPackages, AddGroup,
                AddGroupPackages, AddTarget
  <2> QED BY <2>1, <2>2 DEF TagPcs
<1>3. CASE WaitHandler
  <2>1. pc' \in {"reuse", "look", "failed", "macros"} /\ b.stage = "wait"
    BY <1>3 DEF WaitHandler, AddRepos, ReuseAll, BuildMacros, Staged
  <2>2. b'.imported = b.imported /\ b'.tagged = b.tagged
    <3>1. CASE AddRepos \/ BuildMacros
      BY <3>1 DEF AddRepos, BuildMacros
    <3>2. CASE ReuseAll
      BY <3>2 DEF ReuseAll
    <3> QED BY <1>3, <3>1, <3>2 DEF WaitHandler
  <2> QED BY <2>1, <2>2
<1>4. CASE RepoHandler
  <2>1. CASE NextBatch
    <3>1. b'.imported = b.imported /\ b'.tagged = b.tagged /\ b'.stage = b.stage
      BY <2>1 DEF NextBatch
    <3>2. pc' \in {"failed", "look", "build"}
      BY <2>1 DEF NextBatch
    <3> QED BY <2>1, <3>1, <3>2
  <2>2. CASE BuildBatch
    <3>1. b'.imported = b.imported /\ b'.tagged = b.tagged /\ b'.stage = b.stage
      BY <2>2 DEF BuildBatch
    <3>2. pc' = "look"
      BY <2>2 DEF BuildBatch
    <3> QED BY <3>1, <3>2
  <2>3. CASE Finalize
    <3>1. b' = b /\ pc' = IF b.sub.scratch THEN "done" ELSE "module"
      BY <2>3 DEF Finalize
    <3> QED BY <2>3, <3>1
  <2>4. CASE Import
    <3>1. b'.tagged = b.tagged /\ b'.stage = b.stage
      BY <2>4 DEF Import
    <3>2. pc \in {"module", "devel"} /\ pc' = IF pc = "module" THEN "tag module" ELSE "tag devel"
      BY <2>4 DEF Import
    <3> QED BY <2>4, <3>1, <3>2
  <2>5. CASE TagImported
    <3>1. b'.imported = b.imported /\ b'.stage = b.stage
      BY <2>5 DEF TagImported
    <3>2. pc \in {"tag module", "tag devel"} /\ pc' = IF pc = "tag module" THEN "devel" ELSE "done"
      BY <2>5 DEF TagImported
    <3> QED BY <2>5, <3>1, <3>2
  <2>6. CASE Finish
    BY <2>6 DEF Finish
  <2> QED BY <1>4, <2>1, <2>2, <2>3, <2>4, <2>5, <2>6 DEF RepoHandler
<1>5. CASE Faults
  <2>1. b'.imported = b.imported /\ b'.tagged = b.tagged /\ pc' \notin DonePcs \cup {"build"}
    BY <1>5 DEF Faults, Crash, RetryGroups, FailBuild, Resubmit, Abandon, Push, Restart, Restarted,
                DonePcs
  <2>2. b.stage = "build" /\ pc # "failed" => b'.stage = "build"
    BY <1>5 DEF Faults, Crash, RetryGroups, FailBuild, Resubmit, Abandon, Push, Restart, Restarted
  <2>3. pc' = "failed" => pc \in {"failed", "build"}
    BY <1>5 DEF Faults, Crash, RetryGroups, FailBuild, Resubmit, Abandon, Push, Restart
  <2> QED BY <2>1, <2>2, <2>3 DEF DonePcs
<1>6. CASE UNCHANGED vars
  BY <1>6 DEF vars
<1> QED BY <1>1, <1>2, <1>3, <1>4, <1>5, <1>6 DEF Next

(* Once all is built, nothing is.                                           *)
LEMMA BuiltStays ==
  ASSUME Shape, Staged, [Next]_vars, ~Submit, b.stage = "build", Unbuilt = {},
         pc \notin {"failed", "build"}
  PROVE  /\ b'.rows = b.rows /\ UNCHANGED artifacts /\ Unbuilt' = {} /\ b'.stage = "build"
         /\ pc' \notin {"failed", "build"} /\ b'.arches = b.arches /\ b'.sub = b.sub
<1>1. ~NextBatch /\ ~BuildBatch /\ ~ReuseAll /\ ~IncludeModule /\ ~Save
  BY DEF NextBatch, BuildBatch, ReuseAll, IncludeModule, Save, InRecord, Staged, InitPcs
<1>2. b'.rows = b.rows /\ UNCHANGED artifacts
  BY <1>1, Changes
<1>3. b'.stage = "build" /\ pc' \notin {"failed", "build"}
  BY <1>1, DoneFlow
<1>4. b'.arches = b.arches /\ b'.sub = b.sub
  BY Settled
<1> QED BY <1>2, <1>3, <1>4 DEF Unbuilt, Components

(* Components that are recorded, and built, are packages there are.         *)
LEMMA PackagesNext ==
  ASSUME Shape, Staged, FramesOK, Recorded1, Past, PackagesOK, [Next]_vars
  PROVE  PackagesOK'
<1> USE DEF Shape, Fields
<1>a. DOMAIN NoRows = {}
  BY DEF NoRows
<1>1. CASE Submit
  <2>1. CASE b' = New(Head(todo))
    <3>1. b'.rows = NoRows /\ b'.pending = NoRows /\ artifacts' = artifacts
      BY <1>1, <2>1 DEF New, Submit
    <3> QED BY <1>a, <3>1 DEF PackagesOK
  <2>2. CASE b' = b
    BY <1>1, <2>2 DEF PackagesOK, Submit
  <2> QED BY <1>1, <2>1, <2>2 DEF Submit
<1>2. CASE RecordPackage
  <2>1. b'.rows = b.rows /\ artifacts' = artifacts
    BY <1>2 DEF RecordPackage, OnlyBuild
  <2>2. CASE b' = b
    BY <2>1, <2>2 DEF PackagesOK
  <2>3. CASE b' # b
    <3>1. PICK item \in Top.of.rpms :
            b'.pending = Overlay(b.pending, [d \in {item.name} \ DOMAIN KnownRows |-> RowFor(item)])
      BY <1>2, <2>3, RecordsPackage DEF Records
    <3>2. item.name \in DOMAIN Makes
      <4>1. Top.of \in Modulemds
        BY <1>2 DEF RecordPackage, InRecord, Top, FramesOK, FrameOK
      <4>2. Names(Top.of) \subseteq DOMAIN Makes
        BY <4>1, ProductionAssumption
      <4> QED BY <4>2 DEF Names
    <3>3. DOMAIN b'.pending \subseteq DOMAIN b.pending \cup {item.name}
      BY <3>1 DEF Overlay
    <3> QED BY <2>1, <3>2, <3>3 DEF PackagesOK
  <2> QED BY <2>2, <2>3
<1>3. CASE IncludeModule \/ Save
  <2>1. /\ b'.pending \in {b.pending, NoRows} /\ artifacts' = artifacts
        /\ b'.rows \in {b.rows, Overlay(b.pending, b.rows)}
    <3>1. CASE IncludeModule
      BY <3>1, ZenonT(60) DEF IncludeModule, OnlyBuild
    <3>2. CASE Save
      BY <3>2 DEF Save, OnlyBuild
    <3> QED BY <1>3, <3>1, <3>2
  <2>2. DOMAIN Overlay(b.pending, b.rows) = DOMAIN b.pending \cup DOMAIN b.rows
    BY DEF Overlay
  <2> QED BY <1>a, <2>1, <2>2 DEF PackagesOK
<1>4. CASE Redo
  <2>1. b'.pending = NoRows /\ b'.rows = b.rows /\ artifacts' = artifacts
    BY <1>4 DEF Redo, Restarted, Crash, Resubmit, Restart
  <2> QED BY <1>a, <2>1 DEF PackagesOK
<1>5. CASE BuildBatch
  <2>1. b.todo \subseteq DOMAIN b.rows /\ DOMAIN b'.rows = DOMAIN b.rows /\ b'.pending = b.pending
    BY <1>5, BatchBuilt DEF Recorded1, Components, BuildBatch
  <2>2. PICK order : /\ order = SetToSeq(b.todo)
                     /\ artifacts' = artifacts \o [i \in DOMAIN order |->
                                       [package |-> order[i], made |-> MadeFrom(View, order[i])]]
    BY <1>5 DEF BuildBatch
  <2> DEFINE new == [i \in DOMAIN order |->
                       [package |-> order[i], made |-> MadeFrom(View, order[i])]]
             n == Cardinality(b.todo)
  <2>3. n \in Nat /\ order \in [1..n -> b.todo]
    <3>1. IsFiniteSet(b.todo)
      BY <2>1, FS_Subset DEF Recorded1, RowsOK
    <3> QED BY <2>2, <3>1, InSequence
  <2>4. /\ DOMAIN new = 1..n /\ \A i \in 1..n : new[i].package \in DOMAIN Makes
    BY <2>1, <2>3 DEF PackagesOK
  <2> HIDE DEF new, n
  <2>5. Len(new) = n
    <3>1. new \in Seq(Range(new))
      <4>1. new \in [1..n -> Range(new)]
        BY <2>4 DEF Range, new
      <4> QED BY <2>3, <4>1
    <3> QED BY <2>3, <2>4, <3>1
  <2>6. Len(artifacts) \in Nat /\ DOMAIN artifacts = 1..Len(artifacts)
    BY DEF Past
  <2>7. \A i \in DOMAIN artifacts' : artifacts'[i].package \in DOMAIN Makes
    <3>1. artifacts' = artifacts \o new
      BY <2>2 DEF new
    <3>2. DOMAIN artifacts' = 1..(Len(artifacts) + n)
      BY <2>3, <2>5, <2>6, <3>1
    <3>3. ASSUME NEW i \in 1..(Len(artifacts) + n) PROVE artifacts'[i].package \in DOMAIN Makes
      <4>1. CASE i \in 1..Len(artifacts)
        <5>1. artifacts'[i] = artifacts[i]
          BY <2>3, <2>5, <2>6, <3>1, <4>1
        <5> QED BY <2>6, <4>1, <5>1 DEF PackagesOK
      <4>2. CASE i \notin 1..Len(artifacts)
        <5>1. artifacts'[i] = new[i - Len(artifacts)] /\ i - Len(artifacts) \in 1..n
          BY <2>3, <2>5, <2>6, <3>1, <4>2
        <5> QED BY <2>4, <5>1
      <4> QED BY <4>1, <4>2
    <3> QED BY <3>2, <3>3
  <2> QED BY <2>1, <2>7 DEF PackagesOK
<1>6. CASE ~(Submit \/ RecordPackage \/ IncludeModule \/ Save \/ Redo \/ BuildBatch)
  <2>1. b'.pending = b.pending /\ artifacts' = artifacts
    BY <1>6, Changes
  <2>2. DOMAIN b'.rows = DOMAIN b.rows
    <3>1. CASE b.stage # "init"
      BY <1>6, <3>1, Settled DEF Components
    <3>2. CASE b.stage = "init"
      <4>1. ~ReuseAll /\ ~NextBatch
        BY <3>2 DEF ReuseAll, NextBatch, Staged, InitPcs
      <4> QED BY <1>6, <4>1, Changes
    <3> QED BY <3>1, <3>2
  <2> QED BY <2>1, <2>2 DEF PackagesOK
<1> QED BY <1>1, <1>2, <1>3, <1>4, <1>5, <1>6


(* What was imported stays what would be imported.                          *)
LEMMA ImportedNext ==
  ASSUME Shape, Staged, Recorded1, ImportedOK, [Next]_vars
  PROVE  ImportedOK'
<1> USE DEF Shape, Fields
<1>1. CASE Submit
  <2>1. CASE b' = New(Head(todo))
    <3>1. DOMAIN b'.imported = {}
      BY <2>1 DEF New, NoRows
    <3> QED BY <3>1 DEF ImportedOK
  <2>2. CASE UNCHANGED <<b, pc, artifacts>>
    BY <2>2 DEF ImportedOK, ListOf, DestRpms, RpmsOf, BuiltOf, Mmd, Unbuilt, Components
  <2> QED BY <1>1, <2>1, <2>2 DEF Submit
<1>2. CASE ~Submit /\ (Import \/ DOMAIN b.imported # {})
  <2>1. b.stage = "build" /\ Unbuilt = {} /\ pc \notin {"failed", "build"}
    BY <1>2 DEF Import, Staged, BuildPcs, Recorded1, DonePcs, ImportedOK
  <2>2. /\ b'.rows = b.rows /\ UNCHANGED artifacts /\ Unbuilt' = {} /\ b'.stage = "build"
        /\ pc' \notin {"failed", "build"} /\ b'.arches = b.arches /\ b'.sub = b.sub
    BY <1>2, <2>1, BuiltStays
  <2>3. DestRpms' = DestRpms
    BY <2>2 DEF DestRpms, RpmsOf, BuiltOf
  <2>4. \A d : ListOf(d)' = ListOf(d)
    BY <2>2, <2>3 DEF ListOf, Mmd
  <2>5. CASE Import
    <3>1. /\ pc \in {"module", "devel"}
          /\ b'.imported = Overlay(b.imported, [d \in {pc} |-> ListOf(d)])
      BY <2>5 DEF Import
    <3>2. /\ DOMAIN b'.imported = DOMAIN b.imported \cup {pc}
          /\ \A d \in DOMAIN b'.imported :
               b'.imported[d] = IF d \in DOMAIN b.imported THEN b.imported[d] ELSE ListOf(d)
      <4> HIDE DEF ListOf
      <4> QED BY <3>1 DEF Overlay
    <3>3. \A d \in DOMAIN b'.imported : b'.imported[d] = ListOf(d)
      BY <3>2 DEF ImportedOK
    <3> QED BY <2>2, <2>4, <3>1, <3>2, <3>3 DEF ImportedOK
  <2>6. CASE ~Import
    <3>1. b'.imported = b.imported
      BY <1>2, <2>6, DoneFlow
    <3> QED BY <2>2, <2>4, <3>1 DEF ImportedOK
  <2> QED BY <2>5, <2>6
<1>3. CASE ~Submit /\ ~Import /\ DOMAIN b.imported = {}
  <2>1. b'.imported = b.imported
    BY <1>3, DoneFlow
  <2> QED BY <1>3, <2>1 DEF ImportedOK
<1> QED BY <1>1, <1>2, <1>3

(* Where imports are tagged does not change until the build is done.        *)
LEMMA TagFoundStays ==
  ASSUME Shape, Staged, [Next]_vars, ~Submit, pc \in DonePcs, pc' \in DonePcs
  PROVE  TagFound' = TagFound
<1>1. b'.br = b.br
  BY Settled DEF Staged, BuildPcs, DonePcs
<1>2. history' = history
  <2>1. ~Finish
    BY DEF Finish, DonePcs
  <2> QED BY <2>1, Changes
<1>3. T' = T
  BY <1>2 DEF T, HistoryRow
<1>4. TagToTry' = TagToTry
  BY <1>1, <1>3 DEF TagToTry
<1> QED BY <1>4 DEF TagFound

(* The two imports, and their tags, come one after another.                 *)
LEMMA TaggedNext ==
  ASSUME Shape, Staged, ImportedOK, TaggedOK, [Next]_vars
  PROVE  TaggedOK'
<1> USE DEF Shape, Fields
<1>1. CASE Submit
  <2>1. CASE b' = New(Head(todo)) /\ pc' = "arches"
    <3>1. b'.tagged = {}
      BY <2>1 DEF New
    <3> QED BY <2>1, <3>1 DEF TaggedOK
  <2>2. CASE UNCHANGED <<b, pc>>
    <3>1. pc = "idle"
      BY <1>1 DEF Submit
    <3> QED BY <2>2, <3>1 DEF TaggedOK
  <2> QED BY <1>1, <2>1, <2>2 DEF Submit
<1>2. CASE ~Submit
  <2>1. b'.sub = b.sub
    BY <1>2, SubmissionKept
  <2>2. b.tagged \subseteq b'.tagged /\ b'.tagged \subseteq {"module", "devel"}
    <3>1. CASE TagImported
      BY <3>1 DEF TagImported, TaggedOK, ToTag
    <3> QED BY <1>2, <3>1, DoneFlow DEF TaggedOK
  <2>3. DOMAIN b.imported \subseteq DOMAIN b'.imported /\ DOMAIN b'.imported \subseteq {"module", "devel"}
    <3>1. CASE Import
      BY <3>1 DEF Import, Overlay, ImportedOK
    <3> QED BY <1>2, <3>1, DoneFlow DEF ImportedOK
  <2>4. ASSUME Import PROVE pc \in DOMAIN b'.imported
    <3>1. b'.imported = Overlay(b.imported, [d \in {pc} |-> ListOf(d)])
      BY <2>4 DEF Import
    <3> QED BY <3>1 DEF Overlay
  <2>5. TagImported /\ pc = "tag module" /\ TagFound # None => "module" \in b'.tagged
    BY DEF TagImported, ToTag
  <2>6. TagImported /\ pc = "tag devel" /\ TagFound # None => "devel" \in b'.tagged
    BY DEF TagImported, ToTag
  <2>7. pc' \in {"module", "tag module", "devel", "tag devel"} => ~b.sub.scratch
    BY <1>2, DoneFlow DEF TaggedOK
  <2>8. pc' \in {"tag module", "devel", "tag devel"} => "module" \in DOMAIN b'.imported
    BY <1>2, <2>3, <2>4, DoneFlow DEF TaggedOK
  <2>9. pc' = "tag devel" => "devel" \in DOMAIN b'.imported
    BY <1>2, <2>3, <2>4, DoneFlow DEF TaggedOK
  <2>10. pc' \in {"devel", "tag devel"} => TagFound' = TagFound
    BY <1>2, DoneFlow, TagFoundStays DEF DonePcs, TagImported, Import
  <2>11. pc' \in {"devel", "tag devel"} /\ TagFound # None => "module" \in b'.tagged
    BY <1>2, <2>2, <2>5, DoneFlow DEF TaggedOK
  <2>12. ASSUME pc' = "done", ~b.sub.scratch
         PROVE  /\ DOMAIN b'.imported = {"module", "devel"}
                /\ TagFound' # None => b'.tagged = {"module", "devel"}
    <3>1. pc = "done" \/ (TagImported /\ pc = "tag devel")
      BY <1>2, <2>12, DoneFlow
    <3>2. TagFound' = TagFound
      BY <1>2, <2>12, <3>1, TagFoundStays DEF DonePcs
    <3> QED BY <2>2, <2>3, <2>6, <2>12, <3>1, <3>2 DEF TaggedOK
  <2> QED BY <2>1, <2>2, <2>7, <2>8, <2>9, <2>10, <2>11, <2>12 DEF TaggedOK
<1> QED BY <1>1, <1>2

(* What is known of the imports of every build.                             *)
ImportsOK == PackagesOK /\ ImportedOK /\ TaggedOK

(* What every state satisfies of what is imported.                          *)
THEOREM ImportsAlways == Spec => []ImportsOK
<1>1. Init => ImportsOK
  <2> SUFFICES ASSUME Init PROVE ImportsOK
    OBVIOUS
  <2>1. /\ b.imported = NoRows /\ b.pending = NoRows /\ b.rows = NoRows /\ b.tagged = {}
        /\ pc = "idle" /\ artifacts = <<>>
    BY DEF Init, New
  <2> QED BY <2>1 DEF ImportsOK, PackagesOK, ImportedOK, TaggedOK, NoRows
<1>2. Typed /\ ImportsOK /\ [Next]_vars => ImportsOK'
  BY PackagesNext, ImportedNext, TaggedNext DEF ImportsOK, Typed
<1> QED BY <1>1, <1>2, TypedAlways, PTL DEF Spec

(* A build is not finished before what was imported of it is tagged.        *)
THEOREM TaggedWhenDoneHolds == Spec => []TaggedWhenDone
<1>1. ImportsOK => TaggedWhenDone
  BY DEF ImportsOK, TaggedOK, TaggedWhenDone
<1> QED BY <1>1, ImportsAlways, PTL

(* What the lists of RPMs of a module and its -devel module have in common, *)
(* and have together, of whatever is in the tag.                            *)
LEMMA ListsSplit ==
  ASSUME NEW m, NEW tag, NEW a
  PROVE  /\ Artifacts(m, tag, a) \cap DevelArtifacts(m, tag, a) = {}
         /\ Artifacts(m, tag, a) \cup DevelArtifacts(m, tag, a)
              = Applicable(tag, a) \cup Sources(tag)
<1>1. Shipped(m, tag, a) \subseteq Applicable(tag, a)
  BY DEF Shipped, Plain, Debug
<1>2. Applicable(tag, a) \cap Sources(tag) = {}
  BY DEF Applicable, Binaries
<1>3. SourcesOf(Shipped(m, tag, a), tag) \subseteq Sources(tag)
  BY DEF SourcesOf
<1> QED BY <1>1, <1>2, <1>3 DEF Artifacts, DevelArtifacts

(* The module and its -devel module share no RPM, and have every one.       *)
THEOREM SplitHolds == Spec => []Split
<1>1. ImportsOK => Split
  <2> SUFFICES ASSUME ImportsOK, {"module", "devel"} \subseteq DOMAIN b.imported,
                      NEW a \in b.arches
               PROVE  /\ b.imported["module"][a] \cap b.imported["devel"][a] = {}
                      /\ b.imported["module"][a] \cup b.imported["devel"][a]
                           = Applicable(DestRpms, a) \cup Sources(DestRpms)
    BY DEF Split
  <2>1. b.imported["module"] = ListOf("module") /\ b.imported["devel"] = ListOf("devel")
    BY DEF ImportsOK, ImportedOK
  <2>2. /\ b.imported["module"][a] = Artifacts(Mmd, DestRpms, a)
        /\ b.imported["devel"][a] = DevelArtifacts(Mmd, DestRpms, a)
    BY <2>1 DEF ListOf
  <2> QED BY <2>2, ListsSplit
<1> QED BY <1>1, ImportsAlways, PTL

(* The source of a package has the debug information of none.               *)
LEMMA SourceNoDebug ==
  ASSUME PackagesOK, NEW built, built \subseteq DOMAIN artifacts,
         NEW r \in RpmsOf(built), r.arch = "src"
  PROVE  ~IsDebug(r)
<1>1. PICK i \in built : \E m \in Makes[artifacts[i].package] : r.arch = m.arch /\ r.main = m.main
  BY DEF RpmsOf
<1>2. artifacts[i].package \in DOMAIN Makes
  BY DEF PackagesOK
<1>3. r.main = None
  BY <1>1, <1>2, ProductionAssumption
<1> QED BY <1>3 DEF IsDebug, None

(* Debug information of a package comes with the package or not at all.     *)
THEOREM DebugFollowsHolds == Spec => []DebugFollows
<1>1. Typed /\ ImportsOK => DebugFollows
  <2> SUFFICES ASSUME Typed, ImportsOK, "module" \in DOMAIN b.imported, NEW a \in b.arches,
                      NEW r \in b.imported["module"][a], IsDebug(r),
                      r.main \in NamesOf(Binaries(DestRpms))
               PROVE  r.main \in NamesOf(b.imported["module"][a])
    BY DEF DebugFollows
  <2>1. b.imported["module"] = ListOf("module") /\ b.stage = "build" /\ Unbuilt = {}
    BY DEF ImportsOK, ImportedOK
  <2>2. b.imported["module"][a] = Artifacts(Mmd, DestRpms, a)
    BY <2>1 DEF ListOf
  <2>3. BuiltOf(b.rows) \subseteq DOMAIN artifacts
    <3>1. RowsOK(b.rows, Len(artifacts)) /\ DOMAIN artifacts = 1..Len(artifacts)
      BY <2>1 DEF Typed, Recorded1, Past
    <3>2. ASSUME NEW c \in DOMAIN b.rows PROVE b.rows[c].built \in 1..Len(artifacts)
      BY <2>1, <3>1 DEF RowsOK, RowOK, Unbuilt, Components
    <3> QED BY <3>1, <3>2 DEF BuiltOf
  <2> DEFINE S == Shipped(Mmd, DestRpms, a)
  <2>4. r \notin SourcesOf(S, DestRpms)
    <3>1. ASSUME r \in SourcesOf(S, DestRpms) PROVE FALSE
      <4>1. r \in RpmsOf(BuiltOf(b.rows)) /\ r.arch = "src"
        BY <3>1 DEF SourcesOf, Sources, DestRpms
      <4> QED BY <2>3, <4>1, SourceNoDebug DEF ImportsOK
    <3> QED BY <3>1
  <2>5. r \in Debug(Mmd, DestRpms, a)
    BY <2>2, <2>4 DEF Artifacts, Shipped, Plain
  <2>6. r.main \in NamesOf(Plain(Mmd, DestRpms, a))
    BY <2>5 DEF Debug
  <2>7. Plain(Mmd, DestRpms, a) \subseteq b.imported["module"][a]
    BY <2>2 DEF Artifacts, Shipped
  <2> QED BY <2>6, <2>7 DEF NamesOf
<1> QED BY <1>1, TypedAlways, ImportsAlways, PTL


-----------------------------------------------------------------------------
(* The order of the batches.                                                *)

(* A place in a module is one after the place of the module.                *)
Steps       == [order : Int, of : DOMAIN IncludedMmd \cup {None}]
Under(p, f) == Len(f.place) < Len(p) /\ \A j \in 1..Len(f.place) : p[j] = f.place[j]
At(p, f)    == p[Len(f.place) + 1]

(* Nothing is recorded before there are frames, nor pending after init.     *)
Fresh ==
  /\ pc \in {"arches", "defaults", "format"} =>
       b.placed = {} /\ b.refs = NoRows /\ b.frames = <<>>
  /\ b.stage # "init" => b.pending = NoRows

(* The modules that are being recorded are each in the next, at the         *)
(* buildorder the next is at, where all its packages are recorded.          *)
Inside(p, f) ==
  /\ Under(p, f) /\ At(p, f).order = f.prev /\ At(p, f).of # None
  /\ \A x \in f.todo : /\ x \in f.of.rpms => f.prev < x.order
                       /\ x \in f.of.modules => f.prev <= x.order /\ At(p, f).of # x.name
Nested(F) ==
  /\ \A i \in DOMAIN F : F[i].place \in Seq(Steps) /\ Len(F[i].place) = Len(F) - i
                        /\ F[i].prev \in Int
  /\ \A i, j \in DOMAIN F : i < j => Inside(F[i].place, F[j])

(* What is recorded, at place p and in batch k, is in no later batch than   *)
(* the current one, n, and in an earlier one if its buildorder is smaller   *)
(* than that of where the handler is.                                       *)
Reached(p, k, f, n) ==
  Under(p, f) =>
    /\ At(p, f).order <= f.prev
    /\ \A x \in f.todo : /\ At(p, f).order <= x.order
                         /\ x \in f.of.modules => At(p, f).of # x.name
    /\ At(p, f).order < f.prev /\ NoBatch \notin {k, n} => k < n
PlacedOK ==
  \A e \in b.placed :
    LET k == KnownRows[e.name].batch
    IN /\ e.place \in Seq(Steps) /\ e.name \in DOMAIN KnownRows /\ k \in Int
       /\ NoBatch \notin {k, b.batch} => k <= b.batch
       /\ \A i \in DOMAIN b.frames : Reached(e.place, k, b.frames[i], b.batch)

(* The packages of the top module with one buildorder share a batch.        *)
TopOK ==
  b.frames # <<>> =>
    \A e \in b.placed, x \in Top.todo \cap Top.of.rpms :
      e.place = Place(x, None) => KnownRows[e.name].batch = b.batch /\ Top.prev = x.order

PlanOK  == Nested(b.frames) /\ PlacedOK /\ TopOK /\ InOrder(KnownRows)
OrderOK == Fresh /\ PlanOK


(* After init, all that is ever written to a row is its build.              *)
LEMMA OnlyBuilds ==
  ASSUME Shape, Staged, Past, Recorded1, [Next]_vars, ~Submit, b.stage # "init",
         NEW c \in Components
  PROVE  b'.rows[c].batch = b.rows[c].batch /\ b'.rows[c].ref = b.rows[c].ref
<1>0. /\ DOMAIN b = Fields /\ "rows" \in Fields
      /\ DOMAIN b.rows[c] = {"batch", "ref", "built"}
  BY DEF Shape, Fields, Components, Recorded1, RowsOK, RowOK
<1>1. CASE b'.rows = b.rows
  BY <1>1
<1>2. CASE \E k, C : b'.rows = Taken(C, k)
  <2>1. PICK k, C : b'.rows = Taken(C, k)
    BY <1>2
  <2>2. b'.rows[c] = IF c \in C THEN [b.rows[c] EXCEPT !.built = history[k].rows[c].built]
                                ELSE b.rows[c]
    BY <2>1 DEF Taken
  <2> QED BY <1>0, <2>2
<1>3. CASE ReuseAll
  <2>1. CASE b'.rows # b.rows
    <3>1. PICK k : b'.rows = Taken(Components, k) /\ Raising(k, Components) = {}
      BY <1>0, <1>3, <2>1 DEF ReuseAll, Fields
    <3> QED BY <1>2, <3>1
  <2> QED BY <1>1, <2>1
<1>4. CASE NextBatch
  <2> DEFINE k == IF TriesReuse(Min(Later)) THEN ReusableModule ELSE 0
             C == {d \in Unbuilt : b.rows[d].batch = Min(Later)}
  <2>1. b'.rows = b.rows \/ b'.rows = Taken(FromBuild(k, C), k)
    BY <1>0, <1>4 DEF NextBatch, Fields
  <2> QED BY <1>1, <1>2, <2>1
<1>5. CASE BuildBatch
  <2>1. CASE c \in b.todo
    BY <1>0, <1>5, <2>1, BatchBuilt
  <2>2. CASE c \notin b.todo
    BY <1>5, <2>2, BatchBuilt
  <2> QED BY <2>1, <2>2
<1>6. CASE IncludeModule \/ Save
  BY <1>6 DEF IncludeModule, Save, InRecord, Staged, InitPcs
<1> QED BY <1>1, <1>3, <1>4, <1>5, <1>6, Changes

(* What is committed and what is pending stays as it is but for what is     *)
(* built, unless the init handler begins again.                             *)
LEMMA KnownStays ==
  ASSUME Typed, Fresh, [Next]_vars, ~Submit, ~Redo, NEW c \in DOMAIN KnownRows
  PROVE  /\ c \in DOMAIN KnownRows'
         /\ KnownRows'[c].batch = KnownRows[c].batch /\ KnownRows'[c].ref = KnownRows[c].ref
<1> USE DEF Typed
<1>0. DOMAIN NoRows = {}
  BY DEF NoRows
<1>1. CASE b'.rows = b.rows /\ b'.pending = b.pending
  BY <1>1 DEF KnownRows
<1>2. CASE b'.rows = KnownRows /\ b'.pending = NoRows
  BY <1>0, <1>2 DEF KnownRows, Overlay
<1>3. CASE RecordPackage
  <2>1. CASE \E item : Records(item)
    <3>1. PICK item : Records(item)
      BY <2>1
    <3> DEFINE more == [d \in {item.name} \ DOMAIN KnownRows |-> RowFor(item)]
    <3>2. b'.rows = b.rows /\ b'.pending = Overlay(b.pending, more) /\ c \notin DOMAIN more
      BY <3>1 DEF Records
    <3> HIDE DEF more
    <3>3. c \in DOMAIN KnownRows' /\ KnownRows'[c] = KnownRows[c]
      BY <3>2 DEF KnownRows, Overlay
    <3> QED BY <3>3
  <2> QED BY <1>1, <1>3, <2>1, RecordsPackage
<1>4. CASE IncludeModule
  <2>1. CASE b' = [b EXCEPT !.rows = KnownRows, !.pending = NoRows]
    <3>1. b'.rows = KnownRows /\ b'.pending = NoRows
      BY <2>1 DEF Shape, Fields
    <3> QED BY <1>2, <3>1
  <2> QED BY <1>1, <1>2, <1>4, <2>1, IncludesModule DEF Includes
<1>5. CASE Save
  <2>1. b'.rows = Overlay(b.pending, b.rows) /\ b'.pending = NoRows
    BY <1>5 DEF Save, Shape, Fields
  <2> QED BY <1>2, <2>1 DEF KnownRows
<1>6. CASE b.stage = "init" /\ ~RecordPackage /\ ~IncludeModule /\ ~Save
  <2>1. ~ReuseAll /\ ~NextBatch /\ ~BuildBatch
    BY <1>6 DEF Staged, ReuseAll, NextBatch, BuildBatch, InitPcs, BuildPcs
  <2> QED BY <1>1, <1>6, <2>1, Changes
<1>7. CASE b.stage # "init"
  <2>1. b.pending = NoRows /\ b'.pending = NoRows
    <3>1. ~RecordPackage /\ ~IncludeModule /\ ~Save
      BY <1>7 DEF RecordPackage, IncludeModule, Save, InRecord, Staged, InitPcs
    <3> QED BY <1>7, <3>1, Changes DEF Fresh
  <2>2. DOMAIN KnownRows = Components /\ KnownRows[c] = b.rows[c]
    BY <1>0, <2>1 DEF KnownRows, Overlay, Components
  <2>3. DOMAIN KnownRows' = Components /\ KnownRows'[c] = b'.rows[c]
    <3>1. Components' = Components
      BY <1>7, Settled
    <3> QED BY <1>0, <2>1, <2>2, <3>1 DEF KnownRows, Overlay, Components
  <2>4. b'.rows[c].batch = b.rows[c].batch /\ b'.rows[c].ref = b.rows[c].ref
    BY <1>7, <2>2, OnlyBuilds
  <2> QED BY <2>2, <2>3, <2>4
<1> QED BY <1>3, <1>4, <1>5, <1>6, <1>7


(* As long as nothing is recorded, the plan stays.                          *)
LEMMA PlanStays ==
  ASSUME Typed, Fresh, PlanOK, [Next]_vars, ~Submit, ~Redo,
         b'.frames = b.frames, b'.batch = b.batch, b'.placed = b.placed
  PROVE  PlanOK'
<1>1. ASSUME NEW e \in b.placed
      PROVE  e.name \in DOMAIN KnownRows' /\ KnownRows'[e.name].batch = KnownRows[e.name].batch
  <2>1. e.name \in DOMAIN KnownRows
    BY DEF PlanOK, PlacedOK
  <2> QED BY <2>1, KnownStays
<1>2. Nested(b'.frames)
  BY DEF PlanOK
<1>3. PlacedOK'
  BY <1>1 DEF PlanOK, PlacedOK
<1>4. TopOK'
  BY <1>1 DEF PlanOK, TopOK, Top, Place
<1>5. InOrder(KnownRows)'
  BY <1>1 DEF PlanOK, InOrder
<1> QED BY <1>2, <1>3, <1>4, <1>5 DEF PlanOK

(* The frames, one item further.                                            *)
LEMMA AdvancedAt ==
  ASSUME FramesOK, InRecord, NEW item
  PROVE  LET F == Advanced(item)
         IN /\ Top = b.frames[1] /\ Len(b.frames) \in Nat \ {0} /\ Len(F) = Len(b.frames)
            /\ DOMAIN F = 1..Len(F) /\ DOMAIN b.frames = 1..Len(F)
            /\ F[1] = [Top EXCEPT !.todo = @ \ {item}, !.prev = item.order]
            /\ F[1].todo = Top.todo \ {item} /\ F[1].prev = item.order
            /\ F[1].of = Top.of /\ F[1].place = Top.place
            /\ \A i \in 2..Len(F) : F[i] = b.frames[i]
<1> DEFINE f == [Top EXCEPT !.todo = @ \ {item}, !.prev = item.order]
<1>1. b.frames \in Seq(Range(b.frames)) /\ b.frames # <<>>
  BY DEF FramesOK, InRecord
<1>2. Top = b.frames[1] /\ Len(b.frames) \in Nat \ {0}
  BY <1>1 DEF Top
<1> DEFINE S == Range(b.frames) \cup {f}
<1>3. b.frames \in Seq(S) /\ f \in S
  <2>1. b.frames \in [1..Len(b.frames) -> Range(b.frames)] /\ Len(b.frames) \in Nat
    BY <1>1
  <2>2. b.frames \in [1..Len(b.frames) -> S]
    BY <2>1
  <2> QED BY <2>1, <2>2
<1>4. Advanced(item) = <<f>> \o Tail(b.frames)
  BY DEF Advanced
<1>5. /\ f.todo = Top.todo \ {item} /\ f.prev = item.order
      /\ f.of = Top.of /\ f.place = Top.place
  <2>1. FrameOK(Top)
    BY <1>2 DEF FramesOK
  <2> QED BY <2>1 DEF FrameOK
<1> HIDE DEF f, S
<1>6. /\ Len(Advanced(item)) = Len(b.frames) /\ Advanced(item)[1] = f
      /\ \A i \in 2..Len(b.frames) : Advanced(item)[i] = b.frames[i]
      /\ DOMAIN Advanced(item) = 1..Len(Advanced(item)) /\ DOMAIN b.frames = 1..Len(b.frames)
  <2>1. /\ Tail(b.frames) \in Seq(S) /\ Len(Tail(b.frames)) = Len(b.frames) - 1
        /\ \A i \in 1..Len(Tail(b.frames)) : Tail(b.frames)[i] = b.frames[i + 1]
    BY <1>1, <1>3
  <2>2. /\ <<f>> \in Seq(S) /\ Len(<<f>>) = 1 /\ <<f>>[1] = f
    BY <1>3
  <2>3. /\ Len(<<f>> \o Tail(b.frames)) = Len(b.frames)
        /\ <<f>> \o Tail(b.frames) \in Seq(S) /\ (<<f>> \o Tail(b.frames))[1] = f
    BY <1>2, <2>1, <2>2
  <2>4. ASSUME NEW i \in 2..Len(b.frames)
        PROVE  (<<f>> \o Tail(b.frames))[i] = Tail(b.frames)[i - 1]
    BY <1>2, <2>1, <2>2
  <2> QED BY <1>1, <1>2, <1>3, <1>4, <2>1, <2>3, <2>4
<1> QED BY <1>2, <1>5, <1>6 DEF f


(* A frame's items have buildorders, and its modules names.                 *)
LEMMA ItemsOK ==
  ASSUME NEW f, FrameOK(f), NEW x \in f.todo
  PROVE  /\ x.order \in Int /\ x.order # NoOrder
         /\ x \in f.of.rpms \/ x \in f.of.modules
         /\ ~(x \in f.of.rpms /\ x \in f.of.modules)
         /\ x \in f.of.modules => x.name \in DOMAIN IncludedMmd /\ x.name # None
         /\ \A y \in f.todo : y.name = x.name /\ x \in f.of.modules /\ y \in f.of.modules => x = y
<1>1. f.of \in Modulemds /\ f.todo \subseteq f.of.rpms \cup f.of.modules
  BY DEF FrameOK
<1> QED BY <1>1, ProductionAssumption

(* What is recorded next has the smallest buildorder that is left; if it is *)
(* a module, all the packages with that buildorder are recorded.            *)
LEMMA NextItem ==
  ASSUME FramesOK, InRecord, NEW item \in Nexts(Top)
  PROVE  /\ FrameOK(Top) /\ item \in Top.todo
         /\ \A x \in Top.todo : item.order <= x.order
         /\ item \in Top.of.modules => \A x \in Top.todo \cap Top.of.rpms : item.order < x.order
<1>1. FrameOK(Top)
  BY DEF InRecord, Top, FramesOK
<1>2. item \in Top.todo /\ \A x \in Top.todo : ~InBuildorder(Top.of, x, item)
  BY DEF Nexts
<1>3. ASSUME NEW x \in Top.todo PROVE item.order <= x.order
  <2>1. x.order \in Int /\ item.order \in Int
    BY <1>1, <1>2, ItemsOK
  <2>2. ~(x.order < item.order)
    BY <1>2 DEF InBuildorder
  <2> QED BY <2>1, <2>2
<1>4. ASSUME item \in Top.of.modules, NEW x \in Top.todo \cap Top.of.rpms
      PROVE  item.order < x.order
  <2>1. x.order \in Int /\ item.order \in Int /\ x \notin Top.of.modules
    BY <1>1, <1>2, ItemsOK
  <2>2. x.order # item.order
    BY <1>2, <1>4, <2>1 DEF InBuildorder
  <2> QED BY <1>3, <2>1, <2>2
<1> QED BY <1>1, <1>2, <1>3, <1>4

(* The batch grows with the buildorder, or there is none any more.          *)
LEMMA BatchGrows ==
  ASSUME FramesOK, InRecord, NEW item, ~Uncountable(Top, item, b.batch)
  PROVE  LET n == BatchOf(Top, item, b.batch)
         IN /\ b.batch \in Int /\ n \in Int
            /\ n # NoBatch => b.batch # NoBatch /\ b.batch <= n
            /\ n # NoBatch /\ item.order # Top.prev => b.batch < n
            /\ item.order = Top.prev => n = b.batch
<1>1. b.batch \in Int /\ b.batch \in {NoBatch} \cup Nat
  BY DEF FramesOK, BatchNo, NoBatch
<1>2. CASE item.order = Top.prev
  BY <1>1, <1>2 DEF BatchOf
<1>3. CASE item.order # Top.prev
  BY <1>1, <1>3 DEF BatchOf, Uncountable, NoBatch
<1> QED BY <1>2, <1>3

(* What is recorded stays before where the handler is, in the top module    *)
LEMMA ReachedTop ==
  ASSUME FramesOK, InRecord, NEW item \in Nexts(Top), ~Uncountable(Top, item, b.batch),
         Top.prev \in Int, NEW n \in {BatchOf(Top, item, b.batch), NoBatch},
         NEW p \in Seq(Steps), NEW k \in Int, NoBatch \notin {k, b.batch} => k <= b.batch,
         Reached(p, k, Top, b.batch), NEW f, f.todo = Top.todo \ {item}, f.prev = item.order,
         f.of = Top.of, f.place = Top.place
  PROVE  Reached(p, k, f, n)
<1> SUFFICES ASSUME Under(p, f)
             PROVE  /\ At(p, f).order <= f.prev
                    /\ \A x \in f.todo : /\ At(p, f).order <= x.order
                                         /\ x \in f.of.modules => At(p, f).of # x.name
                    /\ At(p, f).order < f.prev /\ NoBatch \notin {k, n} => k < n
  BY DEF Reached
<1>1. Under(p, Top) /\ At(p, f) = At(p, Top)
  BY DEF Under, At
<1>2. /\ At(p, f).order <= Top.prev
      /\ \A x \in Top.todo : /\ At(p, f).order <= x.order
                             /\ x \in f.of.modules => At(p, f).of # x.name
      /\ At(p, f).order < Top.prev /\ NoBatch \notin {k, b.batch} => k < b.batch
  BY <1>1 DEF Reached
<1>3. item \in Top.todo
  BY NextItem
<1>4. ASSUME At(p, f).order < f.prev, NoBatch \notin {k, n} PROVE k < n
  <2>1. n = BatchOf(Top, item, b.batch)
    BY <1>4
  <2>2. b.batch \in Int /\ b.batch # NoBatch /\ b.batch <= n /\ n \in Int
    BY <1>4, <2>1, BatchGrows
  <2>3. CASE item.order = Top.prev
    BY <1>2, <1>4, <2>2, <2>3
  <2>4. CASE item.order # Top.prev
    BY <1>4, <2>1, <2>2, <2>4, BatchGrows
  <2> QED BY <2>3, <2>4
<1> QED BY <1>2, <1>3, <1>4

(* ... and in those it is in.                                               *)
LEMMA ReachedBelow ==
  ASSUME NEW p, NEW k \in Int, NEW f, NEW m \in Int, NEW n \in Int,
         n # NoBatch => m # NoBatch /\ m <= n, Reached(p, k, f, m)
  PROVE  Reached(p, k, f, n)
<1>1. NoBatch \notin {k, m} /\ k < m /\ n # NoBatch => k < n
  OBVIOUS
<1> QED BY <1>1 DEF Reached


(* What is inside a module of a module is inside the outer one.             *)
LEMMA InsideAppend ==
  ASSUME NEW p \in Seq(Steps), NEW s \in Steps, NEW f, f.place \in Seq(Steps)
  PROVE  /\ Append(p, s) \in Seq(Steps) /\ Len(Append(p, s)) = Len(p) + 1
         /\ Append(p, s)[Len(p) + 1] = s /\ \A j \in 1..Len(p) : Append(p, s)[j] = p[j]
         /\ Under(p, f) => Under(Append(p, s), f) /\ At(Append(p, s), f) = At(p, f)
<1>1. /\ Append(p, s) \in Seq(Steps) /\ Len(Append(p, s)) = Len(p) + 1
      /\ Append(p, s)[Len(p) + 1] = s /\ \A j \in 1..Len(p) : Append(p, s)[j] = p[j]
      /\ Len(p) \in Nat /\ Len(f.place) \in Nat
  OBVIOUS
<1>2. ASSUME Under(p, f) PROVE Under(Append(p, s), f) /\ At(Append(p, s), f) = At(p, f)
  <2>1. Len(f.place) + 1 \in 1..Len(p) /\ \A j \in 1..Len(f.place) : j \in 1..Len(p)
    BY <1>1, <1>2 DEF Under
  <2> QED BY <1>1, <1>2, <2>1 DEF Under, At
<1> QED BY <1>1, <1>2

(* Where something is inside the top module.                                *)
LEMMA PlaceOK ==
  ASSUME FramesOK, InRecord, Nested(b.frames), NEW item \in Nexts(Top),
         NEW of \in DOMAIN IncludedMmd \cup {None}
  PROVE  LET p == Place(item, of)
         IN /\ Top.place \in Seq(Steps) /\ Top.prev \in Int /\ p \in Seq(Steps)
            /\ Len(p) = Len(Top.place) + 1 /\ p[Len(p)] = [order |-> item.order, of |-> of]
            /\ Under(p, Top) /\ At(p, Top) = [order |-> item.order, of |-> of]
            /\ \A j \in 1..Len(Top.place) : p[j] = Top.place[j]
            /\ \A i \in DOMAIN b.frames : i # 1 => Inside(p, b.frames[i])
<1> DEFINE s == [order |-> item.order, of |-> of]
           p == Place(item, of)
<1>1. Top = b.frames[1] /\ 1 \in DOMAIN b.frames
      /\ \A i \in DOMAIN b.frames : i # 1 => 1 < i
  <2>1. Top = b.frames[1] /\ DOMAIN b.frames = 1..Len(b.frames) /\ Len(b.frames) \in Nat \ {0}
    BY AdvancedAt
  <2> QED BY <2>1
<1>2. Top.place \in Seq(Steps) /\ Top.prev \in Int
  BY <1>1 DEF Nested
<1>3. s \in Steps
  <2>1. FrameOK(Top) /\ item \in Top.todo
    BY NextItem
  <2> QED BY <2>1, ItemsOK DEF Steps
<1>4. p = Append(Top.place, s)
  BY DEF Place
<1> HIDE DEF s, p
<1>5. /\ p \in Seq(Steps) /\ Len(p) = Len(Top.place) + 1 /\ p[Len(Top.place) + 1] = s
      /\ \A j \in 1..Len(Top.place) : p[j] = Top.place[j]
  BY <1>2, <1>3, <1>4, InsideAppend
<1>6. Len(Top.place) \in Nat
  BY <1>2
<1>7. Under(p, Top) /\ At(p, Top) = s
  BY <1>5, <1>6 DEF Under, At
<1>8. ASSUME NEW i \in DOMAIN b.frames, i # 1 PROVE Inside(p, b.frames[i])
  <2>1. Inside(Top.place, b.frames[i]) /\ b.frames[i].place \in Seq(Steps)
    BY <1>1, <1>8 DEF Nested
  <2>2. Under(p, b.frames[i]) /\ At(p, b.frames[i]) = At(Top.place, b.frames[i])
    BY <1>2, <1>3, <1>4, <2>1, InsideAppend DEF Inside
  <2> QED BY <2>1, <2>2 DEF Inside
<1> QED BY <1>2, <1>5, <1>7, <1>8 DEF s, p

(* The frames stay nested as the handler goes on,                           *)
LEMMA NestedAdvanced ==
  ASSUME FramesOK, InRecord, Nested(b.frames), NEW item \in Nexts(Top)
  PROVE  Nested(Advanced(item))
<1> DEFINE F == Advanced(item)
<1>1. /\ Len(F) = Len(b.frames) /\ DOMAIN F = 1..Len(F) /\ DOMAIN b.frames = 1..Len(F)
      /\ Len(F) \in Nat /\ Top = b.frames[1]
      /\ F[1].prev = item.order /\ F[1].place = Top.place
      /\ \A i \in 2..Len(F) : F[i] = b.frames[i]
  BY AdvancedAt
<1> HIDE DEF F
<1>2. \A i \in DOMAIN F : F[i].place = b.frames[i].place
  BY <1>1
<1>3. item.order \in Int
  <2>1. FrameOK(Top) /\ item \in Top.todo
    BY NextItem
  <2> QED BY <2>1, ItemsOK
<1>4. ASSUME NEW i \in DOMAIN F
      PROVE  F[i].place \in Seq(Steps) /\ Len(F[i].place) = Len(F) - i /\ F[i].prev \in Int
  <2>1. F[i].prev \in Int
    BY <1>1, <1>3 DEF Nested
  <2> QED BY <1>1, <1>2, <2>1 DEF Nested
<1>5. ASSUME NEW i \in DOMAIN F, NEW j \in DOMAIN F, i < j PROVE Inside(F[i].place, F[j])
  <2>1. F[j] = b.frames[j]
    BY <1>1, <1>5
  <2> QED BY <1>1, <1>2, <1>5, <2>1 DEF Nested
<1> QED BY <1>4, <1>5 DEF Nested, F

(* The frames with one more.                                                *)
LEMMA IncludedAt ==
  ASSUME FramesOK, InRecord, NEW item
  PROVE  LET F == Advanced(item)
             G == <<FrameFor(item)>> \o F
         IN /\ Len(G) = Len(F) + 1 /\ DOMAIN G = 1..Len(G) /\ G[1] = FrameFor(item)
            /\ \A i \in 2..Len(G) : G[i] = F[i - 1]
<1> DEFINE F == Advanced(item)
           h == FrameFor(item)
           S == Range(F) \cup {h}
<1>1. F \in Seq(S)
  <2>1. F \in Seq(Range(F))
    BY AdvancedOK
  <2>2. F \in [1..Len(F) -> Range(F)] /\ Len(F) \in Nat
    BY <2>1
  <2>3. F \in [1..Len(F) -> S]
    BY <2>2
  <2> QED BY <2>2, <2>3
<1>2. h \in S
  OBVIOUS
<1> HIDE DEF S, h, F
<1>3. <<h>> \in Seq(S) /\ Len(<<h>>) = 1 /\ <<h>>[1] = h
  BY <1>2
<1>4. Len(<<h>> \o F) = Len(F) + 1 /\ DOMAIN (<<h>> \o F) = 1..Len(<<h>> \o F)
      /\ (<<h>> \o F)[1] = h
  BY <1>1, <1>3
<1>5. ASSUME NEW i \in 2..Len(<<h>> \o F) PROVE (<<h>> \o F)[i] = F[i - 1]
  BY <1>1, <1>3, <1>4
<1> QED BY <1>4, <1>5 DEF F, h

(* as it begins with a module                                               *)
LEMMA NestedIncluded ==
  ASSUME FramesOK, InRecord, Nested(b.frames), NEW item \in Nexts(Top) \cap Top.of.modules
  PROVE  Nested(<<FrameFor(item)>> \o Advanced(item))
<1> DEFINE F == Advanced(item)
           G == <<FrameFor(item)>> \o F
           p == Place(item, item.name)
<1>1. /\ Len(G) = Len(F) + 1 /\ DOMAIN G = 1..Len(G) /\ G[1] = FrameFor(item)
      /\ \A i \in 2..Len(G) : G[i] = F[i - 1]
  BY IncludedAt
<1>2. /\ Len(F) = Len(b.frames) /\ DOMAIN F = 1..Len(F) /\ DOMAIN b.frames = 1..Len(F)
      /\ Len(F) \in Nat \ {0} /\ Top = b.frames[1]
      /\ F[1].todo = Top.todo \ {item} /\ F[1].prev = item.order
      /\ F[1].of = Top.of /\ F[1].place = Top.place
      /\ \A i \in 2..Len(F) : F[i] = b.frames[i]
  BY AdvancedAt
<1>3. Nested(F)
  BY NestedAdvanced
<1>4. /\ FrameOK(Top) /\ item \in Top.todo /\ item.order \in Int /\ item \in Top.of.modules
      /\ item.name \in DOMAIN IncludedMmd /\ item.name # None
      /\ \A x \in Top.todo : item.order <= x.order
      /\ \A x \in Top.todo \cap Top.of.rpms : item.order < x.order
  <2>1. FrameOK(Top) /\ item \in Top.todo
    BY NextItem
  <2> QED BY <2>1, NextItem, ItemsOK
<1>5. /\ p \in Seq(Steps) /\ Len(p) = Len(Top.place) + 1
      /\ Under(p, Top) /\ At(p, Top) = [order |-> item.order, of |-> item.name]
      /\ \A i \in DOMAIN b.frames : i # 1 => Inside(p, b.frames[i])
  BY <1>4, PlaceOK
<1>6. FrameFor(item).place = p /\ FrameFor(item).prev = item.order
  BY DEF FrameFor, Frame
<1> HIDE DEF F, G, p
<1>7. Inside(p, F[1])
  <2>1. Under(p, F[1]) /\ At(p, F[1]) = [order |-> item.order, of |-> item.name]
    BY <1>2, <1>5 DEF Under, At
  <2>2. ASSUME NEW x \in Top.todo \ {item}, x \in Top.of.modules PROVE x.name # item.name
    BY <1>4, <2>2, ItemsOK
  <2> QED BY <1>2, <1>4, <2>1, <2>2 DEF Inside
<1>8. ASSUME NEW j \in DOMAIN F PROVE Inside(p, F[j])
  BY <1>2, <1>5, <1>7
<1>9. ASSUME NEW i \in DOMAIN G
      PROVE  G[i].place \in Seq(Steps) /\ Len(G[i].place) = Len(G) - i /\ G[i].prev \in Int
  <2>1. CASE i = 1
    <3>1. Len(Top.place) = Len(F) - 1
      BY <1>2, <1>3 DEF Nested
    <3> QED BY <1>1, <1>2, <1>4, <1>5, <1>6, <2>1, <3>1
  <2>2. CASE i # 1
    <3>1. i \in 2..Len(G) /\ i - 1 \in DOMAIN F
      BY <1>1, <1>2, <2>2
    <3>2. /\ F[i - 1].place \in Seq(Steps) /\ Len(F[i - 1].place) = Len(F) - (i - 1)
          /\ F[i - 1].prev \in Int
      BY <1>3, <3>1 DEF Nested
    <3>3. G[i] = F[i - 1] /\ Len(F) - (i - 1) = Len(G) - i
      BY <1>1, <1>2, <3>1
    <3> QED BY <3>2, <3>3
  <2> QED BY <2>1, <2>2
<1>10. ASSUME NEW i \in DOMAIN G, NEW j \in DOMAIN G, i < j PROVE Inside(G[i].place, G[j])
  <2>1. j \in 2..Len(G) /\ j - 1 \in DOMAIN F /\ G[j] = F[j - 1]
    BY <1>1, <1>2, <1>10
  <2>2. CASE i = 1
    BY <1>1, <1>6, <1>8, <2>1, <2>2
  <2>3. CASE i # 1
    <3>1. i \in 2..Len(G) /\ i - 1 \in DOMAIN F /\ G[i] = F[i - 1] /\ i - 1 < j - 1
      BY <1>1, <1>2, <1>10, <2>3
    <3> QED BY <1>3, <2>1, <3>1 DEF Nested
  <2> QED BY <2>2, <2>3
<1> QED BY <1>9, <1>10 DEF Nested, F, G


(* Two places part in one of the modules that are being recorded, if one of *)
(* them is where the handler is.                                            *)
LEMMA Parting ==
  ASSUME FramesOK, InRecord, Nested(b.frames), NEW item \in Nexts(Top),
         NEW q \in Seq(Steps), NEW i \in DOMAIN q \cap DOMAIN Place(item, None),
         \A j \in 1..(i - 1) : q[j] = Place(item, None)[j]
  PROVE  \E m \in DOMAIN b.frames :
           /\ Under(q, b.frames[m]) /\ At(q, b.frames[m]) = q[i]
           /\ At(Place(item, None), b.frames[m]) = Place(item, None)[i]
           /\ \/ b.frames[m] = Top /\ Place(item, None)[i] = [order |-> item.order, of |-> None]
              \/ Inside(Place(item, None), b.frames[m])
<1> DEFINE p == Place(item, None)
           n == Len(b.frames)
           m == n - (i - 1)
<1>1. /\ Top.place \in Seq(Steps) /\ p \in Seq(Steps) /\ Len(p) = Len(Top.place) + 1
      /\ Under(p, Top) /\ At(p, Top) = [order |-> item.order, of |-> None]
      /\ \A k \in DOMAIN b.frames : k # 1 => Inside(p, b.frames[k])
  BY PlaceOK
<1>2. Top = b.frames[1] /\ n \in Nat \ {0} /\ DOMAIN b.frames = 1..n
  <2>1. n = Len(Advanced(item))
    BY AdvancedAt
  <2> QED BY <2>1, AdvancedAt
<1>3. Len(Top.place) = n - 1
  BY <1>2 DEF Nested
<1>4. i \in 1..n /\ i \in 1..Len(q) /\ Len(q) \in Nat
  <2>1. DOMAIN p = 1..n /\ DOMAIN q = 1..Len(q) /\ Len(q) \in Nat
    BY <1>1, <1>2, <1>3
  <2> HIDE DEF p
  <2>2. i \in DOMAIN p
    BY DEF p
  <2> QED BY <2>1, <2>2
<1>5. m \in DOMAIN b.frames /\ n - m = i - 1
  BY <1>2, <1>4
<1> DEFINE f == b.frames[m]
<1>6. Len(f.place) = i - 1
  <2>1. Len(f.place) = n - m
    BY <1>5 DEF Nested
  <2> QED BY <1>5, <2>1
<1>7. Under(p, f) /\ (m = 1 => f = Top)
  BY <1>1, <1>2, <1>5 DEF Inside
<1>8. \A j \in 1..(i - 1) : p[j] = q[j]
  BY DEF p
<1> HIDE DEF p, f, m, n
<1>9. Under(q, f) /\ At(q, f) = q[i] /\ At(p, f) = p[i]
  BY <1>4, <1>6, <1>7, <1>8 DEF Under, At
<1>10. CASE m = 1
  BY <1>1, <1>5, <1>7, <1>9, <1>10 DEF p, f
<1>11. CASE m # 1
  BY <1>1, <1>5, <1>9, <1>11 DEF p, f
<1> QED BY <1>10, <1>11

(* What is recorded next comes after what it should,                        *)
LEMMA ComesAfter ==
  ASSUME FramesOK, InRecord, Nested(b.frames), PlacedOK, NEW item \in Nexts(Top),
         ~Uncountable(Top, item, b.batch), NEW e \in b.placed,
         Precedes(e.place, Place(item, None)),
         NoBatch \notin {KnownRows[e.name].batch, BatchOf(Top, item, b.batch)}
  PROVE  KnownRows[e.name].batch < BatchOf(Top, item, b.batch)
<1> DEFINE k == KnownRows[e.name].batch
           n == BatchOf(Top, item, b.batch)
<1>1. PICK i \in DOMAIN e.place \cap DOMAIN Place(item, None) :
        /\ e.place[i].order < Place(item, None)[i].order
        /\ \A j \in 1..(i - 1) : e.place[j] = Place(item, None)[j]
  BY DEF Precedes
<1>2. /\ e.place \in Seq(Steps) /\ k \in Int
      /\ NoBatch \notin {k, b.batch} => k <= b.batch
      /\ \A m \in DOMAIN b.frames : Reached(e.place, k, b.frames[m], b.batch)
  BY DEF PlacedOK
<1>a. e.place \in Seq(Steps)
  BY <1>2
<1>3. PICK m \in DOMAIN b.frames :
        /\ Under(e.place, b.frames[m]) /\ At(e.place, b.frames[m]) = e.place[i]
        /\ At(Place(item, None), b.frames[m]) = Place(item, None)[i]
        /\ \/ b.frames[m] = Top /\ Place(item, None)[i] = [order |-> item.order, of |-> None]
           \/ Inside(Place(item, None), b.frames[m])
  BY <1>1, <1>a, Parting
<1> DEFINE f == b.frames[m]
<1>4. /\ e.place[i].order <= f.prev
      /\ e.place[i].order < f.prev /\ NoBatch \notin {k, b.batch} => k < b.batch
  BY <1>2, <1>3 DEF Reached
<1>5. b.batch \in Int /\ n \in Int /\ b.batch # NoBatch /\ b.batch <= n
      /\ (item.order # Top.prev => b.batch < n) /\ NoBatch # k /\ k \in Int /\ k <= b.batch
  <2>1. b.batch \in Int /\ n \in Int /\ b.batch # NoBatch /\ b.batch <= n
        /\ (item.order # Top.prev => b.batch < n) /\ NoBatch # k
    BY BatchGrows
  <2> QED BY <1>2, <2>1
<1> HIDE DEF k, n
<1>6. CASE Inside(Place(item, None), f)
  <2>1. Place(item, None)[i].order = f.prev
    BY <1>3, <1>6 DEF Inside
  <2>2. e.place[i].order < f.prev
    BY <1>1, <2>1
  <2>3. k < b.batch
    BY <1>4, <1>5, <2>2
  <2> QED BY <1>5, <2>3 DEF k, n
<1>7. CASE f = Top /\ Place(item, None)[i] = [order |-> item.order, of |-> None]
  <2>1. e.place[i].order < item.order
    BY <1>1, <1>7
  <2>2. CASE item.order = Top.prev
    <3>1. k < b.batch
      BY <1>4, <1>5, <1>7, <2>1, <2>2
    <3> QED BY <1>5, <3>1 DEF k, n
  <2>3. CASE item.order # Top.prev
    <3>1. b.batch < n
      BY <1>5, <2>3
    <3> QED BY <1>5, <3>1 DEF k, n
  <2> QED BY <2>2, <2>3
<1> QED BY <1>3, <1>6, <1>7

(* and nothing recorded should have come after it.                          *)
LEMMA NoneAfter ==
  ASSUME FramesOK, InRecord, Nested(b.frames), PlacedOK, NEW item \in Nexts(Top),
         NEW e \in b.placed, Precedes(Place(item, None), e.place)
  PROVE  FALSE
<1>1. PICK i \in DOMAIN e.place \cap DOMAIN Place(item, None) :
        /\ Place(item, None)[i].order < e.place[i].order
        /\ \A j \in 1..(i - 1) : e.place[j] = Place(item, None)[j]
  BY DEF Precedes
<1>2. /\ e.place \in Seq(Steps)
      /\ \A m \in DOMAIN b.frames :
           Reached(e.place, KnownRows[e.name].batch, b.frames[m], b.batch)
  BY DEF PlacedOK
<1>3. PICK m \in DOMAIN b.frames :
        /\ Under(e.place, b.frames[m]) /\ At(e.place, b.frames[m]) = e.place[i]
        /\ At(Place(item, None), b.frames[m]) = Place(item, None)[i]
        /\ \/ b.frames[m] = Top /\ Place(item, None)[i] = [order |-> item.order, of |-> None]
           \/ Inside(Place(item, None), b.frames[m])
  BY <1>1, <1>2, Parting
<1> DEFINE f == b.frames[m]
<1>4. /\ e.place[i].order <= f.prev
      /\ \A x \in f.todo : e.place[i].order <= x.order
  BY <1>2, <1>3 DEF Reached
<1>5. e.place[i].order \in Int /\ f.prev \in Int
  <2>1. e.place[i] \in Steps
    BY <1>1, <1>2
  <2> QED BY <2>1 DEF Steps, Nested
<1>6. CASE Inside(Place(item, None), f)
  <2>1. Place(item, None)[i].order = f.prev
    BY <1>3, <1>6 DEF Inside
  <2> QED BY <1>1, <1>4, <1>5, <2>1
<1>7. CASE f = Top /\ Place(item, None)[i] = [order |-> item.order, of |-> None]
  <2>1. item \in Top.todo /\ item.order \in Int
    <3>1. item \in Top.todo /\ FrameOK(Top)
      BY NextItem
    <3> QED BY <3>1, ItemsOK
  <2> QED BY <1>1, <1>4, <1>5, <1>7, <2>1
<1> QED BY <1>3, <1>6, <1>7


(* A place does not come before itself.                                     *)
LEMMA Irreflexive == ASSUME NEW p \in Seq(Steps) PROVE ~Precedes(p, p)
<1> SUFFICES ASSUME NEW i \in DOMAIN p, p[i].order < p[i].order PROVE FALSE
  BY DEF Precedes
<1>1. p[i] \in Steps
  OBVIOUS
<1> QED BY <1>1 DEF Steps

(* A package is recorded in the order of the plan.                          *)
LEMMA PlanRecorded ==
  ASSUME Typed, Fresh, PlanOK, [Next]_vars, RecordPackage, NEW item, Records(item)
  PROVE  PlanOK'
<1> DEFINE n == BatchOf(Top, item, b.batch)
           F == Advanced(item)
           p == Place(item, None)
           new == [name |-> item.name, place |-> p]
<1>1. /\ FramesOK /\ InRecord /\ item \in Nexts(Top) /\ item \in Top.of.rpms
      /\ ~Uncountable(Top, item, b.batch)
      /\ b'.frames = F /\ b'.batch = n /\ b'.placed = b.placed \cup {new} /\ b'.rows = b.rows
  BY DEF Records, RecordPackage, Typed
<1>2. ~Submit /\ ~Redo
  BY DEF Submit, RecordPackage, InRecord, Redo, Crash, Resubmit, Restart, Restarted, Records,
         InitPcs, Typed
<1>3. ASSUME NEW e \in b.placed
      PROVE  /\ e.place \in Seq(Steps)
             /\ e.name \in DOMAIN KnownRows' /\ KnownRows'[e.name].batch = KnownRows[e.name].batch
  <2>1. e.name \in DOMAIN KnownRows /\ e.place \in Seq(Steps)
    BY DEF PlanOK, PlacedOK
  <2> QED BY <1>2, <2>1, KnownStays
<1>4. item.name \in DOMAIN KnownRows' /\ KnownRows'[item.name].batch = n
  <2>1. CASE item.name \in DOMAIN KnownRows
    <3>1. KnownRows[item.name].batch = n
      BY <2>1 DEF Records, Differs
    <3> QED BY <1>2, <2>1, <3>1, KnownStays
  <2>2. CASE item.name \notin DOMAIN KnownRows
    <3>1. b'.pending = Overlay(b.pending, [d \in {item.name} |-> RowFor(item)])
      <4>1. {item.name} \ DOMAIN KnownRows = {item.name}
        BY <2>2
      <4> QED BY <4>1 DEF Records
    <3>2. item.name \notin DOMAIN b.pending
      BY <2>2 DEF KnownRows, Overlay
    <3>3. item.name \in DOMAIN b'.pending /\ b'.pending[item.name] = RowFor(item)
      BY <3>1, <3>2 DEF Overlay
    <3>4. item.name \in DOMAIN KnownRows' /\ KnownRows'[item.name] = RowFor(item)
      BY <3>3 DEF KnownRows, Overlay
    <3> QED BY <3>4 DEF RowFor
  <2> QED BY <2>1, <2>2
<1>5. /\ Len(F) \in Nat \ {0} /\ DOMAIN F = 1..Len(F) /\ DOMAIN b.frames = 1..Len(F)
      /\ F[1].todo = Top.todo \ {item} /\ F[1].prev = item.order /\ F[1].of = Top.of
      /\ F[1].place = Top.place /\ Top = b.frames[1]
      /\ \A i \in 2..Len(F) : F[i] = b.frames[i]
  <2>1. Len(F) = Len(b.frames) /\ Len(b.frames) \in Nat \ {0}
    BY <1>1, AdvancedAt
  <2> QED BY <1>1, <2>1, AdvancedAt
<1>6. /\ b.batch \in Int /\ n \in Int
      /\ n # NoBatch => b.batch # NoBatch /\ b.batch <= n
      /\ item.order = Top.prev => n = b.batch
  BY <1>1, BatchGrows
<1>7. /\ p \in Seq(Steps) /\ At(p, Top) = [order |-> item.order, of |-> None] /\ Top.prev \in Int
      /\ \A i \in DOMAIN b.frames : i # 1 => Inside(p, b.frames[i])
  BY <1>1, PlaceOK DEF PlanOK
<1>8. /\ FrameOK(Top) /\ item \in Top.todo /\ item.order \in Int
      /\ \A x \in Top.todo : item.order <= x.order
  <2>1. FrameOK(Top) /\ item \in Top.todo
    BY <1>1, NextItem
  <2> QED BY <1>1, <2>1, NextItem, ItemsOK
<1> HIDE DEF F, n, p
<1>9. Nested(b'.frames)
  BY <1>1, NestedAdvanced DEF PlanOK, F
<1>10. ASSUME NEW e \in b.placed, NEW i \in DOMAIN F
       PROVE  Reached(e.place, KnownRows[e.name].batch, F[i], n)
  <2> DEFINE k == KnownRows[e.name].batch
  <2>1. /\ k \in Int /\ e.place \in Seq(Steps)
        /\ NoBatch \notin {k, b.batch} => k <= b.batch
        /\ \A m \in DOMAIN b.frames : Reached(e.place, k, b.frames[m], b.batch)
    BY DEF PlanOK, PlacedOK
  <2> HIDE DEF k
  <2>2. CASE i = 1
    <3>1. Reached(e.place, k, Top, b.batch) /\ i \in DOMAIN F
      BY <1>5, <2>1, <2>2
    <3> QED BY <1>1, <1>5, <1>7, <2>1, <2>2, <3>1, ReachedTop DEF k, n
  <2>3. CASE i # 1
    <3>1. F[i] = b.frames[i] /\ i \in DOMAIN b.frames
      BY <1>5, <2>3
    <3> QED BY <1>6, <2>1, <3>1, ReachedBelow DEF k
  <2> QED BY <2>2, <2>3
<1>11. ASSUME NEW i \in DOMAIN F PROVE Reached(p, n, F[i], n)
  <2>1. CASE i = 1
    <3>1. At(p, F[1]) = [order |-> item.order, of |-> None]
      BY <1>5, <1>7 DEF At
    <3>2. ASSUME NEW x \in F[1].todo
          PROVE  item.order <= x.order /\ (x \in F[1].of.modules => x.name # None)
      BY <1>5, <1>8, ItemsOK
    <3> QED BY <1>5, <1>8, <2>1, <3>1, <3>2 DEF Reached
  <2>2. CASE i # 1
    <3>1. F[i] = b.frames[i] /\ Inside(p, F[i]) /\ FrameOK(F[i]) /\ F[i].prev \in Int
      BY <1>1, <1>5, <1>7, <2>2 DEF FramesOK, PlanOK, Nested
    <3>2. ASSUME NEW x \in F[i].todo
          PROVE  /\ F[i].prev <= x.order
                 /\ x \in F[i].of.modules => At(p, F[i]).of # x.name
      <4>1. x.order \in Int /\ (x \in F[i].of.rpms \/ x \in F[i].of.modules)
        BY <3>1, ItemsOK
      <4> QED BY <3>1, <4>1 DEF Inside
    <3> QED BY <3>1, <3>2 DEF Reached, Inside
  <2> QED BY <2>1, <2>2
<1>12. PlacedOK'
  <2> SUFFICES ASSUME NEW e \in b'.placed
               PROVE  /\ e.place \in Seq(Steps) /\ e.name \in DOMAIN KnownRows'
                      /\ KnownRows'[e.name].batch \in Int
                      /\ NoBatch \notin {KnownRows'[e.name].batch, n}
                           => KnownRows'[e.name].batch <= n
                      /\ \A i \in DOMAIN F : Reached(e.place, KnownRows'[e.name].batch, F[i], n)
    BY <1>1 DEF PlacedOK
  <2>1. CASE e = new
    BY <1>4, <1>6, <1>7, <1>11, <2>1
  <2>2. CASE e \in b.placed
    <3>1. /\ KnownRows[e.name].batch \in Int
          /\ NoBatch \notin {KnownRows[e.name].batch, b.batch} => KnownRows[e.name].batch <= b.batch
      BY <2>2 DEF PlanOK, PlacedOK
    <3> QED BY <1>3, <1>6, <1>10, <2>2, <3>1
  <2> QED BY <1>1, <2>1, <2>2
<1>13. TopOK'
  <2> SUFFICES ASSUME NEW e \in b'.placed, NEW x \in (Top.todo \ {item}) \cap Top.of.rpms,
                      e.place = Place(x, None)
               PROVE  KnownRows'[e.name].batch = n /\ x.order = item.order
    <3>1. Top' = F[1]
      BY <1>1, <1>5 DEF Top, F
    <3> QED BY <1>1, <1>5, <3>1 DEF TopOK, Place
  <2>1. x.order \in Int /\ item.order <= x.order
    BY <1>8, ItemsOK
  <2>2. CASE e = new
    <3>1. /\ Append(Top.place, [order |-> x.order, of |-> None])
               = Append(Top.place, [order |-> item.order, of |-> None])
          /\ Top.place \in Seq(Steps)
      BY <1>1, <2>2, PlaceOK DEF Place, p, PlanOK
    <3>2. [order |-> x.order, of |-> None] = [order |-> item.order, of |-> None]
      <4>1. /\ [order |-> x.order, of |-> None] \in Steps
            /\ [order |-> item.order, of |-> None] \in Steps
        BY <1>8, <2>1 DEF Steps
      <4> DEFINE s == [order |-> x.order, of |-> None]
                 t == [order |-> item.order, of |-> None]
      <4>2. /\ Append(Top.place, s)[Len(Top.place) + 1] = s
            /\ Append(Top.place, t)[Len(Top.place) + 1] = t
        BY <3>1, <4>1
      <4> QED BY <3>1, <4>2
    <3>3. x.order = item.order
      BY <3>2
    <3> QED BY <1>4, <2>2, <3>3
  <2>3. CASE e \in b.placed
    <3>1. KnownRows[e.name].batch = b.batch /\ Top.prev = x.order
      BY <1>1, <2>3 DEF PlanOK, TopOK, InRecord
    <3>2. x.order <= item.order
      <4>1. Under(e.place, Top) /\ At(e.place, Top) = [order |-> x.order, of |-> None]
        <5>1. FrameOK(Top) /\ Top.place \in Seq(Steps) /\ [order |-> x.order, of |-> None] \in Steps
          BY <1>1, <1>8, <2>1, PlaceOK DEF PlanOK, Steps
        <5> DEFINE s == [order |-> x.order, of |-> None]
        <5>2. e.place = Append(Top.place, s)
          BY DEF Place
        <5> HIDE DEF s
        <5> QED BY <5>1, <5>2, InsideAppend DEF Under, At, s
      <4>2. Reached(e.place, KnownRows[e.name].batch, Top, b.batch)
        BY <1>5, <2>3 DEF PlanOK, PlacedOK
      <4> QED BY <1>8, <4>1, <4>2 DEF Reached
    <3> QED BY <1>3, <1>6, <1>8, <2>1, <2>3, <3>1, <3>2
  <2> QED BY <1>1, <2>2, <2>3
<1>14. InOrder(KnownRows)'
  <2> SUFFICES ASSUME NEW d \in b'.placed, NEW e \in b'.placed
               PROVE  LET first == KnownRows'[d.name].batch
                          later == KnownRows'[e.name].batch
                      IN /\ NoBatch \notin {first, later} /\ Precedes(d.place, e.place)
                              => first < later
                         /\ d.place = e.place => first = later
    BY DEF InOrder
  <2>1. ASSUME NEW f \in b.placed, f.place = p PROVE KnownRows[f.name].batch = n
    <3>1. KnownRows[f.name].batch = b.batch /\ Top.prev = item.order
      BY <1>1, <1>8, <2>1 DEF PlanOK, TopOK, InRecord, p
    <3> QED BY <1>6, <3>1
  <2>2. CASE d = new /\ e = new
    <3>1. ~Precedes(d.place, e.place)
      BY <1>7, <2>2, Irreflexive
    <3> QED BY <2>2, <3>1
  <2>3. CASE d \in b.placed /\ e = new
    <3>1. ASSUME NoBatch \notin {KnownRows[d.name].batch, n}, Precedes(d.place, p)
          PROVE  KnownRows[d.name].batch < n
      BY <1>1, <2>3, <3>1, ComesAfter DEF PlanOK, n, p
    <3> QED BY <1>3, <1>4, <2>1, <2>3, <3>1
  <2>4. CASE d = new /\ e \in b.placed
    <3>1. ~Precedes(p, e.place)
      BY <1>1, <2>4, NoneAfter DEF PlanOK, p
    <3> QED BY <1>3, <1>4, <2>1, <2>4, <3>1
  <2>5. CASE d \in b.placed /\ e \in b.placed
    BY <1>3, <2>5 DEF PlanOK, InOrder
  <2> QED BY <1>1, <2>2, <2>3, <2>4, <2>5
<1> QED BY <1>9, <1>12, <1>13, <1>14 DEF PlanOK


(* An included module is begun with in the order of the plan,               *)
LEMMA PlanIncluded ==
  ASSUME Typed, Fresh, PlanOK, [Next]_vars, IncludeModule, NEW item, Includes(item)
  PROVE  PlanOK'
<1> DEFINE n == BatchOf(Top, item, b.batch)
           F == Advanced(item)
           G == <<FrameFor(item)>> \o F
<1>1. /\ FramesOK /\ InRecord /\ item \in Nexts(Top) /\ item \in Top.of.modules
      /\ ~Uncountable(Top, item, b.batch)
      /\ \/ b'.frames = F /\ b'.batch = NoBatch
         \/ b'.frames = G /\ b'.batch = n
      /\ b'.placed = b.placed
  BY DEF Includes, IncludeModule, Typed
<1>2. ~Submit /\ ~Redo
  BY DEF Submit, IncludeModule, InRecord, Redo, Crash, Resubmit, Restart, Restarted, Includes,
         InitPcs, Typed
<1>3. ASSUME NEW e \in b.placed
      PROVE  /\ e.place \in Seq(Steps)
             /\ e.name \in DOMAIN KnownRows' /\ KnownRows'[e.name].batch = KnownRows[e.name].batch
  <2>1. e.name \in DOMAIN KnownRows /\ e.place \in Seq(Steps)
    BY DEF PlanOK, PlacedOK
  <2> QED BY <1>2, <2>1, KnownStays
<1>5. /\ Len(F) \in Nat \ {0} /\ DOMAIN F = 1..Len(F) /\ DOMAIN b.frames = 1..Len(F)
      /\ F[1].todo = Top.todo \ {item} /\ F[1].prev = item.order /\ F[1].of = Top.of
      /\ F[1].place = Top.place /\ Top = b.frames[1]
      /\ \A i \in 2..Len(F) : F[i] = b.frames[i]
  <2>1. Len(F) = Len(b.frames) /\ Len(b.frames) \in Nat \ {0}
    BY <1>1, AdvancedAt
  <2> QED BY <1>1, <2>1, AdvancedAt
<1>6. /\ b.batch \in Int /\ n \in Int
      /\ n # NoBatch => b.batch # NoBatch /\ b.batch <= n
  BY <1>1, BatchGrows
<1>7. b'.batch \in {n, NoBatch} /\ b'.batch \in Int
      /\ (b'.batch # NoBatch => b.batch # NoBatch /\ b.batch <= b'.batch)
  BY <1>1, <1>6 DEF NoBatch
<1>8. /\ FrameOK(Top) /\ item \in Top.todo /\ item.order \in Int /\ Top.prev \in Int
      /\ Top.place \in Seq(Steps) /\ item.name \in DOMAIN IncludedMmd
      /\ \A x \in Top.todo \cap Top.of.rpms : item.order < x.order
  <2>1. FrameOK(Top) /\ item \in Top.todo
    BY <1>1, NextItem
  <2> QED BY <1>1, <2>1, NextItem, ItemsOK, PlaceOK DEF PlanOK
<1>9. /\ Len(G) = Len(F) + 1 /\ DOMAIN G = 1..Len(G) /\ G[1] = FrameFor(item)
      /\ \A i \in 2..Len(G) : G[i] = F[i - 1]
  BY <1>1, IncludedAt
<1>10. FrameFor(item).place = Place(item, item.name) /\ FrameFor(item).prev = item.order
  BY DEF FrameFor, Frame
<1>11. Nested(b'.frames)
  BY <1>1, NestedAdvanced, NestedIncluded DEF PlanOK
<1> HIDE DEF F, G, n
<1>12. ASSUME NEW e \in b.placed, NEW i \in DOMAIN F
       PROVE  Reached(e.place, KnownRows[e.name].batch, F[i], b'.batch)
  <2> DEFINE k == KnownRows[e.name].batch
  <2>1. /\ k \in Int /\ e.place \in Seq(Steps)
        /\ NoBatch \notin {k, b.batch} => k <= b.batch
        /\ \A m \in DOMAIN b.frames : Reached(e.place, k, b.frames[m], b.batch)
    BY DEF PlanOK, PlacedOK
  <2> HIDE DEF k
  <2>2. CASE i = 1
    <3>1. Reached(e.place, k, Top, b.batch) /\ i \in DOMAIN F
      BY <1>5, <2>1, <2>2
    <3> QED BY <1>1, <1>5, <1>7, <1>8, <2>1, <2>2, <3>1, ReachedTop DEF k, n
  <2>3. CASE i # 1
    <3>1. F[i] = b.frames[i] /\ i \in DOMAIN b.frames
      BY <1>5, <2>3
    <3> QED BY <1>6, <1>7, <2>1, <3>1, ReachedBelow DEF k
  <2> QED BY <2>2, <2>3
<1>13. ASSUME NEW e \in b.placed PROVE ~Under(e.place, FrameFor(item))
  <2> SUFFICES ASSUME Under(e.place, FrameFor(item)) PROVE FALSE
    OBVIOUS
  <2> DEFINE p == Place(item, item.name)
  <2>1. /\ p \in Seq(Steps) /\ Len(p) = Len(Top.place) + 1 /\ Under(p, Top)
        /\ At(p, Top) = [order |-> item.order, of |-> item.name]
    BY <1>1, <1>8, PlaceOK DEF PlanOK
  <2> HIDE DEF p

  <2>2. Len(p) < Len(e.place) /\ \A j \in 1..Len(p) : e.place[j] = p[j]
    BY <1>10 DEF Under, p
  <2>3. Len(Top.place) \in Nat /\ Len(e.place) \in Nat
    BY <1>3, <1>8
  <2>4. Under(e.place, Top) /\ At(e.place, Top) = At(p, Top)
    <3>1. \A j \in 1..Len(Top.place) : j \in 1..Len(p) /\ p[j] = Top.place[j]
      BY <2>1, <2>3 DEF Under
    <3>2. Len(Top.place) + 1 \in 1..Len(p)
      BY <2>1, <2>3
    <3> QED BY <2>1, <2>2, <2>3, <3>1, <3>2 DEF Under, At
  <2>5. Reached(e.place, KnownRows[e.name].batch, Top, b.batch)
    BY <1>5 DEF PlanOK, PlacedOK
  <2>6. At(e.place, Top).of # item.name
    BY <1>1, <1>8, <2>4, <2>5 DEF Reached
  <2> QED BY <2>1, <2>4, <2>6
<1>14. ASSUME NEW e \in b.placed, NEW i \in DOMAIN G
       PROVE  Reached(e.place, KnownRows[e.name].batch, G[i], b'.batch)
  <2>1. CASE i = 1
    BY <1>9, <1>13, <2>1 DEF Reached
  <2>2. CASE i # 1
    <3>1. G[i] = F[i - 1] /\ i - 1 \in DOMAIN F
      BY <1>5, <1>9, <2>2
    <3> QED BY <1>12, <3>1
  <2> QED BY <2>1, <2>2
<1>15. PlacedOK'
  <2> SUFFICES ASSUME NEW e \in b.placed
               PROVE  /\ KnownRows'[e.name].batch \in Int
                      /\ NoBatch \notin {KnownRows'[e.name].batch, b'.batch}
                           => KnownRows'[e.name].batch <= b'.batch
                      /\ \A i \in DOMAIN b'.frames :
                           Reached(e.place, KnownRows'[e.name].batch, b'.frames[i], b'.batch)
    BY <1>1, <1>3 DEF PlacedOK
  <2>1. /\ KnownRows[e.name].batch \in Int
        /\ NoBatch \notin {KnownRows[e.name].batch, b.batch} => KnownRows[e.name].batch <= b.batch
    BY DEF PlanOK, PlacedOK
  <2>2. b'.frames = F \/ b'.frames = G
    BY <1>1 DEF F, G
  <2> QED BY <1>3, <1>6, <1>7, <1>12, <1>14, <2>1, <2>2
<1>16. TopOK'
  <2> SUFFICES ASSUME NEW e \in b.placed, NEW x \in Top'.todo \cap Top'.of.rpms,
                      e.place = Append(Top'.place, [order |-> x.order, of |-> None])
               PROVE  FALSE
    BY <1>1 DEF TopOK, Place
  <2>1. b'.frames[1] = Top' /\ 1 \in DOMAIN b'.frames
    <3>1. b'.frames = F \/ b'.frames = G
      BY <1>1 DEF F, G
    <3>2. b'.frames \in Seq(Range(b'.frames)) /\ b'.frames # <<>>
      <4>1. FramesOK'
        BY FramesNext DEF Typed
      <4> QED BY <1>5, <1>9, <3>1, <4>1 DEF FramesOK
    <3> QED BY <3>2 DEF Top
  <2>2. FrameOK(Top') /\ Top'.place \in Seq(Steps)
    <3>1. FramesOK'
      BY FramesNext DEF Typed
    <3> QED BY <1>11, <2>1, <3>1 DEF FramesOK, Nested
  <2>3. x.order \in Int /\ [order |-> x.order, of |-> None] \in Steps
    BY <2>2, ItemsOK DEF Steps
  <2>4. Under(e.place, Top') /\ At(e.place, Top') = [order |-> x.order, of |-> None]
    <3> DEFINE s == [order |-> x.order, of |-> None]
    <3>1. s \in Steps /\ e.place = Append(Top'.place, s)
      BY <2>3
    <3> HIDE DEF s
    <3>2. /\ Len(e.place) = Len(Top'.place) + 1 /\ e.place[Len(Top'.place) + 1] = s
          /\ \A j \in 1..Len(Top'.place) : e.place[j] = Top'.place[j]
      BY <2>2, <3>1, InsideAppend
    <3>3. Len(Top'.place) \in Nat
      BY <2>2
    <3> QED BY <3>2, <3>3 DEF Under, At, s
  <2>5. CASE b'.frames = F
    <3>1. /\ Top'.todo = Top.todo \ {item} /\ Top'.of = Top.of /\ Top'.place = Top.place
      BY <1>5, <2>1, <2>5
    <3>2. Under(e.place, Top) /\ At(e.place, Top) = [order |-> x.order, of |-> None]
      BY <2>4, <3>1 DEF Under, At
    <3>3. Reached(e.place, KnownRows[e.name].batch, Top, b.batch)
      <4>1. 1 \in DOMAIN b.frames /\ b.frames[1] = Top
        BY <1>5
      <4>2. \A m \in DOMAIN b.frames : Reached(e.place, KnownRows[e.name].batch, b.frames[m], b.batch)
        BY DEF PlanOK, PlacedOK
      <4> QED BY <4>1, <4>2
    <3>4. x.order <= item.order
      BY <1>8, <3>2, <3>3 DEF Reached
    <3> QED BY <1>8, <2>3, <3>1, <3>4
  <2>6. CASE b'.frames = G
    BY <1>9, <1>13, <2>1, <2>4, <2>6
  <2> QED BY <1>1, <2>5, <2>6 DEF F, G
<1>17. InOrder(KnownRows)'
  BY <1>1, <1>3 DEF PlanOK, InOrder
<1> QED BY <1>11, <1>15, <1>16, <1>17 DEF PlanOK


(* and ended with.                                                          *)
LEMMA PlanEnded ==
  ASSUME Typed, Fresh, PlanOK, [Next]_vars, EndOfModule
  PROVE  PlanOK'
<1> DEFINE F == Tail(b.frames)
<1>1. /\ b'.frames = F /\ b'.batch = b.batch /\ b'.placed = b.placed /\ b'.pending = b.pending
      /\ b'.rows = b.rows /\ InRecord
  BY DEF EndOfModule, Typed, Shape, Fields
<1>2. \A e \in b.placed : /\ e.place \in Seq(Steps) /\ e.name \in DOMAIN KnownRows
                          /\ KnownRows'[e.name].batch = KnownRows[e.name].batch
                          /\ DOMAIN KnownRows' = DOMAIN KnownRows
  BY <1>1 DEF KnownRows, PlanOK, PlacedOK
<1>3. /\ Len(b.frames) \in Nat \ {0} /\ DOMAIN b.frames = 1..Len(b.frames)
      /\ DOMAIN F = 1..(Len(b.frames) - 1) /\ Len(F) = Len(b.frames) - 1
      /\ \A i \in DOMAIN F : F[i] = b.frames[i + 1] /\ i + 1 \in DOMAIN b.frames
  BY <1>1 DEF Typed, FramesOK, InRecord
<1> HIDE DEF F
<1>4. Nested(F)
  <2>1. ASSUME NEW i \in DOMAIN F
        PROVE  F[i].place \in Seq(Steps) /\ Len(F[i].place) = Len(F) - i /\ F[i].prev \in Int
    <3>1. Len(b.frames[i + 1].place) = Len(b.frames) - (i + 1)
      BY <1>3 DEF PlanOK, Nested
    <3>2. Len(b.frames) - (i + 1) = Len(F) - i
      BY <1>3
    <3> QED BY <1>3, <3>1, <3>2 DEF PlanOK, Nested
  <2>2. ASSUME NEW i \in DOMAIN F, NEW j \in DOMAIN F, i < j PROVE Inside(F[i].place, F[j])
    <3>1. i + 1 < j + 1
      BY <1>3, <2>2
    <3> QED BY <1>3, <3>1 DEF PlanOK, Nested
  <2> QED BY <2>1, <2>2 DEF Nested
<1>5. PlacedOK'
  BY <1>1, <1>2, <1>3 DEF PlanOK, PlacedOK
<1>6. TopOK'
  <2> SUFFICES ASSUME F # <<>>, NEW e \in b.placed, NEW x \in Top'.todo \cap Top'.of.rpms,
                      e.place = Append(Top'.place, [order |-> x.order, of |-> None])
               PROVE  FALSE
    BY <1>1 DEF TopOK, Place
  <2> DEFINE f == b.frames[2]
             s == [order |-> x.order, of |-> None]
  <2>1. Top' = f /\ 2 \in DOMAIN b.frames /\ 1 \in DOMAIN b.frames
    <3>1. Len(b.frames) = 1 => Tail(b.frames) = <<>>
      BY <1>1 DEF Typed, FramesOK, InRecord
    <3>2. Len(b.frames) # 1
      BY <3>1 DEF F
    <3>3. 1 \in DOMAIN F /\ Head(F) = F[1]
      BY <1>3, <3>2
    <3> QED BY <1>1, <1>3, <3>3 DEF Top
  <2>2. FrameOK(f) /\ f.place \in Seq(Steps) /\ f.prev \in Int /\ Inside(b.frames[1].place, f)
    BY <2>1 DEF Typed, FramesOK, PlanOK, Nested
  <2> HIDE DEF f
  <2>3. x \in f.todo /\ x \in f.of.rpms /\ x.order \in Int /\ s \in Steps
    BY <2>1, <2>2, ItemsOK DEF Steps
  <2>4. Under(e.place, f) /\ At(e.place, f).order = x.order
    <3>1. e.place = Append(f.place, s)
      BY <2>1
    <3> HIDE DEF s
    <3>2. /\ Len(e.place) = Len(f.place) + 1 /\ e.place[Len(f.place) + 1] = s
          /\ \A j \in 1..Len(f.place) : e.place[j] = f.place[j]
      BY <2>2, <2>3, <3>1, InsideAppend, SMTT(60)
    <3>3. Len(f.place) \in Nat
      BY <2>2
    <3> QED BY <3>2, <3>3 DEF Under, At, s
  <2>5. Reached(e.place, KnownRows[e.name].batch, f, b.batch)
    BY <2>1 DEF PlanOK, PlacedOK, f
  <2>6. x.order <= f.prev /\ f.prev < x.order
    BY <2>2, <2>3, <2>4, <2>5 DEF Reached, Inside
  <2> QED BY <2>2, <2>3, <2>6
<1>7. InOrder(KnownRows)'
  BY <1>1, <1>2 DEF PlanOK, InOrder
<1> QED BY <1>1, <1>4, <1>5, <1>6, <1>7 DEF PlanOK

(* Before anything is recorded there is nothing to be out of order.         *)
LEMMA PlanEmpty ==
  ASSUME b'.placed = {}, b'.frames = <<>> \/ \E m : b'.frames = <<Frame(m, NoOrder, <<>>)>>
  PROVE  PlanOK'
<1>1. Nested(b'.frames)
  <2>1. CASE b'.frames = <<>>
    BY <2>1 DEF Nested
  <2>2. CASE \E m : b'.frames = <<Frame(m, NoOrder, <<>>)>>
    <3>1. PICK m : b'.frames = <<Frame(m, NoOrder, <<>>)>>
      BY <2>2
    <3> DEFINE f == Frame(m, NoOrder, <<>>)
    <3>2. f.place = <<>> /\ f.prev \in Int
      BY DEF Frame, NoOrder
    <3> HIDE DEF f
    <3>3. Len(<<f>>) = 1 /\ DOMAIN <<f>> = {1} /\ <<f>>[1] = f
      OBVIOUS
    <3>4. f.place \in Seq(Steps) /\ Len(f.place) = 0
      BY <3>2
    <3> DEFINE F == <<f>>
    <3>5. Len(F) = 1 /\ DOMAIN F = {1} /\ F[1] = f
      BY <3>3
    <3> HIDE DEF F
    <3>6. Nested(F)
      <4>1. \A i \in DOMAIN F : i = 1
        BY <3>5
      <4>2. F[1].place \in Seq(Steps) /\ F[1].prev \in Int
        BY <3>2, <3>4, <3>5
      <4>3. Len(F) - 1 = 0 /\ Len(F[1].place) = 0
        BY <3>4, <3>5
      <4>4. ASSUME NEW i \in DOMAIN F
            PROVE  F[i].place \in Seq(Steps) /\ Len(F[i].place) = Len(F) - i /\ F[i].prev \in Int
        <5>1. i = 1
          BY <4>1
        <5> QED BY <4>2, <4>3, <5>1
      <4>5. \A i, j \in DOMAIN F : ~(i < j)
        BY <4>1
      <4> QED BY <4>4, <4>5 DEF Nested
    <3> QED BY <3>1, <3>6 DEF f, F
  <2> QED BY <2>1, <2>2
<1> QED BY <1>1 DEF PlanOK, PlacedOK, TopOK, InOrder

(* Nothing is recorded before there are frames, nor pending after init.     *)
LEMMA FreshNext == ASSUME Typed, Fresh, [Next]_vars PROVE Fresh'
<1> USE DEF Typed
<1>1. CASE Submit
  <2>1. CASE b' = New(Head(todo))
    BY <2>1 DEF New, Fresh
  <2>2. CASE UNCHANGED <<b, pc>>
    BY <2>2 DEF Fresh
  <2> QED BY <1>1, <2>1, <2>2 DEF Submit
<1>2. CASE Redo
  <2>1. b'.placed = {} /\ b'.refs = NoRows /\ b'.frames = <<>> /\ b'.stage = "init"
    BY <1>2 DEF Redo, Restarted, Shape, Fields
  <2> QED BY <2>1 DEF Fresh
<1>3. CASE InitHandler
  <2>1. CASE RecordArches \/ AddDefaultModules
    BY <2>1 DEF RecordArches, AddDefaultModules, Fresh, Fail, OnlyBuild, Shape, Fields
  <2>2. CASE FormatMain
    <3>1. pc' \in {"save", "failed", "record"} /\ b'.stage = b.stage /\ b'.pending = b.pending
      BY <2>2 DEF FormatMain, Fail, Shape, Fields
    <3> QED BY <3>1 DEF Fresh
  <2>3. CASE RecordPackage \/ IncludeModule \/ EndOfModule
    <3>1. pc' \in {"record", "failed", "save"} /\ b'.stage = b.stage /\ b.stage = "init"
      BY <2>3, ZenonT(60) DEF RecordPackage, IncludeModule, EndOfModule, Fail, Shape, Fields, InRecord, Staged,
                  InitPcs
    <3> QED BY <3>1 DEF Fresh
  <2>4. CASE Save
    <3>1. pc' = "look" /\ b'.pending = NoRows
      BY <2>4 DEF Save, Shape, Fields
    <3> QED BY <3>1 DEF Fresh
  <2> QED BY <1>3, <2>1, <2>2, <2>3, <2>4 DEF InitHandler
<1>4. CASE ~Submit /\ ~Redo /\ ~InitHandler
  <2>1. /\ b'.pending = b.pending /\ b'.refs = b.refs /\ b'.frames = b.frames
    BY <1>4, Changes DEF InitHandler
  <2>2. pc' \in {"arches", "defaults", "format"} => b'.placed = b.placed /\ pc' = pc
    <3>1. CASE Connecting
      <4>1. pc' \notin {"arches", "defaults", "format"}
        BY <3>1 DEF Connecting, LookForTag, CreateTag, WhitelistPackages, BlockPackages, AddGroup,
                    AddGroupPackages, AddTarget, Staged, InitPcs
      <4> QED BY <4>1
    <3>2. CASE WaitHandler \/ RepoHandler
      <4>1. pc' \notin {"arches", "defaults", "format"}
        BY <3>2 DEF WaitHandler, AddRepos, ReuseAll, BuildMacros, RepoHandler, NextBatch, BuildBatch,
                    Finalize, Import, TagImported, Finish, Fail
      <4> QED BY <4>1
    <3>3. CASE Faults
      <4>1. CASE Crash \/ Resubmit
        <5>1. b.stage # "init"
          BY <1>4, <4>1 DEF Redo, Crash, Resubmit, Restart
        <5> QED BY <4>1, <5>1 DEF Crash, Resubmit, Restart
      <4>2. CASE RetryGroups \/ FailBuild \/ Abandon \/ Push
        BY <4>2 DEF RetryGroups, FailBuild, Abandon, Push, Fail
      <4> QED BY <3>3, <4>1, <4>2 DEF Faults
    <3>4. CASE UNCHANGED vars
      BY <3>4 DEF vars
    <3> QED BY <1>4, <3>1, <3>2, <3>3, <3>4 DEF Next
  <2>3. b.stage = "init" => b'.stage = "init"
    <3>1. CASE Connecting \/ WaitHandler \/ RepoHandler
      <4>1. pc \notin InitPcs \cup {"idle", "failed"}
        BY <3>1 DEF Connecting, LookForTag, CreateTag, WhitelistPackages, BlockPackages, AddGroup,
                    AddGroupPackages, AddTarget, WaitHandler, AddRepos, ReuseAll, BuildMacros,
                    RepoHandler, NextBatch, BuildBatch, Finalize, Import, TagImported, Finish, InitPcs
      <4> QED BY <4>1 DEF Staged
    <3>2. CASE Faults
      <4>1. CASE Crash \/ Resubmit
        BY <1>4, <4>1 DEF Redo, Crash, Resubmit, Restart
      <4>2. CASE RetryGroups \/ FailBuild \/ Abandon \/ Push
        BY <4>2 DEF RetryGroups, FailBuild, Abandon, Push
      <4> QED BY <3>2, <4>1, <4>2 DEF Faults
    <3>3. CASE UNCHANGED vars
      BY <3>3 DEF vars
    <3> QED BY <1>4, <3>1, <3>2, <3>3 DEF Next
  <2> QED BY <2>1, <2>2, <2>3 DEF Fresh
<1> QED BY <1>1, <1>2, <1>3, <1>4


(* What is placed, and the frames, change only as packages are recorded.    *)
LEMMA PlacedChanges ==
  ASSUME Typed, [Next]_vars, ~Submit, ~Redo,
         ~FormatMain, ~RecordPackage, ~IncludeModule, ~EndOfModule
  PROVE  b'.frames = b.frames /\ b'.batch = b.batch /\ b'.placed = b.placed
<1> USE DEF Typed, Shape, Fields
<1>0. b'.frames = b.frames /\ b'.batch = b.batch
  BY Changes
<1>1. CASE RecordArches \/ AddDefaultModules \/ Save
  BY <1>0, <1>1 DEF RecordArches, AddDefaultModules, Save, OnlyBuild
<1>2. CASE Connecting
  BY <1>0, <1>2 DEF Connecting, LookForTag, CreateTag, WhitelistPackages, BlockPackages, AddGroup,
                    AddGroupPackages, AddTarget, OnlyTags
<1>3. CASE WaitHandler
  BY <1>0, <1>3 DEF WaitHandler, AddRepos, ReuseAll, BuildMacros, OnlyTags
<1>4. CASE RepoHandler
  BY <1>0, <1>4 DEF RepoHandler, NextBatch, BuildBatch, Finalize, Import, TagImported, Finish,
                    OnlyTags, OnlyBuild
<1>5. CASE Faults
  <2>1. CASE Crash \/ Resubmit
    <3>1. b.stage # "init"
      BY <2>1 DEF Redo, Crash, Resubmit, Restart
    <3> QED BY <1>0, <2>1, <3>1 DEF Crash, Resubmit, Restart, Restarted
  <2>2. CASE RetryGroups \/ FailBuild \/ Abandon \/ Push
    BY <1>0, <2>2 DEF RetryGroups, FailBuild, Abandon, Push
  <2> QED BY <1>5, <2>1, <2>2 DEF Faults
<1>6. CASE UNCHANGED vars
  BY <1>6 DEF vars
<1> QED BY <1>1, <1>2, <1>3, <1>4, <1>5, <1>6 DEF Next, InitHandler

(* The order of the plan is kept by every step.                             *)
LEMMA PlanNext == ASSUME Typed, Fresh, PlanOK, [Next]_vars PROVE PlanOK'
<1>0. Shape /\ DOMAIN b = Fields /\ {"frames", "batch", "placed", "refs"} \subseteq Fields
  BY DEF Typed, Shape, Fields
<1>1. CASE Submit
  <2>1. CASE b' = New(Head(todo))
    <3>1. b'.placed = {} /\ b'.frames = <<>>
      BY <2>1 DEF New
    <3> QED BY <3>1, PlanEmpty
  <2>2. CASE b' = b
    <3>1. KnownRows' = KnownRows
      BY <2>2 DEF KnownRows
    <3> QED BY <2>2, <3>1 DEF PlanOK, PlacedOK, TopOK, InOrder, Top, Place
  <2> QED BY <1>1, <2>1, <2>2 DEF Submit
<1>2. CASE Redo
  <2>1. b'.placed = {} /\ b'.frames = <<>>
    BY <1>0, <1>2 DEF Redo, Restarted
  <2> QED BY <2>1, PlanEmpty
<1>3. CASE ~Submit /\ ~Redo /\ b'.frames = b.frames /\ b'.batch = b.batch /\ b'.placed = b.placed
  BY <1>3, PlanStays
<1>4. CASE FormatMain /\ ~Submit /\ ~Redo
  <2>1. CASE b'.frames = <<Frame(b.sub.mmd, NoOrder, <<>>)>> /\ b'.placed = b.placed
    <3>1. b.placed = {}
      BY <1>4 DEF FormatMain, Fresh
    <3> QED BY <2>1, <3>1, PlanEmpty
  <2>2. CASE b' = b
    BY <1>3, <1>4, <2>2
  <2> QED BY <1>0, <1>4, <2>1, <2>2 DEF FormatMain
<1>5. CASE RecordPackage /\ ~Submit /\ ~Redo
  BY <1>0, <1>3, <1>5, PlanRecorded, RecordsPackage
<1>6. CASE IncludeModule /\ ~Submit /\ ~Redo
  <2>1. CASE b' = [b EXCEPT !.rows = KnownRows, !.pending = NoRows]
    BY <1>0, <1>3, <1>6, <2>1
  <2> QED BY <1>0, <1>3, <1>6, <2>1, PlanIncluded, IncludesModule
<1>7. CASE EndOfModule
  BY <1>7, PlanEnded
<1> QED BY <1>1, <1>2, <1>3, <1>4, <1>5, <1>6, <1>7, PlacedChanges

(* What is recorded is always in order.                                     *)
THEOREM OrderAlways == Spec => []OrderOK
<1>1. Init => OrderOK
  <2> SUFFICES ASSUME Init PROVE OrderOK
    OBVIOUS
  <2>1. b.placed = {} /\ b.frames = <<>> /\ b.stage = "init" /\ b.pending = NoRows /\ pc = "idle"
    BY DEF Init, New
  <2> QED BY <2>1 DEF OrderOK, Fresh, PlanOK, Nested, PlacedOK, TopOK, InOrder
<1>2. Typed /\ OrderOK /\ [Next]_vars => OrderOK'
  BY FreshNext, PlanNext DEF OrderOK
<1> QED BY <1>1, <1>2, TypedAlways, PTL DEF Spec

(* Buildorder is global: a component comes in a later batch than those with *)
(* a smaller buildorder, however modules are included in modules, however   *)
(* often the init handler was interrupted, and whatever was recorded then.  *)
THEOREM BatchOrderHolds == Spec => []BatchOrder
<1>1. Typed /\ OrderOK => BatchOrder
  <2> SUFFICES ASSUME Typed, OrderOK, b.stage # "init" PROVE InOrder(b.rows)
    BY DEF BatchOrder
  <2>1. KnownRows = Overlay(NoRows, b.rows) /\ DOMAIN NoRows = {}
    BY DEF OrderOK, Fresh, KnownRows, NoRows
  <2>2. \A c \in DOMAIN KnownRows : KnownRows[c] = b.rows[c]
    BY <2>1 DEF Overlay
  <2> QED BY <2>2 DEF OrderOK, PlanOK, PlacedOK, InOrder
<1> QED BY <1>1, TypedAlways, OrderAlways, PTL


-----------------------------------------------------------------------------
(* The commits that are recorded.                                           *)

(* In init, what is resolved is recorded so or still to be recorded.        *)
Awaits(F, c) == \E i \in DOMAIN F : \E x \in F[i].todo : x \in F[i].of.rpms /\ x.name = c
ResolvedOK ==
  /\ pc = "save" => b.frames = <<>>
  /\ pc \in {"record", "save"} \/ b.stage # "init" =>
       \A c \in DOMAIN b.refs : \/ c \in DOMAIN KnownRows /\ KnownRows[c].ref = b.refs[c]
                                \/ b.stage = "init" /\ Awaits(b.frames, c)


(* A package that is recorded is recorded as it was resolved.               *)
LEMMA ResolvedRecorded ==
  ASSUME Typed, Fresh, ResolvedOK, [Next]_vars, RecordPackage, NEW item, Records(item)
  PROVE  ResolvedOK'
<1> DEFINE F == Advanced(item)
<1>1. /\ FramesOK /\ InRecord /\ item \in Top.of.rpms /\ b'.frames = F
      /\ b'.refs = b.refs /\ b'.stage = b.stage /\ pc = "record" /\ pc' = pc
  BY DEF Records, RecordPackage, InRecord, Typed
<1>2. ~Submit /\ ~Redo
  BY <1>1 DEF Submit, Redo, Crash, Resubmit, Restart, InitPcs, Typed
<1>3. /\ Len(F) \in Nat \ {0} /\ DOMAIN F = 1..Len(F) /\ DOMAIN b.frames = 1..Len(F)
      /\ F[1].todo = Top.todo \ {item} /\ F[1].of = Top.of /\ Top = b.frames[1]
      /\ \A i \in 2..Len(F) : F[i] = b.frames[i]
  <2>1. Len(F) = Len(b.frames) /\ Len(b.frames) \in Nat \ {0}
    BY <1>1, AdvancedAt
  <2> QED BY <1>1, <2>1, AdvancedAt
<1> HIDE DEF F
<1>4. item.name \in DOMAIN KnownRows' /\ KnownRows'[item.name].ref = b.refs[item.name]
  <2>1. CASE item.name \in DOMAIN KnownRows
    <3>1. KnownRows[item.name].ref = b.refs[item.name]
      BY <2>1 DEF Records, Differs
    <3> QED BY <1>2, <2>1, <3>1, KnownStays
  <2>2. CASE item.name \notin DOMAIN KnownRows
    <3>1. b'.pending = Overlay(b.pending, [d \in {item.name} |-> RowFor(item)])
      <4>1. {item.name} \ DOMAIN KnownRows = {item.name}
        BY <2>2
      <4> QED BY <4>1 DEF Records
    <3>2. item.name \notin DOMAIN b.pending
      BY <2>2 DEF KnownRows, Overlay
    <3>3. item.name \in DOMAIN b'.pending /\ b'.pending[item.name] = RowFor(item)
      BY <3>1, <3>2 DEF Overlay
    <3>4. item.name \in DOMAIN KnownRows' /\ KnownRows'[item.name] = RowFor(item)
      BY <3>3 DEF KnownRows, Overlay
    <3> QED BY <3>4 DEF RowFor
  <2> QED BY <2>1, <2>2
<1>5. ASSUME NEW c, c # item.name, Awaits(b.frames, c) PROVE Awaits(F, c)
  <2>1. PICK i \in DOMAIN b.frames :
          \E y \in b.frames[i].todo : y \in b.frames[i].of.rpms /\ y.name = c
    BY <1>5 DEF Awaits
  <2>a. PICK x \in b.frames[i].todo : x \in b.frames[i].of.rpms /\ x.name = c
    BY <2>1
  <2>2. x \in F[i].todo /\ x \in F[i].of.rpms
    <3>1. CASE i = 1
      BY <1>3, <1>5, <2>a, <3>1
    <3>2. CASE i # 1
      BY <1>3, <2>a, <3>2
    <3> QED BY <3>1, <3>2
  <2> QED BY <1>3, <2>a, <2>2 DEF Awaits
<1>6. ASSUME NEW c \in DOMAIN b.refs
      PROVE  \/ c \in DOMAIN KnownRows' /\ KnownRows'[c].ref = b.refs[c]
             \/ b.stage = "init" /\ Awaits(F, c)
  <2>1. CASE c = item.name
    BY <1>4, <2>1
  <2>2. CASE c # item.name /\ c \in DOMAIN KnownRows /\ KnownRows[c].ref = b.refs[c]
    BY <1>2, <2>2, KnownStays
  <2>3. CASE c # item.name /\ b.stage = "init" /\ Awaits(b.frames, c)
    BY <1>5, <2>3
  <2> QED BY <1>1, <2>1, <2>2, <2>3 DEF ResolvedOK
<1> QED BY <1>1, <1>6 DEF ResolvedOK

(* The packages of an included module are resolved, and to be recorded.     *)
LEMMA ResolvedIncluded ==
  ASSUME Typed, Fresh, ResolvedOK, [Next]_vars, IncludeModule, NEW item, Includes(item)
  PROVE  ResolvedOK'
<1> DEFINE F == Advanced(item)
           G == <<FrameFor(item)>> \o F
           inc == MmdOf(item)
<1>1. /\ FramesOK /\ InRecord /\ item \in Nexts(Top) /\ item \in Top.of.modules
      /\ \/ b'.frames = F /\ b'.refs = b.refs
         \/ b'.frames = G /\ b'.refs = Overlay(Refs(inc, heads, b.sub.srpms), b.refs)
      /\ b'.stage = b.stage /\ pc = "record" /\ pc' = pc /\ b.stage = "init"
  BY DEF Includes, IncludeModule, InRecord, Typed, Staged, InitPcs
<1>2. ~Submit /\ ~Redo
  BY <1>1 DEF Submit, Redo, Crash, Resubmit, Restart, InitPcs, Typed
<1>3. /\ Len(F) \in Nat \ {0} /\ DOMAIN F = 1..Len(F) /\ DOMAIN b.frames = 1..Len(F)
      /\ F[1].todo = Top.todo \ {item} /\ F[1].of = Top.of /\ Top = b.frames[1]
      /\ \A i \in 2..Len(F) : F[i] = b.frames[i]
  <2>1. Len(F) = Len(b.frames) /\ Len(b.frames) \in Nat \ {0}
    BY <1>1, AdvancedAt
  <2> QED BY <1>1, <2>1, AdvancedAt
<1>4. /\ Len(G) = Len(F) + 1 /\ DOMAIN G = 1..Len(G) /\ G[1] = FrameFor(item)
      /\ \A i \in 2..Len(G) : G[i] = F[i - 1]
  BY <1>1, IncludedAt
<1>5. FrameFor(item).of = inc /\ FrameFor(item).todo = inc.rpms \cup inc.modules
  BY DEF FrameFor, Frame
<1> HIDE DEF F, G, inc
<1>6. ASSUME NEW c, Awaits(b.frames, c) PROVE Awaits(F, c)
  <2>1. PICK i \in DOMAIN b.frames :
          \E y \in b.frames[i].todo : y \in b.frames[i].of.rpms /\ y.name = c
    BY <1>6 DEF Awaits
  <2>a. PICK x \in b.frames[i].todo : x \in b.frames[i].of.rpms /\ x.name = c
    BY <2>1
  <2>2. x \in F[i].todo /\ x \in F[i].of.rpms
    <3>1. CASE i = 1
      <4>1. x # item
        <5>1. FrameOK(Top) /\ item \in Top.todo
          BY <1>1, NextItem
        <5> QED BY <1>1, <1>3, <2>a, <3>1, <5>1, ItemsOK
      <4> QED BY <1>3, <2>a, <3>1, <4>1
    <3>2. CASE i # 1
      BY <1>3, <2>a, <3>2
    <3> QED BY <3>1, <3>2
  <2> QED BY <1>3, <2>a, <2>2 DEF Awaits
<1>7. ASSUME NEW c, Awaits(F, c) PROVE Awaits(G, c)
  <2>1. PICK i \in DOMAIN F : \E y \in F[i].todo : y \in F[i].of.rpms /\ y.name = c
    BY <1>7 DEF Awaits
  <2>2. i + 1 \in DOMAIN G /\ G[i + 1] = F[i]
    BY <1>3, <1>4
  <2> QED BY <2>1, <2>2 DEF Awaits
<1>8. ASSUME NEW c \in DOMAIN b.refs
      PROVE  \/ c \in DOMAIN KnownRows' /\ KnownRows'[c].ref = b.refs[c]
             \/ Awaits(b'.frames, c)
  <2>1. CASE c \in DOMAIN KnownRows /\ KnownRows[c].ref = b.refs[c]
    BY <1>2, <2>1, KnownStays
  <2>2. CASE Awaits(b.frames, c)
    BY <1>1, <1>6, <1>7, <2>2 DEF F, G, inc
  <2> QED BY <1>1, <2>1, <2>2 DEF ResolvedOK
<1>9. CASE b'.refs = b.refs
  BY <1>1, <1>8, <1>9 DEF ResolvedOK
<1>10. CASE b'.frames = G /\ b'.refs = Overlay(Refs(inc, heads, b.sub.srpms), b.refs)
  <2>1. DOMAIN Refs(inc, heads, b.sub.srpms) = Names(inc)
    BY DEF Refs
  <2>2. ASSUME NEW c \in Names(inc) PROVE Awaits(G, c)
    <3>1. PICK x \in inc.rpms : x.name = c
      BY DEF Names
    <3>2. x \in G[1].todo /\ x \in G[1].of.rpms /\ 1 \in DOMAIN G
      BY <1>3, <1>4, <1>5
    <3> QED BY <3>1, <3>2 DEF Awaits
  <2>3. ASSUME NEW c \in DOMAIN b'.refs
        PROVE  \/ c \in DOMAIN KnownRows' /\ KnownRows'[c].ref = b'.refs[c]
               \/ Awaits(b'.frames, c)
    <3>1. CASE c \in Names(inc)
      BY <1>10, <2>2, <3>1
    <3>2. CASE c \notin Names(inc)
      <4>1. c \in DOMAIN b.refs /\ b'.refs[c] = b.refs[c]
        BY <1>10, <2>1, <3>2 DEF Overlay
      <4> QED BY <1>8, <4>1
    <3> QED BY <3>1, <3>2
  <2> QED BY <1>1, <2>3 DEF ResolvedOK
<1> QED BY <1>1, <1>9, <1>10 DEF F, G, inc

(* Every step keeps what is resolved recorded, or awaiting it.              *)
LEMMA ResolvedNext == ASSUME Typed, Fresh, ResolvedOK, [Next]_vars PROVE ResolvedOK'
<1>0. Shape /\ Staged /\ DOMAIN b = Fields /\ {"frames", "refs", "stage"} \subseteq Fields
  BY DEF Typed, Shape, Fields
<1>1. CASE Submit
  <2>1. CASE b' = New(Head(todo)) /\ pc' = "arches"
    <3>1. b'.stage = "init"
      BY <2>1 DEF New
    <3> QED BY <2>1, <3>1 DEF ResolvedOK
  <2>2. CASE b' = b /\ pc' = pc
    <3>1. KnownRows' = KnownRows
      BY <2>2 DEF KnownRows
    <3> QED BY <2>2, <3>1 DEF ResolvedOK
  <2> QED BY <1>1, <2>1, <2>2 DEF Submit
<1>2. CASE Redo
  <2>1. pc' = "arches" /\ b'.stage = "init"
    BY <1>0, <1>2 DEF Redo, Crash, Resubmit, Restart, Restarted
  <2> QED BY <2>1 DEF ResolvedOK
<1>3. CASE FormatMain /\ ~Submit /\ ~Redo
  <2> DEFINE m == b.sub.mmd
             f == Frame(m, NoOrder, <<>>)
  <2>1. b.refs = NoRows /\ b.frames = <<>> /\ DOMAIN NoRows = {} /\ b.stage = "init"
    BY <1>0, <1>3 DEF FormatMain, Fresh, NoRows, Staged, InitPcs
  <2>2. CASE b' = b /\ pc' \in {"save", "failed"}
    BY <2>1, <2>2 DEF ResolvedOK
  <2>3. CASE b'.refs = Refs(m, heads, b.sub.srpms) /\ b'.frames = <<f>> /\ b'.stage = b.stage
             /\ pc' = "record"
    <3>1. DOMAIN b'.refs = Names(m)
      BY <2>3 DEF Refs
    <3>2. ASSUME NEW c \in Names(m) PROVE Awaits(b'.frames, c)
      <4>1. PICK x \in m.rpms : x.name = c
        BY DEF Names
      <4>2. x \in f.todo /\ f.of = m
        BY DEF Frame
      <4> HIDE DEF f, m
      <4>3. 1 \in DOMAIN b'.frames /\ b'.frames[1] = f
        BY <2>3
      <4>4. x \in b'.frames[1].todo /\ x \in b'.frames[1].of.rpms
        BY <4>1, <4>2, <4>3
      <4> QED BY <4>1, <4>3, <4>4 DEF Awaits
    <3> QED BY <2>1, <2>3, <3>1, <3>2 DEF ResolvedOK
  <2> QED BY <1>0, <1>3, <2>2, <2>3 DEF FormatMain, Fail
<1>4. CASE RecordPackage /\ ~Submit /\ ~Redo
  <2>1. CASE pc' = "failed" /\ b' = b
    <3>1. b.stage = "init"
      BY <1>0, <1>4 DEF RecordPackage, InRecord, Staged, InitPcs
    <3> QED BY <2>1, <3>1 DEF ResolvedOK
  <2> QED BY <1>0, <1>4, <2>1, RecordsPackage, ResolvedRecorded
<1>5. CASE IncludeModule /\ ~Submit /\ ~Redo
  <2>1. CASE pc' = "failed" /\ b'.stage = b.stage
    <3>1. b.stage = "init"
      BY <1>0, <1>5 DEF IncludeModule, InRecord, Staged, InitPcs
    <3> QED BY <2>1, <3>1 DEF ResolvedOK
  <2> QED BY <1>0, <1>5, <2>1, IncludesModule, ResolvedIncluded
<1>6. CASE EndOfModule /\ ~Submit /\ ~Redo
  <2> DEFINE F == Tail(b.frames)
  <2>1. /\ b'.frames = F /\ b'.refs = b.refs /\ b'.stage = b.stage /\ b.stage = "init"
        /\ pc = "record" /\ pc' = IF F = <<>> THEN "save" ELSE "record"
        /\ b.frames # <<>> /\ Top.todo = {} /\ b'.rows = b.rows /\ b'.pending = b.pending
    BY <1>0, <1>6 DEF EndOfModule, InRecord, Staged, InitPcs, Fields
  <2>2. /\ Len(b.frames) \in Nat \ {0} /\ DOMAIN b.frames = 1..Len(b.frames)
        /\ Top = b.frames[1]
        /\ DOMAIN F = 1..(Len(b.frames) - 1)
        /\ \A i \in DOMAIN F : F[i] = b.frames[i + 1]
    BY <2>1 DEF Typed, FramesOK, Top
  <2> HIDE DEF F
  <2>3. ASSUME NEW c, Awaits(b.frames, c) PROVE Awaits(F, c)
    <3>1. PICK i \in DOMAIN b.frames :
            \E y \in b.frames[i].todo : y \in b.frames[i].of.rpms /\ y.name = c
      BY <2>3 DEF Awaits
    <3>a. PICK x \in b.frames[i].todo : x \in b.frames[i].of.rpms /\ x.name = c
      BY <3>1
    <3>2. i # 1
      BY <2>1, <2>2, <3>a
    <3>3. i - 1 \in DOMAIN F /\ F[i - 1] = b.frames[i]
      BY <2>2, <3>2
    <3> QED BY <3>a, <3>3 DEF Awaits
  <2>4. KnownRows' = KnownRows
    BY <2>1 DEF KnownRows
  <2> QED BY <2>1, <2>3, <2>4 DEF ResolvedOK
<1>7. CASE Save /\ ~Submit /\ ~Redo
  <2>1. b.frames = <<>> /\ b'.refs = b.refs /\ pc' = "look" /\ pc = "save"
    BY <1>0, <1>7 DEF Save, ResolvedOK
  <2>2. ASSUME NEW c \in DOMAIN b.refs
        PROVE  c \in DOMAIN KnownRows' /\ KnownRows'[c].ref = b.refs[c]
    <3>1. ~Awaits(b.frames, c)
      BY <2>1 DEF Awaits
    <3>2. c \in DOMAIN KnownRows /\ KnownRows[c].ref = b.refs[c]
      BY <2>1, <3>1 DEF ResolvedOK
    <3> QED BY <1>7, <3>2, KnownStays
  <2> QED BY <2>1, <2>2 DEF ResolvedOK
<1>8. CASE ~(Submit \/ Redo \/ FormatMain \/ RecordPackage \/ IncludeModule \/ EndOfModule \/ Save)
  <2>1. b'.refs = b.refs /\ b'.frames = b.frames
    BY <1>0, <1>8, Changes
  <2>2. pc' \in {"record", "save"} => pc' = pc
    <3>1. CASE RecordArches \/ AddDefaultModules
      BY <3>1 DEF RecordArches, AddDefaultModules, Fail
    <3>2. CASE Connecting
      <4>1. pc' \notin {"record", "save"}
        BY <1>0, <3>2 DEF Connecting, LookForTag, CreateTag, WhitelistPackages, BlockPackages,
                          AddGroup, AddGroupPackages, AddTarget, Staged, InitPcs
      <4> QED BY <4>1
    <3>3. CASE WaitHandler \/ RepoHandler
      <4>1. pc' \notin {"record", "save"}
        BY <3>3 DEF WaitHandler, AddRepos, ReuseAll, BuildMacros, RepoHandler, NextBatch, BuildBatch,
                    Finalize, Import, TagImported, Finish, Fail
      <4> QED BY <4>1
    <3>4. CASE Faults
      BY <3>4 DEF Faults, Crash, Resubmit, Restart, RetryGroups, FailBuild, Abandon, Push, Fail
    <3>5. CASE UNCHANGED vars
      BY <3>5 DEF vars
    <3> QED BY <1>8, <3>1, <3>2, <3>3, <3>4, <3>5 DEF Next, InitHandler
  <2>3. b'.stage = "init" <=> b.stage = "init"
    <3>1. b'.stage = "init" => b.stage = "init"
      BY <1>0, <1>8, Changes
    <3>2. ASSUME b.stage = "init" PROVE b'.stage = "init"
      <4>1. CASE RecordArches \/ AddDefaultModules
        BY <1>0, <3>2, <4>1 DEF RecordArches, AddDefaultModules, Fail
      <4>2. CASE Connecting \/ WaitHandler \/ RepoHandler
        <5>1. pc \notin InitPcs \cup {"idle", "failed"}
          BY <4>2 DEF Connecting, LookForTag, CreateTag, WhitelistPackages, BlockPackages, AddGroup,
                    AddGroupPackages, AddTarget, WaitHandler, AddRepos, ReuseAll, BuildMacros,
                    RepoHandler, NextBatch, BuildBatch, Finalize, Import, TagImported, Finish, InitPcs
        <5> QED BY <1>0, <3>2, <5>1 DEF Staged
      <4>3. CASE Faults
        <5>1. CASE Crash \/ Resubmit
          BY <1>8, <3>2, <5>1 DEF Redo, Crash, Resubmit, Restart
        <5>2. CASE RetryGroups \/ FailBuild \/ Abandon \/ Push
          BY <3>2, <5>2 DEF RetryGroups, FailBuild, Abandon, Push
        <5> QED BY <4>3, <5>1, <5>2 DEF Faults
      <4>4. CASE UNCHANGED vars
        BY <3>2, <4>4 DEF vars
      <4> QED BY <1>8, <4>1, <4>2, <4>3, <4>4 DEF Next, InitHandler
    <3> QED BY <3>1, <3>2
  <2>4. ASSUME NEW c \in DOMAIN KnownRows
        PROVE  c \in DOMAIN KnownRows' /\ KnownRows'[c].ref = KnownRows[c].ref
    BY <1>8, <2>4, KnownStays
  <2> QED BY <2>1, <2>2, <2>3, <2>4 DEF ResolvedOK
<1> QED BY <1>1, <1>2, <1>3, <1>4, <1>5, <1>6, <1>7, <1>8

(* What a build builds is, for each of its packages, the commit its final   *)
(* modulemd says it was resolved to, whatever an interrupted init handler   *)
(* had committed before.                                                    *)
THEOREM RecordedAsResolvedHolds == Spec => []RecordedAsResolved
<1>1. Init => ResolvedOK
  <2> SUFFICES ASSUME Init PROVE ResolvedOK
    OBVIOUS
  <2>1. b.stage = "init" /\ pc = "idle"
    BY DEF Init, New
  <2> QED BY <2>1 DEF ResolvedOK
<1>2. Typed /\ OrderOK /\ ResolvedOK /\ [Next]_vars => ResolvedOK'
  BY ResolvedNext DEF OrderOK
<1>3. Typed /\ OrderOK /\ ResolvedOK => RecordedAsResolved
  <2> SUFFICES ASSUME Typed, OrderOK, ResolvedOK, b.stage # "init", NEW c \in DOMAIN b.refs
               PROVE  c \in Components /\ b.rows[c].ref = b.refs[c]
    BY DEF RecordedAsResolved
  <2>1. KnownRows = Overlay(NoRows, b.rows) /\ DOMAIN NoRows = {}
    BY DEF OrderOK, Fresh, KnownRows, NoRows
  <2>2. c \in DOMAIN KnownRows /\ KnownRows[c].ref = b.refs[c]
    BY DEF ResolvedOK
  <2> QED BY <2>1, <2>2 DEF Overlay, Components
<1> QED BY <1>1, <1>2, <1>3, TypedAlways, OrderAlways, PTL DEF Spec


-----------------------------------------------------------------------------
(* What module-build-macros conflicts with.                                 *)

Ids == {r.id : r \in T}
Shadowed ==
  /\ pc # "idle" \/ b.stage # "init" => Range(b.br) \cup Range(b.sub.br) \subseteq Ids
  /\ b.stage # "init" => b.collisions = Collisions(R, b.br)
  /\ b.macros => b.stage # "init" /\ b.collisions \subseteq b.conflicts


(* History is only ever added to.                                           *)
LEMMA HistoryStays ==
  ASSUME Past, [Next]_vars, NEW k \in DOMAIN history
  PROVE  k \in DOMAIN history' /\ history'[k] = history[k]
<1>1. CASE UNCHANGED history
  BY <1>1
<1>2. CASE Finish
  <2>1. PICK h : history' \in {history, Append(history, h)}
    BY <1>2 DEF Finish
  <2>2. history \in [1..Len(history) -> Range(history)] /\ Len(history) \in Nat
    BY DEF Past
  <2> DEFINE S == Range(history) \cup {h}
  <2>3. history \in Seq(S) /\ h \in S
    <3>1. history \in [1..Len(history) -> S]
      BY <2>2
    <3> QED BY <2>2, <3>1
  <2> HIDE DEF S
  <2>4. k \in DOMAIN Append(history, h) /\ Append(history, h)[k] = history[k]
    BY <2>3
  <2> QED BY <2>1, <2>4
<1>3. CASE Submit \/ InitHandler \/ Connecting
  BY <1>1, <1>3, Zenon DEF Submit, InitHandler, RecordArches, AddDefaultModules, FormatMain,
    RecordPackage, IncludeModule, EndOfModule, Save, OnlyBuild, Connecting, LookForTag, CreateTag,
    WhitelistPackages, BlockPackages, AddGroup, AddGroupPackages, AddTarget, OnlyTags
<1>4. CASE WaitHandler \/ RepoHandler
  BY <1>1, <1>2, <1>4, Zenon DEF WaitHandler, AddRepos, ReuseAll, BuildMacros, RepoHandler,
    NextBatch, BuildBatch, Finalize, Import, TagImported, OnlyTags, OnlyBuild
<1>5. CASE Faults
  BY <1>1, <1>5, Zenon DEF Faults, Crash, RetryGroups, FailBuild, Resubmit, Abandon, Push, Restart
<1>6. CASE UNCHANGED vars
  BY <1>1, <1>6 DEF vars
<1> QED BY <1>3, <1>4, <1>5, <1>6 DEF Next

(* So are the artifacts.                                                    *)
LEMMA ArtifactsStay ==
  ASSUME Typed, [Next]_vars, NEW i \in DOMAIN artifacts
  PROVE  i \in DOMAIN artifacts' /\ artifacts'[i] = artifacts[i]
<1>1. CASE UNCHANGED artifacts
  BY <1>1
<1>2. CASE BuildBatch
  <2>1. /\ Len(artifacts) <= Len(artifacts') /\ artifacts' \in Seq(Range(artifacts'))
        /\ \A j \in DOMAIN artifacts : artifacts'[j] = artifacts[j]
    BY <1>2, BatchBuilt DEF Typed
  <2>2. Len(artifacts) \in Nat /\ DOMAIN artifacts = 1..Len(artifacts)
    BY DEF Typed, Past
  <2>3. Len(artifacts') \in Nat /\ DOMAIN artifacts' = 1..Len(artifacts')
    BY <2>1
  <2> QED BY <2>1, <2>2, <2>3
<1>3. CASE Submit
  BY <1>1, <1>3 DEF Submit
<1> QED BY <1>1, <1>2, <1>3, Changes DEF Typed

(* What is in the tag of a module that was built stays.                     *)
LEMMA RpmsStay ==
  ASSUME Typed, [Next]_vars, NEW i \in Ids
  PROVE  i \in Ids' /\ R'[i] = R[i]
<1>1. i \in Ids'
  <2>1. PICK r \in T : r.id = i
    BY DEF Ids
  <2>2. CASE r \in Table
    BY <2>1, <2>2 DEF Ids, T
  <2>3. CASE \E k \in DOMAIN history : r = HistoryRow(k)
    <3>1. PICK k \in DOMAIN history : r = HistoryRow(k)
      BY <2>3
    <3>2. k \in DOMAIN history'
      BY HistoryStays DEF Typed
    <3>3. HistoryRow(k).id = SelfId(k) /\ HistoryRow(k)'.id = SelfId(k)
      BY DEF HistoryRow
    <3> QED BY <2>1, <3>1, <3>2, <3>3 DEF Ids, T
  <2> QED BY <2>1, <2>2, <2>3 DEF T
<1>2. R[i] = RpmsIn(i) /\ R'[i] = RpmsIn(i)'
  BY <1>1 DEF R, Ids
<1>3. CASE i \in DOMAIN Rpms
  <2>1. RpmsIn(i) = Rpms[i]
    BY <1>3 DEF RpmsIn
  <2>2. RpmsIn(i)' = Rpms[i]
    BY <1>3 DEF RpmsIn
  <2>3. R'[i] = R[i]
    BY <1>2, <2>1, <2>2, Zenon
  <2> QED BY <1>1, <2>3
<1>4. CASE i \notin DOMAIN Rpms
  <2>1. PICK k \in DOMAIN history : i = 100 + k
    <3>1. PICK r \in T : r.id = i
      BY DEF Ids
    <3>2. r \notin Table
      BY <1>4, <3>1, ProductionAssumption
    <3> QED BY <3>1, <3>2 DEF T, HistoryRow, SelfId
  <2>2. i - 100 = k
    <3>1. k \in Nat
      BY DEF Typed, Past
    <3> QED BY <2>1, <3>1
  <2>3. history'[k] = history[k]
    BY HistoryStays DEF Typed
  <2>4. RpmsIn(i) = RpmsOf(BuiltOf(history[k].rows))
        /\ RpmsIn(i)' = RpmsOf(BuiltOf(history[k].rows))'
    <3>1. RpmsIn(i) = RpmsOf(BuiltOf(history[k].rows))
      BY <1>4, <2>2 DEF RpmsIn
    <3>2. RpmsIn(i)' = RpmsOf(BuiltOf(history[k].rows))'
      BY <1>4, <2>2 DEF RpmsIn
    <3> QED BY <3>1, <3>2
  <2> DEFINE built == BuiltOf(history[k].rows)
  <2>5. built \subseteq DOMAIN artifacts
    <3>1. ASSUME NEW c \in DOMAIN history[k].rows
          PROVE  history[k].rows[c].built \in DOMAIN artifacts
      BY DEF Typed, Past, RowsOK, RowOK
    <3> QED BY <3>1 DEF BuiltOf
  <2>6. RpmsOf(built)' = RpmsOf(built)
    <3>1. built' = built
      BY <2>3 DEF BuiltOf
    <3>2. \A a \in built : artifacts'[a] = artifacts[a]
      BY <2>5, ArtifactsStay
    <3> HIDE DEF built
    <3> QED BY <3>1, <3>2 DEF RpmsOf
  <2>7. R'[i] = R[i]
    BY <1>2, <2>4, <2>6, Zenon
  <2> QED BY <1>1, <2>7
<1> QED BY <1>3, <1>4


(* What makes a build conflict.                                             *)
LEMMA ShadowChanges ==
  ASSUME Shape, [Next]_vars, ~Submit
  PROVE  /\ (b'.collisions = b.collisions /\ b'.ursine = b.ursine) \/ Save
         /\ (b'.conflicts = b.conflicts /\ b'.macros = b.macros) \/ BuildMacros
         /\ pc = "idle" => pc' = "idle" /\ b' = b
<1> USE DEF Shape, Fields
<1>1. CASE InitHandler
  <2>1. pc # "idle"
    BY <1>1 DEF InitHandler, RecordArches, AddDefaultModules, FormatMain, RecordPackage,
                IncludeModule, EndOfModule, Save, InRecord
  <2> QED BY <1>1, <2>1, ZenonT(60) DEF InitHandler, RecordArches, AddDefaultModules, FormatMain, RecordPackage,
                IncludeModule, EndOfModule, Save, OnlyBuild
<1>2. CASE Connecting
  <2>1. pc # "idle"
    BY <1>2 DEF Connecting, LookForTag, CreateTag, WhitelistPackages, BlockPackages, AddGroup,
                AddGroupPackages, AddTarget
  <2> QED BY <1>2, <2>1 DEF Connecting, LookForTag, CreateTag, WhitelistPackages, BlockPackages,
                AddGroup, AddGroupPackages, AddTarget, OnlyTags
<1>3. CASE WaitHandler
  BY <1>3 DEF WaitHandler, AddRepos, ReuseAll, BuildMacros, OnlyTags
<1>4. CASE RepoHandler
  BY <1>4 DEF RepoHandler, NextBatch, BuildBatch, Finalize, Import, TagImported, Finish,
              OnlyTags, OnlyBuild
<1>5. CASE Faults
  BY <1>5 DEF Faults, Crash, RetryGroups, FailBuild, Resubmit, Abandon, Push, Restart, Restarted,
              Running, Fail
<1>6. CASE UNCHANGED vars
  BY <1>6 DEF vars
<1> QED BY <1>1, <1>2, <1>3, <1>4, <1>5, <1>6 DEF Next

(* Every step keeps the RPMs of base modules that others have shadowed.     *)
LEMMA ShadowedNext == ASSUME Typed, Shadowed, [Next]_vars PROVE Shadowed'
<1>0. /\ Shape /\ Staged /\ DOMAIN b = Fields
      /\ {"br", "sub", "stage", "collisions", "conflicts", "macros"} \subseteq Fields
  BY DEF Typed, Shape, Fields
<1>a. Ids \subseteq Ids'
  BY RpmsStay
<1>1. CASE Submit
  <2>1. CASE b' = b /\ pc' = pc /\ history' = history
    <3>1. Ids' = Ids /\ R' = R
      BY <1>1, <2>1 DEF Submit, Ids, T, R, HistoryRow, RpmsIn, RpmsOf
    <3>2. Collisions(R, b.br)' = Collisions(R, b.br)
      BY <2>1, <3>1 DEF Collisions, BaseRpms, ModularRpms
    <3> QED BY <2>1, <3>1, <3>2 DEF Shadowed
  <2>2. CASE Known(Head(todo)) /\ b' = New(Head(todo)) /\ pc' = "arches"
    <3>1. Range(Head(todo).br) \subseteq Ids
      BY <2>2 DEF Known, Ids, Range
    <3>2. /\ b'.br = Head(todo).br /\ b'.sub = Head(todo) /\ b'.stage = "init"
          /\ b'.macros = FALSE
      BY <2>2 DEF New
    <3> QED BY <1>a, <3>1, <3>2 DEF Shadowed
  <2> QED BY <1>1, <2>1, <2>2 DEF Submit
<1>2. CASE ~Submit
  <2>1. ASSUME pc' # "idle" \/ b'.stage # "init"
        PROVE  Range(b'.br) \cup Range(b'.sub.br) \subseteq Ids'
    <3>1. Range(b.br) \cup Range(b.sub.br) \subseteq Ids
      <4>1. pc # "idle" \/ b.stage # "init"
        BY <1>0, <1>2, <2>1, ShadowChanges
      <4> QED BY <4>1 DEF Shadowed
    <3>2. b'.sub = b.sub
      BY <1>0, <1>2, SubmissionKept
    <3>3. CASE b'.br = b.br
      BY <1>a, <3>1, <3>2, <3>3
    <3>4. CASE AddDefaultModules
      <4>1. CASE b'.br # b.br
        <5>1. PICK d \in WithDefaults(T, b.br) : b' = [b EXCEPT !.br = d, !.added = d # b.br]
          BY <3>4, <4>1 DEF AddDefaultModules
        <5>2. Range(d) \subseteq Range(b.br) \cup Ids
          <6>1. CASE d = b.br
            BY <6>1
          <6>2. CASE \E builds : d \in Added(T, b.br, builds)
            <7>1. PICK builds : d \in Added(T, b.br, builds)
              BY <6>2
            <7> DEFINE new == {n \in DOMAIN builds : builds[n] # {}}
            <7>2. PICK f \in [new -> T] : d = Overlay([n \in new |-> f[n].id], b.br)
              BY <7>1 DEF Added
            <7> HIDE DEF new
            <7>3. ASSUME NEW x \in DOMAIN d PROVE d[x] \in Range(b.br) \cup Ids
              <8>1. CASE x \in new
                <9>1. f[x] \in T /\ d[x] = f[x].id
                  BY <7>2, <8>1 DEF Overlay
                <9> QED BY <9>1 DEF Ids
              <8>2. CASE x \notin new
                <9>1. x \in DOMAIN b.br /\ d[x] = b.br[x]
                  BY <7>2, <8>2 DEF Overlay
                <9> QED BY <9>1 DEF Range
              <8> QED BY <8>1, <8>2
            <7> QED BY <7>3 DEF Range
          <6> QED BY <6>1, <6>2 DEF WithDefaults
        <5>3. b'.br = d
          BY <1>0, <5>1
        <5> QED BY <1>a, <3>1, <3>2, <5>2, <5>3
      <4> QED BY <3>3, <4>1
    <3>5. CASE Redo
      <4>1. b'.br = b.sub.br
        BY <1>0, <3>5 DEF Redo, Restarted
      <4> QED BY <1>a, <3>1, <3>2, <4>1
    <3> QED BY <1>0, <1>2, <3>3, <3>4, <3>5, Changes
  <2>2. ASSUME b'.stage # "init" PROVE b'.collisions = Collisions(R, b.br)'
    <3>1. Range(b.br) \subseteq Ids
      <4>1. pc # "idle" \/ b.stage # "init"
        BY <1>0, <1>2, <2>2, ShadowChanges
      <4> QED BY <4>1 DEF Shadowed
    <3>2. \A n \in DOMAIN b.br : R'[b.br[n]] = R[b.br[n]]
      BY <3>1, RpmsStay DEF Range
    <3>3. Collisions(R', b.br) = Collisions(R, b.br)
      BY <3>2 DEF Collisions, BaseRpms, ModularRpms
    <3>4. CASE Save
      <4>1. b'.collisions = Collisions(R, b.br) /\ b'.br = b.br
        BY <1>0, <3>4 DEF Save, Buildrequires
      <4> QED BY <3>3, <4>1
    <3>5. CASE ~Save
      <4>1. b.stage # "init"
        <5>1. CASE b.stage = "init"
          <6>1. CASE InitHandler
            BY <1>0, <2>2, <3>5, <5>1, <6>1 DEF InitHandler, RecordArches, AddDefaultModules,
              FormatMain, RecordPackage, IncludeModule, EndOfModule
          <6>2. CASE Connecting \/ WaitHandler \/ RepoHandler
            <7>1. pc \notin InitPcs \cup {"idle", "failed"}
              BY <6>2 DEF Connecting, LookForTag, CreateTag, WhitelistPackages, BlockPackages,
                AddGroup, AddGroupPackages, AddTarget, WaitHandler, AddRepos, ReuseAll, BuildMacros,
                RepoHandler, NextBatch, BuildBatch, Finalize, Import, TagImported, Finish, InitPcs
            <7> QED BY <1>0, <5>1, <7>1 DEF Staged
          <6>3. CASE Faults
            BY <1>0, <2>2, <5>1, <6>3 DEF Faults, Crash, RetryGroups, FailBuild, Resubmit, Abandon,
              Push, Restart, Restarted
          <6>4. CASE UNCHANGED vars
            BY <2>2, <5>1, <6>4 DEF vars
          <6> QED BY <1>2, <6>1, <6>2, <6>3, <6>4 DEF Next
        <5> QED BY <5>1
      <4>2. b'.br = b.br /\ b'.collisions = b.collisions
        BY <1>0, <1>2, <3>5, <4>1, Settled, ShadowChanges
      <4> QED BY <3>3, <4>1, <4>2 DEF Shadowed
    <3> QED BY <3>4, <3>5
  <2>3. ASSUME b'.macros PROVE b'.stage # "init" /\ b'.collisions \subseteq b'.conflicts
    <3>1. CASE b.macros /\ b'.conflicts = b.conflicts
      <4>1. b.stage # "init" /\ b.collisions \subseteq b.conflicts
        BY <3>1 DEF Shadowed
      <4>2. ~Save
        BY <1>0, <4>1 DEF Save, Staged, InitPcs
      <4> QED BY <1>0, <1>2, <3>1, <4>1, <4>2, Settled, ShadowChanges
    <3>2. CASE BuildMacros
      <4>1. b.stage = "wait" /\ ~Save
        BY <1>0, <3>2 DEF BuildMacros, Save, Staged
      <4>2. b'.stage # "init" /\ b'.collisions = b.collisions
        BY <1>0, <1>2, <4>1, Settled, ShadowChanges
      <4>3. CASE b.macros
        <5>1. b'.conflicts = b.conflicts
          BY <1>0, <3>2, <4>3 DEF BuildMacros
        <5> QED BY <3>1, <4>3, <5>1
      <4>4. CASE ~b.macros
        <5>1. \E own : b'.conflicts = MacroConflicts(T, R, b.br, Self, own, b.ursine, b.collisions)
          BY <1>0, <2>3, <3>2, <4>4 DEF BuildMacros
        <5>2. PICK own : b'.conflicts = MacroConflicts(T, R, b.br, Self, own, b.ursine, b.collisions)
          BY <5>1
        <5>3. b.collisions \subseteq MacroConflicts(T, R, b.br, Self, own, b.ursine, b.collisions)
          BY DEF MacroConflicts
        <5> QED BY <4>2, <5>2, <5>3
      <4> QED BY <4>3, <4>4
    <3> QED BY <1>0, <1>2, <2>3, <3>1, <3>2, ShadowChanges
  <2> QED BY <2>1, <2>2, <2>3 DEF Shadowed
<1> QED BY <1>1, <1>2

(* An RPM of a base module with the name of one of another module in the    *)
(* build root, buildrequired or there by default, conflicts with            *)
(* module-build-macros, and so is not installed.                            *)
THEOREM NoShadowingHolds == Spec => []NoShadowing
<1>1. Init => Shadowed
  <2> SUFFICES ASSUME Init PROVE Shadowed
    OBVIOUS
  <2>1. b.stage = "init" /\ b.macros = FALSE /\ pc = "idle"
    BY DEF Init, New
  <2> QED BY <2>1 DEF Shadowed
<1>2. Typed /\ Shadowed /\ [Next]_vars => Shadowed'
  BY ShadowedNext
<1>3. Shadowed => NoShadowing
  <2> SUFFICES ASSUME Shadowed, b.macros, NEW n \in DOMAIN b.br \ BaseModule,
                      NEW m \in DOMAIN b.br \cap BaseModule,
                      NEW q \in R[b.br[n]], NEW r \in R[b.br[m]], q.name = r.name
               PROVE  r \in b.conflicts
    BY DEF NoShadowing
  <2>1. q \in ModularRpms(R, b.br) /\ r \in BaseRpms(R, b.br)
    BY DEF ModularRpms, BaseRpms
  <2>2. r \in Collisions(R, b.br)
    BY <2>1 DEF Collisions
  <2> QED BY <2>2 DEF Shadowed
<1> QED BY <1>1, <1>2, <1>3, TypedAlways, PTL DEF Spec


-----------------------------------------------------------------------------
(* What is taken over.                                                      *)

(* Components that are what they would be made from now.                    *)
AsMade(p) ==
  \A c \in DOMAIN p.rows :
    p.rows[c].built # 0 => artifacts[p.rows[c].built].made = MadeFrom(p, c)

(* If no build was told which one to reuse, the components of a build that  *)
(* takes over nothing, or only what was not changed nor was anything before *)
(* it, are made as they would be now; and what is taken over is from a      *)
(* build of that kind.                                                      *)
Careful == {"all", Strict}
ReusedOK ==
  /\ NoneTold => \A k \in DOMAIN history : history[k].strategy \in Careful => AsMade(history[k])
  /\ NoneTold /\ b.sub.reuse = 0 /\ b.sub.strategy \in Careful => AsMade(View)
  /\ b.sub.reuse = 0 /\ b.reused # 0 => StrategyAllows(View, history[b.reused])


(* What can be reused is made as it would be made now: from the same commit *)
(* for the same architectures, after the same components, with the same     *)
(* macros.                                                                  *)
LEMMA SameMade ==
  ASSUME NEW v, NEW p, NEW c, v.strategy = Strict, ~Raises(v, p, c), Reusable(v, p, c)
  PROVE  MadeFrom(v, c) = MadeFrom(p, c)
<1>1. SameCommit(v, p, c) /\ SameBatch(v, p, c) /\ Before(v, c) = Before(p, c)
      /\ SameArches(v, p, c) /\ v.strategy # "all"
  BY DEF Reusable, SameBefore
<1>2. Earlier(v, c) = Earlier(p, c)
  BY <1>1 DEF SameBatch, Earlier
<1>3. /\ InBatches(v, Earlier(v, c)) \subseteq Names(v.mmd)
      /\ InBatches(p, Earlier(v, c)) \subseteq Names(p.mmd)
      /\ c \in Names(v.mmd) /\ c \in Names(p.mmd)
  BY <1>1 DEF Raises, SameBefore, Included
<1> DEFINE arches(b0, d) == IF d \in Names(b0.mmd) THEN Component(b0.mmd, d).arches ELSE {}
           made(b0, d)   == <<d, b0.rows[d].ref, arches(b0, d)>>
           before(b0)    == [i \in Earlier(b0, c) |-> {made(b0, d) : d \in InBatches(b0, {i})}]
<1>4. made(v, c) = made(p, c)
  BY <1>1, <1>3 DEF SameCommit, SameArches
<1>5. before(v) = before(p)
  <2>1. ASSUME NEW i \in Earlier(v, c)
        PROVE  {made(v, d) : d \in InBatches(v, {i})} = {made(p, d) : d \in InBatches(p, {i})}
    <3>1. /\ Before(v, c)[i] = {<<d, v.rows[d].ref, Component(v.mmd, d).arches>> :
                                   d \in InBatches(v, {i})}
          /\ Before(p, c)[i] = {<<d, p.rows[d].ref, Component(p.mmd, d).arches>> :
                                   d \in InBatches(p, {i})}
      BY <1>2 DEF Before
    <3>2. /\ InBatches(v, {i}) \subseteq Names(v.mmd)
          /\ InBatches(p, {i}) \subseteq Names(p.mmd)
      BY <1>3 DEF InBatches
    <3>3. /\ \A d \in InBatches(v, {i}) :
               made(v, d) = <<d, v.rows[d].ref, Component(v.mmd, d).arches>>
          /\ \A d \in InBatches(p, {i}) :
               made(p, d) = <<d, p.rows[d].ref, Component(p.mmd, d).arches>>
      BY <3>2
    <3> HIDE DEF made
    <3>4. {made(v, d) : d \in InBatches(v, {i})} = Before(v, c)[i]
      BY <3>1, <3>3
    <3>5. {made(p, d) : d \in InBatches(p, {i})} = Before(p, c)[i]
      BY <3>1, <3>3
    <3> QED BY <1>1, <3>4, <3>5
  <2> HIDE DEF made
  <2> QED BY <1>2, <2>1
<1>6. v.mmd.macros = p.mmd.macros
  BY <1>1 DEF SameBatch
<1>7. MadeFrom(v, c) = [what |-> made(v, c), macros |-> v.mmd.macros, before |-> before(v)]
      /\ MadeFrom(p, c) = [what |-> made(p, c), macros |-> p.mmd.macros, before |-> before(p)]
  BY DEF MadeFrom
<1> HIDE DEF made, before
<1> QED BY <1>4, <1>5, <1>6, <1>7

(* What a component is made from is a matter of the modulemd and of the     *)
(* commits and the batches of the components.                               *)
LEMMA MadeStays ==
  ASSUME NEW v, NEW w, v.mmd = w.mmd, DOMAIN v.rows = DOMAIN w.rows,
         \A c \in DOMAIN v.rows : v.rows[c].batch = w.rows[c].batch /\ v.rows[c].ref = w.rows[c].ref
  PROVE  \A c \in DOMAIN v.rows : MadeFrom(v, c) = MadeFrom(w, c)
<1> SUFFICES ASSUME NEW c \in DOMAIN v.rows PROVE MadeFrom(v, c) = MadeFrom(w, c)
  OBVIOUS
<1> DEFINE arches(b0, d) == IF d \in Names(b0.mmd) THEN Component(b0.mmd, d).arches ELSE {}
           made(b0, d)   == <<d, b0.rows[d].ref, arches(b0, d)>>
           before(b0)    == [i \in Earlier(b0, c) |-> {made(b0, d) : d \in InBatches(b0, {i})}]
<1>1. Earlier(v, c) = Earlier(w, c)
  BY DEF Earlier
<1>2. \A d \in DOMAIN v.rows : made(v, d) = made(w, d)
  OBVIOUS
<1>3. before(v) = before(w)
  <2>1. ASSUME NEW i \in Earlier(v, c)
        PROVE  {made(v, d) : d \in InBatches(v, {i})} = {made(w, d) : d \in InBatches(w, {i})}
    <3>1. InBatches(v, {i}) = InBatches(w, {i}) /\ InBatches(v, {i}) \subseteq DOMAIN v.rows
      BY DEF InBatches
    <3> HIDE DEF made
    <3> QED BY <1>2, <3>1
  <2> HIDE DEF made
  <2> QED BY <1>1, <2>1
<1>4. MadeFrom(v, c) = [what |-> made(v, c), macros |-> v.mmd.macros, before |-> before(v)]
      /\ MadeFrom(w, c) = [what |-> made(w, c), macros |-> w.mmd.macros, before |-> before(w)]
  BY DEF MadeFrom
<1> HIDE DEF made, before
<1> QED BY <1>2, <1>3, <1>4

(* Of the builds to reuse from, the one that is found is allowed.           *)
LEMMA AllowedReuse ==
  ASSUME Past, b.sub.reuse = 0, ReusedOK, ReusableModule # 0
  PROVE  StrategyAllows(View, history[ReusableModule])
<1> DEFINE on(bases) == [i \in DOMAIN bases |-> ReusableOn(bases[i])]
<1>1. CASE b.reused # 0
  BY <1>1 DEF ReusableModule, ReusedOK
<1>2. CASE b.reused = 0
  <2>1. PICK bases : bases = ReuseBases
    OBVIOUS
  <2>2. ReusableModule = ReusableIn(bases)
    BY <1>2, <2>1 DEF ReusableModule
  <2> DEFINE fit == FirstNewest(on(bases))
  <2>3. \A k \in fit : StrategyAllows(View, history[k])
    <3>1. \A i \in DOMAIN on(bases) : \A k \in on(bases)[i] : StrategyAllows(View, history[k])
      BY DEF ReusableOn
    <3> HIDE DEF on
    <3> QED BY <3>1 DEF FirstNewest
  <2>4. ReusableIn(bases) = IF fit = {} THEN 0 ELSE CHOOSE k \in fit : TRUE
    BY DEF ReusableIn
  <2> HIDE DEF fit
  <2>5. fit # {} /\ ReusableModule = (CHOOSE k \in fit : TRUE)
    BY <2>2, <2>4
  <2>6. ReusableModule \in fit
    BY <2>5
  <2> QED BY <2>3, <2>6
<1> QED BY <1>1, <1>2

(* A component gets a build by being taken over, or by being built.         *)
LEMMA GetsBuilt ==
  ASSUME Shape, Staged, Past, Recorded1, [Next]_vars, ~Submit, b.stage # "init",
         NEW c \in Components, b'.rows[c].built # b.rows[c].built
  PROVE  \/ BuildBatch /\ c \in b.todo
         \/ \E C : /\ c \in FromBuild(ReusableModule, C) /\ ReusableModule # 0
                   /\ b'.rows[c].built = history[ReusableModule].rows[c].built
                   /\ b'.reused = ReusableModule
<1>0. /\ DOMAIN b = Fields /\ {"rows", "reused"} \subseteq Fields
      /\ DOMAIN b.rows[c] = {"batch", "ref", "built"}
  BY DEF Shape, Fields, Components, Recorded1, RowsOK, RowOK
<1>1. ASSUME NEW k, NEW C, b'.rows = Taken(C, k)
      PROVE  c \in C /\ b'.rows[c].built = history[k].rows[c].built
  <2>1. b'.rows[c] = IF c \in C THEN [b.rows[c] EXCEPT !.built = history[k].rows[c].built]
                                ELSE b.rows[c]
    BY <1>1 DEF Taken
  <2> QED BY <1>0, <2>1
<1>2. CASE ReuseAll
  <2>1. PICK k : /\ k = ReusableModule /\ k # 0 /\ b'.rows = Taken(Components, k)
                 /\ Components \ (FromBuild(k, Components) \cup Raising(k, Components)) = {}
                 /\ Raising(k, Components) = {} /\ b'.reused = k
    <3>1. b'.rows # b.rows
      OBVIOUS
    <3>2. PICK k \in {ReusableModule} :
            /\ k # 0 /\ Components \ (FromBuild(k, Components) \cup Raising(k, Components)) = {}
            /\ Raising(k, Components) = {}
            /\ b' = [b EXCEPT !.reused = k, !.rows = Taken(Components, k), !.stage = "build",
                              !.then = "batch",
                              !.current = Max({@} \cup {b.rows[d].batch : d \in Components})]
      BY <1>0, <1>2, <3>1 DEF ReuseAll, Fields
    <3> QED BY <1>0, <3>2 DEF Fields
  <2>2. c \in FromBuild(k, Components)
    BY <2>1
  <2> QED BY <1>1, <2>1, <2>2
<1>3. CASE NextBatch
  <2> DEFINE k == IF TriesReuse(Min(Later)) THEN ReusableModule ELSE 0
             C == {d \in Unbuilt : b.rows[d].batch = Min(Later)}
  <2>1. b'.rows = b.rows \/ b'.rows = Taken(FromBuild(k, C), k)
    BY <1>0, <1>3 DEF NextBatch, Fields
  <2>2. c \in FromBuild(k, C) /\ b'.rows[c].built = history[k].rows[c].built
    BY <1>1, <2>1
  <2>3. k # 0
    BY <2>2 DEF FromBuild
  <2>4. k = ReusableModule /\ b'.reused = k
    BY <1>0, <1>3, <2>1, <2>3 DEF NextBatch, Fields
  <2> HIDE DEF k, C
  <2> QED BY <2>2, <2>3, <2>4
<1>4. CASE BuildBatch
  <2>1. c \in b.todo
    BY <1>4, BatchBuilt
  <2> QED BY <1>4, <2>1
<1>5. CASE IncludeModule \/ Save
  BY <1>5 DEF IncludeModule, Save, InRecord, Staged, InitPcs
<1> QED BY <1>2, <1>3, <1>4, <1>5, Changes

(* Nothing is built before the init handler is done.                        *)
LEMMA InitUnbuilt ==
  ASSUME Shape, Staged, Recorded1, [Next]_vars, ~Submit, b.stage = "init"
  PROVE  \A c \in DOMAIN b'.rows : b'.rows[c].built = 0
<1>1. \A d \in DOMAIN b.rows : b.rows[d].built = 0
  BY DEF Recorded1, RowsOK, RowOK
<1>2. \A d \in DOMAIN b.pending : b.pending[d].built = 0
  BY DEF Recorded1, RowsOK, RowOK
<1>3. \A d \in DOMAIN Overlay(b.pending, b.rows) : Overlay(b.pending, b.rows)[d].built = 0
  <2>1. /\ DOMAIN Overlay(b.pending, b.rows) = DOMAIN b.pending \cup DOMAIN b.rows
        /\ \A d \in DOMAIN b.pending : Overlay(b.pending, b.rows)[d] = b.pending[d]
        /\ \A d \in DOMAIN b.rows \ DOMAIN b.pending :
             Overlay(b.pending, b.rows)[d] = b.rows[d]
    BY Overlaid
  <2> QED BY <1>1, <1>2, <2>1
<1>4. CASE IncludeModule \/ Save
  <2>1. b'.rows \in {b.rows, Overlay(b.pending, b.rows)}
    <3>1. DOMAIN b = Fields /\ {"rows", "pending", "frames", "batch", "refs"} \subseteq Fields
      BY DEF Shape, Fields
    <3> QED BY <1>4, <3>1 DEF IncludeModule, Save
  <2> QED BY <1>1, <1>3, <2>1
<1>5. ~(ReuseAll \/ NextBatch \/ BuildBatch)
  BY DEF ReuseAll, NextBatch, BuildBatch, Staged, InitPcs
<1> QED BY <1>1, <1>4, <1>5, Changes

(* In a build that takes over nothing, or only what was not changed, each   *)
(* component stays as it would be made, or becomes it.                      *)
LEMMA StaysAsMade ==
  ASSUME Typed, ReusedOK, [Next]_vars, ~Submit, NoneTold, b.sub.reuse = 0,
         b.sub.strategy \in Careful
  PROVE  AsMade(View)'
<1>0. Shape /\ Staged /\ Past /\ Recorded1 /\ Len(artifacts) \in Nat
      /\ DOMAIN artifacts = 1..Len(artifacts) /\ b'.sub = b.sub
  BY SubmissionKept DEF Typed, Past
<1>1. View.rows = b.rows /\ View'.rows = b'.rows /\ View.mmd = b.sub.mmd /\ View'.mmd = b.sub.mmd
      /\ View.strategy = b.sub.strategy
  BY <1>0 DEF View
<1>2. SUFFICES ASSUME NEW c \in DOMAIN b'.rows, b'.rows[c].built # 0
               PROVE  artifacts'[b'.rows[c].built].made = MadeFrom(View', c)
  BY <1>1 DEF AsMade
<1>3. CASE b.stage = "init"
  BY <1>0, <1>2, <1>3, InitUnbuilt
<1>4. CASE b.stage # "init"
  <2>1. c \in Components /\ DOMAIN b'.rows = DOMAIN b.rows
    BY <1>0, <1>4, Settled DEF Components
  <2>2. MadeFrom(View', c) = MadeFrom(View, c)
    <3>1. \A d \in Components : /\ b'.rows[d].batch = b.rows[d].batch
                                /\ b'.rows[d].ref = b.rows[d].ref
      BY <1>0, <1>4, OnlyBuilds
    <3>2. PICK v, w : v = View /\ w = View'
      OBVIOUS
    <3>3. v.mmd = w.mmd /\ DOMAIN v.rows = DOMAIN w.rows /\ c \in DOMAIN v.rows
          /\ \A d \in DOMAIN v.rows : /\ v.rows[d].batch = w.rows[d].batch
                                      /\ v.rows[d].ref = w.rows[d].ref
      BY <1>1, <2>1, <3>1, <3>2 DEF Components
    <3>4. MadeFrom(v, c) = MadeFrom(w, c)
      BY <3>3, MadeStays
    <3> QED BY <3>2, <3>4
  <2>3. CASE b'.rows[c].built = b.rows[c].built
    <3>1. b.rows[c].built \in DOMAIN artifacts
      BY <1>0, <1>2, <1>4, <2>1, <2>3 DEF Recorded1, RowsOK, RowOK, Components
    <3>2. artifacts[b.rows[c].built].made = MadeFrom(View, c)
      BY <1>1, <1>2, <2>1, <2>3 DEF ReusedOK, AsMade, Components
    <3> QED BY <2>2, <2>3, <3>1, <3>2, ArtifactsStay
  <2>4. CASE BuildBatch /\ c \in b.todo
    <3>1. artifacts'[b'.rows[c].built] = [package |-> c, made |-> MadeFrom(View, c)]
      BY <1>0, <2>4, BatchBuilt
    <3> QED BY <2>2, <3>1
  <2>5. CASE \E C : /\ c \in FromBuild(ReusableModule, C) /\ ReusableModule # 0
                    /\ b'.rows[c].built = history[ReusableModule].rows[c].built
    <3> DEFINE k == ReusableModule
    <3>1. PICK C : /\ c \in FromBuild(k, C) /\ k # 0
                   /\ b'.rows[c].built = history[k].rows[c].built
      BY <2>5
    <3>2. ~Raises(View, history[k], c) /\ Reusable(View, history[k], c)
      BY <3>1 DEF FromBuild, Raising
    <3>3. b.sub.strategy = Strict
      BY <1>1, <3>2 DEF Careful, Reusable
    <3>4. history[k].strategy \in Careful
      BY <1>0, <1>1, <3>1, <3>3, AllowedReuse DEF StrategyAllows, Careful
    <3>5. k \in DOMAIN history /\ c \in DOMAIN history[k].rows
          /\ history[k].rows[c].built \in 1..Len(artifacts)
      BY <1>0, <3>1, ReusableThere, TakenOver
    <3>6. artifacts[history[k].rows[c].built].made = MadeFrom(history[k], c)
      BY <3>4, <3>5 DEF ReusedOK, AsMade
    <3>7. MadeFrom(View, c) = MadeFrom(history[k], c)
      BY <1>1, <3>2, <3>3, SameMade
    <3>8. artifacts'[history[k].rows[c].built] = artifacts[history[k].rows[c].built]
      BY <1>0, <3>5, ArtifactsStay
    <3> QED BY <2>2, <3>1, <3>6, <3>7, <3>8
  <2> QED BY <1>0, <1>4, <2>1, <2>3, <2>4, <2>5, GetsBuilt
<1> QED BY <1>3, <1>4

(* Every step keeps what is taken over as it would be made.                 *)
LEMMA ReusedNext == ASSUME Typed, ReusedOK, [Next]_vars PROVE ReusedOK'
<1>0. Shape /\ Staged /\ Past /\ Recorded1 /\ DOMAIN artifacts = 1..Len(artifacts)
      /\ Len(history) \in Nat /\ DOMAIN history = 1..Len(history)
  BY DEF Typed, Past
<1>a. \A k \in DOMAIN history : k \in DOMAIN history' /\ history'[k] = history[k]
  BY <1>0, HistoryStays
<1>b. NoneTold' => NoneTold
  BY <1>a DEF NoneTold
<1>1. ASSUME NoneTold', NEW k \in DOMAIN history', history'[k].strategy \in Careful,
             NEW c \in DOMAIN history'[k].rows, history'[k].rows[c].built # 0
      PROVE  artifacts'[history'[k].rows[c].built].made = MadeFrom(history'[k], c)
  <2>1. CASE k \in DOMAIN history
    <3>1. history'[k] = history[k] /\ history[k].rows[c].built \in DOMAIN artifacts
      BY <1>0, <1>a, <1>1, <2>1 DEF Past, RowsOK, RowOK
    <3>2. artifacts[history[k].rows[c].built].made = MadeFrom(history[k], c)
      BY <1>b, <1>1, <2>1, <3>1 DEF ReusedOK, AsMade
    <3> QED BY <3>1, <3>2, ArtifactsStay
  <2>2. CASE k \notin DOMAIN history
    <3>1. Finish /\ history' # history
      <4>1. history' # history
        BY <1>1, <2>2
      <4>2. ~Submit
        BY <4>1 DEF Submit
      <4> QED BY <1>0, <4>1, <4>2, Changes
    <3>2. PICK h : /\ history' = Append(history, h) /\ h.rows = b.rows /\ h.mmd = b.sub.mmd
                   /\ h.told = b.sub.reuse /\ h.strategy = b.sub.strategy
      <4>1. PICK h : /\ history' = Append(history, h)
                     /\ h = [strategy |-> b.sub.strategy, rows |-> b.rows, mmd |-> Mmd,
                              asked |-> b.sub.br, told |-> b.sub.reuse, arches |-> b.arches,
                              scmurl |-> b.sub.scmurl,
                              tag |-> IF "module" \in b.tagged THEN TagFound ELSE None]
        BY <3>1 DEF Finish
      <4> QED BY <4>1 DEF Mmd
    <3>3. history'[k] = h
      <4> DEFINE S == Range(history) \cup {h}
      <4>1. history \in [1..Len(history) -> Range(history)]
        BY <1>0 DEF Past
      <4>2. history \in [1..Len(history) -> S]
        BY <4>1
      <4>3. history \in Seq(S) /\ h \in S
        BY <1>0, <4>2
      <4> HIDE DEF S
      <4>4. DOMAIN history' = 1..(Len(history) + 1) /\ history'[Len(history) + 1] = h
        BY <1>0, <3>2, <4>3
      <4>5. k = Len(history) + 1
        BY <1>0, <1>1, <2>2, <4>4
      <4> QED BY <4>4, <4>5
    <3>4. NoneTold /\ b.sub.reuse = 0 /\ b.sub.strategy \in Careful
      BY <1>b, <1>1, <3>2, <3>3 DEF NoneTold
    <3>5. artifacts' = artifacts
      BY <3>1 DEF Finish
    <3>6. View.rows = b.rows /\ View.mmd = b.sub.mmd
      BY DEF View
    <3>7. artifacts[b.rows[c].built].made = MadeFrom(View, c)
      BY <1>1, <3>2, <3>3, <3>4, <3>6 DEF ReusedOK, AsMade
    <3>8. MadeFrom(View, c) = MadeFrom(h, c)
      BY <1>1, <3>2, <3>3, <3>6, MadeStays, ZenonT(60)
    <3> QED BY <3>2, <3>3, <3>5, <3>7, <3>8
  <2> QED BY <2>1, <2>2
<1>2. ASSUME NoneTold', b'.sub.reuse = 0, b'.sub.strategy \in Careful PROVE AsMade(View)'
  <2>1. CASE ~Submit
    BY <1>0, <1>b, <1>2, <2>1, SubmissionKept, StaysAsMade
  <2>2. CASE Submit /\ b' = b
    <3>1. artifacts' = artifacts
      BY <2>2 DEF Submit
    <3> QED BY <1>b, <1>2, <2>2, <3>1 DEF ReusedOK, AsMade, View
  <2>3. CASE Submit /\ b' # b
    <3>1. b'.rows = NoRows /\ DOMAIN NoRows = {}
      BY <2>3 DEF Submit, New, NoRows
    <3>2. View'.rows = b'.rows
      BY DEF View
    <3> QED BY <3>1, <3>2 DEF AsMade
  <2> QED BY <2>1, <2>2, <2>3
<1>3. ASSUME b'.sub.reuse = 0, b'.reused # 0
      PROVE  StrategyAllows(View', history'[b'.reused])
  <2>1. CASE Submit /\ b' = b
    <3>1. history' = history
      BY <2>1 DEF Submit
    <3>2. View' = View
      BY <2>1 DEF View
    <3> QED BY <1>3, <2>1, <3>1, <3>2 DEF ReusedOK
  <2>2. CASE Submit /\ b' # b
    <3>1. b'.sub.reuse = b'.reused
      BY <2>2 DEF Submit, New
    <3> QED BY <1>3, <3>1
  <2>3. CASE ~Submit
    <3>1. b'.sub = b.sub
      BY <1>0, <2>3, SubmissionKept
    <3>2. b'.reused = b.reused \/ b'.reused = ReusableModule
      BY <1>0, <2>3, Changes DEF ReuseAll, NextBatch, Shape, Fields
    <3>3. StrategyAllows(View, history[b'.reused])
      <4>1. CASE b'.reused = b.reused
        BY <1>3, <3>1, <4>1 DEF ReusedOK
      <4>2. CASE b'.reused = ReusableModule
        BY <1>0, <1>3, <3>1, <4>2, AllowedReuse
      <4> QED BY <3>2, <4>1, <4>2
    <3>4. history'[b'.reused] = history[b'.reused]
      <4>1. b'.reused \in 0..Len(history)
        BY <1>0, <3>2, ReusableThere DEF Past
      <4>2. b'.reused \in DOMAIN history
        BY <1>0, <1>3, <4>1
      <4> QED BY <1>a, <4>2
    <3>5. View'.strategy = View.strategy
      BY <3>1 DEF View
    <3> QED BY <3>3, <3>4, <3>5 DEF StrategyAllows
  <2> QED BY <2>1, <2>2, <2>3
<1> QED BY <1>1, <1>2, <1>3 DEF ReusedOK, AsMade

(* With changed-and-after, each component is what a new build would have    *)
(* made it from, unless a build was told which one to reuse.                *)
THEOREM ReuseSoundHolds == Spec => []ReuseSound
<1>1. Init => ReusedOK
  <2> SUFFICES ASSUME Init PROVE ReusedOK
    OBVIOUS
  <2>1. DOMAIN history = {} /\ b.rows = NoRows /\ DOMAIN NoRows = {} /\ View.rows = b.rows
    BY DEF Init, New, NoRows, View
  <2>2. b.reused = b.sub.reuse
    BY DEF Init, New
  <2> QED BY <2>1, <2>2 DEF ReusedOK, AsMade
<1>2. Typed /\ ReusedOK /\ [Next]_vars => ReusedOK'
  BY ReusedNext
<1>3. ReusedOK => ReuseSound
  <2> SUFFICES ASSUME ReusedOK, b.sub.strategy = Strict, b.sub.reuse = 0, NoneTold,
                      NEW c \in Components, b.rows[c].built # 0
               PROVE  artifacts[b.rows[c].built].made = MadeFrom(View, c)
    BY DEF ReuseSound
  <2>1. AsMade(View) /\ View.rows = b.rows
    BY DEF ReusedOK, Careful, View
  <2> QED BY <2>1 DEF AsMade, Components
<1> QED BY <1>1, <1>2, <1>3, TypedAlways, PTL DEF Spec


-----------------------------------------------------------------------------
(* Default modules.                                                         *)

(* Of the modules in S, one with the id i has a context that runs on base.  *)
MayRun(d, s) == IF d.plus = {} THEN s \notin d.minus ELSE s \in d.plus
RunsIn(S, i, base) ==
  \E got, r \in S : /\ got.id = i /\ NSV(r) = NSV(got)
                    /\ \E D \in r.runtime : /\ base.name \in DOMAIN D
                                            /\ MayRun(D[base.name], base.stream)

(* What br became, if anything was added, runs on its base module.          *)
FitIn(S, d, br) ==
  d # br => /\ HasBase(d)
            /\ \E base \in S : /\ d[BaseOf(d)] = base.id
                               /\ \A n \in DOMAIN d \ DOMAIN br : RunsIn(S, d[n], base)

DistinctIds == \A r, q \in T : r.id = q.id => r = q
DefaultsOK ==
  /\ DistinctIds /\ \A r \in T : r.version \in Int
  /\ pc \in {"arches", "defaults"} => b.br = b.sub.br
  /\ FitIn(T, b.br, b.sub.br)

(* The builds that are buildrequired of a stream are of one version.        *)
LEMMA OneVersion ==
  ASSUME NEW S, \A r \in S : r.version \in Int, NEW n, NEW s, NEW base,
         NEW r \in Buildrequired(S, n, s, base), NEW q \in Buildrequired(S, n, s, base)
  PROVE  r \in S /\ NSV(r) = NSV(q)
<1>1. CASE base.tag # None
  <2> DEFINE listed == {x \in S : /\ x.name = n /\ x.tag \in Range(Inheritance)
                                  /\ Norm[x.stream] = Norm[s]}
  <2>1. FilterInherited(listed) \subseteq listed
    BY DEF FilterInherited
  <2>2. r \in Newest({x \in FilterInherited(listed) : x.stream = s})
        /\ q \in Newest({x \in FilterInherited(listed) : x.stream = s})
    BY <1>1 DEF Buildrequired, KojiBuildrequired
  <2>3. \A x \in listed : x \in S /\ x.name = n
    OBVIOUS
  <2> HIDE DEF listed
  <2> QED BY <2>1, <2>2, <2>3 DEF Newest, NSV
<1>2. CASE base.tag = None
  BY <1>2 DEF Buildrequired, DBBuildrequired, Newest, NSV
<1> QED BY <1>1, <1>2

(* What is listed for a module can be run on, with the streams there are.   *)
LEMMA ExpandedRuns ==
  ASSUME NEW S, NEW n, NEW d, NEW s \in ExpandSingle(S, n, d) PROVE MayRun(d, s)
BY DEF ExpandSingle, MayRun

(* A default module that is found has a context that runs on the base.      *)
LEMMA DefaultRuns ==
  ASSUME NEW S, \A r \in S : r.version \in Int, NEW n, NEW s, NEW base,
         NEW got \in DefaultBuilds(S, n, s, base)
  PROVE  RunsIn(S, got.id, base)
<1> DEFINE at == BuildsOn(S, n, s, BasesFor(S, base))
<1>1. PICK i \in DOMAIN at : got \in at[i] /\ \E r \in at[i] : RunsOn(S, r, base)
  <2> HIDE DEF at
  <2> SUFFICES ASSUME got \in FirstRunning(S, at, base)
               PROVE  \E i \in DOMAIN at : got \in at[i] /\ \E r \in at[i] : RunsOn(S, r, base)
    BY DEF DefaultBuilds, at
  <2> QED BY DEF FirstRunning
<1>2. PICK r \in at[i] : RunsOn(S, r, base)
  BY <1>1
<1>3. PICK q : at[i] = Buildrequired(S, n, s, q)
  BY <1>1 DEF BuildsOn
<1>4. got \in S /\ r \in S /\ NSV(r) = NSV(got)
  BY <1>1, <1>2, <1>3, OneVersion
<1>5. PICK D \in r.runtime : /\ base.name \in DOMAIN D
                             /\ base.stream \in ExpandSingle(S, base.name, D[base.name])
  BY <1>2 DEF RunsOn
<1>6. MayRun(D[base.name], base.stream)
  BY <1>5, ExpandedRuns
<1> QED BY <1>4, <1>5, <1>6 DEF RunsIn

(* What is added runs on the base module.                                   *)
LEMMA AddedFit ==
  ASSUME \A r \in T : r.version \in Int, NEW br, Range(br) \subseteq Ids, ~DefaultsFail(T, br),
         NEW d \in WithDefaults(T, br)
  PROVE  FitIn(T, d, br)
<1> SUFFICES ASSUME d # br PROVE FitIn(T, d, br)
  BY DEF FitIn
<1>1. HasDefaults(T, br)
  BY DEF WithDefaults
<1> DEFINE base == BaseRow(T, br)
           D == DefaultStreams(base.stream)
           builds == DefaultsOf(T, br, D, base)
           new == {n \in DOMAIN builds : builds[n] # {}}
<1>2. PICK f \in [new -> T] :
        (\A n \in new : f[n] \in builds[n]) /\ d = Overlay([n \in new |-> f[n].id], br)
  BY <1>1 DEF WithDefaults, Added
<1>3. /\ new \cap BaseModule = {} /\ new \cap DOMAIN br = {}
      /\ \A n \in new : builds[n] = DefaultBuilds(T, n, D[n], base)
  <2>1. DOMAIN D \cap BaseModule = {}
    BY <1>1, ProductionAssumption DEF DefaultsFail, NoDefaults, DefaultStreams
  <2> HIDE DEF D, base
  <2> QED BY <2>1 DEF DefaultsOf
<1>4. base \in T /\ br[BaseOf(br)] = base.id /\ BaseOf(br) \in DOMAIN br
  <2>1. BaseOf(br) \in BaseModule \cap DOMAIN br
    BY <1>1 DEF HasDefaults, HasBase, BaseOf
  <2>2. \E r \in T : r.id = br[BaseOf(br)]
    BY <2>1 DEF Ids, Range
  <2> QED BY <2>1, <2>2 DEF BaseRow, RowOf
<1> HIDE DEF new, builds, D, base
<1>5. /\ DOMAIN d = new \cup DOMAIN br
      /\ \A n \in new : d[n] = f[n].id
      /\ \A n \in DOMAIN br : d[n] = br[n]
  BY <1>2, <1>3 DEF Overlay
<1>6. BaseModule \cap DOMAIN d = BaseModule \cap DOMAIN br
  BY <1>3, <1>5
<1>7. HasBase(d) /\ d[BaseOf(d)] = base.id
  <2>1. BaseOf(d) = BaseOf(br)
    BY <1>6 DEF BaseOf
  <2> QED BY <1>1, <1>4, <1>5, <1>6, <2>1 DEF HasBase, HasDefaults
<1>8. ASSUME NEW n \in DOMAIN d \ DOMAIN br PROVE RunsIn(T, d[n], base)
  <2>1. n \in new /\ f[n] \in DefaultBuilds(T, n, D[n], base) /\ d[n] = f[n].id
    BY <1>2, <1>3, <1>5
  <2> QED BY <2>1, DefaultRuns
<1> QED BY <1>4, <1>7, <1>8 DEF FitIn

(* It still does when there are more modules.                               *)
LEMMA FitStays ==
  ASSUME NEW S, NEW S2, S \subseteq S2, NEW d, NEW br, FitIn(S, d, br) PROVE FitIn(S2, d, br)
BY DEF FitIn, RunsIn

(* Modules in the table stay there.                                         *)
LEMMA TableStays == ASSUME Past, [Next]_vars PROVE T \subseteq T'
<1> SUFFICES ASSUME NEW k \in DOMAIN history PROVE HistoryRow(k) \in T'
  BY DEF T
<1>1. k \in DOMAIN history' /\ history'[k] = history[k]
  BY HistoryStays
<1>2. HistoryRow(k)' = HistoryRow(k)
  BY <1>1 DEF HistoryRow
<1> QED BY <1>1, <1>2 DEF T

(* No two builds have the same id.                                          *)
LEMMA IdsDistinct ==
  ASSUME Past
  PROVE  DistinctIds /\ \A r \in T : r.version \in Int
<1>1. /\ \A r \in Table : r.id \in 1..100 /\ r.version \in Int
      /\ \A r, q \in Table : r.id = q.id => r = q
  BY ProductionAssumption
<1>2. \A k \in DOMAIN history : /\ k \in Nat \ {0} /\ HistoryRow(k).id = 100 + k
                                /\ HistoryRow(k).version = k
  BY DEF Past, HistoryRow, SelfId
<1>3. \A r \in T : r \in Table \/ \E k \in DOMAIN history : r = HistoryRow(k)
  BY DEF T
<1>4. ASSUME NEW r \in T, NEW q \in T, r.id = q.id PROVE r = q
  <2>1. CASE r \in Table /\ q \in Table
    BY <1>1, <1>4, <2>1
  <2>2. CASE r \notin Table /\ q \notin Table
    <3>1. PICK k \in DOMAIN history, l \in DOMAIN history : r = HistoryRow(k) /\ q = HistoryRow(l)
      BY <1>3, <2>2
    <3>2. k = l
      BY <1>2, <1>4, <3>1
    <3> QED BY <3>1, <3>2
  <2>3. ASSUME NEW x \in Table, NEW k \in DOMAIN history PROVE x.id # HistoryRow(k).id
    BY <1>1, <1>2
  <2> QED BY <1>3, <1>4, <2>1, <2>2, <2>3
<1>5. \A r \in T : r.version \in Int
  BY <1>1, <1>2, <1>3
<1> QED BY <1>4, <1>5 DEF DistinctIds

(* Every step keeps the default modules of a build fitting.                 *)
LEMMA DefaultsNext ==
  ASSUME Typed, Shadowed, DefaultsOK, [Next]_vars, Typed' PROVE DefaultsOK'
<1>0. /\ Shape /\ Staged /\ Past /\ DOMAIN b = Fields
      /\ {"br", "sub", "stage", "added", "arches"} \subseteq Fields
  BY DEF Typed, Shape, Fields
<1>1. DistinctIds' /\ (\A r \in T : r.version \in Int)'
  <2>1. Past'
    BY DEF Typed
  <2> QED BY <2>1, IdsDistinct, PTL
<1>2. T \subseteq T'
  BY <1>0, TableStays
<1>3. ASSUME pc' \in {"arches", "defaults"} PROVE b'.br = b'.sub.br
  <2>1. CASE Submit
    BY <1>3, <2>1 DEF Submit, New, DefaultsOK
  <2>2. CASE InitHandler
    <3>1. CASE RecordArches
      BY <1>0, <1>3, <3>1 DEF RecordArches, DefaultsOK
    <3>2. CASE ~RecordArches
      BY <1>3, <2>2, <3>2 DEF InitHandler, AddDefaultModules, FormatMain, RecordPackage, InRecord,
                              IncludeModule, EndOfModule, Save, Fail
    <3> QED BY <3>1, <3>2
  <2>3. CASE Connecting \/ WaitHandler \/ RepoHandler
    <3>1. pc' \notin {"arches", "defaults"} \/ (pc' = b.then /\ b.then \in {"batch", "repos"})
      BY <1>0, <2>3 DEF Connecting, LookForTag, CreateTag, WhitelistPackages, BlockPackages,
        AddGroup, AddGroupPackages, AddTarget, WaitHandler, AddRepos, ReuseAll, BuildMacros,
        RepoHandler, NextBatch, BuildBatch, Finalize, Import, TagImported, Finish, Fail, Staged
    <3> QED BY <1>3, <3>1
  <2>4. CASE Faults
    <3>1. CASE b.stage = "init" /\ (Crash \/ Resubmit)
      <4>1. b' = Restarted
        BY <3>1 DEF Crash, Resubmit, Restart
      <4> QED BY <1>0, <3>1, <4>1 DEF Restarted
    <3>2. CASE ~(b.stage = "init" /\ (Crash \/ Resubmit))
      BY <1>3, <2>4, <3>2 DEF Faults, Crash, RetryGroups, FailBuild, Resubmit, Abandon, Push,
                              Restart, Fail, DefaultsOK
    <3> QED BY <3>1, <3>2
  <2>5. CASE UNCHANGED vars
    BY <1>3, <2>5 DEF vars, DefaultsOK
  <2> QED BY <2>1, <2>2, <2>3, <2>4, <2>5 DEF Next
<1>4. FitIn(T', b'.br, b'.sub.br)
  <2>1. CASE Submit /\ b' = New(Head(todo))
    <3>1. b'.br = b'.sub.br
      BY <2>1 DEF New
    <3> QED BY <3>1 DEF FitIn
  <2>2. CASE b'.br = b.br /\ b'.sub = b.sub
    BY <1>2, <2>2, FitStays DEF DefaultsOK
  <2>3. CASE AddDefaultModules
    <3>1. CASE b' # b
      <4>1. /\ ~DefaultsFail(T, b.br) /\ pc = "defaults"
            /\ \E d \in WithDefaults(T, b.br) : b'.br = d /\ b'.sub = b.sub
        BY <1>0, <2>3, <3>1 DEF AddDefaultModules
      <4>2. b.br = b.sub.br /\ Range(b.br) \subseteq Ids /\ \A r \in T : r.version \in Int
        BY <4>1 DEF DefaultsOK, Shadowed
      <4>3. FitIn(T, b'.br, b.br)
        BY <4>1, <4>2, AddedFit
      <4> QED BY <1>2, <4>1, <4>2, <4>3, FitStays
    <3> QED BY <2>2, <3>1
  <2>4. CASE Redo
    <3>1. b'.br = b.sub.br /\ b'.sub = b.sub
      BY <1>0, <2>4 DEF Redo, Restarted
    <3> QED BY <3>1 DEF FitIn
  <2>5. CASE Submit /\ b' = b
    BY <2>2, <2>5
  <2>6. CASE ~Submit
    BY <1>0, <2>2, <2>3, <2>4, <2>6, Changes, SubmissionKept
  <2> QED BY <2>1, <2>5, <2>6 DEF Submit
<1> QED BY <1>1, <1>3, <1>4 DEF DefaultsOK

(* A default module comes into a build only if some context of the version  *)
(* that is taken may run on the base module's stream.                       *)
THEOREM DefaultsFitHolds == Spec => []DefaultsFit
<1>1. Init => DefaultsOK /\ Shadowed
  <2> SUFFICES ASSUME Init PROVE DefaultsOK /\ Shadowed
    OBVIOUS
  <2>1. b.br = b.sub.br /\ b.stage = "init" /\ b.macros = FALSE /\ pc = "idle"
    BY DEF Init, New
  <2>2. DistinctIds /\ \A r \in T : r.version \in Int
    BY TypedInit, IdsDistinct DEF Typed
  <2> QED BY <2>1, <2>2 DEF DefaultsOK, FitIn, Shadowed
<1>2. Typed /\ Shadowed /\ DefaultsOK /\ [Next]_vars /\ Typed' => DefaultsOK' /\ Shadowed'
  BY DefaultsNext, ShadowedNext
<1>3. DefaultsOK => DefaultsFit
  <2> SUFFICES ASSUME DefaultsOK, NEW n \in DOMAIN b.br \ DOMAIN b.sub.br
               PROVE  LET got  == RowOf(T, b.br[n])
                          base == RowOf(T, b.br[BaseOf(b.br)])
                      IN \E r \in T, D \in UNION {q.runtime : q \in T} :
                           /\ NSV(r) = NSV(got) /\ D \in r.runtime /\ base.name \in DOMAIN D
                           /\ LET d == D[base.name]
                              IN IF d.plus = {} THEN base.stream \notin d.minus
                                 ELSE base.stream \in d.plus
    BY DEF DefaultsFit
  <2>1. PICK base \in T : b.br[BaseOf(b.br)] = base.id /\ RunsIn(T, b.br[n], base)
    BY DEF DefaultsOK, FitIn
  <2>2. PICK got \in T, r \in T : /\ got.id = b.br[n] /\ NSV(r) = NSV(got)
                                  /\ \E D \in r.runtime : /\ base.name \in DOMAIN D
                                                          /\ MayRun(D[base.name], base.stream)
    BY <2>1 DEF RunsIn
  <2>3. RowOf(T, b.br[n]) = got /\ RowOf(T, b.br[BaseOf(b.br)]) = base
    BY <2>1, <2>2 DEF RowOf, DefaultsOK, DistinctIds
  <2>4. PICK D \in r.runtime : base.name \in DOMAIN D /\ MayRun(D[base.name], base.stream)
    BY <2>2
  <2> QED BY <2>2, <2>3, <2>4 DEF MayRun
<1>4. Spec => []Typed
  BY TypedAlways
<1> QED BY <1>1, <1>2, <1>3, <1>4, PTL DEF Spec


-----------------------------------------------------------------------------
(* What is taken over can be installed.                                     *)

(* Of the RPMs that conflict, none is from what is taken over, or can be.   *)
Spared(k) == \A r \in b.conflicts : r.of \notin OwnBuilds(k)
(* What comes of an earlier build is what can be taken over from the one to *)
(* reuse.                                                                   *)
FromReused(c) == b.reused # 0 /\ c \in FromBuild(b.reused, Components)
OwnOK ==
  /\ \A n \in DOMAIN b.br : b.br[n] \in Nat /\ (b.br[n] > 100 => n = Self)
  /\ \A r \in b.ursine \cup b.collisions : r.of \notin Nat
  /\ b.macros /\ pc # "idle" => Spared(ReusableModule)
  /\ b.macros /\ b.reused # 0 => Spared(b.reused)
  /\ pc # "idle" => \A c \in Components : \A k \in DOMAIN history : \A d \in DOMAIN history[k].rows :
       b.rows[c].built # 0 /\ b.rows[c].built = history[k].rows[d].built => FromReused(c)
  /\ \A c \in Components :
       b.reused # 0 /\ b.rows[c].built # 0 /\ c \in DOMAIN history[b.reused].rows
       /\ b.rows[c].built = history[b.reused].rows[c].built => FromReused(c)


(* Which components can be taken over from a build is a matter of the       *)
(* modulemd, the strategy, and the commits and batches of the components.   *)
LEMMA ReuseStays ==
  ASSUME NEW v, NEW w, v.mmd = w.mmd, v.strategy = w.strategy, DOMAIN v.rows = DOMAIN w.rows,
         \A c \in DOMAIN v.rows : v.rows[c].batch = w.rows[c].batch /\ v.rows[c].ref = w.rows[c].ref,
         NEW p, NEW c \in DOMAIN v.rows
  PROVE  (Raises(v, p, c) <=> Raises(w, p, c)) /\ (Reusable(v, p, c) <=> Reusable(w, p, c))
<1>1. (SameCommit(v, p, c) <=> SameCommit(w, p, c)) /\ (SameBatch(v, p, c) <=> SameBatch(w, p, c))
  BY DEF SameCommit, Recorded, SameBatch
<1>2. Earlier(v, c) = Earlier(w, c)
  BY DEF Earlier
<1>3. \A B : InBatches(v, B) = InBatches(w, B) /\ InBatches(v, B) \subseteq DOMAIN v.rows
  BY DEF InBatches
<1>4. Before(v, c) = Before(w, c)
  <2>1. ASSUME NEW i \in Earlier(v, c)
        PROVE  {<<d, v.rows[d].ref, Component(v.mmd, d).arches>> : d \in InBatches(v, {i})}
                 = {<<d, w.rows[d].ref, Component(w.mmd, d).arches>> : d \in InBatches(w, {i})}
    <3>1. PICK D : D = InBatches(v, {i}) /\ D = InBatches(w, {i}) /\ D \subseteq DOMAIN v.rows
      BY <1>3
    <3>2. \A d \in D : <<d, v.rows[d].ref, Component(v.mmd, d).arches>>
                        = <<d, w.rows[d].ref, Component(w.mmd, d).arches>>
      BY <3>1
    <3> QED BY <3>1, <3>2
  <2> QED BY <1>2, <2>1 DEF Before
<1>5. SameBefore(v, p, c) <=> SameBefore(w, p, c)
  BY <1>1, <1>4 DEF SameBefore
<1>6. SameArches(v, p, c) <=> SameArches(w, p, c)
  BY DEF SameArches
<1>7. Included(v, p, {c}) <=> Included(w, p, {c})
  BY DEF Included
<1>8. Reusable(v, p, c) <=> Reusable(w, p, c)
  BY <1>1, <1>5, <1>6 DEF Reusable
<1>9. Raises(v, p, c) <=> Raises(w, p, c)
  BY <1>1, <1>2, <1>3, <1>5, <1>7 DEF Raises
<1> QED BY <1>8, <1>9

(* It does not change while the build is built.                             *)
LEMMA FromStays ==
  ASSUME Typed, [Next]_vars, ~Submit, b.stage # "init", NEW k \in 0..Len(history)
  PROVE  FromBuild(k, Components)' = FromBuild(k, Components)
<1>0. Shape /\ Staged /\ Past /\ Recorded1 /\ DOMAIN history = 1..Len(history)
      /\ Len(history) \in Nat
  BY DEF Typed, Past
<1>1. Components' = Components /\ b'.sub = b.sub
  BY <1>0, Settled
<1>2. \A c \in Components : b'.rows[c].batch = b.rows[c].batch /\ b'.rows[c].ref = b.rows[c].ref
  BY <1>0, OnlyBuilds
<1>3. CASE k = 0
  BY <1>3 DEF FromBuild
<1>4. CASE k # 0
  <2>1. PICK v, w, p : v = View /\ w = View' /\ p = history[k]
    OBVIOUS
  <2>2. history'[k] = p
    BY <1>0, <1>4, <2>1, HistoryStays
  <2>3. /\ v.mmd = w.mmd /\ v.strategy = w.strategy /\ DOMAIN v.rows = DOMAIN w.rows
        /\ DOMAIN v.rows = Components
        /\ \A c \in DOMAIN v.rows : /\ v.rows[c].batch = w.rows[c].batch
                                    /\ v.rows[c].ref = w.rows[c].ref
    BY <1>1, <1>2, <2>1 DEF View, Components
  <2>4. \A c \in Components : /\ Raises(v, p, c) <=> Raises(w, p, c)
                              /\ Reusable(v, p, c) <=> Reusable(w, p, c)
    BY <2>3, ReuseStays
  <2>5. FromBuild(k, Components)
          = {c \in Components : ~Raises(v, p, c) /\ Reusable(v, p, c)}
    BY <1>4, <2>1 DEF FromBuild, Raising
  <2>6. FromBuild(k, Components)'
          = {c \in Components : ~Raises(w, p, c) /\ Reusable(w, p, c)}
    BY <1>1, <1>4, <2>1, <2>2 DEF FromBuild, Raising
  <2> QED BY <2>4, <2>5, <2>6
<1> QED BY <1>3, <1>4

(* Nor do the builds that would come of it.                                 *)
LEMMA OwnStays ==
  ASSUME Typed, [Next]_vars, ~Submit, b.stage # "init", NEW k \in 0..Len(history)
  PROVE  OwnBuilds(k)' = OwnBuilds(k)
<1>1. FromBuild(k, Components)' = FromBuild(k, Components)
  BY FromStays
<1>2. CASE k = 0
  BY <1>1, <1>2 DEF OwnBuilds, FromBuild
<1>3. CASE k # 0
  <2>1. history'[k] = history[k]
    BY <1>3, HistoryStays DEF Typed, Past
  <2> QED BY <1>1, <2>1 DEF OwnBuilds
<1> QED BY <1>2, <1>3

(* Nor does the build to reuse from, unless there are more builds.          *)
LEMMA ReusableStays ==
  ASSUME Typed, [Next]_vars, ~Submit, b.stage # "init", history' = history
  PROVE  ReusableModule' = ReusableModule
<1>0. Shape /\ Staged /\ DOMAIN b = Fields /\ {"reused"} \subseteq Fields
  BY DEF Typed, Shape, Fields
<1>1. b'.sub = b.sub /\ b'.br = b.br
  BY <1>0, Settled
<1>2. b'.reused = b.reused \/ b'.reused = ReusableModule
  BY <1>0, Changes DEF ReuseAll, NextBatch
<1>3. ReusableIn(ReuseBases)' = ReusableIn(ReuseBases)
  <2>1. T' = T
    BY DEF T, HistoryRow
  <2>2. ReuseBases' = ReuseBases
    BY <1>1, <2>1 DEF ReuseBases, AskedPair
  <2>3. \A k, base : Fits(k, base)' <=> Fits(k, base)
    BY <1>1, <2>1 DEF Fits, HistoryRow
  <2>4. \A k : StrategyAllows(View, history[k])' <=> StrategyAllows(View, history[k])
    BY <1>1 DEF StrategyAllows, View
  <2>5. \A base : ReusableOn(base)' = ReusableOn(base)
    BY <2>3, <2>4 DEF ReusableOn
  <2>6. ASSUME NEW bases PROVE ReusableIn(bases)' = ReusableIn(bases)
    <3>1. [i \in DOMAIN bases |-> ReusableOn(bases[i])]'
            = [i \in DOMAIN bases |-> ReusableOn(bases[i])]
      BY <2>5
    <3>2. PICK fit : fit = FirstNewest([i \in DOMAIN bases |-> ReusableOn(bases[i])])
      OBVIOUS
    <3>3. fit = FirstNewest([i \in DOMAIN bases |-> ReusableOn(bases[i])]')
      BY <3>1, <3>2, Zenon
    <3>4. ReusableIn(bases) = IF fit = {} THEN 0 ELSE CHOOSE k \in fit : TRUE
      BY <3>2 DEF ReusableIn
    <3>5. ReusableIn(bases)' = IF fit = {} THEN 0 ELSE CHOOSE k \in fit : TRUE
      BY <3>3 DEF ReusableIn
    <3> QED BY <3>4, <3>5
  <2> QED BY <2>2, <2>6
<1>4. CASE b'.reused = b.reused
  BY <1>3, <1>4 DEF ReusableModule
<1>5. CASE b'.reused # b.reused
  <2>1. b'.reused = ReusableModule
    BY <1>2, <1>5
  <2>2. CASE ReusableModule = 0
    <3>1. ReusableModule = ReusableIn(ReuseBases)
      BY <1>5, <2>1, <2>2 DEF ReusableModule
    <3> QED BY <1>3, <2>1, <2>2, <3>1 DEF ReusableModule
  <2>3. CASE ReusableModule # 0
    BY <2>1, <2>3 DEF ReusableModule
  <2> QED BY <2>2, <2>3
<1> QED BY <1>4, <1>5

(* The RPMs in the tag of another module are none of this one's.            *)
LEMMA OtherRpms ==
  ASSUME Past, NEW i \in Ids, i \in Nat, i <= 100
  PROVE  \A r \in R[i] : r.of \notin Nat
<1>1. PICK x \in T : x.id = i
  BY DEF Ids
<1>2. \A k \in DOMAIN history : HistoryRow(k).id > 100
  BY DEF Past, HistoryRow, SelfId
<1>3. x \in Table
  BY <1>1, <1>2 DEF T
<1>4. i \in DOMAIN Rpms /\ \A r \in Rpms[i] : r.of \notin Nat
  BY <1>1, <1>3, ProductionAssumption
<1> QED BY <1>4 DEF R, Ids, RpmsIn

(* A handler stops without changing the build.                              *)
LEMMA StopsAsItIs ==
  ASSUME Shape, Staged, [Next]_vars, ~Submit, pc' = "idle"
  PROVE  b' = b /\ (pc = "idle" => history' = history)
<1>1. CASE InitHandler \/ Connecting \/ WaitHandler
  <2>1. b.then \in {"batch", "repos"}
    BY DEF Staged
  <2>2. pc' # "idle"
    BY <1>1, <2>1 DEF InitHandler, RecordArches, AddDefaultModules, FormatMain, RecordPackage,
      IncludeModule, EndOfModule, Save, Connecting, LookForTag, CreateTag, WhitelistPackages,
      BlockPackages, AddGroup, AddGroupPackages, AddTarget, WaitHandler, AddRepos, ReuseAll,
      BuildMacros, InRecord, Fail
  <2> QED BY <2>2
<1>2. CASE RepoHandler
  <2>1. Finish
    BY <1>2 DEF RepoHandler, NextBatch, BuildBatch, Finalize, Import, TagImported, Finish, Fail
  <2> QED BY <2>1 DEF Finish
<1>3. CASE Faults
  BY <1>3 DEF Faults, Crash, RetryGroups, FailBuild, Resubmit, Abandon, Push, Restart, Fail
<1>4. CASE UNCHANGED vars
  BY <1>4 DEF vars
<1> QED BY <1>1, <1>2, <1>3, <1>4 DEF Next


(* Default modules come under their own names.                              *)
LEMMA AddedNames ==
  ASSUME Past, NEW br, NEW d \in WithDefaults(T, br),
         \A n \in DOMAIN br : br[n] \in Nat /\ (br[n] > 100 => n = Self)
  PROVE  \A n \in DOMAIN d : d[n] \in Nat /\ (d[n] > 100 => n = Self)
<1>1. CASE d = br
  BY <1>1
<1>2. CASE d # br
  <2> DEFINE base == BaseRow(T, br)
             D == DefaultStreams(base.stream)
             builds == DefaultsOf(T, br, D, base)
             new == {n \in DOMAIN builds : builds[n] # {}}
  <2>1. PICK f \in [new -> T] :
          (\A n \in new : f[n] \in builds[n]) /\ d = Overlay([n \in new |-> f[n].id], br)
    BY <1>2 DEF WithDefaults, Added
  <2>2. \A n \in new : builds[n] = DefaultBuilds(T, n, D[n], base)
    <3> HIDE DEF D, base
    <3> QED BY DEF DefaultsOf
  <2> HIDE DEF new, builds, D, base
  <2>3. ASSUME NEW n \in new PROVE f[n].name = n
    <3>1. f[n] \in FirstRunning(T, BuildsOn(T, n, D[n], BasesFor(T, base)), base)
      BY <2>1, <2>2 DEF DefaultBuilds
    <3>2. PICK at : at = BuildsOn(T, n, D[n], BasesFor(T, base))
      OBVIOUS
    <3>3. PICK i \in DOMAIN at : f[n] \in at[i]
      BY <3>1, <3>2 DEF FirstRunning
    <3>4. PICK q : f[n] \in Buildrequired(T, n, D[n], q)
      BY <3>2, <3>3 DEF BuildsOn
    <3> QED BY <3>4 DEF Buildrequired, KojiBuildrequired, DBBuildrequired, FilterInherited, Newest
  <2>4. ASSUME NEW x \in T PROVE x.id \in Nat /\ (x.id > 100 => x.name = Self)
    <3>1. CASE x \in Table
      <4>1. \A r \in Table : r.id \in 1..100
        BY ProductionAssumption
      <4> QED BY <3>1, <4>1
    <3>2. CASE x \notin Table
      BY <3>2 DEF T, HistoryRow, SelfId, Past
    <3> QED BY <3>1, <3>2
  <2>5. ASSUME NEW n \in DOMAIN d PROVE d[n] \in Nat /\ (d[n] > 100 => n = Self)
    <3>1. CASE n \in new
      <4>1. d[n] = f[n].id /\ f[n] \in T
        BY <2>1, <3>1 DEF Overlay
      <4> QED BY <2>3, <2>4, <3>1, <4>1
    <3>2. CASE n \notin new
      <4>1. n \in DOMAIN br /\ d[n] = br[n]
        BY <2>1, <3>2 DEF Overlay
      <4> QED BY <4>1
    <3> QED BY <3>1, <3>2
  <2> QED BY <2>5
<1> QED BY <1>1, <1>2

(* Neither ursine content nor collisions are RPMs of this module.           *)
LEMMA OthersConflict ==
  ASSUME Past, NEW br, Range(br) \subseteq Ids,
         \A n \in DOMAIN br : br[n] \in Nat /\ (br[n] > 100 => n = Self)
  PROVE  \A r \in UrsineRpms(T, R, br) \cup Collisions(R, br) : r.of \notin Nat
<1>1. ASSUME NEW n \in DOMAIN br \cap BaseModule PROVE br[n] \in Ids /\ br[n] <= 100
  BY ProductionAssumption DEF Range
<1>2. ASSUME NEW r \in Collisions(R, br) PROVE r.of \notin Nat
  <2>1. PICK n \in DOMAIN br \cap BaseModule : r \in R[br[n]]
    BY DEF Collisions, BaseRpms
  <2> QED BY <1>1, <2>1, OtherRpms
<1>3. ASSUME NEW r \in UrsineRpms(T, R, br) PROVE r.of \notin Nat
  <2>1. PICK x \in StreamCollisions(T, br) : r \in R[x.id]
    BY DEF UrsineRpms
  <2>2. x \in T
    BY DEF StreamCollisions
  <2>3. PICK m \in DOMAIN br \cap BaseModule : x.id \in RowOf(T, br[m]).ursine
    BY DEF StreamCollisions
  <2>4. PICK base : base = RowOf(T, br[m])
    OBVIOUS
  <2>5. base \in T /\ base.id = br[m]
    <3>1. \E y \in T : y.id = br[m]
      BY <1>1, <2>3 DEF Ids
    <3> QED BY <2>4, <3>1 DEF RowOf
  <2>6. base \in Table
    <3>1. \A k \in DOMAIN history : HistoryRow(k).id > 100
      BY DEF Past, HistoryRow, SelfId
    <3>2. base.id \in Nat /\ base.id <= 100
      BY <1>1, <2>3, <2>5
    <3> QED BY <2>5, <3>1, <3>2 DEF T
  <2>7. x.id \in 1..100
    BY <2>3, <2>4, <2>6, ProductionAssumption
  <2> QED BY <2>1, <2>2, <2>7, OtherRpms DEF Ids
<1> QED BY <1>2, <1>3

(* module-build-macros does not conflict with what may be taken over.       *)
LEMMA MacrosSpare ==
  ASSUME Typed, Shadowed, OwnOK, b.stage # "init", NEW k \in 0..Len(history),
         NEW r \in MacroConflicts(T, R, b.br, Self, OwnBuilds(k), b.ursine, b.collisions)
  PROVE  r.of \notin OwnBuilds(k)
<1>1. Past /\ Range(b.br) \subseteq Ids
  BY DEF Typed, Shadowed
<1>2. OwnBuilds(k) \subseteq Nat
  <2>1. \A c \in FromBuild(k, Components) : history[k].rows[c].built \in Nat
    BY <1>1, TakenOver
  <2> QED BY <2>1 DEF OwnBuilds
<1>3. CASE r \in b.ursine \cup b.collisions
  BY <1>2, <1>3 DEF OwnOK
<1>4. CASE \E n \in DOMAIN b.br : r \in FilteredRpms(T, R, b.br[n])
                                  /\ (n = Self => r.of \notin OwnBuilds(k))
  <2>1. PICK n \in DOMAIN b.br : r \in FilteredRpms(T, R, b.br[n])
                                 /\ (n = Self => r.of \notin OwnBuilds(k))
    BY <1>4
  <2>2. CASE n = Self
    BY <2>1, <2>2
  <2>3. CASE n # Self
    <3>1. b.br[n] \in Ids /\ b.br[n] \in Nat /\ b.br[n] <= 100
      BY <1>1, <2>3 DEF OwnOK, Range
    <3>2. r \in R[b.br[n]]
      BY <2>1 DEF FilteredRpms
    <3> QED BY <1>1, <1>2, <3>1, <3>2, OtherRpms
  <2> QED BY <2>2, <2>3
<1> QED BY <1>3, <1>4 DEF MacroConflicts

(* Steps of a build that is past the init handler.                          *)
LEMMA OwnSettled ==
  ASSUME Typed, Shadowed, OwnOK, [Next]_vars, ~Submit, b.stage # "init" PROVE OwnOK'
<1>0. /\ Shape /\ Staged /\ Past /\ Recorded1 /\ Len(history) \in Nat /\ Len(artifacts) \in Nat
      /\ DOMAIN history = 1..Len(history)
  BY DEF Typed, Past
<1>1. b'.br = b.br /\ Components' = Components /\ b'.ursine = b.ursine
      /\ b'.collisions = b.collisions /\ ~Save
  <2>1. ~Save
    BY <1>0 DEF Save, Staged, InitPcs
  <2> QED BY <1>0, <2>1, Settled, ShadowChanges
<1>2. b.reused \in 0..Len(history) /\ ReusableModule \in 0..Len(history)
      /\ (b'.reused = b.reused \/ b'.reused = ReusableModule)
      /\ (b.reused # 0 => ReusableModule = b.reused)
  BY <1>0, ReusableThere, Changes DEF Past, ReuseAll, NextBatch, Shape, Fields, ReusableModule
<1>3. pc' # "idle" => pc # "idle" /\ history' = history
  <2>1. pc = "idle" => pc' = "idle"
    BY <1>0, ShadowChanges
  <2>2. Finish => pc' = "idle"
    BY DEF Finish
  <2> QED BY <1>0, <2>1, <2>2, Changes
<1>4. pc' = "idle" => b' = b
  BY <1>0, StopsAsItIs
<1>5. \A k \in 0..Len(history) : OwnBuilds(k)' = OwnBuilds(k)
                                 /\ FromBuild(k, Components)' = FromBuild(k, Components)
  BY OwnStays, FromStays
<1>6. ASSUME b'.macros, pc # "idle", NEW r \in b'.conflicts
      PROVE  r.of \notin OwnBuilds(ReusableModule)
  <2>1. CASE b.macros /\ b'.conflicts = b.conflicts
    BY <1>6, <2>1 DEF OwnOK, Spared
  <2>2. CASE BuildMacros
    <3>1. CASE b.macros
      <4>1. b'.conflicts = b.conflicts
        BY <1>0, <2>2, <3>1 DEF BuildMacros, Shape, Fields
      <4> QED BY <2>1, <3>1, <4>1
    <3>2. CASE ~b.macros
      <4>1. b'.conflicts = MacroConflicts(T, R, b.br, Self, OwnBuilds(ReusableModule),
                                          b.ursine, b.collisions)
        BY <1>0, <1>6, <2>2, <3>2, ZenonT(60) DEF BuildMacros, Shape, Fields
      <4> QED BY <1>2, <1>6, <4>1, MacrosSpare
    <3> QED BY <3>1, <3>2
  <2> QED BY <1>0, <1>6, <2>1, <2>2, ShadowChanges
<1>7. ASSUME b'.macros, pc' # "idle" PROVE Spared(ReusableModule)'
  <2>1. ReusableModule' = ReusableModule
    BY <1>3, <1>7, ReusableStays
  <2>2. OwnBuilds(ReusableModule)' = OwnBuilds(ReusableModule)
    <3>1. PICK k \in 0..Len(history) : k = ReusableModule
      BY <1>2
    <3>2. OwnBuilds(k)' = OwnBuilds(k)
      BY <1>5
    <3> QED BY <2>1, <3>1, <3>2
  <2> QED BY <1>3, <1>6, <1>7, <2>2 DEF Spared
<1>8. ASSUME b'.macros, b'.reused # 0 PROVE Spared(b.reused)'
  <2>1. PICK k \in 0..Len(history) : k = b'.reused
    BY <1>2
  <2>2. OwnBuilds(k)' = OwnBuilds(k)
    BY <1>5
  <2>3. CASE pc # "idle"
    <3>1. ReusableModule = k
      BY <1>2, <1>8, <2>1
    <3>2. \A r \in b'.conflicts : r.of \notin OwnBuilds(k)
      BY <1>6, <1>8, <2>3, <3>1
    <3> QED BY <2>1, <2>2, <3>2 DEF Spared
  <2>4. CASE pc = "idle"
    <3>1. b' = b
      BY <1>0, <2>4, ShadowChanges
    <3>2. \A r \in b.conflicts : r.of \notin OwnBuilds(k)
      BY <1>8, <2>1, <3>1 DEF OwnOK, Spared
    <3> QED BY <2>1, <2>2, <3>1, <3>2 DEF Spared
  <2> QED BY <2>3, <2>4
<1>9. ASSUME NEW c \in Components, b'.reused = b.reused, FromReused(c) PROVE FromReused(c)'
  <2>1. PICK k \in 0..Len(history) : k = b.reused
    BY <1>2
  <2>2. FromBuild(k, Components)' = FromBuild(k, Components)
    BY <1>5
  <2> QED BY <1>9, <2>1, <2>2 DEF FromReused
<1>10. ASSUME pc' # "idle", NEW c \in Components, NEW k \in DOMAIN history,
              NEW d \in DOMAIN history[k].rows,
              b'.rows[c].built # 0, b'.rows[c].built = history[k].rows[d].built
       PROVE  FromReused(c)'
  <2>1. CASE b'.rows[c].built = b.rows[c].built
    <3>1. FromReused(c)
      BY <1>3, <1>10, <2>1 DEF OwnOK
    <3>2. b'.reused = b.reused
      BY <1>2, <3>1 DEF FromReused
    <3> QED BY <1>9, <3>1, <3>2
  <2>2. CASE BuildBatch /\ c \in b.todo
    <3>1. b'.rows[c].built \in (Len(artifacts) + 1)..Len(artifacts')
      BY <1>0, <2>2, BatchBuilt
    <3>2. history[k].rows[d].built \in 0..Len(artifacts)
      BY <1>0 DEF Past, RowsOK, RowOK
    <3> QED BY <1>0, <1>10, <3>1, <3>2
  <2>3. CASE \E C : /\ c \in FromBuild(ReusableModule, C) /\ ReusableModule # 0
                    /\ b'.reused = ReusableModule
    <3>1. c \in FromBuild(ReusableModule, Components) /\ ReusableModule # 0
      BY <2>3 DEF FromBuild, Raising
    <3>2. PICK j \in 0..Len(history) : j = ReusableModule
      BY <1>2
    <3>3. FromBuild(j, Components)' = FromBuild(j, Components)
      BY <1>5
    <3> QED BY <2>3, <3>1, <3>2, <3>3 DEF FromReused
  <2> QED BY <1>0, <2>1, <2>2, <2>3, GetsBuilt
<1>11. ASSUME NEW c \in Components, b'.reused # 0, b'.rows[c].built # 0,
              c \in DOMAIN history'[b'.reused].rows,
              b'.rows[c].built = history'[b'.reused].rows[c].built
       PROVE  FromReused(c)'
  <2>1. b'.reused \in DOMAIN history /\ history'[b'.reused] = history[b'.reused]
    BY <1>0, <1>2, <1>11, HistoryStays
  <2>2. CASE pc' # "idle"
    BY <1>10, <1>11, <2>1, <2>2
  <2>3. CASE pc' = "idle"
    <3>1. FromReused(c)
      BY <1>4, <1>11, <2>1, <2>3 DEF OwnOK
    <3> QED BY <1>4, <1>9, <2>3, <3>1
  <2> QED BY <2>2, <2>3
<1>12. \A n \in DOMAIN b'.br : b'.br[n] \in Nat /\ (b'.br[n] > 100 => n = Self)
  BY <1>1 DEF OwnOK
<1>13. \A r \in b'.ursine \cup b'.collisions : r.of \notin Nat
  BY <1>1 DEF OwnOK
<1>14. pc' # "idle" =>
         \A c \in Components', k \in DOMAIN history' : \A d \in DOMAIN history'[k].rows :
           b'.rows[c].built # 0 /\ b'.rows[c].built = history'[k].rows[d].built => FromReused(c)'
  BY <1>1, <1>3, <1>10
<1>15. \A c \in Components' :
         b'.reused # 0 /\ b'.rows[c].built # 0 /\ c \in DOMAIN history'[b'.reused].rows
         /\ b'.rows[c].built = history'[b'.reused].rows[c].built => FromReused(c)'
  BY <1>1, <1>11
<1> QED BY <1>7, <1>8, <1>12, <1>13, <1>14, <1>15 DEF OwnOK

(* Every step keeps what is taken over installable.                         *)
LEMMA OwnNext == ASSUME Typed, Shadowed, OwnOK, [Next]_vars PROVE OwnOK'
<1>0. /\ Shape /\ Staged /\ Past /\ Recorded1 /\ DOMAIN b = Fields
      /\ {"br", "sub", "ursine", "collisions", "macros", "rows", "reused"} \subseteq Fields
  BY DEF Typed, Shape, Fields
<1>1. CASE Submit /\ b' = b /\ pc' = pc
  <2>1. pc = "idle" /\ history' = history /\ artifacts' = artifacts
    BY <1>1 DEF Submit
  <2>2. \A k : OwnBuilds(k)' = OwnBuilds(k) /\ FromBuild(k, Components)' = FromBuild(k, Components)
    BY <1>1, <2>1 DEF OwnBuilds, FromBuild, Raising, View, Components
  <2>3. (b.macros /\ b.reused # 0 => Spared(b.reused))'
    BY <1>1, <2>2 DEF OwnOK, Spared
  <2>4. \A c : FromReused(c)' <=> FromReused(c)
    BY <1>1, <2>2 DEF FromReused
  <2> QED BY <1>1, <2>1, <2>3, <2>4 DEF OwnOK, Components
<1>2. CASE Submit /\ b' = New(Head(todo))
  <2>1. Head(todo) \in Submissions
    BY <1>2 DEF Submit, Typed, Planned
  <2>2. /\ b'.br = Head(todo).br /\ b'.ursine = {} /\ b'.collisions = {} /\ b'.macros = FALSE
        /\ b'.rows = NoRows /\ DOMAIN NoRows = {}
    BY <1>2 DEF New, NoRows
  <2>3. \A n \in DOMAIN b'.br : b'.br[n] \in Nat /\ (b'.br[n] > 100 => n = Self)
    BY <2>1, <2>2, ProductionAssumption
  <2> QED BY <2>2, <2>3 DEF OwnOK, Components
<1>3. CASE ~Submit /\ b.stage # "init"
  BY <1>3, OwnSettled
<1>4. CASE ~Submit /\ b.stage = "init"
  <2>1. \A c \in Components' : b'.rows[c].built = 0
    BY <1>0, <1>4, InitUnbuilt DEF Components
  <2>2. ~b'.macros
    <3>1. ~b.macros /\ ~BuildMacros
      BY <1>0, <1>4 DEF Shadowed, BuildMacros, Staged
    <3> QED BY <1>0, <1>4, <3>1, ShadowChanges
  <2>3. \A n \in DOMAIN b'.br : b'.br[n] \in Nat /\ (b'.br[n] > 100 => n = Self)
    <3>1. CASE AddDefaultModules /\ b' # b
      <4>1. PICK d \in WithDefaults(T, b.br) : b' = [b EXCEPT !.br = d, !.added = d # b.br]
        BY <3>1 DEF AddDefaultModules
      <4>2. b'.br = d
        BY <1>0, <4>1
      <4> QED BY <1>0, <4>2, AddedNames DEF OwnOK
    <3>2. CASE Redo
      <4>1. b'.br = b.sub.br /\ b.sub \in Submissions
        BY <1>0, <3>2 DEF Redo, Restarted, Typed, Planned
      <4> QED BY <4>1, ProductionAssumption
    <3>3. CASE b'.br = b.br
      BY <3>3 DEF OwnOK
    <3> QED BY <1>0, <1>4, <3>1, <3>2, <3>3, Changes
  <2>4. \A r \in b'.ursine \cup b'.collisions : r.of \notin Nat
    <3>1. CASE Save
      <4>1. /\ pc # "idle" /\ b'.collisions = Collisions(R, b.br)
            /\ b'.ursine = {} \/ b'.ursine = UrsineRpms(T, R, b.br)
        BY <1>0, <3>1 DEF Save, Buildrequires
      <4>2. Range(b.br) \subseteq Ids
        BY <4>1 DEF Shadowed
      <4> QED BY <1>0, <4>1, <4>2, OthersConflict DEF OwnOK
    <3>2. CASE ~Save
      BY <1>0, <1>4, <3>2, ShadowChanges DEF OwnOK
    <3> QED BY <3>1, <3>2
  <2> QED BY <2>1, <2>2, <2>3, <2>4 DEF OwnOK
<1> QED BY <1>1, <1>2, <1>3, <1>4 DEF Submit

(* module-build-macros never conflicts with an RPM of a component that the  *)
(* build takes over, where it buildrequires an older build of itself.       *)
THEOREM OwnRpmsInstallableHolds == Spec => []OwnRpmsInstallable
<1>1. Init => OwnOK /\ Shadowed
  <2> SUFFICES ASSUME Init PROVE OwnOK /\ Shadowed
    OBVIOUS
  <2>1. b.sub \in Submissions /\ b.br = b.sub.br
    BY TypedInit DEF Typed, Planned, Init, New
  <2>2. /\ b.ursine = {} /\ b.collisions = {} /\ b.macros = FALSE /\ b.rows = NoRows
        /\ DOMAIN NoRows = {} /\ pc = "idle" /\ b.stage = "init"
    BY DEF Init, New, NoRows
  <2>3. \A n \in DOMAIN b.br : b.br[n] \in Nat /\ (b.br[n] > 100 => n = Self)
    BY <2>1, ProductionAssumption
  <2> QED BY <2>2, <2>3 DEF OwnOK, Components, Shadowed
<1>2. Typed /\ Shadowed /\ OwnOK /\ [Next]_vars => OwnOK' /\ Shadowed'
  BY OwnNext, ShadowedNext
<1>3. OwnOK => OwnRpmsInstallable
  <2> SUFFICES ASSUME OwnOK, b.macros, NEW c \in Components, b.reused # 0, b.rows[c].built # 0,
                      c \in DOMAIN history[b.reused].rows,
                      b.rows[c].built = history[b.reused].rows[c].built,
                      NEW r \in RpmsOf({b.rows[c].built})
               PROVE  r \notin b.conflicts
    BY DEF OwnRpmsInstallable
  <2>1. r.of = b.rows[c].built
    BY SMTT(60) DEF RpmsOf
  <2>2. c \in FromBuild(b.reused, Components)
    BY DEF OwnOK, FromReused
  <2>3. r.of \in OwnBuilds(b.reused)
    BY <2>1, <2>2 DEF OwnBuilds
  <2> QED BY <2>3 DEF OwnOK, Spared
<1> QED BY <1>1, <1>2, <1>3, TypedAlways, PTL DEF Spec
=============================================================================
