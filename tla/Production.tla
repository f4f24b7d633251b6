----------------------------- MODULE Production -----------------------------
(***************************************************************************)
(* The builds of one module, one after the other: what the init, wait and  *)
(* repo handlers record of a build (Recording), put into its build root    *)
(* (Content), take over from an earlier build (Reuse) and import into Koji *)
(* when all is built (ContentGenerator). A worker may be killed between    *)
(* any two of their calls, after which the poller has the handler called   *)
(* again; a failed build may be submitted again; branches move.            *)
(*                                                                         *)
(* When handlers are called, what fails components and the concurrency of  *)
(* several modules are ModuleBuild's.                                      *)
(***************************************************************************)
EXTENDS Content, Reuse, ContentGenerator

CONSTANTS
  Self, SelfStream,  \* the module
  Table, Rpms,       \* other module builds, and the RPMs in their tags
  Plans,             \* the sequences of submissions to look at
  Heads,             \* the first commit on the branch of each component
  IncludedMmd,       \* IncludedMmd[n][c]: the modulemd of module n at commit c
  Makes,             \* Makes[p]: the RPMs built from package p
  Configured,        \* conf.base_module_arches: Configured[<<name, stream>>]
  Privileged,        \* conf.allowed_privileged_module_names, a sequence
  DefaultArches,     \* conf.arches
  Groups,            \* the build root's groups and their packages
  CgTag, CgTags,     \* the tag for builds on a base stream; those Koji has
  CgDefault,         \* conf.koji_cg_default_build_tag
  MaxRestarts, MaxMoves

(* A submission has                                                         *)
(*   mmd       its modulemd (Recording), with macros, whitelist, filters    *)
(*   br        the ids of the modules MSE picked; app |-> SelfId(k) for the *)
(*             k-th build of this module                                    *)
(*   strategy, reuse (the k-th build if it is to be reused, or 0), arches,  *)
(*   blocked   mbs_options.blocked_packages                                 *)
(*   srpms     the packages with a custom SRPM;  scmurl, scratch            *)
Submissions == UNION {Range(p) : p \in Plans}
Modulemds   == {s.mmd : s \in Submissions}
                 \cup UNION {Range(IncludedMmd[n]) : n \in DOMAIN IncludedMmd}

(* There is no build to reuse before the first; a branch has some of the    *)
(* commits there are; every buildorder is a number, and not NoOrder; a      *)
(* modulemd has its packages and its modules by their names, and they are   *)
(* not the same; the default modules are finite, and no base modules; every *)
(* module in the table has an id of its own, none of this module's, a       *)
(* version and a tag, and its RPMs are from other builds; packages are made *)
(* of every component, and the source is no debug package. Only under its   *)
(* own name is a build of this module, which is no base module,             *)
(* buildrequired, and it is not in ursine content.                          *)
ASSUME ProductionAssumption ==
  /\ MaxRestarts \in Nat /\ MaxMoves \in Nat
  /\ \A p \in Plans : p \in Seq(Submissions) /\ p # <<>> /\ p[1].reuse = 0
  /\ \A s \in Submissions : IsFiniteSet(DOMAIN s.br)
  /\ \A s \in Submissions : \A n \in DOMAIN s.br : s.br[n] \in Nat /\ (s.br[n] > 100 => n = Self)
  /\ Self \notin BaseModule
  /\ \A d \in DOMAIN DefaultModules : /\ IsFiniteSet(DOMAIN DefaultModules[d])
                                     /\ DOMAIN DefaultModules[d] \cap BaseModule = {}
  /\ \A m \in Modulemds :
       /\ \A c \in m.rpms \cup m.modules : c.order \in Int \ {NoOrder}
       /\ \A c \in m.modules : c.name \in DOMAIN IncludedMmd \ {None}
       /\ \A C \in {m.rpms, m.modules} : \A c, d \in C : c.name = d.name => c = d
       /\ m.rpms \cap m.modules = {}
       /\ Names(m) \subseteq DOMAIN Makes
  /\ Heads \in [DOMAIN Heads -> Nat] /\ DOMAIN IncludedMmd \subseteq DOMAIN Heads
  /\ \A n \in DOMAIN IncludedMmd : /\ IncludedMmd[n] \in Seq(Range(IncludedMmd[n]))
                                   /\ Heads[n] <= Len(IncludedMmd[n])
  /\ \A r \in Table : r.id \in 1..100 /\ r.version \in Int /\ r.ursine \subseteq 1..100
  /\ \A r, q \in Table : r.id = q.id => r = q
  /\ {r.id : r \in Table} = DOMAIN Rpms
  /\ \A i \in DOMAIN Rpms : \A r \in Rpms[i] : r.of \notin Nat
  /\ Groups = [g \in DOMAIN Groups |-> Groups[g]]
  /\ \A p \in DOMAIN Makes : \A m \in Makes[p] : m.arch = "src" => m.main = None

VARIABLES
  todo,       \* the submissions to come
  pc,         \* the next call of the handler
  b,          \* the build: see New
  koji,       \* its tags: see NoTags
  artifacts,  \* the builds of packages in Koji: [package, made]
  history,    \* the builds that became ready
  heads,      \* the commit on the branch of each component, or NoCommit
  faults      \* how often a worker was killed, and a branch moved

vars == <<todo, pc, b, koji, artifacts, history, heads, faults>>

-----------------------------------------------------------------------------
(* The builds of this module, as rows of the table.                         *)

SelfId(k) == 100 + k

HistoryRow(k) ==
  LET h == history[k]
  IN [id |-> SelfId(k), name |-> Self, stream |-> SelfStream, version |-> k, context |-> "c",
      state |-> "ready", scratch |-> FALSE, virtual |-> {}, req |-> {}, runtime |-> {},
      br |-> {h.asked[n] : n \in DOMAIN h.asked \cap BaseModule}, tag |-> h.tag,
      defaults |-> FALSE, filters |-> h.mmd.filters, arches |-> h.arches, ursine |-> {}]
T == Table \cup {HistoryRow(k) : k \in DOMAIN history}

RpmsOf(built) ==
  UNION {{[name |-> m.name, arch |-> m.arch, main |-> m.main,
           srpm |-> artifacts[a].package, of |-> a] : m \in Makes[artifacts[a].package]} :
         a \in built}
BuiltOf(rows) == {rows[c].built : c \in DOMAIN rows}
RpmsIn(i) == IF i \in DOMAIN Rpms THEN Rpms[i] ELSE RpmsOf(BuiltOf(history[i - 100].rows))
R == [i \in {r.id : r \in T} |-> RpmsIn(i)]

NoRows == [c \in {} |-> 0]
View == [strategy |-> b.sub.strategy, rows |-> b.rows, mmd |-> b.sub.mmd]

-----------------------------------------------------------------------------
(* A new build. frames, batch, pending, refs and added are in the memory of *)
(* the init handler; placed is only for the properties: the packages it has *)
(* recorded, and their place.                                               *)

New(s) ==
  [sub |-> s, stage |-> "init", then |-> "repos",
   arches |-> {}, br |-> s.br, added |-> FALSE, refs |-> NoRows, rows |-> NoRows,
   frames |-> <<>>, batch |-> InitialBatch, pending |-> NoRows, placed |-> {},
   ursine |-> {}, collisions |-> {}, conflicts |-> {}, macros |-> FALSE,
   current |-> 0, todo |-> {}, reused |-> s.reuse, existed |-> FALSE, groups |-> {}, group |-> None,
   imported |-> NoRows, tagged |-> {}]

(* The destination and the build tag of a build. The packages, the groups   *)
(* and the parents are the build tag's; rooted is the artifacts in it.      *)
NoTags == [dest |-> FALSE, build |-> FALSE, packages |-> {}, blocked |-> {}, rooted |-> {},
           groups |-> [g \in {} |-> {}], target |-> FALSE, parents |-> <<>>]

Fail == pc' = "failed"

Known(s) == /\ \A n \in DOMAIN s.br : \E r \in T : r.id = s.br[n]
            /\ s.reuse \in 0..Len(history)

Submit ==
  /\ pc = "idle" /\ todo # <<>>
  /\ todo' = Tail(todo)
  /\ IF Known(Head(todo))
     THEN b' = New(Head(todo)) /\ koji' = NoTags /\ pc' = "arches"
     ELSE UNCHANGED <<b, koji, pc>>
  /\ UNCHANGED <<artifacts, history, heads, faults>>

-----------------------------------------------------------------------------
(* The init handler.                                                        *)

OnlyBuild == UNCHANGED <<todo, koji, artifacts, history, heads, faults>>

BuildArches ==
  LET of(n)  == RowOf(T, b.br[n])
      known  == {<<n, of(n).stream>> : n \in DOMAIN b.br} \cap DOMAIN Configured
      asking == SelectSeq(Privileged \o SetToSeq(BaseModule), LAMBDA n : n \in DOMAIN b.br)
  IN FirstArches(SetToSeq({Configured[k] : k \in known}), b.sub.arches,
                 [i \in DOMAIN asking |-> of(asking[i]).arches], DefaultArches)

RecordArches ==
  /\ pc = "arches"
  /\ b' = [b EXCEPT !.arches = @ \cup BuildArches]
  /\ pc' = "defaults"
  /\ OnlyBuild

AddDefaultModules ==
  /\ pc = "defaults"
  /\ IF DefaultsFail(T, b.br) THEN Fail /\ UNCHANGED b
     ELSE \E d \in WithDefaults(T, b.br) :
            LET new == {RowOf(T, d[n]) : n \in DOMAIN d \ DOMAIN b.br}
            IN IF ~Resolvable(T, new) THEN Fail /\ UNCHANGED b
               ELSE b' = [b EXCEPT !.br = d, !.added = d # b.br] /\ pc' = "format"
  /\ OnlyBuild

FormatMain ==
  /\ pc = "format"
  /\ LET m == b.sub.mmd
     IN IF IsEmpty(m) THEN pc' = "save" /\ UNCHANGED b
        ELSE IF Forbidden(m) \/ Unresolved(m, heads, b.sub.srpms) THEN Fail /\ UNCHANGED b
        ELSE /\ b' = [b EXCEPT !.refs = Refs(m, heads, b.sub.srpms),
                               !.frames = <<Frame(m, NoOrder, <<>>)>>]
             /\ pc' = "record"
  /\ OnlyBuild

Top  == Head(b.frames)
InRecord == pc = "record" /\ b.frames # <<>>
Place(item, of) == Append(Top.place, [order |-> item.order, of |-> of])
Advanced(item) ==
  <<[Top EXCEPT !.todo = @ \ {item}, !.prev = item.order]>> \o Tail(b.frames)

RecordPackage ==
  /\ InRecord
  /\ \E item \in Nexts(Top) \cap Top.of.rpms :
       LET c     == item.name
           batch == BatchOf(Top, item, b.batch)
           known == Overlay(b.pending, b.rows)
           row   == [batch |-> batch, ref |-> b.refs[c], built |-> 0]
       IN IF \/ Uncountable(Top, item, b.batch)
             \/ c \in DOMAIN known /\ Differs(known[c], batch, b.refs[c])
          THEN Fail /\ UNCHANGED b
          ELSE /\ b' = [b EXCEPT !.frames = Advanced(item), !.batch = batch,
                                 !.pending = Overlay(@, [d \in {c} \ DOMAIN known |-> row]),
                                 !.placed = @ \cup {[name |-> c, place |-> Place(item, None)]}]
               /\ UNCHANGED pc
  /\ OnlyBuild

(* While the branches of its components are looked up, format_mmd may       *)
(* commit, and with it what has been recorded so far.                       *)
IncludeModule ==
  /\ InRecord
  /\ \E item \in Nexts(Top) \cap Top.of.modules :
       LET n     == item.name
           batch == BatchOf(Top, item, b.batch)
           inc   == IncludedMmd[n][heads[n]]
           saved == [b EXCEPT !.rows = Overlay(b.pending, @), !.pending = NoRows]
       IN IF Uncountable(Top, item, b.batch) \/ heads[n] = NoCommit THEN Fail /\ UNCHANGED b
          ELSE IF Forbidden(inc) THEN Fail /\ UNCHANGED b
          ELSE \E waited \in IF IsEmpty(inc) THEN {FALSE} ELSE BOOLEAN :
            LET s == IF waited THEN saved ELSE b
            IN IF Unresolved(inc, heads, b.sub.srpms) \/ Names(inc) \cap Names(b.sub.mmd) # {}
               THEN Fail /\ b' = s
               ELSE /\ UNCHANGED pc
                    /\ b' = IF IsEmpty(inc)
                            THEN [s EXCEPT !.frames = Advanced(item), !.batch = NoBatch]
                            ELSE [s EXCEPT !.batch = batch,
                                           !.refs = Overlay(Refs(inc, heads, b.sub.srpms), @),
                                           !.frames =
                                             <<Frame(inc, item.order, Place(item, n))>>
                                               \o Advanced(item)]
  /\ OnlyBuild

EndOfModule ==
  /\ InRecord /\ Top.todo = {}
  /\ b' = [b EXCEPT !.frames = Tail(@)]
  /\ pc' = IF Tail(b.frames) = <<>> THEN "save" ELSE pc
  /\ OnlyBuild

(* Mutant: the buildrequires of the modulemd as it was submitted.           *)
Asked         == b.sub.br
Buildrequires == b.br

Save ==
  /\ pc = "save"
  /\ b' = [b EXCEPT !.rows = Overlay(b.pending, @), !.pending = NoRows, !.stage = "wait",
                    !.ursine = IF b.added THEN {} ELSE UrsineRpms(T, R, b.br),
                    !.collisions = Collisions(R, Buildrequires), !.then = "repos"]
  /\ pc' = "look"
  /\ OnlyBuild

-----------------------------------------------------------------------------
(* buildroot_connect: every handler that makes a builder calls it.          *)

OnlyTags == UNCHANGED <<todo, artifacts, history, heads, faults>>

LookForTag ==
  /\ pc = "look"
  /\ b' = [b EXCEPT !.existed = koji.build]
  /\ pc' = "dest tag"
  /\ UNCHANGED koji /\ OnlyTags

CreateTag ==
  /\ pc \in {"dest tag", "build tag"}
  /\ IF pc = "dest tag" THEN koji' = [koji EXCEPT !.dest = TRUE]
                        ELSE koji' = [koji EXCEPT !.build = TRUE]
  /\ pc' = IF pc = "dest tag" THEN "build tag" ELSE "whitelist"
  /\ UNCHANGED b /\ OnlyTags

Components == DOMAIN b.rows
ToWhitelist == IF b.sub.mmd.whitelist # {} THEN b.sub.mmd.whitelist ELSE Components

(* Mutant: packages are blocked whenever the build root is connected.       *)
AlwaysNew == TRUE
NewTag == ~b.existed

WhitelistPackages ==
  /\ pc = "whitelist"
  /\ koji' = [koji EXCEPT !.packages = @ \cup ToWhitelist]
  /\ pc' = "block"
  /\ UNCHANGED b /\ OnlyTags

BlockPackages ==
  /\ pc = "block"
  /\ koji' = IF NewTag THEN [koji EXCEPT !.blocked = @ \cup b.sub.blocked] ELSE koji
  /\ b' = [b EXCEPT !.groups = DOMAIN Groups \ DOMAIN koji.groups]
  /\ pc' = "groups"
  /\ OnlyTags

AddGroup ==
  /\ pc = "groups" /\ b.groups # {}
  /\ \E g \in b.groups : /\ koji' = [koji EXCEPT !.groups = Overlay(@, [h \in {g} |-> {}])]
                         /\ b' = [b EXCEPT !.groups = @ \ {g}, !.group = g]
  /\ pc' = "group packages"
  /\ OnlyTags

AddGroupPackages ==
  /\ pc = "group packages"
  /\ koji' = [koji EXCEPT !.groups[b.group] = Groups[b.group]]
  /\ pc' = "groups"
  /\ UNCHANGED b /\ OnlyTags

AddTarget ==
  /\ pc = "groups" /\ b.groups = {}
  /\ koji' = [koji EXCEPT !.target = TRUE]
  /\ pc' = b.then
  /\ UNCHANGED b /\ OnlyTags

-----------------------------------------------------------------------------
(* The wait handler.                                                        *)

(* Mutant: tags the build tag inherits from already are added again.        *)
AllParents == Range(b.br)
NewParents == Range(b.br) \ Range(koji.parents)

AddRepos ==
  /\ pc = "repos"
  /\ koji' = [koji EXCEPT !.parents = @ \o SetToSeq(NewParents)]
  /\ pc' = "reuse"
  /\ UNCHANGED b /\ OnlyTags

(* get_reusable_module: the newest on the first base there is one for.      *)
AskedPair == [br |-> [n \in DOMAIN b.sub.br |-> {RowOf(T, b.sub.br[n]).stream}], req |-> <<>>]
ReuseBases ==
  IF OnlyCompatible THEN ByStream(BaseModules(T, <<AskedPair>>).ready)
  ELSE SetToSeq({RowOf(T, b.sub.br[n]) : n \in DOMAIN b.sub.br \cap BaseModule})

Fits(k, base) ==
  LET h == history[k]
  IN IF base.tag # None
     THEN /\ HistoryRow(k) \in KojiBuildrequired(T, Self, SelfStream, base)
          /\ BuildContextNoBms(T, h.asked) = BuildContextNoBms(T, b.sub.br)
     ELSE /\ base.name \in DOMAIN b.br
          /\ BuildContext(T, h.asked) = [BuildContext(T, b.br) EXCEPT ![base.name] = base.stream]

ReusableOn(base) ==
  {k \in DOMAIN history : history[k].scmurl /\ Fits(k, base) /\ StrategyAllows(View, history[k])}

(* The newest of the first that is not empty.                               *)
FirstNewest(on) ==
  {k \in UNION Range(on) : \E i \in DOMAIN on : /\ k \in on[i] /\ \A l \in on[i] : l <= k
                                               /\ \A j \in DOMAIN on : j < i => on[j] = {}}
ReusableIn(bases) ==
  LET fit == FirstNewest([i \in DOMAIN bases |-> ReusableOn(bases[i])])
  IN IF fit = {} THEN 0 ELSE CHOOSE k \in fit : TRUE
ReusableModule == IF b.reused # 0 THEN b.reused ELSE ReusableIn(ReuseBases)

(* Of the components C, those that can be taken over from build k.          *)
Raising(k, C)   == IF k = 0 THEN {} ELSE {c \in C : Raises(View, history[k], c)}
FromBuild(k, C) ==
  IF k = 0 THEN {} ELSE {c \in C \ Raising(k, C) : Reusable(View, history[k], c)}

Taken(C, k) == [c \in Components |-> IF c \in C THEN [b.rows[c] EXCEPT !.built = history[k].rows[c].built]
                                              ELSE b.rows[c]]
Rooted(C) == [koji EXCEPT !.rooted = @ \cup C, !.blocked = @ \ C]

(* attempt_to_reuse_all_components looks at one component after another, in *)
(* any order, until one cannot be reused or raises.                         *)
ReuseAll ==
  /\ pc = "reuse"
  /\ \E k \in {ReusableModule} :
     LET raising == Raising(k, Components)
         left    == Components \ (FromBuild(k, Components) \cup raising)
     IN \/ /\ Components = {}
           /\ b' = [b EXCEPT !.stage = "build", !.then = "batch"]
           /\ pc' = "look" /\ UNCHANGED koji
        \/ /\ Components # {} /\ k # 0 /\ left = {} /\ raising = {}
           /\ b' = [b EXCEPT !.reused = k, !.rows = Taken(Components, k), !.stage = "build",
                             !.then = "batch",
                             !.current = Max({@} \cup {b.rows[c].batch : c \in Components})]
           /\ koji' = Rooted(Components)
           /\ pc' = "look"
        \/ /\ raising # {}
           /\ b' = [b EXCEPT !.reused = k] /\ Fail /\ UNCHANGED koji
        \/ /\ left # {}
           /\ b' = [b EXCEPT !.reused = k] /\ pc' = "macros" /\ UNCHANGED koji
  /\ OnlyTags

(* Mutant: the RPMs of this module are like those of any other.             *)
NoneOwn(k)   == {}
OwnBuilds(k) == {history[k].rows[c].built : c \in FromBuild(k, Components)}

BuildMacros ==
  /\ pc = "macros"
  /\ \E k \in {ReusableModule} :
     IF Self \in DOMAIN b.br /\ Raising(k, Components) # {}
     THEN Fail /\ b' = [b EXCEPT !.current = 1] /\ UNCHANGED koji
     ELSE /\ b' = [b EXCEPT !.current = 1, !.macros = TRUE, !.stage = "build", !.then = "batch",
                            !.conflicts = IF b.macros THEN @
                                          ELSE MacroConflicts(T, R, b.br, Self, OwnBuilds(k),
                                                              b.ursine, b.collisions)]
          /\ koji' = [koji EXCEPT !.packages = @ \cup {"module-build-macros"}]
          /\ pc' = "look"
  /\ OnlyTags

-----------------------------------------------------------------------------
(* The repo handler: the next batch, or the end.                            *)

Unbuilt == {c \in Components : b.rows[c].built = 0}
Later   == {i \in {b.rows[c].batch : c \in Unbuilt} : i > b.current}

(* all_reused_in_prev_batch is about every component of the module, so with *)
(* changed-and-after nothing is taken over after batch 2.                   *)
TriesReuse(batch) == b.sub.strategy = Strict => batch - 1 = 1

NextBatch ==
  /\ pc = "batch" /\ Unbuilt # {}
  /\ IF Later = {} THEN Fail /\ UNCHANGED <<b, koji>>    \* RecursionError
     ELSE LET batch == Min(Later)
              C     == {c \in Unbuilt : b.rows[c].batch = batch}
              k     == IF TriesReuse(batch) THEN ReusableModule ELSE 0
              taken == FromBuild(k, C)
          IN IF Raising(k, C) # {} THEN Fail /\ UNCHANGED <<b, koji>>
             ELSE /\ b' = [b EXCEPT !.current = batch, !.rows = Taken(taken, k),
                                    !.reused = IF k = 0 THEN @ ELSE k, !.todo = C \ taken]
                  /\ koji' = [Rooted(taken) EXCEPT !.packages = @ \cup C]
                  /\ pc' = IF C = taken THEN "look" ELSE "build"
  /\ OnlyTags

(* The tasks of a batch end, and their builds are tagged.                   *)
BuildBatch ==
  /\ pc = "build"
  /\ LET order == SetToSeq(b.todo)
         at(c) == Len(artifacts) + (CHOOSE i \in DOMAIN order : order[i] = c)
     IN /\ artifacts' = artifacts \o [i \in DOMAIN order |-> [package |-> order[i],
                                                             made |-> MadeFrom(View, order[i])]]
        /\ b' = [b EXCEPT !.rows = [c \in Components |-> IF c \in b.todo
                                      THEN [@[c] EXCEPT !.built = at(c)] ELSE @[c]],
                          !.todo = {}]
  /\ koji' = Rooted(b.todo)
  /\ pc' = "look"
  /\ UNCHANGED <<todo, history, heads, faults>>

-----------------------------------------------------------------------------
(* finalize: the module and its -devel module are imported into Koji.       *)

DestRpms == RpmsOf(BuiltOf(b.rows))
Mmd == b.sub.mmd
ListOf(d) == [a \in b.arches |-> IF d = "devel" THEN DevelArtifacts(Mmd, DestRpms, a)
                                                ELSE Artifacts(Mmd, DestRpms, a)]

Finalize ==
  /\ pc = "batch" /\ Unbuilt = {}
  /\ pc' = IF b.sub.scratch THEN "done" ELSE "module"
  /\ UNCHANGED b /\ OnlyBuild

(* A build that is in Koji already stays as it is.                          *)
Import ==
  /\ pc \in {"module", "devel"}
  /\ b' = [b EXCEPT !.imported = Overlay(@, [d \in {pc} |-> ListOf(d)])]
  /\ pc' = IF pc = "module" THEN "tag module" ELSE "tag devel"
  /\ OnlyBuild

TagToTry == IF HasBase(b.br) THEN CgTag[RowOf(T, b.br[BaseOf(b.br)]).stream] ELSE CgDefault
TagFound == CASE TagToTry \in CgTags -> TagToTry
              [] TagToTry \notin CgTags /\ CgDefault \in CgTags -> CgDefault
              [] OTHER -> None

(* Mutant: what was imported before is not tagged.                          *)
JustImported(d) == IF faults.restarts > 0 THEN {} ELSE {d}
ToTag(d) == {d}

TagImported ==
  /\ pc \in {"tag module", "tag devel"}
  /\ LET d == IF pc = "tag module" THEN "module" ELSE "devel"
     IN /\ b' = IF TagFound = None THEN b ELSE [b EXCEPT !.tagged = @ \cup ToTag(d)]
        /\ pc' = IF d = "module" THEN "devel" ELSE "done"
  /\ OnlyBuild

Finish ==
  /\ pc = "done"
  /\ history' = IF b.sub.scratch THEN history
                ELSE Append(history,
                       [strategy |-> b.sub.strategy, rows |-> b.rows, mmd |-> Mmd,
                        asked |-> b.sub.br, told |-> b.sub.reuse, arches |-> b.arches,
                        scmurl |-> b.sub.scmurl,
                        tag |-> IF "module" \in b.tagged THEN TagFound ELSE None])
  /\ pc' = "idle"
  /\ UNCHANGED <<todo, b, koji, artifacts, heads, faults>>

-----------------------------------------------------------------------------
(* Faults.                                                                  *)

(* What the handler of the build's state starts from.                       *)
Restarted ==
  IF b.stage = "init"
  THEN [b EXCEPT !.br = b.sub.br, !.added = FALSE, !.refs = NoRows, !.frames = <<>>,
                 !.batch = InitialBatch, !.pending = NoRows, !.placed = {}]
  ELSE [b EXCEPT !.then = IF b.stage = "wait" THEN "repos" ELSE "batch", !.todo = {}]

Restart(x) ==
  /\ faults.restarts < MaxRestarts
  /\ faults' = [faults EXCEPT !.restarts = @ + 1]
  /\ b' = x
  /\ pc' = IF b.stage = "init" THEN "arches" ELSE "look"
  /\ UNCHANGED <<todo, koji, artifacts, history, heads>>

Running == pc \notin {"idle", "failed"}

(* The worker is killed; the tasks of a batch are not.                      *)
Crash == Running /\ pc # "build" /\ Restart(Restarted)

(* A call to Koji that fails while groups are added is made again from the  *)
(* start of _koji_add_groups_to_tag.                                        *)
RetryGroups ==
  /\ pc = "group packages" /\ faults.restarts < MaxRestarts
  /\ faults' = [faults EXCEPT !.restarts = @ + 1]
  /\ pc' = "groups"
  /\ UNCHANGED <<todo, b, koji, artifacts, history, heads>>

(* A component cannot be built.                                             *)
FailBuild ==
  /\ pc = "build" /\ faults.restarts < MaxRestarts
  /\ Fail
  /\ UNCHANGED <<todo, b, koji, artifacts, history, heads, faults>>

Resubmit ==
  /\ pc = "failed"
  /\ Restart(IF b.stage = "init" THEN Restarted
             ELSE [b EXCEPT !.then = "repos", !.stage = "wait", !.todo = {}])

Abandon ==
  /\ pc = "failed" /\ pc' = "idle"
  /\ UNCHANGED <<todo, b, koji, artifacts, history, heads, faults>>

Push ==
  /\ pc \in {"idle", "format", "record", "failed"}
  /\ faults.moves < MaxMoves
  /\ faults' = [faults EXCEPT !.moves = @ + 1]
  /\ \E n \in DOMAIN heads : /\ n \in DOMAIN IncludedMmd => heads[n] < Len(IncludedMmd[n])
                             /\ heads' = [heads EXCEPT ![n] = @ + 1]
  /\ UNCHANGED <<todo, pc, b, koji, artifacts, history>>

-----------------------------------------------------------------------------
Init ==
  /\ todo \in Plans /\ heads = Heads
  /\ pc = "idle" /\ b = New(Head(todo)) /\ koji = NoTags
  /\ artifacts = <<>> /\ history = <<>>
  /\ faults = [restarts |-> 0, moves |-> 0]

InitHandler == \/ RecordArches \/ AddDefaultModules \/ FormatMain \/ RecordPackage
               \/ IncludeModule \/ EndOfModule \/ Save
Connecting  == \/ LookForTag \/ CreateTag \/ WhitelistPackages \/ BlockPackages
               \/ AddGroup \/ AddGroupPackages \/ AddTarget
WaitHandler == AddRepos \/ ReuseAll \/ BuildMacros
RepoHandler == NextBatch \/ BuildBatch \/ Finalize \/ Import \/ TagImported \/ Finish
Faults      == Crash \/ RetryGroups \/ FailBuild \/ Resubmit \/ Abandon \/ Push

Next == Submit \/ InitHandler \/ Connecting \/ WaitHandler \/ RepoHandler \/ Faults
Spec == Init /\ [][Next]_vars

-----------------------------------------------------------------------------
(* Properties.                                                              *)

InitPcs == {"arches", "defaults", "format", "record", "save"}
TagPcs  == {"look", "dest tag", "build tag", "whitelist", "block", "groups", "group packages"}
Pcs     == {"idle", "failed"} \cup InitPcs \cup TagPcs
             \cup {"repos", "reuse", "macros", "batch", "build"}
             \cup {"module", "tag module", "devel", "tag devel", "done"}

(* Batch 1 is that of module-build-macros alone: no component of a module   *)
(* is planned for it (record_component_builds).                             *)
TypeOK ==
  /\ pc \in Pcs
  /\ b.stage \in {"init", "wait", "build"}
  /\ pc \in InitPcs => b.stage = "init"
  /\ \A c \in Components : /\ b.rows[c].batch \in {NoBatch} \cup (Nat \ 0..1)
                           /\ b.rows[c].built \in 0..Len(artifacts)
  /\ b.reused \in 0..Len(history)
  /\ faults.restarts \in 0..MaxRestarts /\ faults.moves \in 0..MaxMoves

(* However often the init handler was interrupted, and whatever it had      *)
(* committed by then: what a build builds is, for each of its packages, the *)
(* commit that its final modulemd says it was resolved to.                  *)
RecordedAsResolved ==
  b.stage # "init" => \A c \in DOMAIN b.refs : c \in Components /\ b.rows[c].ref = b.refs[c]

(* Buildorder is global: a component comes in a later batch than those with *)
(* a smaller buildorder, those of an included module in the place of that   *)
(* module, among themselves in their own order, and in the batch of those   *)
(* of its module with the same. Components of modules after an empty one    *)
(* have no batch at all.                                                    *)
Precedes(p, q) == \E i \in DOMAIN p \cap DOMAIN q :
                   p[i].order < q[i].order /\ \A j \in 1..(i - 1) : p[j] = q[j]
InOrder(rows) ==
  \A p, q \in b.placed :
    LET first == rows[p.name].batch
        later == rows[q.name].batch
    IN /\ NoBatch \notin {first, later} /\ Precedes(p.place, q.place) => first < later
       /\ p.place = q.place => first = later
BatchOrder == b.stage # "init" => InOrder(b.rows)

(* A default module comes into a build only if some context of the version  *)
(* that is taken may run on the base module's stream.                       *)
DefaultsFit ==
  \A n \in DOMAIN b.br \ DOMAIN b.sub.br :
    LET got  == RowOf(T, b.br[n])
        base == RowOf(T, b.br[BaseOf(b.br)])
    IN \E r \in T, D \in UNION {q.runtime : q \in T} :
         /\ NSV(r) = NSV(got) /\ D \in r.runtime /\ base.name \in DOMAIN D
         /\ LET d == D[base.name]
            IN IF d.plus = {} THEN base.stream \notin d.minus ELSE base.stream \in d.plus

(* Once module-build-macros is made, it conflicts with every RPM of a base  *)
(* module that another module in the build root has an RPM of the name of,  *)
(* be it one that was buildrequired or one added by default.                *)
NoShadowing ==
  b.macros => \A n \in DOMAIN b.br \ BaseModule, m \in DOMAIN b.br \cap BaseModule :
                \A q \in R[b.br[n]], r \in R[b.br[m]] : q.name = r.name => r \in b.conflicts

(* With changed-and-after, each component is what a new build would have    *)
(* made it from: the commit, in its batch, after the same components of the *)
(* batches before, with the same macros and architectures. Not so if a      *)
(* build was told which one to reuse.                                       *)
NoneTold == \A i \in DOMAIN history : history[i].told = 0
ReuseSound ==
  b.sub.strategy = Strict /\ b.sub.reuse = 0 /\ NoneTold =>
    \A c \in Components : b.rows[c].built # 0
                            => artifacts[b.rows[c].built].made = MadeFrom(View, c)

(* module-build-macros never conflicts with an RPM of a component that the  *)
(* build takes over, where it buildrequires an older build of itself.       *)
OwnRpmsInstallable ==
  Self \in DOMAIN b.br /\ b.macros =>
    \A c \in Components :
      b.reused # 0 /\ b.rows[c].built # 0 /\ c \in DOMAIN history[b.reused].rows
      /\ b.rows[c].built = history[b.reused].rows[c].built
        => \A r \in RpmsOf({b.rows[c].built}) : r \notin b.conflicts

(* A package that is in the build root is not blocked there again, however  *)
(* often the build root is connected.                                       *)
NotBlockedAgain == koji.rooted \cap koji.blocked = {}

(* From the wait handler on the build tag inherits from each buildrequired  *)
(* module, once, and its components may be tagged. Packages are blocked and *)
(* groups filled if no worker was killed meanwhile.                         *)
BuildRoot ==
  pc \in {"reuse", "macros", "batch", "build"} =>
    /\ koji.dest /\ koji.build /\ koji.target
    /\ Range(koji.parents) = Range(b.br) /\ IsInjective(koji.parents)
    /\ ToWhitelist \subseteq koji.packages
    /\ faults.restarts = 0 => /\ koji.groups = Groups
                              /\ b.sub.blocked \subseteq koji.blocked \cup koji.rooted

(* The module and its -devel module share no RPM, and together they have    *)
(* every one built for the architecture.                                    *)
Split ==
  {"module", "devel"} \subseteq DOMAIN b.imported =>
    \A a \in b.arches :
      LET m == b.imported["module"][a]
          d == b.imported["devel"][a]
      IN /\ m \cap d = {}
         /\ m \cup d = Applicable(DestRpms, a) \cup Sources(DestRpms)

(* Debug information of a package comes with the package or not at all.     *)
DebugFollows ==
  "module" \in DOMAIN b.imported =>
    \A a \in b.arches :
      LET S == b.imported["module"][a]
      IN \A r \in S : IsDebug(r) /\ r.main \in NamesOf(Binaries(DestRpms))
                        => r.main \in NamesOf(S)

(* A build is not finished before what was imported of it is tagged, even   *)
(* if the worker was killed between the two.                                *)
TaggedWhenDone ==
  pc = "done" /\ ~b.sub.scratch /\ TagFound # None =>
    /\ b.tagged = {"module", "devel"}
    /\ b.tagged \subseteq DOMAIN b.imported
=============================================================================
