------------------------------ MODULE Content ------------------------------
(***************************************************************************)
(* What else comes into a module's build root, and what must stay out of   *)
(* it: default modules and collisions with base modules                    *)
(* (scheduler/default_modules.py), ursine content (scheduler/ursine.py),   *)
(* filtered RPMs (scheduler/submit.py) and the conflicts that              *)
(* module-build-macros declares (KojiModuleBuilder.get_disttag_srpm).      *)
(*                                                                         *)
(* The buildrequires br of a build: a function from names to ids of rows.  *)
(* Beyond those of Registry a row has                                      *)
(*   runtime    a set of functions from names to [plus, minus]             *)
(*   defaults   of a base module, whether default modules are used with it *)
(*   filters    the names of the RPMs the module filters out               *)
(*   arches     those of its Koji tag                                      *)
(*   ursine     of a base module, the ids of the modules in the build tags *)
(*              behind the external repositories of its Koji tag           *)
(* R[i] is the RPMs in the Koji tag of row i: records with a name and of,  *)
(* the build they are from.                                                *)
(***************************************************************************)
EXTENDS Registry, Functions

CONSTANTS DefaultModules, \* DefaultModules[b]: the default streams on branch b
          Rawhide,        \* the base stream Koji says is rawhide
          RawhideBranch   \* conf.rawhide_branch

RowOf(T, i) == CHOOSE r \in T : r.id = i
BaseOf(br)  == CHOOSE n \in BaseModule \cap DOMAIN br : TRUE
HasBase(br) == BaseModule \cap DOMAIN br # {}

-----------------------------------------------------------------------------
(* Default modules.                                                         *)

DefaultsBranch(s) == IF s \in DOMAIN DefaultModules \/ s # Rawhide THEN s ELSE RawhideBranch
NoDefaults(s)     == DefaultsBranch(s) \notin DOMAIN DefaultModules
DefaultStreams(s) == DefaultModules[DefaultsBranch(s)]

ExpandSingle(T, n, d) ==
  IF d.plus # {} THEN d.plus ELSE {r.stream : r \in LastBuildInAllStreams(T, n)} \ d.minus

(* Mutant: any build of the default stream will do.                         *)
AnyRuntime(T, r, base) == TRUE
(* Some dependencies of r let it run on the stream of base.                 *)
RunsOn(T, r, base) ==
  \E D \in r.runtime : /\ base.name \in DOMAIN D
                       /\ base.stream \in ExpandSingle(T, base.name, D[base.name])

(* base and those compatible with it, the newest stream first.              *)
ByStream(S) ==
  CHOOSE q \in [1..Cardinality(S) -> S] :
    \A i, j \in DOMAIN q : i < j =>
      q[i] # q[j] /\ RawVersion[q[i].stream] >= RawVersion[q[j].stream]
BasesFor(T, base) == ByStream(EveryBase(CompatibleWith(T, base, {})))

(* The builds of n:s on the first of those bases where one of them runs on  *)
(* base: all of them, for the last one listed is taken, whichever ran.      *)
FirstRunning(T, at, base) ==
  LET fit == {i \in DOMAIN at : \E r \in at[i] : RunsOn(T, r, base)}
  IN UNION {at[i] : i \in {k \in fit : \A j \in fit : k <= j}}
BuildsOn(T, n, s, bases) == [i \in DOMAIN bases |-> Buildrequired(T, n, s, bases[i])]
DefaultBuilds(T, n, s, base) == FirstRunning(T, BuildsOn(T, n, s, BasesFor(T, base)), base)

(* What br may become. A module that is buildrequired already stays as it is.*)
Added(T, br, builds) ==
  LET new == {n \in DOMAIN builds : builds[n] # {}}
  IN {Overlay([n \in new |-> f[n].id], br) :
        f \in {g \in [new -> T] : \A n \in new : g[n] \in builds[n]}}
DefaultsOf(T, br, D, base) == [n \in DOMAIN D \ DOMAIN br |-> DefaultBuilds(T, n, D[n], base)]

BaseRow(T, br) == RowOf(T, br[BaseOf(br)])
HasDefaults(T, br) == HasBase(br) /\ BaseRow(T, br).defaults
WithDefaults(T, br) ==
  IF ~HasDefaults(T, br) THEN {br}
  ELSE Added(T, br, DefaultsOf(T, br, DefaultStreams(BaseRow(T, br).stream), BaseRow(T, br)))
DefaultsFail(T, br) == HasDefaults(T, br) /\ NoDefaults(BaseRow(T, br).stream)

-----------------------------------------------------------------------------
(* RPMs that must not be installed.                                         *)

(* Modules in the ursine content of a base module, of another stream than   *)
(* the one that is buildrequired; not looked for if default modules were    *)
(* added.                                                                   *)
StreamCollisions(T, br) ==
  {r \in T : /\ \E n \in DOMAIN br \cap BaseModule : r.id \in RowOf(T, br[n]).ursine
             /\ r.name \in DOMAIN br /\ r.stream # RowOf(T, br[r.name]).stream}
UrsineRpms(T, R, br) == UNION {R[r.id] : r \in StreamCollisions(T, br)}

(* RPMs of base modules named like one of another buildrequired module.     *)
BaseRpms(R, br)    == UNION {R[br[n]] : n \in DOMAIN br \cap BaseModule}
ModularRpms(R, br) == UNION {R[br[n]] : n \in DOMAIN br \ BaseModule}
Collisions(R, br)  == {r \in BaseRpms(R, br) : \E q \in ModularRpms(R, br) : q.name = r.name}

FilteredRpms(T, R, i) == {r \in R[i] : r.name \in RowOf(T, i).filters}

(* What module-build-macros conflicts with. self is the name of the module, *)
(* and own the builds of the components it is going to reuse: where the     *)
(* module buildrequires itself, their RPMs are wanted.                      *)
MacroConflicts(T, R, br, self, own, ursine, collisions) ==
  LET filtered(n) == {r \in FilteredRpms(T, R, br[n]) : n = self => r.of \notin own}
  IN (UNION {filtered(n) : n \in DOMAIN br}) \cup ursine \cup collisions

-----------------------------------------------------------------------------
(* contexts_from_mmd: the streams a build is built against.                 *)
BuildContext(T, br)      == [n \in DOMAIN br |-> RowOf(T, br[n]).stream]
BuildContextNoBms(T, br) == Restrict(BuildContext(T, br), DOMAIN br \ BaseModule)
=============================================================================
