----------------------------- MODULE Expansion -----------------------------
(***************************************************************************)
(* Module stream expansion: from one modulemd with several streams in its  *)
(* dependencies to the modulemds that can be built, one for each           *)
(* combination of buildrequired streams (web/mse.py,                       *)
(* web/mmd_resolver.py). libsolv, which picks the modules of one           *)
(* combination, is external: any minimal set of modules that satisfies the *)
(* dependencies, with the favored modules if there is such a set.          *)
(*                                                                         *)
(* Before that the request's overrides and the streams of base modules     *)
(* that stand for others are filled in (Streams).                          *)
(***************************************************************************)
EXTENDS Streams

CONSTANTS Tables,     \* the tables of module builds to start from
          Modulemds,  \* the sequences of pairs that may be submitted
          Params      \* the rest of a request: see Streams

(* The streams a pair of dependencies lists for one name, and a pair.       *)
ListOfStreams(d) == d = [plus |-> d.plus, minus |-> d.minus] /\ IsFiniteSet(d.plus)
PairOfDeps(p)    == /\ p = [br |-> p.br, req |-> p.req]
                    /\ \A n \in DOMAIN p.br : ListOfStreams(p.br[n])

(* A modulemd is a sequence of pairs. Tables and lists are finite, and      *)
(* versions are numbers.                                                    *)
ASSUME ExpansionAssumption ==
  /\ \A t \in Tables : IsFiniteSet(t) /\ \A r \in t : r.version \in Int
  /\ \A m \in Modulemds : m \in Seq(Range(m)) /\ \A i \in DOMAIN m : PairOfDeps(m[i])
  /\ \A q \in Params : \A n \in DOMAIN q.br : ListOfStreams(q.br[n])

VARIABLES
  table,     \* the table of module builds
  mmd,       \* the pairs of the modulemd
  params,    \* the parameters of the request
  pc,        \* what comes next
  pairs,     \* the pairs with their streams expanded
  found,     \* mmds: [<<name, stream>> -> builds]
  frames,    \* the runtime requires to look up next
  depth,     \* how deep _get_mmds_from_requires has recursed
  current,   \* the pair the solver is at
  todo,      \* the combinations of modules it has not tried
  alts,      \* src_alternatives: [<<pair, streams>> -> sets of modules]
  made       \* the modulemds made

vars == <<table, mmd, params, pc, pairs, found, frames, depth, current, todo, alts, made>>

Fail(why) == pc' = why

-----------------------------------------------------------------------------
(* submit_module_build, until the streams are expanded.                     *)

ApplyOverrides ==
  /\ pc = "overrides"
  /\ IF ~ValidMmd(params) THEN Fail("invalid") /\ UNCHANGED mmd
     ELSE IF KeyRemovedTwice(mmd, params) THEN Fail("KeyError") /\ UNCHANGED mmd
     ELSE IF NotApplicable(mmd, params) THEN Fail("not applicable") /\ UNCHANGED mmd
     ELSE mmd' = Overridden(mmd, params) /\ pc' = "streams"
  /\ UNCHANGED <<table, params, pairs, found, frames, depth, current, todo, alts, made>>

ResolveBaseStreams ==
  /\ pc = "streams"
  /\ mmd' = WithSupport(WithRealStreams(table, mmd), params, params.released)
  /\ pc' = "expand"
  /\ UNCHANGED <<table, params, pairs, found, frames, depth, current, todo, alts, made>>

-----------------------------------------------------------------------------
(* Expansion of the streams of one dependency.                              *)

(* Mutant: nobody is asked which of several streams is meant.               *)
NeverAmbiguous(n, d) == FALSE

Candidates(n, d) ==
  IF d.plus # {} THEN d.plus
  ELSE (IF n \in DOMAIN params.defaults THEN {params.defaults[n]}
        ELSE {r.stream : r \in LastBuildInAllStreams(table, n)}) \ d.minus

Ambiguous(n, d) ==
  /\ params.local /\ n \notin DOMAIN params.defaults
  /\ d.plus = {} \/ Cardinality(Candidates(n, d)) > 1

Expanded(n, d) ==
  IF Cardinality(Candidates(n, d)) > 1 /\ n \in DOMAIN params.defaults
  THEN {params.defaults[n]} ELSE Candidates(n, d)

ExpandDeps(D) == [n \in DOMAIN D |-> Expanded(n, D[n])]
AmbiguousIn(D) == \E n \in DOMAIN D : Ambiguous(n, D[n])

ExpandStreams ==
  /\ pc = "expand"
  /\ IF \E i \in DOMAIN mmd : AmbiguousIn(mmd[i].br) \/ AmbiguousIn(mmd[i].req)
     THEN Fail("ambiguous") /\ UNCHANGED pairs
     ELSE /\ pc' = "collect"
          /\ pairs' = [i \in DOMAIN mmd |-> [br  |-> ExpandDeps(mmd[i].br),
                                             req |-> ExpandDeps(mmd[i].req)]]
  /\ UNCHANGED <<table, mmd, params, found, frames, depth, current, todo, alts, made>>

-----------------------------------------------------------------------------
(* The modules that may be built against.                                   *)

(* Mutant: end-of-life base modules may be built against too.               *)
AnyBases   == EveryBase(BaseModules(table, pairs))
ReadyBases == BaseModules(table, pairs).ready
AllBases   == EveryBase(BaseModules(table, pairs))

Keys(D) == UNION {{<<n, s>> : s \in D[n]} : n \in DOMAIN D \ BaseModule}
LookUp(keys) ==
  [k \in keys |-> UNION {Buildrequired(table, k[1], k[2], b) : b \in AllBases}]
Merge(f, g) == [k \in DOMAIN f \cup DOMAIN g |->
                  (IF k \in DOMAIN f THEN f[k] ELSE {}) \cup (IF k \in DOMAIN g THEN g[k] ELSE {})]
RequiresOf(f) == UNION {r.req : r \in UNION Range(f)}

CollectBuildrequires ==
  /\ pc = "collect"
  /\ IF ReadyBases = {} THEN Fail("no base") /\ UNCHANGED <<found, frames>>
     ELSE LET bases == [k \in {<<r.name, r.stream>> : r \in ReadyBases} |->
                          {r \in ReadyBases : <<r.name, r.stream>> = k}]
              all   == Merge(bases, LookUp(UNION {Keys(pairs[i].br) : i \in DOMAIN pairs}))
          IN found' = all /\ frames' = RequiresOf(all) /\ pc' = "requires"
  /\ UNCHANGED <<table, mmd, params, pairs, depth, current, todo, alts, made>>

(* The requires of what was found, level by level. Nothing remembers what   *)
(* was looked up before: a module that requires itself through others is    *)
(* looked up until Python's stack is full, that is when the path is longer  *)
(* than there are modules. Only the first level asks for a stream.          *)
CollectRequires ==
  /\ pc = "requires" /\ frames # {}
  /\ IF depth = 0 /\ params.local
        /\ \E D \in frames : \E n \in DOMAIN D \ (BaseModule \cup DOMAIN params.defaults) :
             Cardinality(D[n]) > 1
     THEN Fail("ambiguous") /\ UNCHANGED <<found, frames, depth>>
     ELSE IF depth > Cardinality(table)
     THEN Fail("recursion") /\ UNCHANGED <<found, frames, depth>>
     ELSE LET new == LookUp(UNION {Keys(D) : D \in frames})
          IN /\ found' = Merge(found, new)
             /\ frames' = RequiresOf(new)
             /\ depth' = depth + 1
             /\ UNCHANGED pc
  /\ UNCHANGED <<table, mmd, params, pairs, current, todo, alts, made>>

Pool == UNION Range(found)

-----------------------------------------------------------------------------
(* What libsolv is told: who provides what, and who requires what.          *)

(* Base module r provides stream s in the version of r's own stream, under  *)
(* its own name and that of each of its virtual streams.                    *)
Provides(r, n, s) == r.name = n /\ s \in {r.stream} \cup r.virtual

(* A dependency of the submitted modulemd, on exactly that base module.     *)
MetExactly(r, n, streams) ==
  /\ r.name = n
  /\ streams = {} \/ \E s \in streams :
       /\ Provides(r, n, s)
       /\ n \in BaseModule /\ XYZ[s] => RawVersion[r.stream] = RawVersion[s]

(* Mutant: what a module was built against is not looked at.                *)
StreamRequired(r, s) == s

(* The stream of the base module that build r was built against.            *)
StreamBuiltOn(r, s) ==
  LET b == {q \in table : q.id \in r.br} IN IF b = {} THEN s ELSE (CHOOSE q \in b : TRUE).stream

(* A runtime dependency of build r: the base module may be newer than the   *)
(* one r was built against, not older.                                      *)
MetBy(r, q, n, streams) ==
  /\ q.name = n
  /\ streams = {} \/ \E s \in streams :
       /\ Provides(q, n, s)
       /\ n \in BaseModule /\ XYZ[StreamBuiltOn(r, s)]
            => RawVersion[q.stream] >= RawVersion[StreamBuiltOn(r, s)]

RequiresMet(r, S) ==
  r.req = {} \/ \E D \in r.req : \A n \in DOMAIN D : \E q \in S : MetBy(r, q, n, D[n])

Consistent(S) == /\ \A r, q \in S : r.name = q.name => r = q
                 /\ \A r \in S : RequiresMet(r, S)

Solves(S, D) == Consistent(S) /\ \A n \in DOMAIN D : \E r \in S : MetExactly(r, n, D[n])
Solutions(D) == {S \in SUBSET Pool : Solves(S, D) /\ \A r \in S : ~Solves(S \ {r}, D)}

(* All ways to take one module for each dependency.                         *)
Combinations(D) ==
  {f \in [DOMAIN D -> Pool] : \A n \in DOMAIN D : MetExactly(f[n], n, D[n])}
StreamsOf(f) == [n \in DOMAIN f |-> f[n].stream]

(* Mutant: one combination of a pair is enough.                             *)
FirstCombination(D) == LET C == Combinations(D) IN IF C = {} THEN {} ELSE {CHOOSE f \in C : TRUE}
ToTry(D) == Combinations(D)

-----------------------------------------------------------------------------
(* MMDResolver.solve                                                        *)

StartPair(i) ==
  /\ current' = i
  /\ todo' = IF i \in DOMAIN pairs /\ DOMAIN pairs[i].br # {} THEN ToTry(pairs[i].br) ELSE {}

Solve ==
  /\ pc = "requires" /\ frames = {}
  /\ IF {} \in Range(found) THEN Fail("not found") /\ UNCHANGED <<current, todo>>
     ELSE pc' = "solve" /\ StartPair(1)
  /\ UNCHANGED <<table, mmd, params, pairs, found, frames, depth, alts, made>>

TestCombination ==
  /\ pc = "solve" /\ todo # {}
  /\ LET D   == pairs[current].br
         f   == CHOOSE g \in todo : TRUE
         all == Solutions(D)
         fav == {S \in all : Range(f) \subseteq S}
         key == <<current, StreamsOf(f)>>
     IN IF all = {} THEN Fail("problems") /\ UNCHANGED <<todo, alts>>
        ELSE /\ todo' = todo \ {f}
             /\ UNCHANGED pc
             /\ IF fav = {} THEN UNCHANGED alts
                ELSE \E S \in fav :
                       alts' = Merge(alts, [k \in {key} |-> {S}])
  /\ UNCHANGED <<table, mmd, params, pairs, found, frames, depth, current, made>>

(* A pair without buildrequires ends the search: it is the only result.     *)
NextPair ==
  /\ pc = "solve" /\ todo = {} /\ current \in DOMAIN pairs
  /\ IF DOMAIN pairs[current].br = {}
     THEN /\ alts' = [k \in {<<current, <<>>>>} |-> {{}}]
          /\ StartPair(Len(pairs) + 1)
     ELSE UNCHANGED alts /\ StartPair(current + 1)
  /\ UNCHANGED <<table, mmd, params, pc, pairs, found, frames, depth, made>>

(* At least as new in every stream, and newer in one. The code compares the *)
(* sums of the modules' positions in their streams, with a weight for how   *)
(* often the pool holds each: what has the least sum is not outdone.        *)
Outdone(S, by) ==
  /\ \A q \in by : \E r \in S : <<q.name, q.stream>> = <<r.name, r.stream>>
                                /\ q.version >= r.version
  /\ \E q \in by, r \in S : <<q.name, q.stream>> = <<r.name, r.stream>> /\ q.version > r.version
Best(A) == {S \in A : \A by \in A : ~Outdone(S, by)}

-----------------------------------------------------------------------------
(* generate_expanded_mmds: the modulemd of one alternative.                 *)

AsIs(d)    == [plus |-> d.plus, minus |-> d.minus]
Just(s)    == [plus |-> {s}, minus |-> {}]

(* The pair of the submitted modulemd, with the streams that were chosen.   *)
(* A runtime stream is replaced when both lists are the same.               *)
ChosenPair(p, S) ==
  LET stream(n) == (CHOOSE r \in S : r.name = n).stream
  IN [br  |-> [n \in DOMAIN p.br |-> Just(stream(n))],
      req |-> [n \in DOMAIN p.req |->
                 IF n \in DOMAIN p.br /\ p.br[n] = p.req[n] THEN Just(stream(n))
                 ELSE AsIs(p.req[n])]]

(* remove_dependencies and add_dependencies: the other pairs stay.          *)
NewDependencies(i, S) ==
  SelectSeq(mmd, LAMBDA p : p # mmd[i]) \o <<ChosenPair(mmd[i], S)>>

(* Mutant: the streams are not part of the hash.                            *)
NamesOf(S) == {r.name : r \in S}

(* contexts_from_mmd: the streams the build context and the runtime context *)
(* are hashes of, the latter those of all pairs together.                   *)
BuildContext(S) == {<<r.name, r.stream>> : r \in S}
RuntimeContext(P) ==
  LET lists(n) == {P[i].req[n] : i \in {j \in DOMAIN P : n \in DOMAIN P[j].req}}
  IN [n \in UNION {DOMAIN P[i].req : i \in DOMAIN P} |->
        [plus |-> UNION {d.plus : d \in lists(n)}, minus |-> UNION {d.minus : d \in lists(n)}]]

Generated(i, S) ==
  LET P == NewDependencies(i, S)
  IN [pair |-> i, deps |-> P, br |-> S, context |-> <<BuildContext(S), RuntimeContext(P)>>]

Generate ==
  /\ pc = "solve" /\ current \notin DOMAIN pairs
  /\ \E choice \in [DOMAIN alts -> UNION {Best(alts[k]) : k \in DOMAIN alts}] :
       /\ \A k \in DOMAIN alts : choice[k] \in Best(alts[k])
       /\ IF \E k \in DOMAIN alts : ~Resolvable(table, choice[k])
          THEN Fail("sibling") /\ UNCHANGED made
          ELSE /\ made' = {Generated(k[1], choice[k]) : k \in DOMAIN alts}
               /\ pc' = "done"
  /\ UNCHANGED <<table, mmd, params, pairs, found, frames, depth, current, todo, alts>>

Init ==
  /\ table \in Tables /\ mmd \in Modulemds /\ params \in Params
  /\ pc = "overrides" /\ pairs = <<>> /\ found = <<>> /\ frames = {} /\ depth = 0
  /\ current = 0 /\ todo = {} /\ alts = <<>> /\ made = {}

Next == \/ ApplyOverrides \/ ResolveBaseStreams \/ ExpandStreams
        \/ CollectBuildrequires \/ CollectRequires \/ Solve \/ TestCombination \/ NextPair \/ Generate

Spec == Init /\ [][Next]_vars

-----------------------------------------------------------------------------
(* Properties.                                                              *)

Lexicographic(a, b) ==      \* stream a is not newer than stream b
  LET i == {k \in DOMAIN Sections[a] \cap DOMAIN Sections[b] : Sections[a][k] # Sections[b][k]}
  IN IF i = {} THEN Len(Sections[a]) <= Len(Sections[b])
     ELSE LET k == CHOOSE k \in i : \A j \in i : k <= j IN Sections[a][k] < Sections[b][k]

(* A module is never built with a module that was built against a newer     *)
(* base module than the one it is built against itself, if that module      *)
(* requires a stream of the base module (the comment in _deps2reqs: bar:2   *)
(* is built against a newer platform and must be ignored).                  *)
BuiltAgainstOlder ==
  \A g \in made : \A r \in g.br, base \in g.br :
    /\ base.name \in BaseModule /\ r # base
    /\ r.req # {} /\ \A D \in r.req : base.name \in DOMAIN D /\ D[base.name] # {}
    => \A b \in {q \in table : q.id \in r.br} :
         XYZ[b.stream] => Lexicographic(b.stream, base.stream)

(* No module is built against an end-of-life base module, though modules    *)
(* that once were may be used (get_mmds_required_by_module_recursively).    *)
OnlyReadyBases ==
  \A g \in made : \A r \in g.br : r.name \in BaseModule => r.state = "ready"

(* Every choice of streams for which there is a consistent set of modules   *)
(* gets a modulemd of its own, and no modulemd has two streams of a module, *)
(* unless a pair has no buildrequires (MMDResolver.solve).                  *)
Complete ==
  pc = "done" =>
    /\ \A g \in made : Consistent(g.br)
    /\ (\A i \in DOMAIN pairs : DOMAIN pairs[i].br # {}) =>
         \A i \in DOMAIN pairs : \A S \in Solutions(pairs[i].br) :
           \E g \in made : /\ g.pair = i
                           /\ \A n \in DOMAIN pairs[i].br : \A r \in S : \A q \in g.br :
                                r.name = n /\ q.name = n => r.stream = q.stream

(* A local build never has to guess: what cannot be told apart by the       *)
(* default streams is refused, so one pair yields at most one modulemd.     *)
LocalUnambiguous ==
  params.local => \A g, h \in made : g.pair = h.pair => g = h

(* The base module is the one that was asked for: of the overriding streams *)
(* one it has or provides, and never a released stream that has a support   *)
(* stream, unless the request says so or names no stream at all             *)
(* (_apply_dep_overrides, _process_support_streams).                        *)
BaseAsked ==
  \A g \in made : \A base \in {r \in g.br : r.name \in BaseModule} :
    LET n == base.name
    IN IF n \in DOMAIN params.br /\ params.br[n] # Empty
       THEN ({base.stream} \cup base.virtual) \cap params.br[n].plus # {}
       ELSE base.stream \in DOMAIN Support \cap params.released
              => n \in DOMAIN mmd[g.pair].br /\ mmd[g.pair].br[n].plus = {}

(* Two pairs that cannot be built with the same modules: both buildrequire  *)
(* some module, and no stream of it is what both ask for.                   *)
Apart(i, j) ==
  \E n \in DOMAIN pairs[i].br \cap DOMAIN pairs[j].br : \A r, q \in Pool :
    MetExactly(r, n, pairs[i].br[n]) /\ MetExactly(q, n, pairs[j].br[n]) => r.stream # q.stream

(* The modulemds of one request are different builds: none is taken for     *)
(* another one's, already there, by get_build_from_nsvc. Only those of two  *)
(* pairs that overlap may be, which require the same streams together.      *)
Version(g) ==
  LET b == {r \in g.br : r.name \in BaseModule}
  IN IF b = {} THEN 1 ELSE PrefixedVersion((CHOOSE r \in b : TRUE).stream, 1)
DistinctBuilds ==
  \A g, h \in made : g # h /\ (g.pair = h.pair \/ Apart(g.pair, h.pair)) =>
    <<Version(g), g.context>> # <<Version(h), h.context>>
=============================================================================
