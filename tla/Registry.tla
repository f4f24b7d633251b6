------------------------------ MODULE Registry ------------------------------
(***************************************************************************)
(* The table of module builds, and the queries the rest of the service     *)
(* asks of it: the static methods of ModuleBuild (common/models.py), the   *)
(* resolvers on top of them (resolver/DBResolver.py, KojiResolver.py) and  *)
(* the search for base modules (common/resolve.py).                        *)
(*                                                                         *)
(* A table T is a set of rows, and a query an operator on it. Row:         *)
(*   id, name, stream, version, context, state, scratch                    *)
(*   virtual   the virtual streams of a base module                        *)
(*   br        the ids of the base modules the build was built against     *)
(*   req       its runtime requires: a set of functions, one for each pair *)
(*             of dependencies in its modulemd, from names to streams      *)
(*   tag       the Koji tag its content generator build is in, or "none";  *)
(*             of a base module, koji_tag_with_modules                       *)
(***************************************************************************)
EXTENDS Integers, Sequences, FiniteSets, SequencesExt

CONSTANTS
  BaseModule,   \* conf.base_module_names: a set with the one name in use
  Sections,     \* Sections[s]: the numbers in stream s, el8.1.0 |-> <<8,1,0>>
  Norm,         \* Norm[s]: stream s as a Koji version, with - replaced by _
  Inheritance,  \* a koji_tag_with_modules and the Koji tags it inherits
  OnlyCompatible  \* conf.allow_only_compatible_base_modules

(* Of the numbers in a stream a minus sign is no part.                      *)
ASSUME SectionsAssumption == \A s \in DOMAIN Sections : Sections[s] \in Seq(Nat)

None == "none"

(* f where it is defined, and g elsewhere.                                  *)
Overlay(f, g) == [x \in DOMAIN f \cup DOMAIN g |-> IF x \in DOMAIN f THEN f[x] ELSE g[x]]

-----------------------------------------------------------------------------
(* Stream versions: el8.1.0 is 080100.                                      *)

Width(n) == IF n < 100 THEN 2 ELSE 3     \* zfill(2)
Power    == <<10, 100, 1000, 10000, 100000, 1000000>>

(* The numbers of a stream written one after another, and the length of     *)
(* that.                                                                    *)
Write(d, n) == [value |-> d.value * Power[Width(n)] + n, len |-> d.len + Width(n)]
Digits ==
  [s \in DOMAIN Sections |->
     LET upto[i \in 0..Len(Sections[s])] ==
           IF i = 0 THEN [value |-> 0, len |-> 0] ELSE Write(upto[i - 1], Sections[s][i])
     IN upto[Len(Sections[s])]]

(* get_stream_version(stream); streams without a number have version 0.     *)
StreamVersion ==
  [s \in DOMAIN Sections |->
     LET d == Digits[s] IN IF d.len < 6 THEN d.value * Power[6 - d.len] ELSE d.value]

(* get_stream_version(stream, right_pad=False)                              *)
RawVersion == [s \in DOMAIN Sections |-> Digits[s].value]

(* str() of the raw version, a float, has at least five characters.         *)
XYZ == [s \in DOMAIN Sections |-> RawVersion[s] >= 100]

-----------------------------------------------------------------------------
(* Queries on the table.                                                    *)

NSV(r)      == <<r.name, r.stream, r.version>>
Versions(S) == {r.version : r \in S}
Newest(S)   == {r \in S : \A q \in S : q.version <= r.version}

(* The newest version is looked for among the ready builds, but every build *)
(* of that version is returned, whatever its state.                         *)
LastBuildsInStream(T, n, s) ==
  {r \in T : /\ r.name = n /\ r.stream = s
             /\ r.version \in Versions(Newest({q \in T : q.name = n /\ q.stream = s
                                                         /\ q.state = "ready"}))}

LastBuildInAllStreams(T, n) ==
  LET R == {r \in T : r.name = n /\ r.state = "ready"}
  IN {r \in R : \A q \in R : q.stream = r.stream => q.id <= r.id}

Siblings(T, r) ==
  {q \in T : NSV(q) = NSV(r) /\ q.scratch = r.scratch /\ q.id # r.id}

(* resolve_requires: no other context of a build of S may be under way.     *)
Resolvable(T, S) == \A r \in S : \A q \in Siblings(T, r) : q.state \in {"ready", "failed"}

(* XX0000 <= stream version <= XXYYZZ; a limit of 0 does not limit.         *)
LteStreamVersion(S, limit) ==
  IF limit = 0 THEN S
  ELSE {r \in S : /\ StreamVersion[r.stream] <= limit
                  /\ StreamVersion[r.stream] >= (limit \div 10000) * 10000}

LastBuildsLte(T, n, limit, virtual, states) ==
  LET B == {r \in LteStreamVersion({r \in T : r.name = n /\ r.state \in states}, limit) :
              r.virtual \cap virtual # {}}
  IN {r \in B : r \in Newest({q \in B : q.stream = r.stream})}

-----------------------------------------------------------------------------
(* The resolvers.                                                           *)

GetModuleModulemds(T, n, s) == LastBuildsInStream(T, n, s)

CompatibleBaseModules(T, base, lte, states) ==
  IF base.tag # None THEN {}
  ELSE LastBuildsLte(T, base.name,
                     IF lte /\ XYZ[base.stream] THEN StreamVersion[base.stream] ELSE 0,
                     base.virtual, states)

DBBuildrequired(T, n, s, base) ==
  Newest({r \in T : r.name = n /\ r.stream = s /\ r.state = "ready" /\ base.id \in r.br})

(* Only the builds of the first tag that holds a build of the stream count. *)
FirstTag(S) ==
  CHOOSE i \in 1..Len(Inheritance) :
    /\ \E r \in S : r.tag = Inheritance[i]
    /\ \A j \in 1..(i - 1) : \A r \in S : r.tag # Inheritance[j]
FilterInherited(S) ==
  IF S = {} THEN {} ELSE {r \in S : r.tag = Inheritance[FirstTag(S)]}

KojiBuildrequired(T, n, s, base) ==
  LET listed == {r \in T : r.name = n /\ r.tag \in Range(Inheritance)
                           /\ Norm[r.stream] = Norm[s]}
  IN Newest({r \in FilterInherited(listed) : r.stream = s})

Buildrequired(T, n, s, base) ==
  IF base.tag # None THEN KojiBuildrequired(T, n, s, base)
  ELSE DBBuildrequired(T, n, s, base)

-----------------------------------------------------------------------------
(* The base modules a modulemd may be built against.                        *)

(* Of several builds of a stream the first that is listed.                  *)
OnePerStream(S) == {r \in S : r = CHOOSE q \in S : q.stream = r.stream}

(* base itself, and the base modules compatible with it, but of every       *)
(* stream only one.                                                         *)
CompatibleWith(T, base, seen) ==
  LET skip  == seen \cup {base.stream}
      ready == IF base.virtual = {} THEN {}
               ELSE OnePerStream({r \in CompatibleBaseModules(T, base, OnlyCompatible, {"ready"}) :
                                    r.stream \notin skip})
      eol   == IF base.virtual = {} \/ OnlyCompatible THEN {}
               ELSE OnePerStream({r \in CompatibleBaseModules(T, base, FALSE, {"garbage"}) :
                                    r.stream \notin skip \cup {q.stream : q \in ready}})
  IN [ready |-> {base} \cup ready, garbage |-> eol]

(* Streams in descending order of their version.                            *)
Descending(S) ==
  CHOOSE q \in [1..Cardinality(S) -> S] :
    \A i, j \in DOMAIN q : i < j => q[i] # q[j] /\ StreamVersion[q[i]] >= StreamVersion[q[j]]

Both(f, g)   == [ready |-> f.ready \cup g.ready, garbage |-> f.garbage \cup g.garbage]
EveryBase(f) == f.ready \cup f.garbage
StreamsIn(f) == {r.stream : r \in EveryBase(f)}

(* mmds are the builds in stream s.                                         *)
AddBase(T, s, mmds, found) ==
  IF s \in StreamsIn(found) \/ mmds = {} THEN found
  ELSE Both(found, CompatibleWith(T, CHOOSE r \in mmds : TRUE, StreamsIn(found)))

(* The base modules for the buildrequired base streams of one pair of       *)
(* dependencies, added to those found already.                              *)
AddBases(T, n, streams, found) ==
  LET upto[i \in 0..Cardinality(streams)] ==
        IF i = 0 THEN found
        ELSE LET s == Descending(streams)[i]
             IN AddBase(T, s, GetModuleModulemds(T, n, s), upto[i - 1])
  IN upto[Cardinality(streams)]

(* A pair is a record of buildrequires and requires. Of the names in        *)
(* base_module_names only the first that is buildrequired counts.           *)
BasesOfPair(T, br, n, found) == AddBases(T, n, br[n], found)
BaseModules(T, pairs) ==
  LET names(i) == BaseModule \cap DOMAIN pairs[i].br
      upto[i \in 0..Len(pairs)] ==
        IF i = 0 THEN [ready |-> {}, garbage |-> {}]
        ELSE IF names(i) = {} THEN upto[i - 1]
        ELSE BasesOfPair(T, pairs[i].br, CHOOSE m \in names(i) : TRUE, upto[i - 1])
  IN upto[Len(pairs)]
=============================================================================
