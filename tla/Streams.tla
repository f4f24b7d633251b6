------------------------------ MODULE Streams ------------------------------
(***************************************************************************)
(* What happens to a submitted modulemd before its streams are expanded,   *)
(* and to its version afterwards (web/submit.py): validation, the          *)
(* overrides of a request or a branch, virtual and support streams of base *)
(* modules. The Product Pages, which say what is released, are external.   *)
(*                                                                         *)
(* A modulemd's dependencies are a sequence of pairs                       *)
(*   [br |-> names -> D, req |-> names -> D]                               *)
(* where D = [plus, minus] are the streams listed without and with a "-".  *)
(* A request q is a record                                                 *)
(*   [name, mbs, repository   of the modulemd: its name, the keys of its   *)
(*                            xmd section "mbs", a custom repository       *)
(*    br, req, branch         the overrides, and the stream in the branch  *)
(*    released                what the Product Pages answer when asked     *)
(*    local, defaults]        a local build, and its default_streams       *)
(***************************************************************************)
EXTENDS Registry

CONSTANTS
  Privileged,       \* conf.allowed_privileged_module_names
  AllowRepository,  \* conf.modules_allow_repository
  Override,         \* conf.br_stream_override_module
  Support,          \* a base stream and the same stream with its suffix
  Shift, MaxVersion \* 10^(digits of a version), and GLib.MAXUINT64

ValidMmd(q) ==
  /\ q.repository => AllowRepository
  /\ q.mbs # {} => q.name \in Privileged /\ q.mbs \subseteq {"disttag_marking", "koji_tag_arches"}
  /\ q.name \notin BaseModule

-----------------------------------------------------------------------------
(* Overrides.                                                               *)

Plus(S) == [plus |-> S, minus |-> {}]
Empty   == [plus |-> {}, minus |-> {}]

(* Mutant: the streams of the modulemd stay.                                *)
NoOverrides(q) == <<>>

(* The branch overrides a stream unless the request does.                   *)
FromBranch(q) == /\ q.branch # None
                 /\ Override \in DOMAIN q.br => q.br[Override] = Empty
BrOverrides(q) ==
  IF FromBranch(q) THEN Overlay([n \in {Override} |-> Plus({q.branch})], q.br) ELSE q.br

Replace(D, O) == [n \in DOMAIN D |-> IF n \in DOMAIN O THEN O[n] ELSE D[n]]

(* Q is what becomes of the pairs P. A pair that changes is removed, and    *)
(* what replaces it comes last.                                             *)
ReplacePairs(P, Q) ==
  LET kept     == {i \in DOMAIN P : Q[i] = P[i]}
      place(i) == Cardinality(IF i \in kept THEN {j \in kept : j <= i}
                              ELSE kept \cup {j \in DOMAIN P : j <= i})
  IN [k \in DOMAIN P |-> Q[CHOOSE i \in DOMAIN P : place(i) = k]]

Overridden(P, q) ==
  ReplacePairs(P, [i \in DOMAIN P |-> [br  |-> Replace(P[i].br, BrOverrides(q)),
                                       req |-> Replace(P[i].req, q.req)]])

(* The name of an override is removed from the unused ones for each pair it *)
(* is in: the second time that raises a KeyError.                           *)
In(P, section) == [i \in DOMAIN P |-> DOMAIN P[i][section]]
Twice(P, section, O) ==
  \E i, j \in DOMAIN P : i # j /\ In(P, section)[i] \cap In(P, section)[j] \cap DOMAIN O # {}
KeyRemovedTwice(P, q) == Twice(P, "br", BrOverrides(q)) \/ Twice(P, "req", q.req)

Unused(P, q, section, O) ==
  (DOMAIN O \ UNION Range(In(P, section))) \ (IF FromBranch(q) THEN {Override} ELSE {})
NotApplicable(P, q) == Unused(P, q, "br", BrOverrides(q)) \cup Unused(P, q, "req", q.req) # {}

-----------------------------------------------------------------------------
(* Streams of base modules that stand for others.                           *)

LatestWithVirtual(T, n, s) ==
  LET V == {r \in T : r.name = n /\ s \in r.virtual}
      L == {r \in V : \A o \in V : StreamVersion[o.stream] <= StreamVersion[r.stream]}
  IN Newest(L)

(* A stream no base module has is replaced by the newest that provides it.  *)
RealStream(T, n, s) ==
  LET L == LatestWithVirtual(T, n, s)
  IN IF L = {} \/ \E r \in T : r.name = n /\ r.stream = s THEN s
     ELSE (CHOOSE r \in L : TRUE).stream

(* A stream that is released, or due, is replaced by its support stream.    *)
Supported(s, released) ==
  IF s \in DOMAIN Support \cap released /\ StreamVersion[s] # 0 THEN Support[s] ELSE s

(* new[n] is the streams of n for each n that is to be changed.             *)
Mapped(p, new) ==
  [p EXCEPT !.br = [n \in DOMAIN @ |->
     IF n \in DOMAIN new THEN [@[n] EXCEPT !.plus = new[n]] ELSE @[n]]]

RealStreams(T, D) ==
  [n \in DOMAIN D \cap BaseModule |-> {RealStream(T, n, s) : s \in D[n].plus}]
WithRealStreams(T, P) ==
  ReplacePairs(P, [i \in DOMAIN P |-> Mapped(P[i], RealStreams(T, P[i].br))])

(* Only what the request itself overrides is left alone: the stream of a    *)
(* branch gets the suffix too.                                              *)
SupportStreams(D, q, released) ==
  [n \in (DOMAIN D \cap BaseModule) \ DOMAIN q.br |-> {Supported(s, released) : s \in D[n].plus}]
WithSupport(P, q, released) ==
  ReplacePairs(P, [i \in DOMAIN P |-> Mapped(P[i], SupportStreams(P[i].br, q, released))])

-----------------------------------------------------------------------------
(* The numbers of the base module's stream, before the version itself,      *)
(* unless that is too long for a version.                                   *)
PrefixedVersion(stream, version) ==
  LET prefixed == RawVersion[stream] * Shift + version
  IN IF Sections[stream] = <<>> \/ prefixed > MaxVersion THEN version ELSE prefixed
=============================================================================
