-------------------------- MODULE ContentGenerator --------------------------
(***************************************************************************)
(* Which RPMs the modulemds imported into Koji list for an architecture:   *)
(* the module's own, and those of the -devel module beside it              *)
(* (builder/KojiContentGenerator.py).                                      *)
(*                                                                         *)
(* An RPM in the module's Koji tag: [name, arch, srpm, of, main], where    *)
(* srpm is the name and of the build of the source it is from, and main    *)
(* the package it has the debug information of, or "none". From the        *)
(* modulemd come rpms (Recording), whitelist and filters.                  *)
(***************************************************************************)
EXTENDS Recording

CONSTANTS MultilibOf,  \* MultilibOf[a]: the multilib architectures of a (pungi)
          Exclusive,   \* Exclusive[srpm], Excluded[srpm]: the architectures the
          Excluded     \* source is only, or not, built for; {} for any

Sources(tag)  == {r \in tag : r.arch = "src"}
Binaries(tag) == tag \ Sources(tag)
IsDebug(r)    == r.main # "none"
NamesOf(S)    == {r.name : r \in S}
BuildsOf(S)   == {r.of : r \in S}

(* RPMs that may be in the modulemd for architecture a.                     *)
Applicable(tag, a) ==
  {r \in Binaries(tag) : /\ r.arch \in MultilibOf[a] \cup {a, "noarch"}
                         /\ a \notin Excluded[r.srpm]
                         /\ Exclusive[r.srpm] # {} => a \in Exclusive[r.srpm]}

(* A component known under another name, by the whitelist, has no multilib. *)
MultilibWanted(m, r, a) ==
  IF r.srpm \in Names(m)
  THEN r.arch \in MultilibOf[a] => a \in Component(m, r.srpm).multilib
  ELSE r.arch \in {"noarch", a}

ShouldInclude(m, r, a) ==
  /\ r.srpm \in (IF m.whitelist # {} THEN m.whitelist ELSE Names(m))
  /\ r.name \notin m.filters
  /\ MultilibWanted(m, r, a)

(* First those that are no debug RPMs, then the debug RPMs of what is       *)
(* included, and those of no package if their source is.                    *)
Plain(m, tag, a) ==
  {r \in Applicable(tag, a) : ~IsDebug(r) /\ ShouldInclude(m, r, a)}
(* Mutant: debug RPMs are looked at like any other.                         *)
DebugLikeAny(m, tag, a) == {r \in Applicable(tag, a) : IsDebug(r) /\ ShouldInclude(m, r, a)}
Debug(m, tag, a) ==
  LET plain == Plain(m, tag, a)
      of(r) == \/ r.main \in NamesOf(plain)
               \/ r.main \notin NamesOf(Binaries(tag)) /\ r.of \in BuildsOf(plain)
  IN {r \in Applicable(tag, a) : IsDebug(r) /\ of(r) /\ ShouldInclude(m, r, a)}
Shipped(m, tag, a) == Plain(m, tag, a) \cup Debug(m, tag, a)

(* The source of everything that is included; -devel has all the others.    *)
SourcesOf(S, tag) == {r \in Sources(tag) : r.of \in BuildsOf(S)}
Artifacts(m, tag, a) == LET S == Shipped(m, tag, a) IN S \cup SourcesOf(S, tag)
(* Mutant: the sources of what is in the -devel module.                     *)
DevelWithSources(m, tag, a) ==
  LET S == Applicable(tag, a) \ Shipped(m, tag, a) IN S \cup SourcesOf(S, tag)
DevelArtifacts(m, tag, a) ==
  LET S == Shipped(m, tag, a)
  IN (Applicable(tag, a) \ S) \cup (Sources(tag) \ SourcesOf(S, tag))
=============================================================================
