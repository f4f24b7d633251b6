----------------------------- MODULE Recording -----------------------------
(***************************************************************************)
(* What the init handler makes of a modulemd (scheduler/submit.py): the    *)
(* commits its components are built from, and the order and batch of each. *)
(*                                                                         *)
(* A modulemd m:                                                           *)
(*   rpms      a set of [name, order, ref, arches, multilib, forbidden]    *)
(*   modules   a set of [name, order, nth, forbidden]: those it includes,  *)
(*             nth in the order of their names                               *)
(* ref is a commit, or Branch if the branch is to be looked at; forbidden  *)
(* a repository, cache or buildafter the service does not allow.           *)
(* heads[n] is the commit at the head of the branch of n; NoCommit, if it  *)
(* cannot be found.                                                        *)
(***************************************************************************)
EXTENDS Integers, Sequences, FiniteSets, SequencesExt

Branch   == -1
NoCommit == 0
Srpm     == -2      \* the ref of a component with a custom SRPM: None

Names(m)      == {c.name : c \in m.rpms}
Component(m, n) == CHOOSE c \in m.rpms : c.name = n
IsEmpty(m)    == m.rpms = {} /\ m.modules = {}

-----------------------------------------------------------------------------
(* format_mmd                                                               *)

Forbidden(m) == \E c \in m.rpms \cup m.modules : c.forbidden

Resolve(c, heads, srpms) ==
  CASE c.name \in srpms -> Srpm
    [] c.name \notin srpms /\ c.ref = Branch -> heads[c.name]
    [] OTHER -> c.ref

Refs(m, heads, srpms) == [n \in Names(m) |-> Resolve(Component(m, n), heads, srpms)]

Unresolved(m, heads, srpms) == NoCommit \in Range(Refs(m, heads, srpms))

-----------------------------------------------------------------------------
(* record_component_builds                                                  *)

(* Mutant: packages and included modules are each sorted on their own.      *)
PackagesFirst(m, c, d) ==
  \/ c \in m.rpms /\ d \in m.modules
  \/ c.order < d.order /\ (d \in m.rpms => c \in m.rpms)

(* By buildorder, then packages before modules.                             *)
InBuildorder(m, c, d) ==
  \/ c.order < d.order
  \/ /\ c.order = d.order /\ d \in m.modules
     /\ c \in m.modules => c.nth < d.nth

(* The first batch is that of module-build-macros. NoBatch is None, what an *)
(* included module without components returns.                              *)
NoBatch == -1
(* Mutant: the first components are in the first batch.                     *)
WithMacros   == 0
InitialBatch == 1

(* A modulemd whose components are being recorded; place is the buildorder  *)
(* and the name of each of the modules it is in, from the outermost one.    *)
NoOrder == -1000    \* previous_buildorder=None
Frame(m, prev, place) ==
  [todo |-> m.rpms \cup m.modules, prev |-> prev, of |-> m, place |-> place]

Nexts(frame) == {c \in frame.todo : \A d \in frame.todo : ~InBuildorder(frame.of, d, c)}
BatchOf(frame, c, batch) == IF c.order # frame.prev THEN batch + 1 ELSE batch

(* None + 1                                                                 *)
Uncountable(frame, c, batch) == batch = NoBatch /\ c.order # frame.prev

(* Mutant: what is in the database is taken to be right.                    *)
NeverDiffers(row, batch, ref) == FALSE
Differs(row, batch, ref) == row.batch # batch \/ row.ref # ref

-----------------------------------------------------------------------------
(* get_build_arches: the arches configured for a buildrequired module,      *)
(* those of the modulemd itself, those of the first privileged or base      *)
(* module that has any, or the service's.                                   *)
FirstArches(configured, own, buildrequired, default) ==
  LET of == SelectSeq(configured \o <<own>> \o buildrequired, LAMBDA S : S # {})
  IN IF of # <<>> THEN Head(of) ELSE default
=============================================================================
