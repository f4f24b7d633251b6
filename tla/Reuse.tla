------------------------------- MODULE Reuse -------------------------------
(***************************************************************************)
(* Which components of a build can be those of an earlier one              *)
(* (scheduler/reuse.py). Of a build b, and of the build p to reuse from:   *)
(*   strategy  "all", "changed-and-after" or "only-changed"                *)
(*   rows      its components: package -> [batch, ref, built], built the   *)
(*             artifact in Koji, or 0                                      *)
(*   mmd       its modulemd (Recording), with the RPM macros it defines    *)
(***************************************************************************)
EXTENDS Recording

Strict == "changed-and-after"

(* Mutant: how the other build was built does not matter.                   *)
AnyStrategy(b, p) == TRUE
StrategyAllows(b, p) == b.strategy = Strict => p.strategy \in {"all", Strict}

Recorded(b, c) == c \in DOMAIN b.rows /\ b.rows[c].batch # NoBatch /\ b.rows[c].ref # Srpm
SameCommit(b, p, c) ==
  Recorded(b, c) /\ Recorded(p, c) /\ b.rows[c].ref = p.rows[c].ref

InBatches(b, B) == {c \in DOMAIN b.rows : b.rows[c].batch \in B}
Earlier(b, c)   == 2..(b.rows[c].batch - 1)

(* The batches before that of c: [batch -> packages, commits and arches].   *)
Before(b, c) ==
  [i \in Earlier(b, c) |->
     {<<d, b.rows[d].ref, Component(b.mmd, d).arches>> : d \in InBatches(b, {i})}]

SameBatch(b, p, c)  == b.rows[c].batch = p.rows[c].batch /\ b.mmd.macros = p.mmd.macros
SameBefore(b, p, c) == b.strategy = Strict => SameBatch(b, p, c) /\ Before(b, c) = Before(p, c)
SameArches(b, p, c) == Component(b.mmd, c).arches = Component(p.mmd, c).arches

(* The modulemd of a build does not have the components of the modules it   *)
(* includes: to ask it for their arches raises an AttributeError.           *)
Included(b, p, C) == C \subseteq Names(b.mmd) \cap Names(p.mmd)
Raises(b, p, c) ==
  /\ b.strategy # "all" /\ SameCommit(b, p, c)
  /\ \/ /\ b.strategy = Strict /\ SameBatch(b, p, c)
        /\ \/ ~(InBatches(b, Earlier(b, c)) \subseteq Names(b.mmd))
           \/ ~(InBatches(p, Earlier(b, c)) \subseteq Names(p.mmd))
     \/ /\ SameBefore(b, p, c)
        /\ ~Included(b, p, {c})

Reusable(b, p, c) ==
  /\ b.strategy # "all"
  /\ SameCommit(b, p, c) /\ SameBefore(b, p, c) /\ SameArches(b, p, c)

(* What a component is made from, under the strictest strategy.             *)
MadeFrom(b, c) ==
  LET arches(d) == IF d \in Names(b.mmd) THEN Component(b.mmd, d).arches ELSE {}
      made(d)   == <<d, b.rows[d].ref, arches(d)>>
  IN [what   |-> made(c), macros |-> b.mmd.macros,
      before |-> [i \in Earlier(b, c) |-> {made(d) : d \in InBatches(b, {i})}]]
=============================================================================
