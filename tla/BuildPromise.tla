---------------------------- MODULE BuildPromise ----------------------------
(***************************************************************************)
(* What a module build promises to the one who submitted it, whatever      *)
(* happens to messages, workers and Koji in between: the packages to build *)
(* are planned once; a package that is built stays built, through failures *)
(* and resubmissions; the build is finished only when nothing is left to   *)
(* build; only a failed build is resumed or garbage collected.             *)
(* ModuleBuild is shown to implement it.                                   *)
(***************************************************************************)
CONSTANT Component    \* the packages a module may list

VARIABLES
  phase,     \* where the build is, as the submitter sees it
  planned,   \* whether the packages to build are known
  todo       \* the planned packages that are not built yet

vars == <<phase, planned, todo>>

Phase == {"pending", "building", "failed", "finished", "gone"}

Init == phase = "pending" /\ planned = FALSE /\ todo = {}

(* The modulemd was read: its packages are what is to be built.             *)
Plan == /\ phase = "pending" /\ ~planned
        /\ planned' = TRUE /\ todo' \in SUBSET Component
        /\ UNCHANGED phase

(* Packages get built; the build gets, or falls back, to work.              *)
Work == /\ planned
        /\ todo' \subseteq todo
        /\ phase' \in {phase, "building"}
        /\ UNCHANGED planned

(* The build fails, possibly with the last package that was built.          *)
Fail == /\ phase' = "failed"
        /\ todo' \subseteq todo
        /\ UNCHANGED planned

Resume == phase = "failed" /\ phase' = "pending" /\ UNCHANGED <<planned, todo>>

Finish == planned /\ todo = {} /\ phase' = "finished" /\ UNCHANGED <<planned, todo>>

(* Garbage collected: no packages will be planned any more.                 *)
Collect == phase = "failed" /\ phase' = "gone" /\ planned' = TRUE /\ UNCHANGED todo

Next == Plan \/ Work \/ Fail \/ Resume \/ Finish \/ Collect

Spec == Init /\ [][Next]_vars
=============================================================================
