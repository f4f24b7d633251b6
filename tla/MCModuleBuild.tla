--------------------------- MODULE MCModuleBuild ---------------------------
(* Small instances of ModuleBuild for TLC: a module of up to three packages *)
(* in two batches, the heavier of the first batch submitted first. A budget *)
(* says how often each disturbance may happen; those not named never do.    *)
EXTENDS ModuleBuild, TLC

CONSTANTS a, b, c, macros

MCComponent == {a, b, c}
MCBatch     == macros :> 1 @@ a :> 2 @@ b :> 2 @@ c :> 3
MCWeight    == macros :> 1 @@ a :> 2 @@ b :> 1 @@ c :> 1

(* One module with all packages; one with a package per batch; or one of    *)
(* several: without packages, all of it reusable, half of it reusable. With *)
(* AC reusable, "changed-and-after" reuses a, builds b and so builds c too.  *)
MCThree   == {{a, b, c}}
MCTwo     == {{a, c}}
MCSeveral == {{}, {a}, {a, c}}
MCReusable == {a}
MCReusableAC == {a, c}

Up(F) == [d \in Disturbance |-> IF d \in DOMAIN F THEN F[d] ELSE 0]

MCUndisturbed == Up([loss |-> 0])
MCAttempts    == Up([cancel |-> 1, resubmit |-> 1, reject |-> 1, taskFail |-> 1, repoFail |-> 1, loss |-> 1, raise |-> 1])
MCBatches     == Up([cancel |-> 1, resubmit |-> 1, refuse |-> 1, regen |-> 1, restart |-> 1])
MCPollers     == Up([cancel |-> 1, reject |-> 1, taskFail |-> 1, loss |-> 2])
MCResumed     == Up([cancel |-> 1, resubmit |-> 1])
MCRefused     == Up([refuse |-> 1])
MCRepoFails   == Up([repoFail |-> 1])
=============================================================================
