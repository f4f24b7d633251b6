---------------------------- MODULE MCSubmission ----------------------------
(* A few requests for one module, for Submission.                           *)
EXTENDS Submission

CONSTANTS p1, p2

MCAllowed == [scratch |-> TRUE, yaml |-> FALSE, override |-> TRUE, import |-> TRUE,
              strategies |-> {"all", "only-changed"}, strategy |-> "only-changed"]

Submit(contexts) ==
  [kind |-> "submit", contexts |-> contexts, scratch |-> FALSE, srpms |-> FALSE, yaml |-> FALSE,
   branch |-> "main", strategy |-> None, reuse |-> 0]

Cancel1 == [kind |-> "cancel", contexts |-> <<>>, row |-> 1, owner |-> TRUE]
Import1 == [kind |-> "import", contexts |-> <<"c">>, scratch |-> FALSE, strategy |-> None]

(* The threads are interchangeable: what one may get the other need not.    *)
MCRequests ==
  (p1 :> {Submit(<<"c">>), Submit(<<"c", "d">>), Cancel1, [Submit(<<"c">>) EXCEPT !.yaml = TRUE]})
  @@ (p2 :> {Submit(<<"c">>), [Submit(<<"c">>) EXCEPT !.scratch = TRUE], Import1,
             [Submit(<<"c">>) EXCEPT !.strategy = "all", !.branch = "private"]})

OneRequest == (p1 :> {Submit(<<"c">>)}) @@ (p2 :> {Submit(<<"c">>)})
=============================================================================
