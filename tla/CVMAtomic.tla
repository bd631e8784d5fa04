----------------------------- MODULE CVMAtomic ------------------------------
(***************************************************************************)
(* The step-by-step machine against the functions of CVMEval.              *)
(***************************************************************************)
EXTENDS CVM, CVMEval

\* Whatever a call goes through, the host sees it as one step, the one that the
\* engine's eval and run compute (main.ts): nothing of a call that throws, or of
\* an error half-way, shows otherwise.
CallsAreFunctions ==
    [][\/ \E ws \in Batches : data' = EvalWitness(data, ws)
       \/ \E t \in StopTimes : data' = EvalSchedule(data, t)]_data
=============================================================================
