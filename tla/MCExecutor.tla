------------------------------ MODULE MCExecutor ------------------------------
(***************************************************************************)
(* Instances of TopologyTaskExecutor: the batches a worker goes through.   *)
(***************************************************************************)
EXTENDS TopologyTaskExecutor

\* A scale-in, and a scale-out that a failure preempts.
MCHistories == {<<"SCALE_IN">>, <<"SCALE_OUT", "FAILURE">>}

=============================================================================
