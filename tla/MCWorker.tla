------------------------------- MODULE MCWorker --------------------------------
(* Workers and edits: two runs, so that what the first leaves meets the    *)
(* second.                                                                 *)
EXTENDS EvaluationControl
=============================================================================
