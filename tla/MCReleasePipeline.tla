------------------------ MODULE MCReleasePipeline ------------------------
(* Instance of ReleasePipeline for TLC. *)
EXTENDS ReleasePipeline
=============================================================================
