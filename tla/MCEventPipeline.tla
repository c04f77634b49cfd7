-------------------------- MODULE MCEventPipeline --------------------------
(***************************************************************************)
(* A small instance of EventPipeline for TLC.                              *)
(***************************************************************************)
EXTENDS EventPipeline

MCPublisher == {"work_loop", "workflow"}
MCHost == {"work_loop"}
=============================================================================
