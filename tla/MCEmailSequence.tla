-------------------------- MODULE MCEmailSequence --------------------------
(* Small instances of EmailSequence for TLC.                               *)
EXTENDS EmailSequence

\* One dedupe key per step and deferral bucket.
StepKeys == Order \X Buckets
=============================================================================
