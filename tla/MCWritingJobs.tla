---------------------------- MODULE MCWritingJobs ----------------------------
(***************************************************************************)
(* Two jobs, a request to stop one and a change by others.                 *)
(***************************************************************************)
EXTENDS WritingJobs

\* Bound: a job that comes to work on its sources has one given by its path.
SourcesGiven == worker.phase > 0 => Artifact("sources") \in stored
=============================================================================
