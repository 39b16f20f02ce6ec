------------------------ MODULE MCRecordingPipeline ------------------------
(* The outcome of the call does not matter to its recording: one is enough. *)
EXTENDS RecordingPipeline
MCFinalDispositions == {"SALE"}
=============================================================================
