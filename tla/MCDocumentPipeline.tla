------------------------ MODULE MCDocumentPipeline ------------------------
(* One retry per task and three faults: enough to dead letter a task and to  *)
(* have one more fault in its compensation, or a crash before it.  A second  *)
(* run is a retry_document or a fork.                                        *)
EXTENDS DocumentPipeline, TLC
=============================================================================
