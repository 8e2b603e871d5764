--------------------------- MODULE MCIngestPipeline ---------------------------
(* Instances of IngestPipeline for TLC: an event of two metrics without a  *)
(* time stamp, and a signal frame with one.                                *)
EXTENDS IngestPipeline

CONSTANTS metrics, frame

MCEvents == {metrics, frame}
MCMetricCount == [e \in Events |-> IF e = metrics THEN 2 ELSE 0]
===============================================================================
