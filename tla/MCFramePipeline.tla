--------------------------- MODULE MCFramePipeline ---------------------------
(* Instances of FramePipeline for TLC.                                       *)
EXTENDS FramePipeline, TLC

CONSTANTS stat, nn, reader, producer

\* A synchronous DROP sink (the camera's counting sink) and a LATEST sink
\* with a thread of its own.
TwoSinks == {stat, nn}
LatestSinks == {nn}
OneReader == {reader}
NoSinks == {}
=============================================================================
