-------------------------- MODULE MCTrackingBatch --------------------------
(* TrackingBatch on small instances. Vehicles are interchangeable, and so   *)
(* are the invocations of processBatch, but symmetry is not used: the run   *)
(* also checks a liveness property.                                         *)
EXTENDS TrackingBatch

=============================================================================
