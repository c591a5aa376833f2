-------------------------- MODULE MCTrackingCache --------------------------
(* TrackingCache on small instances. *)
EXTENDS TrackingCache, TLC

CONSTANTS c1, c2

MCRoles == {(c1 :> "update" @@ c2 :> k) : k \in {"update", "latest", "history"}}

=============================================================================
