--------------------------- MODULE LocationStore ---------------------------
(***************************************************************************)
(* What the batch storage of TrackingService promises, with the queue, the *)
(* timers and the transactions left out: an update that is accepted waits  *)
(* until it is stored or dropped. It is stored once at most, and a store   *)
(* that leaves updates out never leaves out the latest of a vehicle.       *)
(* Whether an update is dropped after a failure is left open here.         *)
(***************************************************************************)
EXTENDS Naturals

CONSTANT Updates  \* what devices send: records with vehicle v and time t

VARIABLES
    waiting,   \* updates accepted and not yet settled
    rows       \* rows of vehicle_locations

storeVars == <<waiting, rows>>

StoreInit == waiting = {} /\ rows = {}

(* An update that was never seen before is accepted. *)
Accept(u) ==
    /\ u \notin waiting \cup rows
    /\ waiting' = waiting \cup {u}
    /\ UNCHANGED rows

(* Of the updates that are taken some become rows, the latest of each        *)
(* vehicle among them.                                                       *)
Store ==
    \E taken \in SUBSET waiting : \E kept \in SUBSET taken :
        /\ \A u \in taken : \E x \in kept : x.v = u.v /\ x.t >= u.t
        /\ rows' = rows \cup kept
        /\ waiting' = waiting \ taken

(* A failure, or a crash, loses some of those waiting. *)
Drop ==
    /\ waiting' \in SUBSET waiting
    /\ UNCHANGED rows

StoreNext == (\E u \in Updates : Accept(u)) \/ Store \/ Drop

StoreSpec == StoreInit /\ [][StoreNext]_storeVars

=============================================================================
