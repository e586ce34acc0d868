---------------------------- MODULE StaleReplica ----------------------------
(***************************************************************************)
(* What PolicySyncService promises of each value it publishes: a replica    *)
(* that may lag behind the version of its source, that only ever moves to a *)
(* version the source has really had, and that never moves back.  Version   *)
(* 0 is the value before the first successful scan.                         *)
(***************************************************************************)
EXTENDS Naturals

VARIABLES
    source,     \* the current version of the original
    replica     \* the version that the replica shows

Init == source \in Nat /\ replica = 0

Advance == source' = source + 1 /\ UNCHANGED replica

CatchUp == replica' \in replica .. source /\ UNCHANGED source

Next == Advance \/ CatchUp

Spec == Init /\ [][Next]_<<source, replica>>
=============================================================================
