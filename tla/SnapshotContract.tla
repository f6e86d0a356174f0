--------------------------- MODULE SnapshotContract ---------------------------
(***************************************************************************)
(* What the reconciler relies on when it persists: one cell that holds a   *)
(* complete snapshot or nothing.  A store replaces the cell in one instant *)
(* and succeeds exactly when it did; a crash of the process leaves the     *)
(* cell alone; a power failure may at worst bring back a snapshot that was *)
(* replaced since the last replacement known to be on the disk.            *)
(* realm_core/src/lifecycle/snapshot.rs states this in its header ("Writes *)
(* are atomic ... a crash mid-write leaves the previous complete snapshot  *)
(* in place").  Module SnapshotStore refines it, and action Persist of     *)
(* module Reconciler uses it.                                              *)
(***************************************************************************)

CONSTANTS
    Snapshots,          \* what may be stored
    None                \* nothing was stored yet

VARIABLES
    cell,               \* None or the current snapshot
    older,              \* what a power failure may bring back instead
    call,               \* "idle", "storing" or "stored"
    given               \* the argument of the last call

contractVars == <<cell, older, call, given>>

ContractInit ==
    /\ cell = None
    /\ older = {}
    /\ call = "idle"
    /\ given = None

Call(s) ==
    /\ call = "idle"
    /\ call' = "storing"
    /\ given' = s
    /\ UNCHANGED <<cell, older>>

Replace ==
    /\ call = "storing"
    /\ call' = "stored"
    /\ cell' = given
    /\ older' = older \cup {cell}
    /\ UNCHANGED given

(* an error is returned before the cell is replaced, and only then *)
ReturnErr ==
    /\ call = "storing"
    /\ call' = "idle"
    /\ UNCHANGED <<cell, older, given>>

ReturnOk ==
    /\ call = "stored"
    /\ call' = "idle"
    /\ older' \in {older, {}}
    /\ UNCHANGED <<cell, given>>

ProcessCrash ==
    /\ call' = "idle"
    /\ UNCHANGED <<cell, older, given>>

PowerFailure ==
    /\ call' = "idle"
    /\ cell' \in {cell} \cup older
    /\ older' = {}
    /\ UNCHANGED given

ContractNext ==
    \/ \E s \in Snapshots : Call(s)
    \/ Replace
    \/ ReturnErr
    \/ ReturnOk
    \/ ProcessCrash
    \/ PowerFailure

ContractSpec == ContractInit /\ [][ContractNext]_contractVars

==============================================================================
