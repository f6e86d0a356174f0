---------------------------- MODULE DrainContract ----------------------------
(***************************************************************************)
(* What one generation of an endpoint promises about its connections,      *)
(* whatever machinery keeps the promise.  A group of connections is open   *)
(* for a while, is then closed to newcomers, and is finally reported       *)
(* drained; it is reported drained only when nobody is left inside.        *)
(* realm_core/src/lifecycle/cohort.rs states this contract in its header   *)
(* ("the cohort is only reported as drained once every registered          *)
(* connection has actually released its handle") and in the comment of     *)
(* start_draining ("no new connection is registered from now on").         *)
(* Module Cohort refines it.                                               *)
(***************************************************************************)

CONSTANT Conns          \* the connections that may ever show up

VARIABLES
    phase,              \* "open", "closed" or "drained"
    inside              \* the connections the group still answers for

contractVars == <<phase, inside>>

ContractInit ==
    /\ phase = "open"
    /\ inside = {}

Enter(c) ==
    /\ phase = "open"
    /\ c \notin inside
    /\ inside' = inside \cup {c}
    /\ phase' = phase

Leave(c) ==
    /\ c \in inside
    /\ inside' = inside \ {c}
    /\ phase' = phase

Close ==
    /\ phase = "open"
    /\ phase' = "closed"
    /\ inside' = inside

ReportDrained ==
    /\ phase = "closed"
    /\ inside = {}
    /\ phase' = "drained"
    /\ inside' = inside

ContractNext ==
    \/ \E c \in Conns : Enter(c) \/ Leave(c)
    \/ Close
    \/ ReportDrained

ContractSpec == ContractInit /\ [][ContractNext]_contractVars

==============================================================================
