-------------------------------- MODULE Cohort --------------------------------
(***************************************************************************)
(* One generation of one (id, protocol) slot: the accept loop that admits  *)
(* connections, the tasks that relay them, the cohort that tracks them and *)
(* the owner (the endpoint manager, then a background drain task) that     *)
(* stops the loop and drains the cohort.                                   *)
(*                                                                         *)
(*   realm_core/src/lifecycle/cohort.rs    count, guards, token, drain     *)
(*   realm_core/src/tcp/mod.rs             serve_tcp                       *)
(*   realm_core/src/lifecycle/manager.rs   stop_active, spawn_drain,       *)
(*                                         refresh                         *)
(*                                                                         *)
(* The tasks run on different threads, so everything another thread can    *)
(* see is a step of its own: the counter is bumped before the guard        *)
(* exists, it is lowered before the guard's sender is dropped, a shutdown  *)
(* may fire between the poll of the shutdown token and the poll of accept, *)
(* and the drain reads the counter before it fires the token.              *)
(***************************************************************************)
EXTENDS Naturals, FiniteSets

CONSTANT Conns          \* the clients that may connect

ASSUME ConnsFinite == IsFiniteSet(Conns)

VARIABLES
    loop,               \* the accept loop of serve_tcp
    conn,               \* conn[c]: how far connection c is
    count,              \* Inner::count
    shutdown,           \* the loop's shutdown token has fired
    token,              \* Inner::token has fired
    ownerAlive,         \* Cohort::alive is still Some
    owner,              \* what the cohort's owner is doing
    deadline,           \* the deadline given to drain: "none" or "some"
    forced,             \* the count that DrainOutcome::Forced reports
    killed              \* history: connections the drain's cancel ended

vars == <<loop, conn, count, shutdown, token, ownerAlive, owner, deadline,
          forced, killed>>

(***************************************************************************)
(* A connection is "counted" once register has bumped the counter, "live"  *)
(* while its task relays, "ended" when the task left its select, and       *)
(* "released" when the guard's drop has lowered the counter but the        *)
(* guard's sender is not dropped yet.                                      *)
(***************************************************************************)
ConnState  == {"new", "counted", "live", "ended", "released", "gone"}
LoopState  == {"select", "polled", "registering", "exited"}
OwnerState == {"serving", "joining", "stopped", "rebuilding", "waiting",
               "expired", "read", "forcing", "drained"}

Counted == {c \in Conns : conn[c] \in {"counted", "live", "ended"}}
Holders == {c \in Conns : conn[c] \in {"live", "ended", "released"}}

(* Every sender of the `done` channel is dropped: the cohort's own one, the
   one in the accept loop's CohortHandle, and the one in every guard. *)
SendersGone ==
    /\ ~ownerAlive
    /\ loop = "exited"
    /\ Holders = {}

Init ==
    /\ loop = "select"
    /\ conn = [c \in Conns |-> "new"]
    /\ count = 0
    /\ shutdown = FALSE
    /\ token = FALSE
    /\ ownerAlive = TRUE
    /\ owner = "serving"
    /\ deadline = "none"
    /\ forced = 0
    /\ killed = {}

-------------------------------------------------------------------------------
(* The accept loop. *)

ownerVars == <<ownerAlive, owner, deadline, forced>>

(* biased select: the shutdown token is polled before accept *)
PollShutdown ==
    /\ loop = "select"
    /\ loop' = IF shutdown THEN "exited" ELSE "polled"
    /\ UNCHANGED <<conn, count, shutdown, token, ownerVars, killed>>

(* accept is pending, or failed with ConnectionAborted *)
AcceptNothing ==
    /\ loop = "polled"
    /\ loop' = "select"
    /\ UNCHANGED <<conn, count, shutdown, token, ownerVars, killed>>

(* any other accept error ends the task, and nobody asked it to *)
AcceptFails ==
    /\ loop = "polled"
    /\ loop' = "exited"
    /\ UNCHANGED <<conn, count, shutdown, token, ownerVars, killed>>

(* accept returned c: CohortHandle::register starts by bumping the counter *)
Accept(c) ==
    /\ loop = "polled"
    /\ conn[c] = "new"
    /\ loop' = "registering"
    /\ conn' = [conn EXCEPT ![c] = "counted"]
    /\ count' = count + 1
    /\ UNCHANGED <<shutdown, token, ownerVars, killed>>

(* ... then builds the guard, which the spawned task takes over *)
SpawnRelay(c) ==
    /\ loop = "registering"
    /\ conn[c] = "counted"
    /\ loop' = "select"
    /\ conn' = [conn EXCEPT ![c] = "live"]
    /\ UNCHANGED <<count, shutdown, token, ownerVars, killed>>

-------------------------------------------------------------------------------
(* The task of one connection. *)

(* the relay ended, successfully or not *)
RelayEnds(c) ==
    /\ conn[c] = "live"
    /\ conn' = [conn EXCEPT ![c] = "ended"]
    /\ UNCHANGED <<loop, count, shutdown, token, ownerVars, killed>>

(* the cohort's token fired and the task's select saw it *)
RelayCancelled(c) ==
    /\ conn[c] = "live"
    /\ token
    /\ conn' = [conn EXCEPT ![c] = "ended"]
    /\ killed' = IF owner = "rebuilding" THEN killed ELSE killed \cup {c}
    /\ UNCHANGED <<loop, count, shutdown, token, ownerVars>>

ReleaseGuard_NoDecrement(c) ==
    /\ conn[c] = "ended"
    /\ conn' = [conn EXCEPT ![c] = "released"]
    /\ UNCHANGED <<loop, count, shutdown, token, ownerVars, killed>>

(* drop(guard): Drop for ConnGuard lowers the counter first *)
ReleaseGuard(c) ==
    /\ conn[c] = "ended"
    /\ conn' = [conn EXCEPT ![c] = "released"]
    /\ count' = count - 1
    /\ UNCHANGED <<loop, shutdown, token, ownerVars, killed>>

(* ... and only then is the guard's sender dropped with its fields *)
DropSender(c) ==
    /\ conn[c] = "released"
    /\ conn' = [conn EXCEPT ![c] = "gone"]
    /\ UNCHANGED <<loop, count, shutdown, token, ownerVars, killed>>

-------------------------------------------------------------------------------
(* The owner: manager.rs stops the loop, then drains the cohort. *)

envVars == <<loop, conn, count, killed>>

(* stop_active: fire the shutdown token and await the serving task *)
StopActive ==
    /\ owner = "serving"
    /\ shutdown' = TRUE
    /\ owner' = "joining"
    /\ UNCHANGED <<envVars, token, ownerAlive, deadline, forced>>

Join ==
    /\ owner = "joining"
    /\ loop = "exited"
    /\ owner' = "stopped"
    /\ UNCHANGED <<envVars, shutdown, token, ownerAlive, deadline, forced>>

RebuildCancel_WaitOnly ==
    /\ owner = "stopped"
    /\ ownerAlive
    /\ ownerAlive' = FALSE
    /\ owner' = "rebuilding"
    /\ UNCHANGED <<envVars, shutdown, token, deadline, forced>>

(* a udp slot rebinding its own address: cancel, then wait_drained *)
RebuildCancel ==
    /\ owner = "stopped"
    /\ ownerAlive
    /\ ownerAlive' = FALSE
    /\ token' = TRUE
    /\ owner' = "rebuilding"
    /\ UNCHANGED <<envVars, shutdown, deadline, forced>>

RebuildDone ==
    /\ owner = "rebuilding"
    /\ SendersGone
    /\ owner' = "stopped"
    /\ UNCHANGED <<envVars, shutdown, token, ownerAlive, deadline, forced>>

(* spawn_drain: start_draining drops the cohort's own sender, and the drain
   task waits, with or without a deadline *)
SpawnDrain(d) ==
    /\ owner = "stopped"
    /\ ownerAlive' = FALSE
    /\ deadline' = d
    /\ owner' = "waiting"
    /\ UNCHANGED <<envVars, shutdown, token, forced>>

(* refresh: the serving task exited on its own, so its cohort is drained
   under the delete deadline without a join *)
RefreshExited(d) ==
    /\ owner = "serving"
    /\ loop = "exited"
    /\ shutdown' = TRUE
    /\ ownerAlive' = FALSE
    /\ deadline' = d
    /\ owner' = "waiting"
    /\ UNCHANGED <<envVars, token, forced>>

(* drain: the last sender went away in time *)
DrainFinished ==
    /\ owner = "waiting"
    /\ SendersGone
    /\ owner' = "drained"
    /\ UNCHANGED <<envVars, shutdown, token, ownerAlive, deadline, forced>>

DrainTimesOut_Always ==
    /\ owner = "waiting"
    /\ owner' = "expired"
    /\ UNCHANGED <<envVars, shutdown, token, ownerAlive, deadline, forced>>

(* ... or the timeout elapsed first *)
DrainTimesOut ==
    /\ owner = "waiting"
    /\ deadline = "some"
    /\ owner' = "expired"
    /\ UNCHANGED <<envVars, shutdown, token, ownerAlive, deadline, forced>>

DrainReadsCount ==
    /\ owner = "expired"
    /\ forced' = count
    /\ owner' = "read"
    /\ UNCHANGED <<envVars, shutdown, token, ownerAlive, deadline>>

DrainCancels_NoToken ==
    /\ owner = "read"
    /\ owner' = "forcing"
    /\ UNCHANGED <<envVars, shutdown, token, ownerAlive, deadline, forced>>

DrainCancels ==
    /\ owner = "read"
    /\ token' = TRUE
    /\ owner' = "forcing"
    /\ UNCHANGED <<envVars, shutdown, ownerAlive, deadline, forced>>

DrainForced_NoWait ==
    /\ owner = "forcing"
    /\ owner' = "drained"
    /\ UNCHANGED <<envVars, shutdown, token, ownerAlive, deadline, forced>>

DrainForced_CountsLast ==
    /\ owner = "forcing"
    /\ SendersGone
    /\ forced' = count
    /\ owner' = "drained"
    /\ UNCHANGED <<envVars, shutdown, token, ownerAlive, deadline>>

DrainForced ==
    /\ owner = "forcing"
    /\ SendersGone
    /\ owner' = "drained"
    /\ UNCHANGED <<envVars, shutdown, token, ownerAlive, deadline, forced>>

(* the drain task returned: nothing of this generation is left to run *)
Terminated ==
    /\ owner = "drained"
    /\ UNCHANGED vars

-------------------------------------------------------------------------------

Accepting ==
    \/ PollShutdown
    \/ AcceptNothing
    \/ AcceptFails
    \/ \E c \in Conns : Accept(c)
    \/ \E c \in Conns : SpawnRelay(c)

Relaying(c) ==
    \/ RelayEnds(c)
    \/ RelayCancelled(c)
    \/ ReleaseGuard(c)
    \/ DropSender(c)

Owning ==
    \/ StopActive
    \/ Join
    \/ RebuildCancel
    \/ RebuildDone
    \/ \E d \in {"none", "some"} : SpawnDrain(d)
    \/ \E d \in {"none", "some"} : RefreshExited(d)
    \/ DrainFinished
    \/ DrainTimesOut
    \/ DrainReadsCount
    \/ DrainCancels
    \/ DrainForced

Next ==
    \/ Accepting
    \/ \E c \in Conns : Relaying(c)
    \/ Owning
    \/ Terminated

Spec == Init /\ [][Next]_vars

(***************************************************************************)
(* The runtime polls every task that has been woken.  Clients need not     *)
(* connect and relays need not end on their own, so accepting c and        *)
(* RelayEnds carry no fairness; a fired token and an elapsed timer do wake *)
(* their tasks.                                                            *)
(***************************************************************************)
Fairness ==
    /\ WF_vars(PollShutdown)
    /\ WF_vars(AcceptNothing)
    /\ \A c \in Conns : WF_vars(SpawnRelay(c))
    /\ \A c \in Conns : WF_vars(RelayCancelled(c))
    /\ \A c \in Conns : WF_vars(ReleaseGuard(c))
    /\ \A c \in Conns : WF_vars(DropSender(c))
    /\ WF_vars(Join)
    /\ WF_vars(RebuildDone)
    /\ WF_vars(DrainFinished)
    /\ WF_vars(DrainTimesOut)
    /\ WF_vars(DrainReadsCount)
    /\ WF_vars(DrainCancels)
    /\ WF_vars(DrainForced)

FairSpec == Spec /\ Fairness

-------------------------------------------------------------------------------
(* Properties *)

(* Type invariant of the cohort, its accept loop and its owner. *)
TypeOK ==
    /\ loop \in LoopState
    /\ conn \in [Conns -> ConnState]
    /\ count \in Nat
    /\ shutdown \in BOOLEAN
    /\ token \in BOOLEAN
    /\ ownerAlive \in BOOLEAN
    /\ owner \in OwnerState
    /\ deadline \in {"none", "some"}
    /\ forced \in Nat
    /\ killed \in SUBSET Conns

(* The counter that status, draining_for and Forced report is at every
   moment the number of connections that registered and have not released
   their guard (Cohort::count): it neither misses a relaying connection nor
   wraps below zero, whatever the order of registrations and drops. *)
CountExact == count = Cardinality(Counted)

(* A cohort reported as drained has no connection left in any stage: no
   relaying task, no guard, no sender, and no registration in progress
   (cohort.rs, module comment: "only reported as drained once every
   registered connection has actually released its handle"). *)
DrainedIsEmpty ==
    owner = "drained" =>
        /\ \A c \in Conns : conn[c] \in {"new", "gone"}
        /\ count = 0

(* A drain that was given no deadline ends no connection, however long the
   connections last (Cohort::drain, "must not disturb established
   connections"): only an expired deadline does. *)
UpdateKeepsConnections == killed # {} => deadline = "some"

(* DrainOutcome::Forced(n) never under-reports: the connections that the
   expired deadline terminated are at most the n counted before the token was
   fired, although connections keep ending between the two. *)
ForcedCoversKilled ==
    owner \in {"forcing", "drained"} => Cardinality(killed) <= forced

(* Once a cohort is draining no connection is registered in it any more
   (start_draining, "no new connection is registered from now on"), although
   a shutdown that fires between the two polls of the biased select still
   lets one last accept through. *)
NoAdmissionWhileDraining ==
    [][~ownerAlive => \A c \in Conns : conn[c] = "new" => conn'[c] = "new"]_vars

(* A drain with a deadline always completes, even when no relay ever ends on
   its own: the expired deadline terminates what is left and the drain task
   confirms it. *)
DeadlineDrainCompletes ==
    (owner = "waiting" /\ deadline = "some") ~> (owner = "drained")

(* Stopping a listener and rebuilding udp associations never hang: the join
   of stop_active and the wait_drained before a same-address rebind both
   return. *)
StopCompletes ==
    owner \in {"joining", "rebuilding"} ~> owner = "stopped"

(***************************************************************************)
(* Refinement: the cohort keeps the drain contract.                        *)
(***************************************************************************)
Contract ==
    INSTANCE DrainContract WITH
        phase  <- IF owner = "drained" THEN "drained"
                  ELSE IF ownerAlive THEN "open" ELSE "closed",
        inside <- {c \in Conns : conn[c] \notin {"new", "gone"}}

(* The cohort, its loop and its owner together implement DrainContract: no
   connection enters once the cohort is closed, and drained is reported only
   when nobody is inside. *)
KeepsContract == Contract!ContractSpec

===============================================================================
