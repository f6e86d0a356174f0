------------------------------- MODULE Manager -------------------------------
(***************************************************************************)
(* EndpointManager: one state machine per (id, protocol) slot.             *)
(*                                                                         *)
(*   realm_core/src/lifecycle/manager.rs                                   *)
(*                                                                         *)
(* The manager is owned by one task, the reconciler, which calls its       *)
(* operations one after the other; module Reconciler does.  An operation   *)
(* that binds has several possible results, so apply_slot and apply are    *)
(* sets of results, and Effect installs the one that happened.  Two things *)
(* happen behind the manager's back: a serving task exits on its own, and  *)
(* a draining cohort finishes (module Cohort has the inside of both).      *)
(***************************************************************************)
EXTENDS Endpoints

CONSTANT Env            \* which faults and events the environment produces

EnvKinds == {"bind", "build", "refresh", "store", "load", "exit", "crash",
             "rotate", "torn", "conns", "dup", "clash"}

ASSUME EnvIsKnown == Env \subseteq EnvKinds

VARIABLES
    slots,              \* slots[id][proto]: None or a slot
    cohorts,            \* draining cohorts that still have connections
    hostile             \* the environment may fail this generation's calls

managerVars == <<slots, cohorts>>

(* Active: a serving task, with the generation, endpoint and digest it was
   started with.  alive is what task.is_finished() would deny. *)
Task(g, e, m) == [gen |-> g, endpoint |-> e, material |-> m, alive |-> TRUE]

TaskType ==
    [gen: Nat, endpoint: Endpoint, material: Option(Materials), alive: BOOLEAN]

SlotType ==
    [state: {"running", "draining", "failed"}, gen: Nat, endpoint: Endpoint,
     material: Option(Materials), active: Option(TaskType)]

ASSUME NoneIsNoSlot == None \notin TaskType /\ None \notin SlotType

(* A superseded cohort.  Its deadline is that of DrainPolicy::on_update, which
   is none by default, or that of on_delete.  It is held while its slot lists
   it, and detached once stop_slot dropped the slot. *)
CohortType ==
    [id: Ids, proto: Protos, gen: Nat, deadline: BOOLEAN, held: BOOLEAN]

Actions == {"none", "unchanged", "created", "updated", "deleted", "failed"}

-------------------------------------------------------------------------------
(* Reading the state. *)

(* active_endpoint(id, proto).is_some() *)
Active(S, i, p) == S[i][p] # None /\ S[i][p].active # None

Contains(S, i) == \E p \in Protos : S[i][p] # None

Serving(S, i) == \E p \in Protos : Active(S, i, p)

(* all_running: an active slot for every protocol of the built spec *)
AllRunning(S, i, b) == \A p \in b.protos : Active(S, i, p)

(* the socket of a live tcp listener of another endpoint is on this address;
   udp sockets carry SO_REUSEADDR, under which Linux lets them share one *)
Taken(S, i, p, a) ==
    /\ p = "tcp"
    /\ \E j \in Ids \ {i} : /\ Active(S, j, p)
                            /\ S[j][p].active.alive
                            /\ S[j][p].active.endpoint.addr = a

(* The possible results of binding. *)
Bind(S, i, p, a) ==
    {ok \in BOOLEAN : IF Taken(S, i, p, a) THEN ~ok
                      ELSE ok \/ (hostile /\ "bind" \in Env)}

-------------------------------------------------------------------------------
(* spawn_drain: a cohort without connections is gone at once. *)
SpawnDrain(i, p, g, deadline) ==
    IF "conns" \in Env
    THEN {[id |-> i, proto |-> p, gen |-> g, deadline |-> deadline, held |-> TRUE]}
    ELSE {}

(* refresh: a slot whose task exited is failed, and its cohort drains under
   the delete deadline *)
Exited(i, p) == Active(slots, i, p) /\ ~slots[i][p].active.alive

RefreshSlots ==
    [i \in Ids |-> [p \in Protos |->
        IF Exited(i, p)
        THEN [slots[i][p] EXCEPT !.active = None, !.state = "failed"]
        ELSE slots[i][p]]]

RefreshCohorts ==
    cohorts \cup UNION {SpawnDrain(x[1], x[2], slots[x[1]][x[2]].active.gen, TRUE) :
                        x \in {y \in Ids \X Protos : Exited(y[1], y[2])}}

(* The result of one slot's operation. *)
Outcome(slot, action, drains) ==
    [slot |-> slot, action |-> action, drains |-> drains]

RunningSlot_KeepsGen(s, g, b) ==
    [state |-> "running", gen |-> IF s = None THEN g ELSE s.gen,
     endpoint |-> b.endpoint, material |-> b.material,
     active |-> Task(g, b.endpoint, b.material)]

(* The slot s once b serves at generation g.  The digest travels with the
   endpoint it describes. *)
RunningSlot(s, g, b) ==
    [state |-> "running", gen |-> g, endpoint |-> b.endpoint,
     material |-> b.material, active |-> Task(g, b.endpoint, b.material)]

(* apply_slot, nothing serving: a plain start; fail_slot records a failure *)
StartSlot(S, i, p, g, b) ==
    {IF ok
     THEN Outcome(RunningSlot(S[i][p], g, b), "created", {})
     ELSE Outcome([state |-> "failed", gen |-> g, endpoint |-> b.endpoint,
                   material |-> b.material, active |-> None], "failed", {}) :
     ok \in Bind(S, i, p, b.endpoint.addr)}

(* apply_slot, same address: stop and join the old listener (a udp slot also
   cancels its associations and waits for them), bind, and when that fails
   try to put the old endpoint back under its old generation *)
RebindSlot(S, i, p, g, b) ==
    LET s == S[i][p]
        drains == IF p = "udp" THEN {} ELSE SpawnDrain(i, p, s.active.gen, FALSE)
        bound == Bind(S, i, p, b.endpoint.addr)
        back == [s EXCEPT !.state = "failed",
                          !.active = Task(s.active.gen, s.endpoint, s.material)]
        lost == [s EXCEPT !.state = "failed", !.active = None]
    IN  {Outcome(RunningSlot(s, g, b), "updated", drains) : ok \in bound \cap {TRUE}}
        \cup {Outcome(IF ok THEN back ELSE lost, "failed", drains) :
              ok \in IF FALSE \in bound THEN Bind(S, i, p, s.endpoint.addr) ELSE {}}

MoveSlot_StopFirst(S, i, p, g, b) ==
    LET s == S[i][p]
        drains == SpawnDrain(i, p, s.active.gen, FALSE)
    IN  {IF ok
         THEN Outcome(RunningSlot(s, g, b), "updated", drains)
         ELSE Outcome([s EXCEPT !.state = "failed", !.active = None], "failed", drains) :
         ok \in Bind(S, i, p, b.endpoint.addr)}

(* apply_slot, another address: the new listener comes up first *)
MoveSlot(S, i, p, g, b) ==
    LET s == S[i][p]
    IN  {IF ok
         THEN Outcome(RunningSlot(s, g, b), "updated",
                      SpawnDrain(i, p, s.active.gen, FALSE))
         ELSE Outcome([s EXCEPT !.state = "failed"], "failed", {}) :
         ok \in Bind(S, i, p, b.endpoint.addr)}

ApplySlot_IgnoresDigest(S, i, p, g, b) ==
    LET s == S[i][p]
    IN  IF ~Active(S, i, p) THEN StartSlot(S, i, p, g, b)
        ELSE IF EndpointUnchanged(s.endpoint, b.endpoint)
             THEN {Outcome(s, "unchanged", {})}
        ELSE IF s.active.endpoint.addr = b.endpoint.addr
             THEN RebindSlot(S, i, p, g, b)
        ELSE MoveSlot(S, i, p, g, b)

(* apply_slot: the no-op fast path, or one of the three ways to start *)
ApplySlot(S, i, p, g, b) ==
    LET s == S[i][p]
    IN  IF ~Active(S, i, p) THEN StartSlot(S, i, p, g, b)
        ELSE IF s.material = b.material /\ EndpointUnchanged(s.endpoint, b.endpoint)
             THEN {Outcome(s, "unchanged", {})}
        ELSE IF s.active.endpoint.addr = b.endpoint.addr
             THEN RebindSlot(S, i, p, g, b)
        ELSE MoveSlot(S, i, p, g, b)

(* stop_slot, under the delete deadline *)
StopSlot(S, i, p) ==
    Outcome(None, "deleted",
            IF Active(S, i, p) THEN SpawnDrain(i, p, S[i][p].active.gen, TRUE) ELSE {})

-------------------------------------------------------------------------------
(* The operations.  S is the state after refresh, which they all start with. *)

(* apply: every protocol on its own; a protocol the spec dropped is stopped,
   and a spec without protocols is rejected *)
Apply(S, i, g, b) ==
    IF b.protos = {}
    THEN {[p \in Protos |-> Outcome(S[i][p], IF p = "tcp" THEN "failed" ELSE "none", {})]}
    ELSE LET steps(p) == IF p \in b.protos THEN ApplySlot(S, i, p, g, b)
                         ELSE IF S[i][p] # None THEN {StopSlot(S, i, p)}
                         ELSE {Outcome(None, "none", {})}
         IN  {[p \in Protos |-> IF p = "tcp" THEN t ELSE u] :
              t \in steps("tcp"), u \in steps("udp")}

(* remove: every slot of the id is stopped *)
Remove(S, i) ==
    [p \in Protos |-> IF S[i][p] # None THEN StopSlot(S, i, p)
                      ELSE Outcome(None, "none", {})]

Failed(r) == \E p \in Protos : r[p].action = "failed"

(* Installing the results r of an operation on i: a slot that went away
   detaches the cohorts it listed.  prune, the last thing apply does unless it
   rejected the spec, drops a slot that holds nothing. *)
AfterSlots(S, i, r) == [S EXCEPT ![i] = [p \in Protos |-> r[p].slot]]

Detach(i, r, C) ==
    {[c EXCEPT !.held = @ /\ ~(c.id = i /\ r[c.proto].slot = None)] : c \in C}

Prune(i, S, C) ==
    [S EXCEPT ![i] = [p \in Protos |->
        IF /\ S[i][p] # None
           /\ S[i][p].active = None
           /\ S[i][p].state # "failed"
           /\ ~\E c \in C : c.id = i /\ c.proto = p /\ c.held
        THEN None ELSE S[i][p]]]

AfterCohorts(i, r) ==
    Detach(i, r, RefreshCohorts \cup UNION {r[p].drains : p \in Protos})

ApplyEffect(S, i, b, r) ==
    /\ slots' = IF b.protos = {} THEN S
                ELSE Prune(i, AfterSlots(S, i, r), AfterCohorts(i, r))
    /\ cohorts' = AfterCohorts(i, r)

RemoveEffect(S, i) ==
    /\ slots' = AfterSlots(S, i, Remove(S, i))
    /\ cohorts' = AfterCohorts(i, Remove(S, i))

StopAccept_Stopped(released, deleting) ==
    /\ slots' = [i \in Ids |-> [p \in Protos |->
                    IF <<i, p>> \in released
                    THEN [slots[i][p] EXCEPT !.active = None, !.state = "stopped"]
                    ELSE slots[i][p]]]
    /\ cohorts' = cohorts

(* stop_accept on a set of slots, each under the deadline of its plan *)
StopAccept(released, deleting) ==
    /\ slots' = [i \in Ids |-> [p \in Protos |->
                    IF <<i, p>> \in released
                    THEN [slots[i][p] EXCEPT !.active = None, !.state = "draining"]
                    ELSE slots[i][p]]]
    /\ cohorts' = cohorts \cup
                  UNION {SpawnDrain(x[1], x[2], slots[x[1]][x[2]].active.gen,
                                    x[1] \in deleting) : x \in released}

(* status: it refreshes before it reports *)
StatusRefresh ==
    /\ slots' = RefreshSlots
    /\ cohorts' = RefreshCohorts

-------------------------------------------------------------------------------
(* Behind the manager's back. *)

(* serve_tcp ends on an accept error; serve_udp logs its errors and goes on *)
TaskExit(i, p) ==
    /\ "exit" \in Env
    /\ p = "tcp"
    /\ Active(slots, i, p)
    /\ slots[i][p].active.alive
    /\ slots' = [slots EXCEPT ![i][p].active.alive = FALSE]
    /\ UNCHANGED cohorts

(* the last connection of a draining cohort is gone *)
DrainEnds(c) ==
    /\ c \in cohorts
    /\ cohorts' = cohorts \ {c}
    /\ UNCHANGED slots

==============================================================================
