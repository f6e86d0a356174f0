----------------------------- MODULE Reconciler -----------------------------
(***************************************************************************)
(* Reconciler: brings the manager to a complete desired state, generation  *)
(* by generation, and persists what it applied.                            *)
(*                                                                         *)
(*   realm_core/src/lifecycle/reconcile.rs   reconcile, apply_generation,  *)
(*                                           restore, persist              *)
(*   src/bin.rs                              run: restore or generation 0  *)
(*                                                                         *)
(* One task consumes submissions, so two generations never overlap; pc is  *)
(* where that task is.  Every await at which the environment can change    *)
(* something the task reads later ends a step: refreshing the              *)
(* descriptions, building them, releasing addresses, applying one id after *)
(* the other, and writing the snapshot.  Between steps tasks exit, cohorts *)
(* drain, files are rotated and the process crashes.                       *)
(***************************************************************************)
EXTENDS Manager, FiniteSetsExt

CONSTANTS
    MaxGen,             \* bound: generations submitted are 0..MaxGen
    Static              \* the static configuration: a desired state

Gens == 0 .. MaxGen

(* A desired state declares a description for some ids. *)
Desired == [Ids -> Option(Descs)]

(* What a snapshot file records. *)
SnapshotType == [gen: Nat, partial: BOOLEAN, endpoints: Desired]

(* What was answered: the request, the files it was refreshed with, and whether
   it was applied in part. *)
Answers ==
    [req: [gen: Gens, want: Desired, again: SUBSET Ids], file: Materials,
     partial: BOOLEAN]

ASSUME StaticIsDesired == MaxGen \in Nat /\ Static \in Desired
ASSUME NoneIsNoSnapshot == None \notin SnapshotType
ASSUME NoneIsNoAnswer == None \notin Answers

VARIABLES
    pc,                 \* where the reconciler's task is
    job,                \* the generation or restore in progress
    applied,            \* applied[id]: None or the source applied
    active,             \* the active generation, or None
    last,               \* the last response, with the request it answers
    partial,            \* whether the active generation is partial
    snapshot,           \* the snapshot file: None or its content
    file                \* what the certificate files contain now

reconcilerVars == <<applied, active, last, partial>>
vars == <<slots, cohorts, hostile, pc, job, applied, active, last, partial,
          snapshot, file>>

PlanKinds == {"none", "unchanged", "start", "replace", "delete", "invalid"}

(* What a submission carries: the declared endpoints, and the ids that are
   declared more than once. *)
Request(g, want, again) == [gen |-> g, want |-> want, again |-> again]

NoSources == [i \in Ids |-> None]
NoPlan    == [i \in Ids |-> "none"]

(* A fresh job for request r whose refreshed sources are src. *)
NewJob(r, src, unrefreshed) ==
    [req |-> r, src |-> src, unrefreshed |-> unrefreshed,
     plan |-> NoPlan, built |-> NoSources, desired |-> NoSources,
     todo |-> {}, released |-> {}, restoring |-> FALSE, failed |-> FALSE,
     file |-> file]

Wanted(want) == {i \in Ids : want[i] # None}

(* No two endpoints declare one address and protocol, and each declares some
   protocol. *)
ConflictFree(want) ==
    \A i \in Wanted(want) :
      /\ want[i].protos # {}
      /\ \A j \in Wanted(want) \ {i} :
           want[i].addr = want[j].addr => want[i].protos \cap want[j].protos = {}

Init ==
    /\ slots = [i \in Ids |-> [p \in Protos |-> None]]
    /\ cohorts = {}
    /\ hostile = FALSE
    /\ pc = "down"
    /\ job = None
    /\ applied = NoSources
    /\ active = None
    /\ last = None
    /\ partial = FALSE
    /\ snapshot = None
    /\ file \in Materials

-------------------------------------------------------------------------------
(* Submission: everything up to the decision to apply. *)

Refresh(want) ==
    [i \in Ids |-> IF want[i] = None THEN None ELSE Refreshed(want[i], file)]

(* the hook may fail for any endpoint of a hostile generation *)
Unrefreshable(hostility, want) ==
    IF hostility /\ "refresh" \in Env THEN SUBSET Wanted(want) ELSE {{}}

Hostility == IF Env \cap {"bind", "build", "refresh", "store"} # {}
             THEN BOOLEAN ELSE {FALSE}

(* material_drifted: same description, different digest *)
MaterialDrifted(src) ==
    \E i \in Ids : /\ src[i] # None
                   /\ applied[i] # None
                   /\ applied[i] # src[i]
                   /\ applied[i].desc = src[i].desc

StaleRequest_Never(g) == FALSE

StaleRequest(g) == active # None /\ g < active

(* the repeated submission of the active generation, judged by its content *)
Judged(g, unrefreshed) == active = g /\ unrefreshed = {} /\ last # None

Replayed(r, src) ==
    /\ last.req.want = r.want
    /\ last.req.again = r.again
    /\ ~MaterialDrifted(src)

(* Reconciler::reconcile, up to apply_generation.  A refused or replayed
   submission is answered without changing anything. *)
Submit(g, want, again) ==
    /\ pc = "idle"
    /\ ~StaleRequest(g)
    /\ \E h \in Hostility :
         \E u \in Unrefreshable(h, want) :
           /\ ~Judged(g, u)
           /\ hostile' = h
           /\ job' = NewJob(Request(g, want, again), Refresh(want), u)
    /\ pc' = "plan"
    /\ UNCHANGED <<managerVars, reconcilerVars, snapshot, file>>

-------------------------------------------------------------------------------
(* apply_generation, validation: build every source and diff it. *)

PlanOf(i, built) ==
    IF job.req.want[i] = None THEN "none"
    ELSE IF i \in job.req.again \/ built[i] = None THEN "invalid"
    ELSE IF applied[i] = None THEN "start"
    ELSE IF applied[i] = job.src[i] /\ AllRunning(slots, i, built[i])
         THEN "unchanged"
    ELSE "replace"

Binding(plan, i) == plan[i] \in {"start", "replace"}

(* mark_duplicates, with the listeners of unchanged endpoints as incumbents *)
Collides(plan, built, i) ==
    /\ Binding(plan, i)
    /\ \E p \in built[i].protos, j \in Ids \ {i} :
         \/ /\ Binding(plan, j)
            /\ p \in built[j].protos
            /\ built[j].endpoint.addr = built[i].endpoint.addr
         \/ /\ plan[j] = "unchanged"
            /\ Active(slots, j, p)
            /\ slots[j][p].endpoint.addr = built[i].endpoint.addr

Removed_FromApplied(i) == job.req.want[i] = None /\ applied[i] # None

(* removals are derived from what the manager holds *)
Removed(i) == job.req.want[i] = None /\ Contains(slots, i)

FinalPlan(built) ==
    LET diff == [i \in Ids |-> PlanOf(i, built)]
    IN  [i \in Ids |-> IF Collides(diff, built, i) THEN "invalid"
                       ELSE IF Removed(i) THEN "delete"
                       ELSE diff[i]]

(* Each declared endpoint that could be refreshed is built, which fails for
   any endpoint of a hostile generation (an unresolvable remote, say); only
   what was built is desired. *)
PlanGeneration ==
    /\ pc = "plan"
    /\ LET candidates == Wanted(job.req.want) \ job.unrefreshed
       IN  \E ok \in IF hostile /\ "build" \in Env
                     THEN SUBSET candidates ELSE {candidates} :
             LET built == [i \in Ids |-> IF i \in ok THEN Build(job.src[i], file)
                                         ELSE None]
             IN  job' = [job EXCEPT
                           !.built = built,
                           !.plan = FinalPlan(built),
                           !.desired = [i \in Ids |-> IF i \in ok THEN job.src[i]
                                                      ELSE None]]
    /\ pc' = "release"
    /\ UNCHANGED <<managerVars, hostile, reconcilerVars, snapshot, file>>

-------------------------------------------------------------------------------
(* release_contended_addresses: free what another endpoint is about to take. *)

WantedAddrs ==
    {x \in Addrs \X Protos :
        \E i \in Ids :
          /\ Binding(job.plan, i)
          /\ x[2] \in job.built[i].protos
          /\ x[1] = job.built[i].endpoint.addr
          /\ \/ ~Active(slots, i, x[2])
             \/ slots[i][x[2]].endpoint.addr # x[1]}

Leaving(i) ==
    \/ job.plan[i] = "delete"
    \/ /\ job.plan[i] = "replace"
       /\ \E p \in Protos :
            /\ Active(slots, i, p)
            /\ \/ slots[i][p].endpoint.addr # job.built[i].endpoint.addr
               \/ p \notin job.built[i].protos

ReleasedSlots_None == {}

ReleasedSlots_Invalid ==
    {x \in Ids \X Protos :
        /\ Leaving(x[1]) \/ job.plan[x[1]] = "invalid"
        /\ Active(slots, x[1], x[2])
        /\ <<slots[x[1]][x[2]].endpoint.addr, x[2]>> \in WantedAddrs}

ReleasedSlots ==
    {x \in Ids \X Protos :
        /\ Leaving(x[1])
        /\ Active(slots, x[1], x[2])
        /\ <<slots[x[1]][x[2]].endpoint.addr, x[2]>> \in WantedAddrs}

Deleting_None == {}

Deleting == {i \in Ids : job.plan[i] = "delete"}

Release ==
    /\ pc = "release"
    /\ StopAccept(ReleasedSlots, Deleting)
    /\ job' = [job EXCEPT
                 !.released = {i \in Ids : /\ job.plan[i] = "replace"
                                           /\ \E p \in Protos : <<i, p>> \in ReleasedSlots},
                 !.todo = {i \in Ids : job.plan[i] # "none"}]
    /\ pc' = "apply"
    /\ UNCHANGED <<hostile, reconcilerVars, snapshot, file>>

-------------------------------------------------------------------------------
(* apply_generation, application: one id after the other, in their order. *)

Turn(i) == pc = "apply" /\ i \in job.todo /\ i = Min(job.todo)

(* an endpoint left alone is reported and not touched *)
ApplyUnchanged(i) ==
    /\ Turn(i) /\ job.plan[i] = "unchanged"
    /\ job' = [job EXCEPT !.todo = @ \ {i}]
    /\ UNCHANGED <<managerVars, hostile, pc, reconcilerVars, snapshot, file>>

(* an invalid endpoint keeps what was serving, and its previous source *)
ApplyInvalid(i) ==
    /\ Turn(i) /\ job.plan[i] = "invalid"
    /\ job' = [job EXCEPT
                 !.todo = @ \ {i},
                 !.failed = TRUE,
                 !.desired[i] = IF ~Contains(slots, i) THEN None
                                ELSE IF applied[i] # None THEN applied[i] ELSE @]
    /\ UNCHANGED <<managerVars, hostile, pc, reconcilerVars, snapshot, file>>

ApplyDelete(i) ==
    /\ Turn(i) /\ job.plan[i] = "delete"
    /\ RemoveEffect(RefreshSlots, i)
    /\ job' = [job EXCEPT !.todo = @ \ {i}, !.desired[i] = None]
    /\ UNCHANGED <<hostile, pc, reconcilerVars, snapshot, file>>

KeptSource_New(S, i) == job.desired[i]

(* What a failed endpoint leaves in the applied set, S being what serves. *)
KeptSource(S, i) ==
    IF ~Serving(S, i) THEN None
    ELSE IF applied[i] # None THEN applied[i]
    ELSE job.desired[i]

(* manager.apply; a failed endpoint whose address was handed off, and which
   serves nothing now, goes through RestoreReleased before it is settled *)
ApplyBuilt(i) ==
    /\ Turn(i) /\ Binding(job.plan, i) /\ ~job.restoring
    /\ \E r \in Apply(RefreshSlots, i, job.req.gen, job.built[i]) :
         /\ ApplyEffect(RefreshSlots, i, job.built[i], r)
         /\ job' = IF ~Failed(r) THEN [job EXCEPT !.todo = @ \ {i}]
                   ELSE IF i \in job.released /\ ~Serving(slots', i)
                        THEN [job EXCEPT !.failed = TRUE, !.restoring = TRUE]
                   ELSE [job EXCEPT !.failed = TRUE,
                                    !.todo = @ \ {i},
                                    !.desired[i] = KeptSource(slots', i)]
    /\ UNCHANGED <<hostile, pc, reconcilerVars, snapshot, file>>

(* restore_released: build the previous source again and apply it *)
RestoreReleased(i) ==
    /\ Turn(i) /\ job.restoring
    /\ \/ /\ applied[i] # None
          /\ LET b == Build(applied[i], file)
             IN  \E r \in Apply(RefreshSlots, i, job.req.gen, b) :
                   ApplyEffect(RefreshSlots, i, b, r)
       \/ /\ applied[i] = None \/ (hostile /\ "build" \in Env)
          /\ UNCHANGED managerVars
    /\ job' = [job EXCEPT !.restoring = FALSE,
                          !.todo = @ \ {i},
                          !.desired[i] = KeptSource(slots', i)]
    /\ UNCHANGED <<hostile, pc, reconcilerVars, snapshot, file>>

(* the tail of apply_generation and of reconcile, up to persist *)
Commit ==
    /\ pc = "apply" /\ job.todo = {}
    /\ applied' = job.desired
    /\ active' = job.req.gen
    /\ partial' = job.failed
    /\ last' = [req |-> job.req, file |-> job.file, partial |-> job.failed]
    /\ pc' = "persist"
    /\ UNCHANGED <<managerVars, hostile, job, snapshot, file>>

(* persist: the write replaces the whole snapshot or leaves it alone (module
   SnapshotStore), and a failed write fails nothing; digests are not written *)
Written ==
    [gen |-> active, partial |-> partial,
     endpoints |-> [i \in Ids |-> IF applied[i] = None THEN None
                                  ELSE applied[i].desc]]

Persist ==
    /\ pc = "persist"
    /\ \/ snapshot' = Written
       \/ hostile /\ "store" \in Env /\ UNCHANGED snapshot
    /\ pc' = "idle"
    /\ job' = None
    /\ UNCHANGED <<managerVars, hostile, reconcilerVars, file>>

-------------------------------------------------------------------------------
(* Crash and restart. *)

Crash ==
    /\ "crash" \in Env
    /\ pc # "down"
    /\ pc' = "down"
    /\ slots' = [i \in Ids |-> [p \in Protos |-> None]]
    /\ cohorts' = {}
    /\ job' = None
    /\ applied' = NoSources
    /\ active' = None
    /\ last' = None
    /\ partial' = FALSE
    /\ UNCHANGED <<hostile, snapshot, file>>

(* bin.rs run and restore: without a snapshot, or with one that does not
   load, the static configuration is applied as generation 0 *)
Boot ==
    /\ pc = "down"
    /\ hostile' \in Hostility
    /\ \/ /\ snapshot = None \/ "load" \in Env
          /\ pc' = "plan"
          /\ \E u \in Unrefreshable(hostile', Static) :
               job' = NewJob(Request(0, Static, {}), Refresh(Static), u)
       \/ /\ snapshot # None
          /\ pc' = "restore"
          /\ job' = [NewJob(Request(snapshot.gen, NoSources, {}),
                            snapshot.endpoints, {}) EXCEPT
                       !.todo = Wanted(snapshot.endpoints),
                       !.failed = snapshot.partial]
    /\ UNCHANGED <<managerVars, reconcilerVars, snapshot, file>>

(* restore, one endpoint: refresh and build it with what is on disk now, and
   keep it applied only when every protocol came up *)
RestoreOne(i) ==
    /\ pc = "restore" /\ i \in job.todo /\ i = Min(job.todo)
    /\ LET src == Refreshed(job.src[i], file)
           b == Build(src, file)
       IN  \/ \E r \in Apply(RefreshSlots, i, job.req.gen, b) :
                /\ ApplyEffect(RefreshSlots, i, b, r)
                /\ applied' = IF Failed(r) THEN applied ELSE [applied EXCEPT ![i] = src]
                /\ job' = [job EXCEPT !.todo = @ \ {i}, !.failed = @ \/ Failed(r)]
           \/ /\ hostile /\ Env \cap {"build", "refresh"} # {}
              /\ job' = [job EXCEPT !.todo = @ \ {i}, !.failed = TRUE]
              /\ UNCHANGED <<managerVars, applied>>
    /\ UNCHANGED <<hostile, pc, active, last, partial, snapshot, file>>

RestoreDone_Early ==
    /\ pc = "restore"
    /\ active' = job.req.gen
    /\ partial' = job.failed
    /\ pc' = "idle"
    /\ job' = None
    /\ UNCHANGED <<managerVars, hostile, applied, last, snapshot, file>>

(* only now does the process call itself ready *)
RestoreDone ==
    /\ pc = "restore" /\ job.todo = {}
    /\ active' = job.req.gen
    /\ partial' = job.failed
    /\ pc' = "idle"
    /\ job' = None
    /\ UNCHANGED <<managerVars, hostile, applied, last, snapshot, file>>

-------------------------------------------------------------------------------
(* Everything else that happens. *)

(* a status message, which the same task answers between submissions *)
Status ==
    /\ pc = "idle"
    /\ StatusRefresh
    /\ UNCHANGED <<hostile, pc, job, reconcilerVars, snapshot, file>>

(* somebody replaces the certificate files in place *)
Rotate ==
    /\ "rotate" \in Env
    /\ pc = "idle" \/ "torn" \in Env
    /\ file' \in Materials \ {file}
    /\ UNCHANGED <<managerVars, hostile, pc, job, reconcilerVars, snapshot>>

Environment ==
    /\ \/ \E i \in Ids, p \in Protos : TaskExit(i, p)
       \/ \E c \in cohorts : DrainEnds(c)
    /\ UNCHANGED <<hostile, pc, job, reconcilerVars, snapshot, file>>

Submission ==
    \E g \in Gens, want \in Desired :
      /\ "clash" \in Env \/ ConflictFree(want)
      /\ \E again \in IF "dup" \in Env THEN SUBSET Wanted(want) ELSE {{}} :
           Submit(g, want, again)

Generation ==
    \/ PlanGeneration
    \/ Release
    \/ \E i \in Ids : \/ ApplyUnchanged(i)
                      \/ ApplyInvalid(i)
                      \/ ApplyDelete(i)
                      \/ ApplyBuilt(i)
                      \/ RestoreReleased(i)
    \/ Commit
    \/ Persist

Startup ==
    \/ Boot
    \/ \E i \in Ids : RestoreOne(i)
    \/ RestoreDone

Next ==
    \/ Submission
    \/ Generation
    \/ Startup
    \/ Crash
    \/ Status
    \/ Rotate
    \/ Environment

Spec == Init /\ [][Next]_vars

-------------------------------------------------------------------------------
(* Properties *)

JobType ==
    [req: [gen: Gens, want: Desired, again: SUBSET Ids],
     src: [Ids -> Option(Source) \cup Descs], unrefreshed: SUBSET Ids,
     plan: [Ids -> PlanKinds], built: [Ids -> Option(EndpointSpec)],
     desired: [Ids -> Option(Source)], todo: SUBSET Ids,
     released: SUBSET Ids, restoring: BOOLEAN, failed: BOOLEAN,
     file: Materials]

(* Type invariant of the manager's and the reconciler's state. *)
TypeOK ==
    /\ slots \in [Ids -> [Protos -> Option(SlotType)]]
    /\ cohorts \in SUBSET CohortType
    /\ hostile \in BOOLEAN
    /\ pc \in {"down", "restore", "idle", "plan", "release", "apply", "persist"}
    /\ job \in Option(JobType)
    /\ applied \in [Ids -> Option(Source)]
    /\ active \in Option(Gens)
    /\ last \in Option(Answers)
    /\ partial \in BOOLEAN
    /\ snapshot \in Option(SnapshotType)
    /\ file \in Materials

(* The slots of i are exactly those that d asks for, each with a listener that
   runs d. *)
Serves(i, d) ==
    \A p \in Protos :
      IF p \in d.protos
      THEN Active(slots, i, p) /\ Describes(d, slots[i][p].active.endpoint)
      ELSE slots[i][p] = None

(* What a slot says of itself is what its task runs: its generation, endpoint
   and digest are those the task was started with, across replacements, moves,
   failures and restores.  The no-op fast path of apply_slot and the planning
   of the reconciler rely on it. *)
SlotDescribesTask ==
    \A i \in Ids, p \in Protos :
      Active(slots, i, p) =>
        LET s == slots[i][p]
        IN  /\ s.gen = s.active.gen
            /\ s.endpoint = s.active.endpoint
            /\ s.material = s.active.material

(* After a generation the manager holds nothing that generation did not
   declare, be it left over from a failed replace, a failed start or a failed
   restore (apply_generation derives its removals from the manager). *)
NothingUndeclared ==
    pc = "idle" /\ last # None =>
      \A i \in Ids : last.req.want[i] = None => ~Contains(slots, i)

(* A generation answered as applied serves every endpoint it declared, with
   that description, on that address and on those protocols only. *)
AppliedMeansServed ==
    pc = "idle" /\ last # None /\ ~last.partial =>
      \A i \in Wanted(last.req.want) : Serves(i, last.req.want[i])

(* The applied set matches what the manager really serves, whatever failed
   along the way; it is what the next diff and the snapshot are made of. *)
AppliedMatchesServing ==
    pc = "idle" =>
      \A i \in Ids : IF applied[i] = None THEN ~Serving(slots, i)
                      ELSE Serves(i, applied[i].desc)

(* A generation that declares no address twice is applied in full when the
   environment fails nothing, from whatever state earlier failures, handoffs
   and crashes left: swaps and rotations of addresses converge. *)
FaultFreeConverges ==
    /\ pc = "persist"
    /\ ~hostile
    /\ job.req.again = {}
    /\ ConflictFree(job.req.want)
    => ~job.failed

(* After a restart that met no fault the process serves exactly what the
   snapshot records, before any caller shows up. *)
ResumesAfterCrash ==
    pc = "idle" /\ last = None /\ ~hostile =>
      \A i \in Ids : IF snapshot.endpoints[i] = None THEN ~Serving(slots, i)
                      ELSE Serves(i, snapshot.endpoints[i])

(* A generation applied in full runs every transport on the files as they were
   when it was submitted: rotating a certificate forth and back takes effect
   each time. *)
RotationTakesEffect ==
    pc = "persist" /\ ~job.failed =>
      \A i \in Wanted(job.req.want), p \in Protos :
        job.req.want[i].tls /\ Active(slots, i, p) =>
          slots[i][p].active.endpoint.content = job.file

(* While a process lives its active generation never goes back. *)
GenerationsAdvance ==
    [][active # None /\ active' # None => active' >= active]_vars

(* The snapshot never goes back to an earlier generation, across any number of
   crashes, restores and failed writes. *)
SnapshotAdvances ==
    [][snapshot # None => snapshot' # None /\ snapshot'.gen >= snapshot.gen]_vars

(* An endpoint that a generation leaves unchanged or finds invalid keeps its
   live listener through every step of that generation, although other
   endpoints of the generation may want its address. *)
UndisturbedListeners ==
    [][\A i \in Ids, p \in Protos :
         /\ pc \in {"release", "apply"}
         /\ pc' # "down"
         /\ job.plan[i] \in {"unchanged", "invalid"}
         /\ Active(slots, i, p)
         /\ slots[i][p].active.alive
         => /\ Active(slots', i, p)
            /\ slots'[i][p].active.endpoint = slots[i][p].active.endpoint
            /\ slots'[i][p].active.gen = slots[i][p].active.gen]_vars

(* A listener that moves to another address is never lost to a failed bind:
   the new one comes up before the old one is stopped. *)
MovesKeepAListener ==
    [][\A i \in Ids, p \in Protos :
         /\ pc = "apply"
         /\ pc' # "down"
         /\ job.plan[i] = "replace"
         /\ i \in job.todo
         /\ p \in job.built[i].protos
         /\ Active(slots, i, p)
         /\ slots[i][p].active.alive
         /\ slots[i][p].endpoint.addr # job.built[i].endpoint.addr
         => Active(slots', i, p)]_vars

(* A generation that deletes an endpoint bounds the drain of what it was
   serving, even when its address is handed to another endpoint first. *)
DeletesAreBounded ==
    [][\A c \in cohorts' :
         /\ pc \in {"release", "apply"}
         /\ job.plan[c.id] = "delete"
         /\ c.held => c \notin cohorts
         /\ ~c.held => [c EXCEPT !.held = TRUE] \notin cohorts /\ c \notin cohorts
         => c.deadline]_vars

-------------------------------------------------------------------------------
(* What comments and docs/control-api.md say, and the code does not do. *)

(* "the next generation you submit rebuilds ... the endpoints naming that
   material" and "a torn read costs at most one spurious rebuild": an endpoint
   that a generation leaves unchanged runs on the files as that generation
   found them. *)
UnchangedServesMaterial ==
    pc = "persist" /\ file = job.file =>
      \A i \in Ids, p \in Protos :
        /\ job.plan[i] = "unchanged"
        /\ job.req.want[i].tls
        /\ Active(slots, i, p)
        => slots[i][p].active.endpoint.content = file

(* "The same generation replays the first answer": resubmitting the active
   generation's own request, with the files as they were when it was applied,
   is replayed. *)
RetryReplays ==
    pc = "idle" /\ last # None /\ file = last.file =>
      Replayed(last.req, Refresh(last.req.want))

(* "endpoint deleted ... force-closed after 30 s by default": no cohort that
   outlives its endpoint drains without a deadline. *)
DeleteClosesEverything == \A c \in cohorts : ~c.held => c.deadline
==============================================================================
