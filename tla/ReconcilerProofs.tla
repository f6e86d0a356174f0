--------------------------- MODULE ReconcilerProofs ---------------------------
(***************************************************************************)
(* Proofs about Reconciler, for every number of endpoints, every set of    *)
(* descriptions, every environment and every bound on the generations.     *)
(***************************************************************************)
EXTENDS Reconciler, TLAPS

Sources == [Ids -> Option(Source)]

Applying == {"plan", "release", "apply"}

Phases == Applying \cup {"down", "restore", "idle", "persist"}

(* The fields of the job that decide what is applied and persisted. *)
JobInv ==
    /\ pc \in Applying \cup {"restore"} =>
         /\ {"req", "src", "desired", "failed"} \subseteq DOMAIN job
         /\ job.req.gen \in Nat
         /\ job.failed \in BOOLEAN
    /\ pc \in Applying => job.src \in Sources /\ job.desired \in Sources
    /\ pc = "restore" =>
         /\ "todo" \in DOMAIN job
         /\ job.src \in Desired
         /\ \A i \in job.todo : i \in Ids /\ job.src[i] # None

(* The reconciler's own state. *)
StateInv ==
    /\ pc \in Phases
    /\ applied \in Sources
    /\ partial \in BOOLEAN
    /\ file \in Materials
    /\ snapshot # None => snapshot \in SnapshotType

(* Where each generation number stands between the steps. *)
GenInv ==
    /\ pc \in {"down", "restore"} => active = None
    /\ pc \in {"idle", "persist"} => active \in Nat
    /\ pc \in Applying /\ active # None =>
         active \in Nat /\ active <= job.req.gen

IInv == JobInv /\ StateInv /\ GenInv

-------------------------------------------------------------------------------
(* Refreshing a description gives a source. *)
LEMMA RefreshedSource ==
  ASSUME NEW d \in Descs, NEW f \in Materials
  PROVE  Refreshed(d, f) \in Source
  BY DEF Refreshed, Source, Option

(* Refreshing a desired state gives sources. *)
LEMMA RefreshSources ==
  ASSUME NEW want \in Desired, file \in Materials
  PROVE  Refresh(want) \in Sources
  BY RefreshedSource DEF Refresh, Sources, Desired, Option

(* The empty set of sources is one. *)
LEMMA NoSourcesSources == NoSources \in Sources
  BY DEF NoSources, Sources, Option

(* The inductive invariant holds before the process first starts. *)
LEMMA InitIInv == Init => IInv
  BY NoSourcesSources, Zenon DEF Init, IInv, JobInv, StateInv, GenInv, Phases, Applying

-------------------------------------------------------------------------------
(* A submission that is not stale starts a generation that is not older than
   the active one. *)
LEMMA SubmissionIInv == IInv /\ Submission => IInv'
  <1> SUFFICES ASSUME IInv, NEW g \in Gens, NEW want \in Desired,
                      NEW again \in SUBSET Ids, Submit(g, want, again)
               PROVE  IInv'
    BY DEF Submission, Wanted
  <1> USE DEF IInv, JobInv, StateInv, GenInv, Phases, Applying
  <1>1. PICK u : job' = NewJob(Request(g, want, again), Refresh(want), u)
    BY DEF Submit
  <1>2. Refresh(want) \in Sources
    BY RefreshSources
  <1>3. Request(g, want, again).gen = g /\ g \in Nat
    BY StaticIsDesired DEF Request, Gens
  <1>4. /\ {"req", "src", "desired", "failed"} \subseteq DOMAIN job'
        /\ job'.req.gen = g
        /\ job'.src = Refresh(want)
        /\ job'.desired = NoSources
        /\ job'.failed = FALSE
    BY <1>1, <1>3 DEF NewJob
  <1>5. JobInv'
    BY <1>4, <1>2, <1>3, NoSourcesSources, Zenon DEF Submit
  <1>6. active \in Nat /\ active <= g
    BY <1>3, NoneIsNoValue DEF Submit, StaleRequest
  <1>7. GenInv'
    BY <1>4, <1>3, <1>6 DEF Submit, reconcilerVars
  <1>8. StateInv'
    BY DEF Submit, reconcilerVars
  <1> QED
    BY <1>5, <1>7, <1>8

-------------------------------------------------------------------------------
(* A step of a generation up to its commit leaves the numbers alone and only
   ever puts sources into what is desired. *)
GenerationStep ==
    /\ pc \in Applying
    /\ pc' \in Applying
    /\ {"req", "src", "desired", "failed"} \subseteq DOMAIN job'
    /\ job'.req = job.req
    /\ job'.src = job.src
    /\ job'.desired \in Sources
    /\ job'.failed \in BOOLEAN
    /\ UNCHANGED <<reconcilerVars, snapshot, file>>

(* Such a step preserves the invariant. *)
LEMMA GenerationStepIInv == IInv /\ GenerationStep => IInv'
  BY DEF IInv, JobInv, StateInv, GenInv, GenerationStep, Applying, Phases, reconcilerVars

(* What a failed endpoint leaves behind is a source or nothing. *)
LEMMA KeptSourceType ==
  ASSUME IInv, pc \in Applying, NEW i \in Ids, NEW S
  PROVE  KeptSource(S, i) \in Option(Source)
  BY DEF IInv, JobInv, StateInv, KeptSource, Sources, Option

(* Every step of a generation before its commit is such a step. *)
LEMMA GenerationSteps ==
  ASSUME IInv,
         \/ PlanGeneration
         \/ Release
         \/ \E i \in Ids : \/ ApplyUnchanged(i)
                           \/ ApplyInvalid(i)
                           \/ ApplyDelete(i)
                           \/ ApplyBuilt(i)
                           \/ RestoreReleased(i)
  PROVE  GenerationStep
  <1> USE DEF IInv, JobInv, StateInv, GenerationStep, Applying
  <1>1. CASE PlanGeneration
    <2> DEFINE built(ok) == [i \in Ids |-> IF i \in ok THEN Build(job.src[i], file)
                                            ELSE None]
    <2>1. PICK ok :
            job' = [job EXCEPT !.built = built(ok),
                               !.plan = FinalPlan(built(ok)),
                               !.desired = [i \in Ids |-> IF i \in ok THEN job.src[i]
                                                          ELSE None]]
      BY <1>1, Zenon DEF PlanGeneration
    <2>2. [i \in Ids |-> IF i \in ok THEN job.src[i] ELSE None] \in Sources
      BY <1>1, Zenon DEF PlanGeneration, Sources, Option
    <2> HIDE DEF built
    <2> QED
      BY <1>1, <2>1, <2>2, Zenon DEF PlanGeneration
  <1>2. CASE Release
    BY <1>2 DEF Release
  <1>3. ASSUME NEW i \in Ids, ApplyUnchanged(i) PROVE GenerationStep
    BY <1>3 DEF ApplyUnchanged, Turn
  <1>4. ASSUME NEW i \in Ids, ApplyInvalid(i) PROVE GenerationStep
    BY <1>4, Zenon DEF ApplyInvalid, Turn, Sources, Option
  <1>5. ASSUME NEW i \in Ids, ApplyDelete(i) PROVE GenerationStep
    BY <1>5, Zenon DEF ApplyDelete, Turn, Sources, Option
  <1>6. ASSUME NEW i \in Ids, ApplyBuilt(i) PROVE GenerationStep
    <2>1. PICK r :
            job' = IF ~Failed(r) THEN [job EXCEPT !.todo = @ \ {i}]
                   ELSE IF i \in job.released /\ ~Serving(slots', i)
                        THEN [job EXCEPT !.failed = TRUE, !.restoring = TRUE]
                   ELSE [job EXCEPT !.failed = TRUE,
                                    !.todo = @ \ {i},
                                    !.desired[i] = KeptSource(slots', i)]
      BY <1>6, Zenon DEF ApplyBuilt
    <2>2. KeptSource(slots', i) \in Option(Source)
      BY <1>6, KeptSourceType, Zenon DEF ApplyBuilt, Turn
    <2> QED
      BY <1>6, <2>1, <2>2, Zenon DEF ApplyBuilt, Turn, Sources
  <1>7. ASSUME NEW i \in Ids, RestoreReleased(i) PROVE GenerationStep
    <2>1. KeptSource(slots', i) \in Option(Source)
      BY <1>7, KeptSourceType, Zenon DEF RestoreReleased, Turn
    <2> QED
      BY <1>7, <2>1, Zenon DEF RestoreReleased, Turn, Sources
  <1> QED
    BY <1>1, <1>2, <1>3, <1>4, <1>5, <1>6, <1>7

(* Commit and persist move what the generation decided into the state and the
   snapshot. *)
LEMMA GenerationIInv == IInv /\ Generation => IInv'
  <1> SUFFICES ASSUME IInv, Generation PROVE IInv'
    OBVIOUS
  <1>1. CASE GenerationStep
    BY <1>1, GenerationStepIInv
  <1>2. CASE Commit
    BY <1>2 DEF Commit, IInv, JobInv, StateInv, GenInv, Applying, Phases
  <1>3. CASE Persist
    <2> USE DEF IInv, JobInv, StateInv, GenInv, Applying, Phases
    <2>1. Written \in SnapshotType
      BY <1>3 DEF Persist, Written, SnapshotType, Desired, Sources, Source, Option
    <2>2. snapshot' # None => snapshot' \in SnapshotType
      BY <1>3, <2>1 DEF Persist
    <2> QED
      BY <1>3, <2>2 DEF Persist, reconcilerVars
  <1> QED
    BY <1>1, <1>2, <1>3, GenerationSteps DEF Generation

(* Starting, from the snapshot or from the static configuration. *)
LEMMA StartupIInv == IInv /\ Startup => IInv'
  <1> SUFFICES ASSUME IInv, Startup PROVE IInv'
    OBVIOUS
  <1> USE DEF IInv, JobInv, StateInv, GenInv, Applying, Phases
  <1>1. ASSUME Boot, pc' = "plan" PROVE IInv'
    <2>1. PICK u : job' = NewJob(Request(0, Static, {}), Refresh(Static), u)
      BY <1>1 DEF Boot
    <2>2. /\ {"req", "src", "desired", "failed"} \subseteq DOMAIN job'
          /\ job'.req.gen = 0
          /\ job'.src = Refresh(Static)
          /\ job'.desired = NoSources
          /\ job'.failed = FALSE
      BY <2>1 DEF NewJob, Request
    <2>3. Refresh(Static) \in Sources
      BY RefreshSources, StaticIsDesired
    <2>4. JobInv'
      <3>1. job'.failed \in BOOLEAN /\ job'.req.gen \in Nat
        <4>1. job'.failed \in BOOLEAN
          BY <2>2, Zenon
        <4>2. job'.req.gen \in Nat
          BY <2>2
        <4> QED
          BY <4>1, <4>2
      <3>2. job'.src \in Sources /\ job'.desired \in Sources
        BY <2>2, <2>3, NoSourcesSources
      <3> QED
        BY <1>1, <2>2, <3>1, <3>2
    <2>5. StateInv' /\ GenInv'
      BY <1>1, NoneIsNoValue DEF Boot, reconcilerVars
    <2> QED
      BY <2>4, <2>5
  <1>2. ASSUME Boot, pc' = "restore" PROVE IInv'
    <2>1. /\ snapshot # None
          /\ job' = [NewJob(Request(snapshot.gen, NoSources, {}),
                            snapshot.endpoints, {}) EXCEPT
                       !.todo = Wanted(snapshot.endpoints),
                       !.failed = snapshot.partial]
      BY <1>2 DEF Boot
    <2>2. /\ {"req", "src", "desired", "failed"} \subseteq DOMAIN job'
          /\ job'.req.gen = snapshot.gen
          /\ job'.src = snapshot.endpoints
          /\ job'.failed = snapshot.partial
          /\ "todo" \in DOMAIN job'
          /\ job'.todo = Wanted(snapshot.endpoints)
      BY <2>1 DEF NewJob, Request
    <2>3. snapshot.gen \in Nat /\ snapshot.endpoints \in Desired /\ snapshot.partial \in BOOLEAN
      BY <2>1 DEF SnapshotType
    <2> QED
      BY <1>2, <2>2, <2>3, Zenon DEF Boot, reconcilerVars, Wanted
  <1>3. ASSUME NEW i \in Ids, RestoreOne(i) PROVE IInv'
    <2>1. Refreshed(job.src[i], file) \in Source
      BY <1>3, RefreshedSource, Zenon DEF RestoreOne, Desired, Option
    <2>2. applied' \in Sources
      BY <1>3, <2>1, Zenon DEF RestoreOne, Sources, Option
    <2> QED
      BY <1>3, <2>2, Zenon DEF RestoreOne
  <1>4. CASE RestoreDone
    BY <1>4 DEF RestoreDone
  <1> QED
    BY <1>1, <1>2, <1>3, <1>4 DEF Startup, Boot

(* A crash forgets everything but the snapshot and the files. *)
LEMMA CrashIInv == IInv /\ Crash => IInv'
  <1> SUFFICES ASSUME IInv, Crash PROVE IInv'
    OBVIOUS
  <1>1. partial' \in BOOLEAN
    BY Zenon DEF Crash
  <1> QED
    BY <1>1, NoSourcesSources
       DEF Crash, IInv, JobInv, StateInv, GenInv, Applying, Phases

(* Every step of the system preserves the invariant; a status message, a
   rotation and the environment leave its variables alone. *)
LEMMA NextIInv == IInv /\ [Next]_vars => IInv'
  <1> SUFFICES ASSUME IInv, [Next]_vars PROVE IInv'
    OBVIOUS
  <1>1. CASE Status \/ Rotate \/ Environment \/ UNCHANGED vars
    BY <1>1 DEF Status, Rotate, Environment, vars, reconcilerVars, IInv, JobInv,
       StateInv, GenInv
  <1> QED
    BY <1>1, SubmissionIInv, GenerationIInv, StartupIInv, CrashIInv DEF Next

(* The invariant holds from the first boot on, across crashes and restores. *)
LEMMA Invariance == Spec => []IInv
  BY InitIInv, NextIInv, PTL DEF Spec

-------------------------------------------------------------------------------
(* While a process lives its active generation never goes back: reconcile
   refuses a stale generation before anything is awaited, and nothing that
   happens until apply_generation commits can make the active one newer. *)
THEOREM GenerationsNeverRegress == Spec => GenerationsAdvance
  <1>1. IInv /\ [Next]_vars =>
          [active # None /\ active' # None => active' >= active]_vars
    <2> SUFFICES ASSUME IInv, Next, active # None, active' # None
                 PROVE  active' >= active
      OBVIOUS
    <2> USE DEF IInv, JobInv, StateInv, GenInv, Applying, Phases
    <2>1. active \in Nat
      OBVIOUS
    <2>2. CASE active' = active
      BY <2>1, <2>2
    <2>3. CASE Commit
      BY <2>1, <2>3 DEF Commit
    <2>4. CASE Crash \/ RestoreDone
      BY <2>4 DEF Crash, RestoreDone
    <2>5. CASE GenerationStep
      BY <2>2, <2>5 DEF GenerationStep, reconcilerVars
    <2> QED
      BY <2>2, <2>3, <2>4, <2>5, GenerationSteps, Zenon
         DEF Next, Submission, Submit, Generation, Persist, Startup, Boot, RestoreOne,
             Status, Rotate, Environment, reconcilerVars
  <1> QED
    BY <1>1, Invariance, PTL DEF Spec, GenerationsAdvance

(* Once a snapshot exists, whatever is active, restored or about to be applied
   is at least as new as it. *)
SnapshotInv ==
    snapshot # None =>
      /\ pc \in {"idle", "persist"} => snapshot.gen <= active
      /\ pc \in Applying => active # None /\ snapshot.gen <= active
      /\ pc = "restore" => snapshot.gen = job.req.gen

(* A snapshot is written, or left alone. *)
LEMMA SnapshotInvariance ==
  ASSUME "load" \notin Env
  PROVE  Spec => [](IInv /\ SnapshotInv)
  <1>1. Init => SnapshotInv
    BY DEF Init, SnapshotInv
  <1>2. IInv /\ SnapshotInv /\ [Next]_vars => SnapshotInv'
    <2> SUFFICES ASSUME IInv, SnapshotInv, [Next]_vars, snapshot' # None
                 PROVE  SnapshotInv'
      BY DEF SnapshotInv
    <2> USE DEF IInv, JobInv, StateInv, GenInv, SnapshotInv, Applying, Phases
    <2>1. CASE Submission
      BY <2>1, NoneIsNoValue DEF Submission, Submit, reconcilerVars
    <2>2. CASE GenerationStep
      BY <2>2 DEF GenerationStep, reconcilerVars
    <2>3. CASE Commit
      <3>1. active \in Nat /\ active <= job.req.gen
        BY <2>3 DEF Commit
      <3>2. snapshot.gen \in Nat
        BY <2>3 DEF Commit, SnapshotType
      <3> QED
        BY <2>3, <3>1, <3>2 DEF Commit
    <2>4. CASE Persist
      BY <2>4 DEF Persist, Written, reconcilerVars
    <2>5. CASE Boot
      <3>1. CASE snapshot = None
        BY <2>5, <3>1 DEF Boot
      <3>2. CASE snapshot # None
        <4>1. /\ pc' = "restore"
              /\ job' = [NewJob(Request(snapshot.gen, NoSources, {}),
                                snapshot.endpoints, {}) EXCEPT
                           !.todo = Wanted(snapshot.endpoints),
                           !.failed = snapshot.partial]
          BY <2>5, <3>2 DEF Boot
        <4>2. job'.req.gen = snapshot.gen
          BY <4>1 DEF NewJob, Request
        <4> QED
          BY <2>5, <4>1, <4>2 DEF Boot
      <3> QED
        BY <3>1, <3>2
    <2>6. ASSUME NEW i \in Ids, RestoreOne(i) PROVE SnapshotInv'
      BY <2>6, Zenon DEF RestoreOne
    <2>7. CASE RestoreDone
      BY <2>7 DEF RestoreDone, SnapshotType
    <2>8. CASE Crash
      BY <2>8 DEF Crash
    <2>9. CASE Status \/ Rotate \/ Environment \/ UNCHANGED vars
      BY <2>9 DEF Status, Rotate, Environment, vars, reconcilerVars
    <2> QED
      BY <2>1, <2>2, <2>3, <2>4, <2>5, <2>6, <2>7, <2>8, <2>9, GenerationSteps
         DEF Next, Generation, Startup
  <1> QED
    BY <1>1, <1>2, Invariance, PTL DEF Spec

(* The snapshot never goes back to an earlier generation, across crashes,
   restarts, partly failed restores and failed writes, as long as it can be
   read back (an unreadable one makes bin.rs start over at generation 0). *)
THEOREM SnapshotNeverRegresses ==
  ASSUME "load" \notin Env
  PROVE  Spec => SnapshotAdvances
  <1>1. IInv /\ SnapshotInv /\ [Next]_vars =>
          [snapshot # None => snapshot' # None /\ snapshot'.gen >= snapshot.gen]_vars
    <2> SUFFICES ASSUME IInv, SnapshotInv, Next, snapshot # None
                 PROVE  snapshot' # None /\ snapshot'.gen >= snapshot.gen
      OBVIOUS
    <2> USE DEF IInv, JobInv, StateInv, GenInv, SnapshotInv, Applying, Phases
    <2>1. snapshot.gen \in Nat
      BY DEF SnapshotType
    <2>2. CASE snapshot' = snapshot
      BY <2>1, <2>2
    <2>3. CASE Persist
      <3>1. Written \in SnapshotType
        BY <2>3 DEF Persist, Written, SnapshotType, Desired, Sources, Source, Option
      <3>2. Written # None
        BY <3>1, NoneIsNoSnapshot
      <3>3. Written.gen >= snapshot.gen
        BY <2>1, <2>3 DEF Persist, Written
      <3> QED
        BY <2>2, <2>3, <3>2, <3>3 DEF Persist
    <2>4. CASE GenerationStep
      BY <2>2, <2>4 DEF GenerationStep
    <2> QED
      BY <2>2, <2>3, <2>4, GenerationSteps, Zenon
         DEF Next, Submission, Submit, Generation, Commit, Startup, Boot, RestoreOne,
             RestoreDone, Crash, Status, Rotate, Environment
  <1> QED
    BY <1>1, SnapshotInvariance, PTL DEF Spec, SnapshotAdvances

-------------------------------------------------------------------------------
(***************************************************************************)
(* What a generation does to the manager's slots.                          *)
(*                                                                         *)
(* The properties are not inductive.  SlotDescribesTask needs the types of *)
(* the slots and of what the planning built; NothingUndeclared and         *)
(* UndisturbedListeners need that a step touches the slots of one id, the  *)
(* one whose turn it is, and that only an id planned to be bound is ever   *)
(* put back.  PlanInv has those facts.                                     *)
(***************************************************************************)

Slot == Option(SlotType)

Table == [Ids -> [Protos -> Slot]]

(* A slot describes its task. *)
Describing(s) ==
    s # None /\ s.active # None =>
      /\ s.gen = s.active.gen
      /\ s.endpoint = s.active.endpoint
      /\ s.material = s.active.material

Sound(S) == S \in Table /\ \A i \in Ids, p \in Protos : Describing(S[i][p])

-------------------------------------------------------------------------------
(* The manager's operations on one slot. *)

(* A slot that runs b is a slot, and describes its task. *)
LEMMA RunningSound ==
  ASSUME NEW s, NEW g \in Nat, NEW b \in EndpointSpec
  PROVE  RunningSlot(s, g, b) \in Slot /\ Describing(RunningSlot(s, g, b))
  <1>1. Task(g, b.endpoint, b.material) \in TaskType
    BY DEF Task, TaskType, EndpointSpec
  <1>2. RunningSlot(s, g, b) \in SlotType
    BY <1>1 DEF RunningSlot, SlotType, EndpointSpec, Option
  <1>3. Describing(RunningSlot(s, g, b))
    BY DEF RunningSlot, Task, Describing
  <1> QED
    BY <1>2, <1>3 DEF Slot, Option

(* A plain start leaves a running or a failed slot. *)
LEMMA StartSound ==
  ASSUME NEW S, NEW i, NEW p, NEW g \in Nat, NEW b \in EndpointSpec,
         NEW o \in StartSlot(S, i, p, g, b)
  PROVE  o.slot \in Slot /\ Describing(o.slot)
  <1> DEFINE failed == [state |-> "failed", gen |-> g, endpoint |-> b.endpoint,
                        material |-> b.material, active |-> None]
  <1>1. failed \in Slot
    BY DEF Slot, SlotType, EndpointSpec, Option
  <1>2. Describing(failed)
    BY DEF Describing
  <1>3. o.slot = RunningSlot(S[i][p], g, b) \/ o.slot = failed
    BY DEF StartSlot, Outcome
  <1> QED
    BY <1>1, <1>2, <1>3, RunningSound

(* A slot whose listener is gone, and one whose state alone changed. *)
LEMMA MarkedSound ==
  ASSUME NEW s \in SlotType, Describing(s),
         NEW st \in {"running", "draining", "failed"}
  PROVE  /\ [s EXCEPT !.active = None, !.state = st] \in Slot
         /\ Describing([s EXCEPT !.active = None, !.state = st])
         /\ [s EXCEPT !.state = st, !.active = None] \in Slot
         /\ Describing([s EXCEPT !.state = st, !.active = None])
         /\ [s EXCEPT !.state = st] \in Slot
         /\ Describing([s EXCEPT !.state = st])
  <1>1. /\ [s EXCEPT !.active = None, !.state = st] \in SlotType
        /\ [s EXCEPT !.state = st, !.active = None] \in SlotType
        /\ [s EXCEPT !.state = st] \in SlotType
    BY Zenon DEF SlotType, Option
  <1>2. /\ Describing([s EXCEPT !.active = None, !.state = st])
        /\ Describing([s EXCEPT !.state = st, !.active = None])
        /\ Describing([s EXCEPT !.state = st])
    BY NoneIsNoSlot DEF Describing, SlotType
  <1> QED
    BY <1>1, <1>2 DEF Slot, Option

(* A rebind leaves the new endpoint, the old one put back, or nothing. *)
LEMMA RebindSound ==
  ASSUME NEW S, NEW i, NEW p, NEW g \in Nat, NEW b \in EndpointSpec,
         S[i][p] \in SlotType, S[i][p].active # None, Describing(S[i][p]),
         NEW o \in RebindSlot(S, i, p, g, b)
  PROVE  o.slot \in Slot /\ Describing(o.slot)
  <1> DEFINE s == S[i][p]
             back == [s EXCEPT !.state = "failed",
                               !.active = Task(s.active.gen, s.endpoint, s.material)]
             lost == [s EXCEPT !.state = "failed", !.active = None]
  <1>1. s.active.gen = s.gen /\ s \in SlotType
    BY NoneIsNoSlot DEF Describing
  <1>2. back \in Slot /\ Describing(back)
    <2>1. Task(s.active.gen, s.endpoint, s.material) \in TaskType
      BY <1>1 DEF Task, TaskType, SlotType
    <2>2. back \in SlotType
      BY <1>1, <2>1, ZenonT(30) DEF SlotType, Option
    <2>3. Describing(back)
      BY <1>1 DEF Describing, Task, SlotType
    <2> QED
      BY <2>2, <2>3 DEF Slot, Option
  <1>3. lost \in Slot /\ Describing(lost)
    BY <1>1, MarkedSound, Zenon
  <1>4. o.slot = RunningSlot(s, g, b) \/ o.slot = back \/ o.slot = lost
    <2>1. PICK d : \/ o = Outcome(RunningSlot(s, g, b), "updated", d)
                   \/ o = Outcome(back, "failed", d)
                   \/ o = Outcome(lost, "failed", d)
      BY Zenon DEF RebindSlot
    <2> HIDE DEF back, lost
    <2> QED
      BY <2>1 DEF Outcome
  <1> HIDE DEF back, lost
  <1> QED
    BY <1>2, <1>3, <1>4, RunningSound

(* A move leaves the new endpoint, or the old one untouched but for its state. *)
LEMMA MoveSound ==
  ASSUME NEW S, NEW i, NEW p, NEW g \in Nat, NEW b \in EndpointSpec,
         S[i][p] \in SlotType, Describing(S[i][p]),
         NEW o \in MoveSlot(S, i, p, g, b)
  PROVE  o.slot \in Slot /\ Describing(o.slot)
  <1>1. \/ o.slot = RunningSlot(S[i][p], g, b)
        \/ o.slot = [S[i][p] EXCEPT !.state = "failed"]
    <2>1. PICK d : \/ o = Outcome(RunningSlot(S[i][p], g, b), "updated", d)
                   \/ o = Outcome([S[i][p] EXCEPT !.state = "failed"], "failed", d)
      BY ZenonT(30) DEF MoveSlot
    <2> QED
      BY <2>1 DEF Outcome
  <1>2. /\ [S[i][p] EXCEPT !.state = "failed"] \in Slot
        /\ Describing([S[i][p] EXCEPT !.state = "failed"])
    BY MarkedSound, Zenon
  <1> QED
    BY <1>1, <1>2, RunningSound

(* apply_slot, whichever way it takes. *)
LEMMA ApplySlotSound ==
  ASSUME NEW S, NEW i, NEW p, NEW g \in Nat, NEW b \in EndpointSpec,
         S[i][p] \in Slot, Describing(S[i][p]),
         NEW o \in ApplySlot(S, i, p, g, b)
  PROVE  o.slot \in Slot /\ Describing(o.slot)
  <1>1. CASE ~Active(S, i, p)
    BY <1>1, StartSound DEF ApplySlot
  <1>2. CASE Active(S, i, p)
    <2>1. S[i][p] \in SlotType /\ S[i][p].active # None
      BY <1>2 DEF Active, Slot, Option
    <2>2. CASE o = Outcome(S[i][p], "unchanged", {})
      BY <2>2 DEF Outcome
    <2>3. CASE o \in RebindSlot(S, i, p, g, b)
      BY <2>1, <2>3, RebindSound, Zenon
    <2>4. CASE o \in MoveSlot(S, i, p, g, b)
      BY <2>1, <2>4, MoveSound, Zenon
    <2> QED
      BY <1>2, <2>2, <2>3, <2>4 DEF ApplySlot
  <1> QED
    BY <1>1, <1>2

-------------------------------------------------------------------------------
(* The operations on an id, and on the whole table. *)

(* What apply leaves for each protocol is a sound slot. *)
LEMMA ApplySound ==
  ASSUME NEW S, Sound(S), NEW i \in Ids, NEW g \in Nat, NEW b \in EndpointSpec,
         NEW r \in Apply(S, i, g, b), NEW p \in Protos
  PROVE  r[p].slot \in Slot /\ Describing(r[p].slot)
  <1> DEFINE steps(q) == IF q \in b.protos THEN ApplySlot(S, i, q, g, b)
                         ELSE IF S[i][q] # None THEN {StopSlot(S, i, q)}
                         ELSE {Outcome(None, "none", {})}
  <1>1. S[i][p] \in Slot /\ Describing(S[i][p])
    BY DEF Sound, Table
  <1>2. CASE b.protos = {}
    <2>1. r[p] = Outcome(S[i][p], IF p = "tcp" THEN "failed" ELSE "none", {})
      BY <1>2 DEF Apply
    <2> QED
      BY <1>1, <2>1 DEF Outcome
  <1>3. CASE b.protos # {}
    <2>1. PICK t \in steps("tcp"), u \in steps("udp") :
            r = [q \in Protos |-> IF q = "tcp" THEN t ELSE u]
      BY <1>3 DEF Apply
    <2>2. r[p] \in steps(p)
      BY <2>1 DEF Protos
    <2>3. None \in Slot /\ Describing(None)
      BY DEF Slot, Option, Describing
    <2>4. CASE r[p] \in ApplySlot(S, i, p, g, b)
      BY <1>1, <2>4, ApplySlotSound
    <2>5. CASE r[p] = StopSlot(S, i, p) \/ r[p] = Outcome(None, "none", {})
      BY <2>3, <2>5 DEF StopSlot, Outcome
    <2> QED
      BY <2>2, <2>4, <2>5
  <1> QED
    BY <1>2, <1>3

(* Installing sound results keeps the table sound and the other ids alone. *)
LEMMA InstallSound ==
  ASSUME NEW S, Sound(S), NEW i \in Ids, NEW r,
         \A p \in Protos : r[p].slot \in Slot /\ Describing(r[p].slot)
  PROVE  /\ Sound(AfterSlots(S, i, r))
         /\ \A j \in Ids \ {i} : AfterSlots(S, i, r)[j] = S[j]
         /\ \A p \in Protos : AfterSlots(S, i, r)[i][p] = r[p].slot
  BY DEF Sound, Table, AfterSlots

(* So does prune, which drops nothing that serves. *)
LEMMA PruneSound ==
  ASSUME NEW S, Sound(S), NEW i \in Ids, NEW C
  PROVE  /\ Sound(Prune(i, S, C))
         /\ \A j \in Ids \ {i} : Prune(i, S, C)[j] = S[j]
         /\ \A p \in Protos : Active(S, i, p) => Prune(i, S, C)[i][p] = S[i][p]
  <1>1. None \in Slot /\ Describing(None)
    BY DEF Slot, Option, Describing
  <1>2. \A p \in Protos : \/ Prune(i, S, C)[i][p] = S[i][p]
                          \/ Prune(i, S, C)[i][p] = None /\ S[i][p].active = None
    BY DEF Prune, Sound, Table
  <1>3. \A j \in Ids \ {i} : Prune(i, S, C)[j] = S[j]
    BY DEF Prune, Sound, Table
  <1>4. Prune(i, S, C) \in Table
    <2>1. Prune(i, S, C)[i] \in [Protos -> Slot]
      BY <1>1 DEF Prune, Sound, Table
    <2> QED
      BY <2>1 DEF Prune, Sound, Table
  <1>5. ASSUME NEW j \in Ids, NEW p \in Protos PROVE Describing(Prune(i, S, C)[j][p])
    BY <1>1, <1>2, <1>3 DEF Sound
  <1> QED
    BY <1>2, <1>3, <1>4, <1>5 DEF Sound, Active

(* The outcomes of apply are installed whole. *)
LEMMA ApplyInstalled ==
  ASSUME NEW S, Sound(S), NEW i \in Ids, NEW g \in Nat, NEW b \in EndpointSpec,
         NEW r \in Apply(S, i, g, b)
  PROVE  /\ Sound(AfterSlots(S, i, r))
         /\ \A j \in Ids \ {i} : AfterSlots(S, i, r)[j] = S[j]
         /\ \A p \in Protos : AfterSlots(S, i, r)[i][p] = r[p].slot
  <1>1. \A p \in Protos : r[p].slot \in Slot /\ Describing(r[p].slot)
    BY ApplySound
  <1> QED
    BY <1>1, InstallSound

(* apply, with its result installed. *)
LEMMA ApplyEffectSound ==
  ASSUME NEW S, Sound(S), NEW i \in Ids, NEW g \in Nat, NEW b \in EndpointSpec,
         NEW r \in Apply(S, i, g, b), ApplyEffect(S, i, b, r)
  PROVE  Sound(slots') /\ \A j \in Ids \ {i} : slots'[j] = S[j]
  <1>1. /\ Sound(AfterSlots(S, i, r))
        /\ \A j \in Ids \ {i} : AfterSlots(S, i, r)[j] = S[j]
    BY ApplyInstalled, Zenon
  <1>2. slots' = S \/ slots' = Prune(i, AfterSlots(S, i, r), AfterCohorts(i, r))
    BY DEF ApplyEffect
  <1> QED
    BY <1>1, <1>2, PruneSound

(* remove leaves nothing of its id. *)
LEMMA RemoveEffectSound ==
  ASSUME NEW S, Sound(S), NEW i \in Ids, RemoveEffect(S, i)
  PROVE  /\ Sound(slots')
         /\ \A j \in Ids \ {i} : slots'[j] = S[j]
         /\ ~Contains(slots', i)
  <1>1. \A p \in Protos : Remove(S, i)[p].slot = None
    BY DEF Remove, StopSlot, Outcome
  <1>2. None \in Slot /\ Describing(None)
    BY DEF Slot, Option, Describing
  <1> QED
    BY <1>1, <1>2, InstallSound DEF RemoveEffect, Contains

(* refresh touches only the slots whose task exited, and drops none. *)
LEMMA RefreshSound ==
  ASSUME Sound(slots)
  PROVE  /\ Sound(RefreshSlots)
         /\ \A i \in Ids, p \in Protos :
              /\ RefreshSlots[i][p] = None <=> slots[i][p] = None
              /\ Active(slots, i, p) /\ slots[i][p].active.alive =>
                   RefreshSlots[i][p] = slots[i][p]
              /\ Active(RefreshSlots, i, p) => Active(slots, i, p)
  <1> SUFFICES ASSUME NEW i \in Ids, NEW p \in Protos
               PROVE  /\ RefreshSlots[i][p] \in Slot
                      /\ Describing(RefreshSlots[i][p])
                      /\ RefreshSlots[i][p] = None <=> slots[i][p] = None
                      /\ Active(slots, i, p) /\ slots[i][p].active.alive =>
                           RefreshSlots[i][p] = slots[i][p]
                      /\ Active(RefreshSlots, i, p) => Active(slots, i, p)
    BY Zenon DEF RefreshSlots, Sound, Table
  <1>1. slots[i][p] \in Slot /\ Describing(slots[i][p])
    BY DEF Sound, Table
  <1>2. CASE ~Exited(i, p)
    BY <1>1, <1>2 DEF RefreshSlots, Active
  <1>3. CASE Exited(i, p)
    <2> DEFINE t == [slots[i][p] EXCEPT !.active = None, !.state = "failed"]
    <2>1. slots[i][p] \in SlotType /\ slots[i][p] # None
      BY <1>1, <1>3 DEF Exited, Active, Slot, Option
    <2>2. t \in SlotType /\ Describing(t)
      BY <1>1, <2>1, NoneIsNoSlot, Zenon DEF SlotType, Option, Describing
    <2>3. RefreshSlots[i][p] = t
      BY <1>3 DEF RefreshSlots
    <2>4. t.active = None
      BY <2>1 DEF SlotType
    <2> HIDE DEF t
    <2> QED
      BY <1>3, <2>1, <2>2, <2>3, <2>4, NoneIsNoSlot DEF Exited, Active, Slot, Option
  <1> QED
    BY <1>2, <1>3

(* stop_accept marks the released slots and leaves the others alone. *)
LEMMA StopAcceptSound ==
  ASSUME Sound(slots), NEW released, NEW deleting,
         \A i \in Ids, p \in Protos : <<i, p>> \in released => Active(slots, i, p),
         StopAccept(released, deleting)
  PROVE  /\ Sound(slots')
         /\ \A i \in Ids, p \in Protos :
              /\ slots'[i][p] = None <=> slots[i][p] = None
              /\ <<i, p>> \notin released => slots'[i][p] = slots[i][p]
  <1>0. slots' = [i \in Ids |-> [p \in Protos |->
                    IF <<i, p>> \in released
                    THEN [slots[i][p] EXCEPT !.active = None, !.state = "draining"]
                    ELSE slots[i][p]]]
    BY Zenon DEF StopAccept
  <1> SUFFICES ASSUME NEW i \in Ids, NEW p \in Protos
               PROVE  /\ slots'[i][p] \in Slot
                      /\ Describing(slots'[i][p])
                      /\ slots'[i][p] = None <=> slots[i][p] = None
                      /\ <<i, p>> \notin released => slots'[i][p] = slots[i][p]
    BY <1>0, Zenon DEF Sound, Table
  <1>1. slots[i][p] \in Slot /\ Describing(slots[i][p])
    BY DEF Sound, Table
  <1>2. CASE <<i, p>> \notin released
    BY <1>0, <1>1, <1>2, Zenon
  <1>3. CASE <<i, p>> \in released
    <2> DEFINE t == [slots[i][p] EXCEPT !.active = None, !.state = "draining"]
    <2>1. slots[i][p] \in SlotType /\ slots[i][p] # None
      BY <1>1, <1>3 DEF Active, Slot, Option
    <2>2. t \in SlotType /\ Describing(t)
      BY <1>1, <2>1, NoneIsNoSlot, Zenon DEF SlotType, Option, Describing
    <2>3. slots'[i][p] = t
      BY <1>0, <1>3, Zenon
    <2> HIDE DEF t
    <2> QED
      BY <1>3, <2>1, <2>2, <2>3, NoneIsNoSlot DEF Slot, Option
  <1> QED
    BY <1>2, <1>3

(* A task that exits changes nothing that its slot says. *)
LEMMA TaskExitSound ==
  ASSUME Sound(slots), NEW j \in Ids, NEW q \in Protos, TaskExit(j, q)
  PROVE  /\ Sound(slots')
         /\ \A i \in Ids, p \in Protos :
              /\ slots'[i][p] = None <=> slots[i][p] = None
              /\ Active(slots', i, p) <=> Active(slots, i, p)
              /\ Active(slots, i, p) =>
                   /\ slots'[i][p].active.endpoint = slots[i][p].active.endpoint
                   /\ slots'[i][p].active.gen = slots[i][p].active.gen
  <1> DEFINE s == slots[j][q]
             a == [s.active EXCEPT !.alive = FALSE]
             t == [s EXCEPT !.active = a]
  <1>1. s \in SlotType /\ s.active \in TaskType /\ s # None /\ s.active # None
    BY DEF TaskExit, Active, Sound, Table, Slot, SlotType, Option
  <1>2. a \in TaskType /\ a.gen = s.active.gen /\ a.endpoint = s.active.endpoint
        /\ a.material = s.active.material
    BY <1>1, Zenon DEF TaskType
  <1>3. Describing(s)
    BY DEF Sound
  <1>4. t \in SlotType /\ t.active = a /\ Describing(t)
    <2> HIDE DEF a
    <2> QED
      BY <1>1, <1>2, <1>3 DEF SlotType, Option, Describing
  <1>5. t # None /\ a # None
    BY <1>2, <1>4, NoneIsNoSlot, Zenon
  <1>6. slots' = [slots EXCEPT ![j] = [@ EXCEPT ![q] = t]]
    BY DEF TaskExit
  <1> HIDE DEF s, t, a
  <1>7. slots'[j][q] = t /\ slots' \in Table
    BY <1>4, <1>6 DEF Sound, Table, Slot, Option
  <1>8. \A i \in Ids, p \in Protos : i # j \/ p # q => slots'[i][p] = slots[i][p]
    BY <1>6 DEF Sound, Table
  <1>9. Sound(slots')
    BY <1>4, <1>7, <1>8 DEF Sound
  <1> QED
    BY <1>1, <1>2, <1>4, <1>5, <1>7, <1>8, <1>9 DEF Active, s

-------------------------------------------------------------------------------
(* What is known of the generation in progress. *)

Fields == {"req", "src", "unrefreshed", "plan", "built", "desired", "todo",
           "released", "restoring", "failed"}

(* i is declared by nobody and has had its turn, or needs none. *)
Undeclared(i) ==
    /\ job.req.want[i] = None
    /\ job.plan[i] = "none" \/ (pc = "apply" /\ i \notin job.todo)

PlanInv ==
    /\ pc \in Applying \cup {"restore"} => Fields \subseteq DOMAIN job
    /\ pc = "plan" =>
         \A i \in Ids : job.req.want[i] # None => job.src[i] \in Source
    /\ pc \in {"plan", "release"} => ~job.restoring
    /\ pc \in {"release", "apply"} =>
         \A i \in Ids :
           /\ Binding(job.plan, i) => job.built[i] \in EndpointSpec
           /\ job.req.want[i] = None => job.plan[i] \in {"none", "delete"}
           /\ Undeclared(i) => ~Contains(slots, i)
    /\ pc = "apply" /\ job.restoring =>
         /\ Min(job.todo) \in Ids
         /\ Binding(job.plan, Min(job.todo))
         /\ ~Serving(slots, Min(job.todo))

(* What is known between generations. *)
LastInv ==
    /\ pc \in {"down", "restore"} => last = None
    /\ pc \in {"idle", "persist"} /\ last # None =>
         \A i \in Ids : last.req.want[i] = None => ~Contains(slots, i)

SInv == Sound(slots) /\ PlanInv /\ LastInv

(* A step that adds no slot to an id that has none, and starts no listener. *)
Quiet ==
    /\ \A i \in Ids : Contains(slots', i) => Contains(slots, i)
    /\ \A i \in Ids : Serving(slots', i) => Serving(slots, i)

(* No slot at all is a sound table. *)
LEMMA EmptySound ==
  /\ Sound([i \in Ids |-> [p \in Protos |-> None]])
  /\ \A i \in Ids : ~Contains([j \in Ids |-> [p \in Protos |-> None]], i)
  BY DEF Sound, Table, Slot, Option, Describing, Contains

(* The invariant holds before the process first starts. *)
LEMMA InitSInv == Init => SInv
  BY EmptySound DEF Init, SInv, PlanInv, LastInv, Applying

(* Building a source gives a spec. *)
LEMMA BuildSpec ==
  ASSUME NEW src \in Source, NEW f \in Materials
  PROVE  Build(src, f) \in EndpointSpec
  BY DescsAreDescriptions DEF Build, EndpointSpec, Endpoint, Source, Option

(* Refreshing a desired state gives a source to every declared id. *)
LEMMA RefreshedWanted ==
  ASSUME NEW want \in Desired, file \in Materials, NEW i \in Ids, want[i] # None
  PROVE  Refresh(want)[i] \in Source
  BY RefreshedSource DEF Refresh, Desired, Option

(* What happens behind the manager's back is quiet. *)
LEMMA EnvironmentSound ==
  ASSUME Sound(slots), Environment
  PROVE  Sound(slots') /\ Quiet
  <1>1. CASE slots' = slots
    BY <1>1 DEF Quiet, Contains, Serving, Active, Sound
  <1>2. ASSUME NEW i \in Ids, NEW p \in Protos, TaskExit(i, p)
        PROVE  Sound(slots') /\ Quiet
    BY <1>2, TaskExitSound DEF Quiet, Contains, Serving
  <1> QED
    BY <1>1, <1>2 DEF Environment, DrainEnds

(* So is the refresh of a status message. *)
LEMMA StatusSound ==
  ASSUME Sound(slots), Status
  PROVE  Sound(slots') /\ Quiet
  BY RefreshSound DEF Status, StatusRefresh, Quiet, Contains, Serving

(* A quiet step that keeps the phase, the job and the last answer preserves
   the invariant. *)
LEMMA QuietSInv ==
  ASSUME SInv, Sound(slots'), Quiet, UNCHANGED <<pc, job, last>>
  PROVE  SInv'
  BY DEF SInv, PlanInv, LastInv, Quiet, Undeclared, Binding

(* A submission starts a job with a source for every declared id. *)
LEMMA SubmissionSInv == IInv /\ SInv /\ Submission => SInv'
  <1> SUFFICES ASSUME IInv, SInv, NEW g \in Gens, NEW want \in Desired,
                      NEW again, Submit(g, want, again)
               PROVE  SInv'
    BY DEF Submission
  <1>1. PICK u : job' = NewJob(Request(g, want, again), Refresh(want), u)
    BY DEF Submit
  <1>2. Request(g, want, again).want = want
    BY DEF Request
  <1>3. /\ Fields \subseteq DOMAIN job'
        /\ job'.req.want = want
        /\ job'.src = Refresh(want)
        /\ job'.restoring = FALSE
    BY <1>1, <1>2 DEF NewJob, Fields
  <1>4. \A i \in Ids : want[i] # None => Refresh(want)[i] \in Source
    BY RefreshedWanted DEF IInv, StateInv
  <1> QED
    BY <1>3, <1>4 DEF Submit, SInv, PlanInv, LastInv, managerVars, Applying

(* The plan builds what it binds, and deletes what is held undeclared. *)
LEMMA PlanSInv == IInv /\ SInv /\ PlanGeneration => SInv'
  <1> SUFFICES ASSUME IInv, SInv, PlanGeneration PROVE SInv'
    OBVIOUS
  <1> DEFINE built(ok) == [i \in Ids |-> IF i \in ok THEN Build(job.src[i], file)
                                          ELSE None]
             desired(ok) == [i \in Ids |-> IF i \in ok THEN job.src[i] ELSE None]
  <1>1. PICK ok \in SUBSET (Wanted(job.req.want) \ job.unrefreshed) :
          job' = [job EXCEPT !.built = built(ok), !.plan = FinalPlan(built(ok)),
                             !.desired = desired(ok)]
    BY Zenon DEF PlanGeneration
  <1>2. Fields \subseteq DOMAIN job /\ ~job.restoring /\ pc = "plan"
    BY DEF PlanGeneration, SInv, PlanInv, Applying
  <1>3. /\ Fields \subseteq DOMAIN job'
        /\ job'.req = job.req
        /\ job'.restoring = job.restoring
        /\ job'.built = built(ok)
        /\ job'.plan = FinalPlan(built(ok))
    <2> HIDE DEF built, desired
    <2> QED
      BY <1>1, <1>2 DEF Fields
  <1>4. \A i \in ok : i \in Ids /\ Build(job.src[i], file) \in EndpointSpec
    BY <1>1, <1>2, BuildSpec DEF SInv, PlanInv, IInv, StateInv, Wanted
  <1>5. \A i \in Ids : built(ok)[i] # None => built(ok)[i] \in EndpointSpec
    BY <1>4
  <1> DEFINE diff == [i \in Ids |-> PlanOf(i, built(ok))]
  <1> HIDE DEF built
  <1>6. \A i \in Ids :
          /\ Binding(diff, i) => built(ok)[i] # None
          /\ job.req.want[i] = None => diff[i] = "none"
    BY DEF PlanOf, Binding
  <1>7. \A i \in Ids :
          FinalPlan(built(ok))[i] = IF Collides(diff, built(ok), i) THEN "invalid"
                                    ELSE IF Removed(i) THEN "delete" ELSE diff[i]
    BY DEF FinalPlan
  <1> HIDE DEF diff
  <1>8. ASSUME NEW i \in Ids
        PROVE  /\ Binding(job'.plan, i) => built(ok)[i] # None
               /\ job.req.want[i] = None =>
                    /\ job'.plan[i] \in {"none", "delete"}
                    /\ job'.plan[i] = "none" => ~Contains(slots, i)
    <2>1. job'.plan[i] = IF Collides(diff, built(ok), i) THEN "invalid"
                         ELSE IF Removed(i) THEN "delete" ELSE diff[i]
      BY <1>3, <1>7
    <2>2. Binding(job'.plan, i) => Binding(diff, i)
      BY <2>1 DEF Binding
    <2>3. job.req.want[i] = None => ~Collides(diff, built(ok), i)
      BY <1>6 DEF Collides, Binding
    <2> QED
      BY <1>6, <2>1, <2>2, <2>3 DEF Removed
  <1>9. pc' = "release" /\ slots' = slots
    BY DEF PlanGeneration, managerVars
  <1>10. PlanInv'
    BY <1>2, <1>3, <1>5, <1>8, <1>9 DEF PlanInv, Undeclared, Applying, Contains
  <1> QED
    BY <1>9, <1>10 DEF SInv, LastInv

(* Releasing addresses takes listeners, not slots, from ids that leave. *)
LEMMA ReleaseSInv == SInv /\ Release => SInv'
  <1> SUFFICES ASSUME SInv, Release PROVE SInv'
    OBVIOUS
  <1>1. /\ Sound(slots')
        /\ \A i \in Ids, p \in Protos : slots'[i][p] = None <=> slots[i][p] = None
    BY StopAcceptSound, Zenon DEF SInv, Release, ReleasedSlots
  <1>2. Fields \subseteq DOMAIN job /\ ~job.restoring /\ pc = "release"
    BY DEF Release, SInv, PlanInv, Applying
  <1>3. /\ Fields \subseteq DOMAIN job'
        /\ job'.req = job.req
        /\ job'.restoring = job.restoring
        /\ job'.built = job.built
        /\ job'.plan = job.plan
        /\ job'.todo = {i \in Ids : job.plan[i] # "none"}
    BY <1>2 DEF Release, Fields
  <1>4. pc' = "apply"
    BY DEF Release
  <1>5. PlanInv'
    BY <1>1, <1>2, <1>3, <1>4
       DEF SInv, PlanInv, Undeclared, Contains, Applying, Binding
  <1> QED
    BY <1>1, <1>4, <1>5 DEF SInv, LastInv

(* One id has had its turn. *)
TurnStep(i) ==
    /\ Turn(i)
    /\ Fields \subseteq DOMAIN job'
    /\ job'.req = job.req
    /\ job'.plan = job.plan
    /\ job'.built = job.built
    /\ \/ job'.todo = job.todo \ {i} /\ ~job'.restoring
       \/ /\ job'.todo = job.todo
          /\ Binding(job.plan, i)
          /\ ~Serving(slots', i)
    /\ Sound(slots')
    /\ \A j \in Ids \ {i} : Contains(slots', j) => Contains(slots, j)
    /\ \A j \in Ids \ {i}, p \in Protos :
         Active(slots, j, p) /\ slots[j][p].active.alive => slots'[j][p] = slots[j][p]
    /\ \/ Binding(job.plan, i)
       \/ slots' = slots /\ job.plan[i] \in {"unchanged", "invalid"}
       \/ ~Contains(slots', i) /\ job.plan[i] = "delete"
    /\ UNCHANGED <<pc, last>>

(* A turn preserves the invariant. *)
LEMMA TurnStepSInv ==
  ASSUME SInv, NEW i \in Ids, TurnStep(i)
  PROVE  SInv'
  <1>1. pc = "apply" /\ pc' = "apply" /\ i = Min(job.todo) /\ i \in job.todo
    BY DEF TurnStep, Turn
  <1>2. ASSUME NEW j \in Ids, job'.req.want[j] = None,
               job'.plan[j] = "none" \/ j \notin job'.todo
        PROVE  ~Contains(slots', j)
    <2>1. CASE j # i
      BY <1>1, <1>2, <2>1 DEF TurnStep, SInv, PlanInv, Undeclared
    <2>2. CASE j = i
      BY <1>1, <1>2, <2>2 DEF TurnStep, SInv, PlanInv, Undeclared, Binding
    <2> QED
      BY <2>1, <2>2
  <1>3. job'.restoring => /\ Min(job'.todo) \in Ids
                          /\ Binding(job'.plan, Min(job'.todo))
                          /\ ~Serving(slots', Min(job'.todo))
    BY <1>1 DEF TurnStep
  <1>4. PlanInv'
    BY <1>1, <1>2, <1>3 DEF TurnStep, SInv, PlanInv, Undeclared, Applying, Binding
  <1> QED
    BY <1>1, <1>4 DEF TurnStep, SInv, LastInv

(* An operation on i, seen from the other ids: the refresh it starts with
   drops no slot and leaves a live listener alone. *)
LEMMA OthersKept ==
  ASSUME Sound(slots), NEW i \in Ids,
         \A j \in Ids \ {i} : slots'[j] = RefreshSlots[j]
  PROVE  \A j \in Ids \ {i} :
           /\ Contains(slots', j) => Contains(slots, j)
           /\ \A p \in Protos :
                Active(slots, j, p) /\ slots[j][p].active.alive =>
                  slots'[j][p] = slots[j][p]
  BY RefreshSound DEF Contains

(* Every step of the application is a turn. *)
LEMMA TurnSteps ==
  ASSUME IInv, SInv, NEW i \in Ids,
         \/ ApplyUnchanged(i) \/ ApplyInvalid(i) \/ ApplyDelete(i)
         \/ ApplyBuilt(i) \/ RestoreReleased(i)
  PROVE  TurnStep(i)
  <1>1. Turn(i) /\ pc = "apply" /\ i = Min(job.todo) /\ i \in job.todo
    BY DEF ApplyUnchanged, ApplyInvalid, ApplyDelete, ApplyBuilt, RestoreReleased, Turn
  <1>2. /\ Fields \subseteq DOMAIN job
        /\ Sound(slots)
        /\ Sound(RefreshSlots)
        /\ job.req.gen \in Nat
        /\ job.restoring => Binding(job.plan, i) /\ ~Serving(slots, i)
        /\ Binding(job.plan, i) => job.built[i] \in EndpointSpec
    BY <1>1, RefreshSound DEF SInv, PlanInv, IInv, JobInv, Applying
  <1>3. CASE ApplyUnchanged(i) \/ ApplyInvalid(i)
    <2>1. slots' = slots /\ pc' = pc /\ last' = last
      BY <1>3 DEF ApplyUnchanged, ApplyInvalid, managerVars, reconcilerVars
    <2>2. job.plan[i] \in {"unchanged", "invalid"} /\ ~job.restoring
      BY <1>2, <1>3 DEF ApplyUnchanged, ApplyInvalid, Binding
    <2>3. /\ Fields \subseteq DOMAIN job'
          /\ job'.req = job.req
          /\ job'.plan = job.plan
          /\ job'.built = job.built
          /\ job'.todo = job.todo \ {i}
          /\ job'.restoring = job.restoring
      BY <1>2, <1>3, ZenonT(30) DEF ApplyUnchanged, ApplyInvalid, Fields
    <2> QED
      BY <1>1, <1>2, <2>1, <2>2, <2>3 DEF TurnStep, Contains
  <1>4. CASE ApplyDelete(i)
    <2>1. pc' = pc /\ last' = last /\ job.plan[i] = "delete" /\ ~job.restoring
      BY <1>2, <1>4 DEF ApplyDelete, reconcilerVars, Binding
    <2>2. /\ Fields \subseteq DOMAIN job'
          /\ job'.req = job.req
          /\ job'.plan = job.plan
          /\ job'.built = job.built
          /\ job'.todo = job.todo \ {i}
          /\ job'.restoring = job.restoring
      BY <1>2, <1>4 DEF ApplyDelete, Fields
    <2>3. /\ Sound(slots') /\ ~Contains(slots', i)
          /\ \A j \in Ids \ {i} : slots'[j] = RefreshSlots[j]
      BY <1>2, <1>4, RemoveEffectSound, SMTT(30) DEF ApplyDelete
    <2> QED
      BY <1>1, <1>2, <2>1, <2>2, <2>3, OthersKept DEF TurnStep
  <1>5. CASE ApplyBuilt(i)
    <2>1. pc' = pc /\ last' = last /\ Binding(job.plan, i) /\ ~job.restoring
      BY <1>5 DEF ApplyBuilt, reconcilerVars
    <2>2. PICK r \in Apply(RefreshSlots, i, job.req.gen, job.built[i]) :
            /\ ApplyEffect(RefreshSlots, i, job.built[i], r)
            /\ job' = IF ~Failed(r) THEN [job EXCEPT !.todo = @ \ {i}]
                      ELSE IF i \in job.released /\ ~Serving(slots', i)
                           THEN [job EXCEPT !.failed = TRUE, !.restoring = TRUE]
                      ELSE [job EXCEPT !.failed = TRUE,
                                       !.todo = @ \ {i},
                                       !.desired[i] = KeptSource(slots', i)]
      BY <1>5 DEF ApplyBuilt
    <2>3. /\ Fields \subseteq DOMAIN job'
          /\ job'.req = job.req
          /\ job'.plan = job.plan
          /\ job'.built = job.built
          /\ \/ job'.todo = job.todo \ {i} /\ job'.restoring = job.restoring
             \/ job'.todo = job.todo /\ ~Serving(slots', i)
      BY <1>2, <2>2, Zenon DEF Fields
    <2>4. Sound(slots') /\ \A j \in Ids \ {i} : slots'[j] = RefreshSlots[j]
      BY <1>2, <2>1, <2>2, ApplyEffectSound
    <2> QED
      BY <1>1, <1>2, <2>1, <2>3, <2>4, OthersKept DEF TurnStep
  <1>6. CASE RestoreReleased(i)
    <2>1. pc' = pc /\ last' = last /\ Binding(job.plan, i)
      BY <1>2, <1>6 DEF RestoreReleased, reconcilerVars
    <2>2. /\ Fields \subseteq DOMAIN job'
          /\ job'.req = job.req
          /\ job'.plan = job.plan
          /\ job'.built = job.built
          /\ job'.todo = job.todo \ {i}
          /\ job'.restoring = FALSE
      BY <1>2, <1>6, SMTT(30) DEF RestoreReleased, Fields
    <2>3. CASE slots' = slots
      <3>1. Sound(slots') /\ \A j \in Ids : Contains(slots', j) => Contains(slots, j)
        BY <1>2, <2>3, Zenon
      <3> QED
        BY <1>1, <2>1, <2>2, <2>3, <3>1, Zenon DEF TurnStep
    <2>4. CASE slots' # slots
      <3>1. applied[i] # None /\
            \E r \in Apply(RefreshSlots, i, job.req.gen, Build(applied[i], file)) :
              ApplyEffect(RefreshSlots, i, Build(applied[i], file), r)
        BY <1>6, <2>4 DEF RestoreReleased, managerVars
      <3>2. Build(applied[i], file) \in EndpointSpec
        BY <3>1, BuildSpec, SMTT(30) DEF IInv, StateInv, Sources, Option
      <3>3. Sound(slots') /\ \A j \in Ids \ {i} : slots'[j] = RefreshSlots[j]
        BY <1>2, <3>1, <3>2, ApplyEffectSound
      <3> QED
        BY <1>1, <1>2, <2>1, <2>2, <3>3, OthersKept DEF TurnStep
    <2> QED
      BY <2>3, <2>4
  <1> QED
    BY <1>3, <1>4, <1>5, <1>6

(* Committing answers with what the turns left; persisting changes no slot. *)
LEMMA GenerationSInv == IInv /\ SInv /\ Generation => SInv'
  <1> SUFFICES ASSUME IInv, SInv, Generation PROVE SInv'
    OBVIOUS
  <1>1. ASSUME NEW i \in Ids, TurnStep(i) PROVE SInv'
    BY <1>1, TurnStepSInv
  <1>2. CASE Commit
    <2>1. pc = "apply" /\ job.todo = {} /\ pc' = "persist" /\ slots' = slots
          /\ last'.req = job.req
      BY <1>2 DEF Commit, managerVars
    <2> QED
      BY <2>1 DEF SInv, PlanInv, LastInv, Undeclared, Applying, Contains
  <1>3. CASE Persist
    BY <1>3 DEF Persist, managerVars, reconcilerVars, SInv, PlanInv, LastInv, Applying
  <1> QED
    BY <1>1, <1>2, <1>3, PlanSInv, ReleaseSInv, TurnSteps DEF Generation

(* A restore answers nobody, and applies one endpoint after the other. *)
LEMMA StartupSInv == IInv /\ SInv /\ Startup => SInv'
  <1> SUFFICES ASSUME IInv, SInv, Startup PROVE SInv'
    OBVIOUS
  <1>1. ASSUME Boot, pc' = "plan" PROVE SInv'
    <2>1. PICK u : job' = NewJob(Request(0, Static, {}), Refresh(Static), u)
      BY <1>1 DEF Boot
    <2>2. /\ Fields \subseteq DOMAIN job'
          /\ job'.req.want = Static
          /\ job'.src = Refresh(Static)
          /\ job'.restoring = FALSE
      BY <2>1 DEF NewJob, Request, Fields
    <2>3. \A i \in Ids : Static[i] # None => Refresh(Static)[i] \in Source
      BY RefreshedWanted, StaticIsDesired DEF IInv, StateInv
    <2> QED
      BY <1>1, <2>2, <2>3
         DEF Boot, SInv, PlanInv, LastInv, managerVars, Applying
  <1>2. ASSUME Boot, pc' = "restore" PROVE SInv'
    <2>1. Fields \subseteq DOMAIN job'
      BY <1>2 DEF Boot, NewJob, Fields
    <2> QED
      BY <1>2, <2>1
         DEF Boot, SInv, PlanInv, LastInv, managerVars, reconcilerVars, Applying
  <1>3. ASSUME NEW i \in Ids, RestoreOne(i) PROVE SInv'
    <2>1. pc = "restore" /\ pc' = "restore" /\ last' = last /\ i \in job.todo
      BY <1>3, Zenon DEF RestoreOne
    <2>2. Fields \subseteq DOMAIN job'
      BY <1>3, <2>1, Zenon DEF RestoreOne, SInv, PlanInv, Fields
    <2> DEFINE b == Build(Refreshed(job.src[i], file), file)
    <2>3. b \in EndpointSpec
      <3>1. job.src[i] \in Descs /\ file \in Materials
        BY <2>1 DEF IInv, JobInv, StateInv, Desired, Option
      <3> QED
        BY <3>1, RefreshedSource, BuildSpec
    <2>4. job.req.gen \in Nat /\ Sound(RefreshSlots)
      BY <2>1, RefreshSound DEF IInv, JobInv, SInv
    <2>5. slots' = slots \/ \E r \in Apply(RefreshSlots, i, job.req.gen, b) :
                              ApplyEffect(RefreshSlots, i, b, r)
      BY <1>3, Zenon DEF RestoreOne, managerVars
    <2> HIDE DEF b
    <2>6. Sound(slots')
      <3>1. CASE slots' = slots
        BY <3>1 DEF SInv
      <3>2. CASE slots' # slots
        BY <2>3, <2>4, <2>5, <3>2, ApplyEffectSound
      <3> QED
        BY <3>1, <3>2
    <2> QED
      BY <2>1, <2>2, <2>6 DEF SInv, PlanInv, LastInv, Applying
  <1>4. CASE RestoreDone
    BY <1>4 DEF RestoreDone, SInv, PlanInv, LastInv, managerVars, Applying
  <1> QED
    BY <1>1, <1>2, <1>3, <1>4 DEF Startup, Boot

(* Every step of the system preserves the invariant. *)
LEMMA NextSInv == IInv /\ SInv /\ [Next]_vars => SInv'
  <1> SUFFICES ASSUME IInv, SInv, [Next]_vars PROVE SInv'
    OBVIOUS
  <1>1. CASE Crash
    BY <1>1, EmptySound DEF Crash, SInv, PlanInv, LastInv, Applying
  <1>2. CASE Status
    BY <1>2, StatusSound, QuietSInv DEF SInv, Status, reconcilerVars
  <1>3. CASE Environment
    BY <1>3, EnvironmentSound, QuietSInv DEF SInv, Environment, reconcilerVars
  <1>4. CASE Rotate \/ UNCHANGED vars
    <2>1. UNCHANGED <<slots, pc, job, last>>
      BY <1>4 DEF Rotate, vars, managerVars, reconcilerVars
    <2>2. Quiet
      BY <2>1 DEF Quiet, Contains, Serving, Active
    <2> QED
      BY <2>1, <2>2, QuietSInv DEF SInv
  <1> QED
    BY <1>1, <1>2, <1>3, <1>4, SubmissionSInv, GenerationSInv, StartupSInv DEF Next

(* The invariant holds from the first boot on. *)
LEMMA SlotInvariance == Spec => [](IInv /\ SInv)
  BY InitSInv, NextSInv, Invariance, PTL DEF Spec

-------------------------------------------------------------------------------
(* What a slot says of itself is what its task runs, across replacements,
   moves, failed rebinds that put the old endpoint back, releases, restores and
   exits.  The no-op fast path of apply_slot relies on it. *)
THEOREM SlotsDescribeTheirTasks == Spec => []SlotDescribesTask
  <1>1. SInv => SlotDescribesTask
    BY DEF SInv, Sound, Describing, SlotDescribesTask, Active
  <1> QED
    BY <1>1, SlotInvariance, PTL

(* After a generation the manager holds nothing that generation did not
   declare: apply_generation derives its removals from what the manager holds,
   and nothing it does afterwards gives an undeclared id a slot. *)
THEOREM NothingUndeclaredIsHeld == Spec => []NothingUndeclared
  <1>1. SInv => NothingUndeclared
    BY DEF SInv, LastInv, NothingUndeclared
  <1> QED
    BY <1>1, SlotInvariance, PTL

(* An endpoint that a generation leaves unchanged or finds invalid keeps its
   live listener through that generation: release_contended_addresses stops
   only ids that leave, and apply, remove and restore_released touch only the
   id whose turn it is. *)
THEOREM ListenersStayUndisturbed == Spec => UndisturbedListeners
  <1> DEFINE Kept(i, p) ==
        /\ Active(slots', i, p)
        /\ slots'[i][p].active.endpoint = slots[i][p].active.endpoint
        /\ slots'[i][p].active.gen = slots[i][p].active.gen
  <1>1. ASSUME IInv, SInv, Next, NEW i \in Ids, NEW p \in Protos,
               pc \in {"release", "apply"}, pc' # "down",
               job.plan[i] \in {"unchanged", "invalid"},
               Active(slots, i, p), slots[i][p].active.alive
        PROVE  Kept(i, p)
    <2>1. CASE slots'[i][p] = slots[i][p]
      BY <1>1, <2>1 DEF Active
    <2>2. CASE Release
      <3>1. <<i, p>> \notin ReleasedSlots
        BY <1>1 DEF ReleasedSlots, Leaving
      <3>2. slots'[i][p] = slots[i][p]
        BY <1>1, <2>2, <3>1, StopAcceptSound, Zenon DEF SInv, Release, ReleasedSlots
      <3> QED
        BY <2>1, <3>2
    <2>3. ASSUME NEW j \in Ids, TurnStep(j) PROVE Kept(i, p)
      <3>1. slots'[i][p] = slots[i][p]
        BY <1>1, <2>3 DEF TurnStep, Binding
      <3> QED
        BY <2>1, <3>1
    <2>4. CASE Environment
      <3>1. ASSUME NEW j \in Ids, NEW q \in Protos, TaskExit(j, q) PROVE Kept(i, p)
        BY <1>1, <3>1, TaskExitSound DEF SInv
      <3> QED
        BY <2>1, <2>4, <3>1 DEF Environment, DrainEnds
    <2>5. CASE Commit \/ Rotate
      BY <2>1, <2>5 DEF Commit, Rotate, managerVars
    <2> QED
      BY <1>1, <2>2, <2>3, <2>4, <2>5, TurnSteps, Zenon
         DEF Next, Submission, Submit, Generation, PlanGeneration, Persist, Startup,
             Boot, RestoreOne, RestoreDone, Crash, Status
  <1>2. IInv /\ SInv /\ [Next]_vars =>
          [\A i \in Ids, p \in Protos :
             /\ pc \in {"release", "apply"}
             /\ pc' # "down"
             /\ job.plan[i] \in {"unchanged", "invalid"}
             /\ Active(slots, i, p)
             /\ slots[i][p].active.alive
             => Kept(i, p)]_vars
    BY <1>1
  <1> QED
    BY <1>2, SlotInvariance, PTL DEF Spec, UndisturbedListeners

(* apply_slot never takes away a listener whose endpoint moves. *)
LEMMA MoveKeeps ==
  ASSUME NEW S, NEW i, NEW p, NEW g \in Nat, NEW b \in EndpointSpec,
         S[i][p] \in Slot, Describing(S[i][p]), Active(S, i, p),
         S[i][p].endpoint.addr # b.endpoint.addr,
         NEW o \in ApplySlot(S, i, p, g, b)
  PROVE  o.slot # None /\ o.slot.active # None
  <1>1. S[i][p] \in SlotType /\ S[i][p] # None /\ S[i][p].active # None
    BY DEF Active, Slot, Option
  <1>2. S[i][p].active.endpoint.addr # b.endpoint.addr
    BY <1>1 DEF Describing
  <1>3. CASE o = Outcome(S[i][p], "unchanged", {})
    BY <1>1, <1>3 DEF Outcome
  <1>4. CASE o \in MoveSlot(S, i, p, g, b)
    <2>1. PICK d : \/ o = Outcome(RunningSlot(S[i][p], g, b), "updated", d)
                   \/ o = Outcome([S[i][p] EXCEPT !.state = "failed"], "failed", d)
      BY <1>4, Zenon DEF MoveSlot
    <2>2. CASE o.slot = RunningSlot(S[i][p], g, b)
      <3>1. Task(g, b.endpoint, b.material) \in TaskType
        BY DEF Task, TaskType, EndpointSpec
      <3>2. RunningSlot(S[i][p], g, b) \in SlotType
        BY <3>1 DEF RunningSlot, SlotType, EndpointSpec, Option
      <3>3. RunningSlot(S[i][p], g, b).active = Task(g, b.endpoint, b.material)
        BY DEF RunningSlot
      <3> QED
        BY <2>2, <3>1, <3>2, <3>3, NoneIsNoSlot
    <2>3. CASE o.slot = [S[i][p] EXCEPT !.state = "failed"]
      BY <1>1, <2>3, NoneIsNoSlot DEF SlotType
    <2> QED
      BY <2>1, <2>2, <2>3 DEF Outcome
  <1> QED
    BY <1>2, <1>3, <1>4 DEF ApplySlot

(* A listener that moves to another address is never lost to a failed bind. *)
THEOREM MovesNeverLoseAListener == Spec => MovesKeepAListener
  <1>1. ASSUME IInv, SInv, Next, NEW i \in Ids, NEW p \in Protos,
               pc = "apply", pc' # "down", job.plan[i] = "replace", i \in job.todo,
               p \in job.built[i].protos, Active(slots, i, p),
               slots[i][p].active.alive,
               slots[i][p].endpoint.addr # job.built[i].endpoint.addr
        PROVE  Active(slots', i, p)
    <2>1. CASE slots'[i][p] = slots[i][p]
      BY <1>1, <2>1 DEF Active
    <2>2. ASSUME NEW j \in Ids, TurnStep(j), j # i PROVE Active(slots', i, p)
      BY <1>1, <2>1, <2>2 DEF TurnStep
    <2>3. CASE ApplyUnchanged(i) \/ ApplyInvalid(i) \/ ApplyDelete(i)
      BY <1>1, <2>3 DEF ApplyUnchanged, ApplyInvalid, ApplyDelete
    <2>4. CASE RestoreReleased(i)
      BY <1>1, <2>4 DEF RestoreReleased, Turn, SInv, PlanInv, Serving
    <2>5. CASE ApplyBuilt(i)
      <3> DEFINE S == RefreshSlots
                 b == job.built[i]
                 g == job.req.gen
      <3>1. b \in EndpointSpec /\ g \in Nat /\ b.protos # {}
        BY <1>1 DEF SInv, PlanInv, Binding, IInv, JobInv, Applying
      <3>2. Sound(S) /\ S[i][p] = slots[i][p]
        BY <1>1, RefreshSound DEF SInv
      <3>3. PICK r \in Apply(S, i, g, b) : ApplyEffect(S, i, b, r)
        BY <2>5, SMTT(30) DEF ApplyBuilt
      <3> HIDE DEF S, b, g
      <3>4. r[p] \in ApplySlot(S, i, p, g, b)
        <4> DEFINE steps(q) == IF q \in b.protos THEN ApplySlot(S, i, q, g, b)
                               ELSE IF S[i][q] # None THEN {StopSlot(S, i, q)}
                               ELSE {Outcome(None, "none", {})}
        <4>1. PICK t \in steps("tcp"), u \in steps("udp") :
                r = [q \in Protos |-> IF q = "tcp" THEN t ELSE u]
          BY <3>1, <3>3 DEF Apply
        <4>2. r[p] \in steps(p)
          BY <4>1 DEF Protos
        <4> QED
          BY <1>1, <4>2 DEF b
      <3>5. r[p].slot # None /\ r[p].slot.active # None
        <4>1. S[i][p] \in Slot /\ Describing(S[i][p]) /\ Active(S, i, p)
          BY <1>1, <3>2 DEF Sound, Table, Active
        <4>2. S[i][p].endpoint.addr # b.endpoint.addr
          BY <1>1, <3>2 DEF b
        <4> QED
          BY <3>1, <3>4, <4>1, <4>2, MoveKeeps
      <3>6. /\ Sound(AfterSlots(S, i, r))
            /\ AfterSlots(S, i, r)[i][p] = r[p].slot
        BY <3>1, <3>2, <3>3, ApplySound, InstallSound
      <3>7. slots' = Prune(i, AfterSlots(S, i, r), AfterCohorts(i, r))
        BY <3>1, <3>3 DEF ApplyEffect
      <3>8. Active(AfterSlots(S, i, r), i, p)
        BY <3>5, <3>6 DEF Active
      <3>9. slots'[i][p] = AfterSlots(S, i, r)[i][p]
        BY <3>6, <3>7, <3>8, PruneSound
      <3> QED
        BY <3>8, <3>9 DEF Active
    <2>6. CASE Environment
      <3>1. ASSUME NEW j \in Ids, NEW q \in Protos, TaskExit(j, q)
            PROVE  Active(slots', i, p)
        BY <1>1, <3>1, TaskExitSound DEF SInv
      <3> QED
        BY <2>1, <2>6, <3>1 DEF Environment, DrainEnds
    <2>7. CASE Commit \/ Rotate
      BY <2>1, <2>7 DEF Commit, Rotate, managerVars
    <2>8. ASSUME NEW j \in Ids,
                 \/ ApplyUnchanged(j) \/ ApplyInvalid(j) \/ ApplyDelete(j)
                 \/ ApplyBuilt(j) \/ RestoreReleased(j)
          PROVE  Active(slots', i, p)
      <3>1. CASE j # i
        BY <1>1, <2>2, <2>8, <3>1, TurnSteps
      <3> QED
        BY <2>3, <2>4, <2>5, <2>8, <3>1
    <2> QED
      BY <1>1, <2>6, <2>7, <2>8
         DEF Next, Submission, Submit, Generation, PlanGeneration, Release, Persist,
             Startup, Boot, RestoreOne, RestoreDone, Crash, Status
  <1>2. IInv /\ SInv /\ [Next]_vars =>
          [\A i \in Ids, p \in Protos :
             /\ pc = "apply"
             /\ pc' # "down"
             /\ job.plan[i] = "replace"
             /\ i \in job.todo
             /\ p \in job.built[i].protos
             /\ Active(slots, i, p)
             /\ slots[i][p].active.alive
             /\ slots[i][p].endpoint.addr # job.built[i].endpoint.addr
             => Active(slots', i, p)]_vars
    BY <1>1
  <1> QED
    BY <1>2, SlotInvariance, PTL DEF Spec, MovesKeepAListener

-------------------------------------------------------------------------------
(* The cohorts that drain. *)

(* The cohorts that an operation on i may start. *)
Drains(i) == {c \in CohortType : c.id = i /\ c.held}

(* spawn_drain starts a cohort of its slot, under the deadline it is given. *)
LEMMA SpawnDrainType ==
  ASSUME NEW i \in Ids, NEW p \in Protos, NEW g \in Nat
  PROVE  /\ \A c \in SpawnDrain(i, p, g, TRUE) : c \in Drains(i) /\ c.deadline
         /\ \A c \in SpawnDrain(i, p, g, FALSE) : c \in Drains(i)
  <1> DEFINE t == [id |-> i, proto |-> p, gen |-> g, deadline |-> TRUE, held |-> TRUE]
             f == [id |-> i, proto |-> p, gen |-> g, deadline |-> FALSE, held |-> TRUE]
  <1>1. t \in Drains(i) /\ t.deadline
    BY DEF Drains, CohortType
  <1>2. f \in Drains(i)
    BY DEF Drains, CohortType
  <1>3. /\ SpawnDrain(i, p, g, TRUE) \subseteq {t}
        /\ SpawnDrain(i, p, g, FALSE) \subseteq {f}
    BY DEF SpawnDrain
  <1> HIDE DEF t, f
  <1> QED
    BY <1>1, <1>2, <1>3, Zenon

(* The generation of a listener is a number. *)
LEMMA ActiveGen ==
  ASSUME NEW S, Sound(S), NEW i \in Ids, NEW p \in Protos, Active(S, i, p)
  PROVE  S[i][p].active.gen \in Nat
  BY DEF Sound, Table, Slot, SlotType, TaskType, Option, Active

(* refresh drains what exited under the delete deadline. *)
LEMMA RefreshCohortsType ==
  ASSUME Sound(slots), NEW c \in RefreshCohorts
  PROVE  c \in cohorts \/ (c \in CohortType /\ c.deadline)
  <1> SUFFICES ASSUME c \notin cohorts PROVE c \in CohortType /\ c.deadline
    OBVIOUS
  <1> DEFINE drained(x) == SpawnDrain(x[1], x[2], slots[x[1]][x[2]].active.gen, TRUE)
             exited == {y \in Ids \X Protos : Exited(y[1], y[2])}
  <1>1. PICK x \in exited : c \in drained(x)
    <2>1. RefreshCohorts = cohorts \cup UNION {drained(x) : x \in exited}
      BY Zenon DEF RefreshCohorts
    <2> HIDE DEF drained, exited
    <2> QED
      BY <2>1
  <1>2. x[1] \in Ids /\ x[2] \in Protos /\ Active(slots, x[1], x[2])
    BY DEF Exited
  <1>3. slots[x[1]][x[2]].active.gen \in Nat
    BY <1>2, ActiveGen
  <1> QED
    BY <1>1, <1>2, <1>3, SpawnDrainType, Zenon DEF Drains

(* apply starts drains of its own id only. *)
LEMMA ApplyDrains ==
  ASSUME NEW S, Sound(S), NEW i \in Ids, NEW g, NEW b,
         NEW r \in Apply(S, i, g, b), NEW p \in Protos, NEW c \in r[p].drains
  PROVE  c \in Drains(i)
  <1> DEFINE steps(q) == IF q \in b.protos THEN ApplySlot(S, i, q, g, b)
                         ELSE IF S[i][q] # None THEN {StopSlot(S, i, q)}
                         ELSE {Outcome(None, "none", {})}
             spawned == /\ Active(S, i, p)
                        /\ \/ r[p].drains = SpawnDrain(i, p, S[i][p].active.gen, TRUE)
                           \/ r[p].drains = SpawnDrain(i, p, S[i][p].active.gen, FALSE)
  <1>1. CASE r[p].drains = {}
    BY <1>1
  <1>2. CASE spawned
    BY <1>2, ActiveGen, SpawnDrainType, ZenonT(30)
  <1>3. CASE b.protos = {}
    <2>1. r[p] = Outcome(S[i][p], IF p = "tcp" THEN "failed" ELSE "none", {})
      BY <1>3 DEF Apply
    <2> QED
      BY <1>1, <2>1 DEF Outcome
  <1>4. CASE b.protos # {}
    <2>1. PICK t \in steps("tcp"), u \in steps("udp") :
            r = [q \in Protos |-> IF q = "tcp" THEN t ELSE u]
      BY <1>4 DEF Apply
    <2>2. r[p] \in steps(p)
      BY <2>1 DEF Protos
    <2>3. CASE r[p] = StopSlot(S, i, p) \/ r[p] = Outcome(None, "none", {})
      <3> DEFINE d == SpawnDrain(i, p, S[i][p].active.gen, TRUE)
      <3>1. r[p] = Outcome(None, "none", {}) \/
            r[p] = Outcome(None, "deleted", IF Active(S, i, p) THEN d ELSE {})
        BY <2>3, ZenonT(30) DEF StopSlot
      <3> HIDE DEF d
      <3>2. r[p].drains = {} \/ (Active(S, i, p) /\ r[p].drains = d)
        BY <3>1, SMTT(30) DEF Outcome
      <3> QED
        BY <1>1, <1>2, <3>2, Zenon DEF d
    <2>4. CASE r[p] \in StartSlot(S, i, p, g, b)
      <3>1. PICK s, a : r[p] = Outcome(s, a, {})
        BY <2>4 DEF StartSlot
      <3>2. r[p].drains = {}
        BY <3>1 DEF Outcome
      <3> QED
        BY <1>1, <3>2, SMTT(30)
    <2>5. CASE r[p] = Outcome(S[i][p], "unchanged", {})
      BY <1>1, <2>5 DEF Outcome
    <2>6. CASE Active(S, i, p) /\ r[p] \in RebindSlot(S, i, p, g, b)
      <3> DEFINE d == IF p = "udp" THEN {} ELSE SpawnDrain(i, p, S[i][p].active.gen, FALSE)
      <3>1. \E s, a : r[p] = Outcome(s, a, d)
        BY <2>6, ZenonT(30) DEF RebindSlot
      <3>2. r[p].drains = d
        BY <3>1 DEF Outcome
      <3> QED
        BY <1>1, <1>2, <2>6, <3>2, Zenon
    <2>7. CASE Active(S, i, p) /\ r[p] \in MoveSlot(S, i, p, g, b)
      <3> DEFINE d == SpawnDrain(i, p, S[i][p].active.gen, FALSE)
      <3>1. PICK s, a : r[p] = Outcome(s, a, d) \/ r[p] = Outcome(s, a, {})
        BY <2>7, ZenonT(30) DEF MoveSlot
      <3> HIDE DEF d
      <3>2. r[p].drains = {} \/ r[p].drains = d
        <4>1. Outcome(s, a, d).drains = d /\ Outcome(s, a, {}).drains = {}
          BY Zenon DEF Outcome
        <4> QED
          BY <3>1, <4>1, Zenon
      <3> QED
        BY <1>1, <1>2, <2>7, <3>2, Zenon DEF d
    <2> QED
      BY <2>2, <2>3, <2>4, <2>5, <2>6, <2>7, ZenonT(30) DEF ApplySlot
  <1> QED
    BY <1>3, <1>4

(* remove starts drains under the delete deadline. *)
LEMMA RemoveDrains ==
  ASSUME NEW S, Sound(S), NEW i \in Ids, NEW p \in Protos,
         NEW c \in Remove(S, i)[p].drains
  PROVE  c \in CohortType /\ c.deadline
  <1>1. Active(S, i, p) /\ c \in SpawnDrain(i, p, S[i][p].active.gen, TRUE)
    BY Zenon DEF Remove, StopSlot, Outcome
  <1> QED
    BY <1>1, ActiveGen, SpawnDrainType, Zenon DEF Drains

(* The cohort c is not one of before, held or detached since. *)
Fresh(c) ==
    /\ c.held => c \notin cohorts
    /\ ~c.held => [c EXCEPT !.held = TRUE] \notin cohorts /\ c \notin cohorts

(* Detaching makes no cohort fresh: a fresh one was started by this step. *)
LEMMA DetachFresh ==
  ASSUME NEW i, NEW r, NEW C \in SUBSET CohortType, NEW c \in Detach(i, r, C)
  PROVE  /\ c \in CohortType
         /\ Fresh(c) => \E d \in C \ cohorts : d.id = c.id /\ d.deadline = c.deadline
  <1>1. PICK d \in C :
          c = [d EXCEPT !.held = d.held /\ ~(d.id = i /\ r[d.proto].slot = None)]
    BY DEF Detach
  <1>2. c = d \/ (d.held = TRUE /\ c = [d EXCEPT !.held = FALSE])
    BY <1>1, Zenon DEF CohortType
  <1>3. CASE c = d
    BY <1>3 DEF Fresh, CohortType
  <1>4. CASE d.held = TRUE /\ c = [d EXCEPT !.held = FALSE]
    <2>1. /\ c \in CohortType
          /\ c.held = FALSE
          /\ c.id = d.id
          /\ c.deadline = d.deadline
          /\ [c EXCEPT !.held = TRUE] = d
      BY <1>4, ZenonT(30) DEF CohortType
    <2> QED
      BY <2>1, Zenon DEF Fresh
  <1> QED
    BY <1>2, <1>3, <1>4, Zenon

(* A step of the manager adds cohorts of the type, and bounds the drains of
   the ids that the plan deletes. *)
CohortStep ==
    \A c \in cohorts' :
      /\ c \in CohortType
      /\ pc \in {"release", "apply"} /\ job.plan[c.id] = "delete" /\ Fresh(c) =>
           c.deadline

(* apply, with what it drains. *)
LEMMA ApplyCohorts ==
  ASSUME SInv, cohorts \in SUBSET CohortType, NEW i \in Ids, NEW g, NEW b,
         NEW r \in Apply(RefreshSlots, i, g, b), ApplyEffect(RefreshSlots, i, b, r),
         pc = "apply" => job.plan[i] # "delete", pc # "release"
  PROVE  CohortStep
  <1> DEFINE C == RefreshCohorts \cup UNION {r[p].drains : p \in Protos}
  <1>1. ASSUME NEW d \in C
        PROVE  d \in CohortType /\ (d \in cohorts \/ d.deadline \/ d.id = i)
    <2>1. CASE d \in RefreshCohorts
      BY <2>1, RefreshCohortsType DEF SInv
    <2>2. ASSUME NEW p \in Protos, d \in r[p].drains PROVE d \in Drains(i)
      BY <2>2, RefreshSound, ApplyDrains, SMTT(30) DEF SInv
    <2> QED
      BY <2>1, <2>2 DEF Drains
  <1>2. cohorts' = Detach(i, r, C)
    BY DEF ApplyEffect, AfterCohorts
  <1> HIDE DEF C
  <1> QED
    BY <1>1, <1>2, DetachFresh DEF CohortStep

(* remove, with what it drains. *)
LEMMA RemoveCohorts ==
  ASSUME SInv, cohorts \in SUBSET CohortType, NEW i \in Ids,
         RemoveEffect(RefreshSlots, i)
  PROVE  CohortStep
  <1> DEFINE r == Remove(RefreshSlots, i)
             C == RefreshCohorts \cup UNION {r[p].drains : p \in Protos}
  <1>1. ASSUME NEW d \in C
        PROVE  d \in CohortType /\ (d \in cohorts \/ d.deadline)
    <2>1. CASE d \in RefreshCohorts
      BY <2>1, RefreshCohortsType DEF SInv
    <2>2. ASSUME NEW p \in Protos, d \in r[p].drains
          PROVE  d \in CohortType /\ d.deadline
      BY <2>2, RefreshSound, RemoveDrains DEF SInv
    <2> HIDE DEF r
    <2> QED
      BY <2>1, <2>2
  <1>2. cohorts' = Detach(i, r, C)
    BY DEF RemoveEffect, AfterCohorts
  <1> HIDE DEF C, r
  <1> QED
    BY <1>1, <1>2, DetachFresh DEF CohortStep

(* A released address drains under the deadline of its plan. *)
LEMMA ReleaseCohorts ==
  ASSUME SInv, cohorts \in SUBSET CohortType, Release
  PROVE  CohortStep
  <1> SUFFICES ASSUME NEW c \in cohorts', c \notin cohorts
               PROVE  c \in CohortType /\ (job.plan[c.id] = "delete" => c.deadline)
    BY DEF CohortStep, Fresh, CohortType
  <1> DEFINE drained(x) == SpawnDrain(x[1], x[2], slots[x[1]][x[2]].active.gen,
                                      x[1] \in Deleting)
  <1>1. PICK x \in ReleasedSlots : c \in drained(x)
    <2>1. cohorts' = cohorts \cup UNION {drained(x) : x \in ReleasedSlots}
      BY Zenon DEF Release, StopAccept
    <2> HIDE DEF drained
    <2> QED
      BY <2>1
  <1>2. x[1] \in Ids /\ x[2] \in Protos /\ Active(slots, x[1], x[2])
    BY DEF ReleasedSlots
  <1>3. slots[x[1]][x[2]].active.gen \in Nat
    BY <1>2, ActiveGen DEF SInv
  <1>4. CASE x[1] \in Deleting
    <2>1. c \in SpawnDrain(x[1], x[2], slots[x[1]][x[2]].active.gen, TRUE)
      BY <1>1, <1>4, Zenon DEF SpawnDrain
    <2> QED
      BY <1>2, <1>3, <2>1, SpawnDrainType, Zenon DEF Drains
  <1>5. CASE x[1] \notin Deleting
    <2>1. c \in SpawnDrain(x[1], x[2], slots[x[1]][x[2]].active.gen, FALSE)
      <3>1. (x[1] \in Deleting) = FALSE
        BY <1>5
      <3> QED
        BY <1>1, <3>1, Zenon
    <2>2. c \in Drains(x[1])
      BY <1>2, <1>3, <2>1, SpawnDrainType, ZenonT(30)
    <2> QED
      BY <1>2, <1>5, <2>2 DEF Drains, Deleting
  <1> QED
    BY <1>4, <1>5

(* Every step of the system is such a step. *)
LEMMA NextCohorts ==
  ASSUME IInv, SInv, cohorts \in SUBSET CohortType, [Next]_vars
  PROVE  CohortStep
  <1>1. CASE cohorts' \subseteq cohorts
    BY <1>1 DEF CohortStep, Fresh, CohortType
  <1>2. CASE Release
    BY <1>2, ReleaseCohorts
  <1>3. ASSUME NEW i \in Ids, ApplyDelete(i) PROVE CohortStep
    BY <1>3, RemoveCohorts DEF ApplyDelete
  <1>4. ASSUME NEW i \in Ids, ApplyBuilt(i) PROVE CohortStep
    BY <1>4, ApplyCohorts DEF ApplyBuilt, Turn, Binding
  <1>5. ASSUME NEW i \in Ids, RestoreReleased(i) PROVE CohortStep
    <2>1. pc = "apply" /\ job.plan[i] # "delete"
      BY <1>5 DEF RestoreReleased, Turn, SInv, PlanInv, Binding
    <2>2. CASE cohorts' = cohorts
      BY <1>1, <2>2
    <2> QED
      BY <1>5, <2>1, <2>2, ApplyCohorts DEF RestoreReleased, managerVars
  <1>6. ASSUME NEW i \in Ids, RestoreOne(i) PROVE CohortStep
    <2>1. CASE cohorts' = cohorts
      BY <1>1, <2>1
    <2> QED
      BY <1>6, <2>1, ApplyCohorts, Zenon DEF RestoreOne, managerVars
  <1>7. CASE Status
    BY <1>7, RefreshCohortsType DEF Status, StatusRefresh, CohortStep, SInv
  <1>8. CASE Crash \/ Environment \/ Rotate \/ Submission \/ UNCHANGED vars
    <2>1. CASE Environment
      <3>1. ASSUME NEW i \in Ids, NEW p \in Protos, TaskExit(i, p) PROVE CohortStep
        BY <1>1, <3>1 DEF TaskExit
      <3>2. ASSUME NEW c \in cohorts, DrainEnds(c) PROVE CohortStep
        BY <1>1, <3>2 DEF DrainEnds
      <3> QED
        BY <2>1, <3>1, <3>2 DEF Environment
    <2> QED
      BY <1>1, <1>8, <2>1 DEF Crash, Rotate, Submission, Submit, managerVars, vars
  <1>9. CASE \/ PlanGeneration \/ Commit \/ Persist \/ Boot \/ RestoreDone
             \/ \E i \in Ids : ApplyUnchanged(i) \/ ApplyInvalid(i)
    BY <1>1, <1>9, Zenon DEF PlanGeneration, Commit, Persist, Boot, RestoreDone,
       ApplyUnchanged, ApplyInvalid, managerVars
  <1> QED
    BY <1>2, <1>3, <1>4, <1>5, <1>6, <1>7, <1>8, <1>9 DEF Next, Generation, Startup

(* A generation that deletes an endpoint bounds the drain of what it was
   serving, also when release_contended_addresses stops it before remove does:
   both drain under the delete deadline, and so does the refresh that finds its
   listener gone. *)
THEOREM DeletesBoundTheirDrains == Spec => DeletesAreBounded
  <1>1. Init => cohorts \in SUBSET CohortType
    BY DEF Init
  <1>2. IInv /\ SInv /\ cohorts \in SUBSET CohortType /\ [Next]_vars =>
          /\ (cohorts \in SUBSET CohortType)'
          /\ [\A c \in cohorts' :
                /\ pc \in {"release", "apply"}
                /\ job.plan[c.id] = "delete"
                /\ c.held => c \notin cohorts
                /\ ~c.held => [c EXCEPT !.held = TRUE] \notin cohorts /\ c \notin cohorts
                => c.deadline]_vars
    BY NextCohorts, Zenon DEF CohortStep, Fresh
  <1> QED
    BY <1>1, <1>2, SlotInvariance, PTL DEF Spec, DeletesAreBounded

-------------------------------------------------------------------------------
(* Type correctness. *)

Requests == [gen: Gens, want: Desired, again: SUBSET Ids]

(* Beyond TypeOK: there is a job whenever one is looked at, and what a snapshot
   hands back as the active generation is one that was submitted. *)
TInv ==
    /\ TypeOK
    /\ pc \in Applying \cup {"restore", "persist"} => job \in JobType
    /\ snapshot # None => snapshot.gen \in Gens

(* A job starts well typed. *)
LEMMA NewJobType ==
  ASSUME NEW r \in Requests, NEW src \in [Ids -> Option(Source) \cup Descs],
         NEW u \in SUBSET Ids, file \in Materials
  PROVE  NewJob(r, src, u) \in JobType
  <1>1. NoPlan \in [Ids -> PlanKinds]
    BY DEF NoPlan, PlanKinds
  <1>2. NoSources \in [Ids -> Option(EndpointSpec)] /\ NoSources \in [Ids -> Option(Source)]
    BY DEF NoSources, Option
  <1> QED
    BY <1>1, <1>2, Zenon DEF NewJob, JobType, Requests

(* A plan has one of the known kinds for each id. *)
LEMMA FinalPlanType ==
  ASSUME NEW built
  PROVE  FinalPlan(built) \in [Ids -> PlanKinds]
  <1>1. \A i \in Ids : PlanOf(i, built) \in PlanKinds
    BY DEF PlanOf, PlanKinds
  <1> QED
    BY <1>1, Zenon DEF FinalPlan, PlanKinds

(* A submission, or the boot on the static configuration, starts such a job. *)
LEMMA RequestType ==
  ASSUME NEW g \in Gens, NEW want \in Desired, NEW again \in SUBSET Ids,
         NEW h \in BOOLEAN, NEW u \in Unrefreshable(h, want), file \in Materials
  PROVE  NewJob(Request(g, want, again), Refresh(want), u) \in JobType
  <1>1. Request(g, want, again) \in Requests
    BY DEF Request, Requests
  <1>2. Refresh(want) \in [Ids -> Option(Source) \cup Descs]
    BY RefreshSources DEF Sources
  <1>3. u \in SUBSET Ids
    BY Zenon DEF Unrefreshable, Wanted
  <1> QED
    BY <1>1, <1>2, <1>3, NewJobType

(* The steps of a generation before its commit keep the job well typed. *)
LEMMA GenerationJob ==
  ASSUME IInv, SInv, TInv,
         \/ PlanGeneration
         \/ Release
         \/ \E i \in Ids : \/ ApplyUnchanged(i)
                           \/ ApplyInvalid(i)
                           \/ ApplyDelete(i)
                           \/ ApplyBuilt(i)
                           \/ RestoreReleased(i)
  PROVE  job' \in JobType
  <1>1. GenerationStep
    BY GenerationSteps
  <1>2. job \in JobType
    BY <1>1 DEF TInv, GenerationStep
  <1>3. job'.desired \in [Ids -> Option(Source)]
    BY <1>1 DEF GenerationStep, Sources
  <1>4. CASE PlanGeneration
    <2> DEFINE built(ok) == [i \in Ids |-> IF i \in ok THEN Build(job.src[i], file)
                                            ELSE None]
               desired(ok) == [i \in Ids |-> IF i \in ok THEN job.src[i] ELSE None]
    <2>1. PICK ok \in SUBSET (Wanted(job.req.want) \ job.unrefreshed) :
            job' = [job EXCEPT !.built = built(ok), !.plan = FinalPlan(built(ok)),
                               !.desired = desired(ok)]
      BY <1>4, Zenon DEF PlanGeneration
    <2>2. pc = "plan"
      BY <1>4, Zenon DEF PlanGeneration
    <2>3. \A i \in ok : i \in Ids /\ Build(job.src[i], file) \in EndpointSpec
      BY <2>1, <2>2, BuildSpec DEF SInv, PlanInv, IInv, StateInv, Wanted
    <2>4. built(ok) \in [Ids -> Option(EndpointSpec)]
      BY <2>3 DEF Option
    <2>5. FinalPlan(built(ok)) \in [Ids -> PlanKinds]
      BY FinalPlanType
    <2>6. desired(ok) \in [Ids -> Option(Source)]
      BY <2>2, Zenon DEF IInv, JobInv, Applying, Sources, Option
    <2> HIDE DEF built, desired
    <2> QED
      BY <1>2, <2>1, <2>4, <2>5, <2>6, Zenon DEF JobType
  <1>5. CASE Release
    BY <1>2, <1>5, Zenon DEF Release, JobType
  <1>6. ASSUME NEW i \in Ids, ApplyUnchanged(i) PROVE job' \in JobType
    BY <1>2, <1>6 DEF ApplyUnchanged, JobType
  <1>7. ASSUME NEW i \in Ids, ApplyInvalid(i) PROVE job' \in JobType
    <2> DEFINE kept == IF ~Contains(slots, i) THEN None
                       ELSE IF applied[i] # None THEN applied[i] ELSE job.desired[i]
    <2>1. kept \in Option(Source)
      BY <1>2, Zenon DEF TInv, TypeOK, JobType, Option
    <2> QED
      BY <1>2, <1>7, <2>1, Zenon DEF ApplyInvalid, JobType
  <1>8. ASSUME NEW i \in Ids, ApplyDelete(i) PROVE job' \in JobType
    BY <1>2, <1>8, Zenon DEF ApplyDelete, JobType, Option
  <1>9. ASSUME NEW i \in Ids, ApplyBuilt(i) PROVE job' \in JobType
    <2>1. PICK r :
            job' = IF ~Failed(r) THEN [job EXCEPT !.todo = @ \ {i}]
                   ELSE IF i \in job.released /\ ~Serving(slots', i)
                        THEN [job EXCEPT !.failed = TRUE, !.restoring = TRUE]
                   ELSE [job EXCEPT !.failed = TRUE,
                                    !.todo = @ \ {i},
                                    !.desired[i] = KeptSource(slots', i)]
      BY <1>9, Zenon DEF ApplyBuilt
    <2>2. KeptSource(slots', i) \in Option(Source)
      BY <1>1, KeptSourceType, Zenon DEF GenerationStep
    <2> QED
      BY <1>2, <2>1, <2>2, ZenonT(60) DEF JobType
  <1>10. ASSUME NEW i \in Ids, RestoreReleased(i) PROVE job' \in JobType
    <2>1. KeptSource(slots', i) \in Option(Source)
      BY <1>1, KeptSourceType, Zenon DEF GenerationStep
    <2> QED
      BY <1>2, <1>10, <2>1, ZenonT(60) DEF RestoreReleased, JobType
  <1> QED
    BY <1>4, <1>5, <1>6, <1>7, <1>8, <1>9, <1>10

(* Every step of the system keeps the job, the answers and the snapshot well
   typed. *)
LEMMA NextTInv ==
  IInv /\ SInv /\ TInv /\ [Next]_vars => TInv'
  <1> SUFFICES ASSUME IInv, SInv, TInv, [Next]_vars PROVE TInv'
    OBVIOUS
  <1>1. SInv' /\ IInv'
    BY NextSInv, NextIInv
  <1>2. /\ slots' \in [Ids -> [Protos -> Option(SlotType)]]
        /\ pc' \in {"down", "restore", "idle", "plan", "release", "apply", "persist"}
        /\ applied' \in [Ids -> Option(Source)]
        /\ partial' \in BOOLEAN
        /\ snapshot' \in Option(SnapshotType)
        /\ file' \in Materials
    <2>1. slots' \in [Ids -> [Protos -> Option(SlotType)]]
      BY <1>1 DEF SInv, Sound, Table, Slot
    <2>2. /\ pc' \in Phases
          /\ applied' \in Sources
          /\ partial' \in BOOLEAN
          /\ snapshot' # None => snapshot' \in SnapshotType
          /\ file' \in Materials
      BY <1>1 DEF IInv, StateInv
    <2> QED
      BY <2>1, <2>2 DEF Phases, Applying, Sources, Option
  <1>3. cohorts' \in SUBSET CohortType
    BY NextCohorts DEF TInv, TypeOK, CohortStep
  <1> DEFINE Rest ==
        /\ hostile' \in BOOLEAN
        /\ job' \in Option(JobType)
        /\ pc' \in Applying \cup {"restore", "persist"} => job' \in JobType
        /\ active' \in Option(Gens)
        /\ last' \in Option(Answers)
        /\ snapshot' # None => snapshot'.gen \in Gens
  <1> SUFFICES Rest
    BY <1>2, <1>3, Zenon DEF TInv, TypeOK
  <1>4. CASE UNCHANGED <<hostile, pc, job, active, last, snapshot>>
    BY <1>4, Zenon DEF TInv, TypeOK
  <1>5. CASE Submission
    <2>1. PICK g \in Gens, want \in Desired, again \in SUBSET Ids : Submit(g, want, again)
      BY <1>5, Zenon DEF Submission, Wanted
    <2>2. PICK h \in BOOLEAN : \E u \in Unrefreshable(h, want) :
            /\ hostile' = h
            /\ job' = NewJob(Request(g, want, again), Refresh(want), u)
      BY <2>1, Zenon DEF Submit, Hostility
    <2>3. job' \in JobType
      <3>1. PICK u \in Unrefreshable(h, want) :
              job' = NewJob(Request(g, want, again), Refresh(want), u)
        BY <2>2, Zenon
      <3>2. file \in Materials
        BY DEF TInv, TypeOK
      <3> QED
        BY <3>1, <3>2, RequestType, Zenon
    <2> QED
      BY <2>1, <2>2, <2>3, Zenon DEF Submit, reconcilerVars, TInv, TypeOK, Option
  <1>6. CASE GenerationStep /\ job' \in JobType /\ UNCHANGED hostile
    BY <1>6, Zenon DEF GenerationStep, reconcilerVars, TInv, TypeOK, Option
  <1>7. CASE Commit
    <2>1. job \in JobType
      BY <1>7 DEF Commit, TInv, Applying
    <2>2. job.req \in Requests /\ job.file \in Materials /\ job.failed \in BOOLEAN
      BY <2>1, Zenon DEF JobType, Requests
    <2>3. job.req.gen \in Gens
      BY <2>2 DEF Requests
    <2> QED
      BY <1>7, <2>1, <2>2, <2>3, Zenon DEF Commit, TInv, TypeOK, Option, Answers, Requests
  <1>8. CASE Persist
    <2>1. active \in Gens
      BY <1>8, NoneIsNoValue DEF Persist, IInv, GenInv, TInv, TypeOK, Option
    <2>2. Written.gen = active
      BY DEF Written
    <2> QED
      BY <1>8, <2>1, <2>2, Zenon
         DEF Persist, TInv, TypeOK, Option, Applying, reconcilerVars
  <1>9. CASE Boot
    <2>1. hostile' \in BOOLEAN /\ file \in Materials
      BY <1>9, Zenon DEF Boot, Hostility, TInv, TypeOK
    <2>2. job' \in JobType
      <3>1. ASSUME NEW u \in Unrefreshable(hostile', Static),
                   job' = NewJob(Request(0, Static, {}), Refresh(Static), u)
            PROVE  job' \in JobType
        <4>1. 0 \in Gens /\ {} \in SUBSET Ids /\ Static \in Desired
          BY StaticIsDesired DEF Gens
        <4> QED
          BY <2>1, <3>1, <4>1, RequestType, Zenon
      <3>2. ASSUME snapshot # None,
                   job' = [NewJob(Request(snapshot.gen, NoSources, {}),
                                  snapshot.endpoints, {}) EXCEPT
                             !.todo = Wanted(snapshot.endpoints),
                             !.failed = snapshot.partial]
            PROVE  job' \in JobType
        <4>1. /\ snapshot.gen \in Gens
              /\ snapshot.endpoints \in Desired
              /\ snapshot.partial \in BOOLEAN
          BY <3>2 DEF TInv, TypeOK, SnapshotType, Option
        <4>2. Request(snapshot.gen, NoSources, {}) \in Requests
          BY <4>1 DEF Request, Requests, NoSources, Desired, Option
        <4>3. snapshot.endpoints \in [Ids -> Option(Source) \cup Descs]
          BY <4>1 DEF Desired, Option
        <4>4. NewJob(Request(snapshot.gen, NoSources, {}), snapshot.endpoints, {}) \in JobType
          BY <2>1, <4>2, <4>3, NewJobType
        <4>5. Wanted(snapshot.endpoints) \in SUBSET Ids
          BY DEF Wanted
        <4> QED
          BY <3>2, <4>1, <4>4, <4>5, Zenon DEF JobType
      <3> QED
        BY <1>9, <3>1, <3>2, Zenon DEF Boot
    <2> QED
      BY <1>9, <2>1, <2>2, Zenon DEF Boot, reconcilerVars, TInv, TypeOK, Option
  <1>10. ASSUME NEW i \in Ids, RestoreOne(i) PROVE Rest
    <2>1. job \in JobType
      BY <1>10, Zenon DEF RestoreOne, TInv
    <2>2. PICK f \in BOOLEAN : job' = [job EXCEPT !.todo = @ \ {i}, !.failed = f]
      <3>1. ASSUME NEW r, job' = [job EXCEPT !.todo = @ \ {i}, !.failed = @ \/ Failed(r)]
            PROVE  \E f \in BOOLEAN : job' = [job EXCEPT !.todo = @ \ {i}, !.failed = f]
        BY <3>1, Zenon
      <3> QED
        BY <1>10, <3>1, Zenon DEF RestoreOne
    <2>3. job' \in JobType
      BY <2>1, <2>2, Zenon DEF JobType
    <2> QED
      BY <1>10, <2>3, Zenon DEF RestoreOne, TInv, TypeOK, Option
  <1>11. CASE RestoreDone
    <2>1. job.req.gen \in Gens
      BY <1>11 DEF RestoreDone, TInv, JobType
    <2> QED
      BY <1>11, <2>1, Zenon DEF RestoreDone, TInv, TypeOK, Option, Applying
  <1>12. CASE Crash
    BY <1>12, Zenon DEF Crash, TInv, TypeOK, Option, Applying
  <1>13. CASE \/ PlanGeneration
              \/ Release
              \/ \E i \in Ids : \/ ApplyUnchanged(i)
                                \/ ApplyInvalid(i)
                                \/ ApplyDelete(i)
                                \/ ApplyBuilt(i)
                                \/ RestoreReleased(i)
    <2>1. UNCHANGED hostile
      BY <1>13, Zenon DEF PlanGeneration, Release, ApplyUnchanged, ApplyInvalid,
         ApplyDelete, ApplyBuilt, RestoreReleased
    <2> QED
      BY <1>13, <2>1, <1>6, GenerationSteps, GenerationJob
  <1>14. CASE Status \/ Rotate \/ Environment \/ UNCHANGED vars
    BY <1>14, <1>4, Zenon DEF Status, Rotate, Environment, vars, reconcilerVars
  <1> QED
    BY <1>5, <1>7, <1>8, <1>9, <1>10, <1>11, <1>12, <1>13, <1>14, Zenon
       DEF Next, Generation, Startup

(* The types hold from the first boot on. *)
LEMMA TypeInvariance == Spec => [](IInv /\ SInv /\ TInv)
  <1>1. Init => TInv
    BY EmptySound, NoSourcesSources, Zenon
       DEF Init, TInv, TypeOK, Applying, Sources, Option, Sound, Table, Slot
  <1> QED
    BY <1>1, NextTInv, SlotInvariance, PTL DEF Spec

(* The manager and the reconciler are well typed: in particular a job is
   complete whenever the reconciler reads one, every slot is None or a whole
   slot, and a restored generation is one that was once submitted. *)
THEOREM TypeCorrect == Spec => []TypeOK
  <1>1. TInv => TypeOK
    BY DEF TInv
  <1> QED
    BY <1>1, TypeInvariance, PTL

-------------------------------------------------------------------------------
(* Which endpoints and weights there are. *)

(* Every endpoint is declared on one protocol.  An endpoint on two can fail on
   one of them and keep the other, and then serves no source at all. *)
OneProtocol == \A d \in Descs : \E p \in Protos : d.protos = {p}

(* Weights, which endpoint_unchanged does not compare, do not vary. *)
OneWeight == \A v, w \in Weights : v = w

-------------------------------------------------------------------------------
(* What serves an id. *)

(* The endpoint e under the digest m is what the source src asks for. *)
Fits(src, e, m) ==
    /\ e.addr = src.desc.addr
    /\ e.peer = src.desc.peer
    /\ e.tls = src.desc.tls
    /\ m = src.digest

(* Whatever serves i is what src asks for. *)
Holds(S, i, src) ==
    \A p \in Protos :
      Active(S, i, p) =>
        p \in src.desc.protos /\ Fits(src, S[i][p].endpoint, S[i][p].material)

(* Whatever serves i is the source x, and nothing does when that is None. *)
Keeps(S, i, x) ==
    /\ x = None => ~Serving(S, i)
    /\ x # None => Holds(S, i, x)

(* No id has slots of both protocols. *)
Lone(S) ==
    \A i \in Ids, p, q \in Protos : S[i][p] # None /\ S[i][q] # None => p = q

-------------------------------------------------------------------------------
(* The invariants. *)

(* The sources of the job are its declarations, refreshed when it started. *)
SourceOf(i) ==
    /\ job.req.want[i] = None => job.src[i] = None
    /\ job.req.want[i] # None => job.src[i] = Refreshed(job.req.want[i], job.file)

(* The plan of an id that has not had its turn. *)
Planned(i) ==
    /\ job.plan[i] = "unchanged" => applied[i] = job.src[i]
    /\ job.plan[i] = "start" => applied[i] = None
    /\ job.plan[i] = "none" => job.desired[i] = None
    /\ job.plan[i] \in {"none", "delete"} => job.req.want[i] = None
    /\ job.plan[i] = "unchanged" \/ Binding(job.plan, i) =>
         job.desired[i] = job.src[i] /\ job.src[i] # None

(* What is bound was built from its source. *)
BuiltOf(i) ==
    Binding(job.plan, i) =>
      /\ job.src[i] # None
      /\ job.built[i].protos = job.src[i].desc.protos
      /\ Fits(job.src[i], job.built[i].endpoint, job.built[i].material)

(* An id that had its turn while nothing failed. *)
Done(i) ==
    /\ job.plan[i] # "invalid"
    /\ job.req.want[i] # None => job.desired[i] = job.src[i]

AInv ==
    /\ Lone(slots)
    /\ pc # "apply" => \A i \in Ids : Keeps(slots, i, applied[i])
    /\ pc = "down" => applied = NoSources
    /\ pc = "restore" => \A i \in job.todo : applied[i] = None
    /\ pc \in Applying \cup {"persist"} => \A i \in Ids : SourceOf(i)
    /\ pc = "plan" => ~job.failed
    /\ pc = "release" => ~job.failed /\ \A i \in Ids : BuiltOf(i) /\ Planned(i)
    /\ pc = "apply" /\ job.restoring => job.failed
    /\ pc = "apply" =>
         \A i \in Ids :
           /\ BuiltOf(i)
           /\ i \in job.todo => Planned(i) /\ Keeps(slots, i, applied[i])
           /\ i \notin job.todo =>
                /\ Keeps(slots, i, job.desired[i])
                /\ ~job.failed => Done(i)
    /\ pc = "persist" =>
         /\ last = [req |-> job.req, file |-> job.file, partial |-> job.failed]
         /\ ~job.failed =>
              \A i \in Wanted(job.req.want) : applied[i] = job.src[i]
    /\ pc = "idle" /\ last # None /\ ~last.partial =>
         \A i \in Wanted(last.req.want) :
           applied[i] # None /\ applied[i].desc = last.req.want[i]

(* Nothing exits. *)
Alive(S) == \A i \in Ids, p \in Protos : Active(S, i, p) => S[i][p].active.alive

UInv ==
    /\ Alive(slots)
    /\ pc \in {"release", "apply"} =>
         \A i \in Ids : job.plan[i] = "unchanged" => Serving(slots, i)
    /\ pc = "apply" /\ ~job.failed =>
         \A i \in Wanted(job.req.want) : i \notin job.todo => Serving(slots, i)
    /\ pc \in {"persist", "idle"} /\ last # None /\ ~last.partial =>
         \A i \in Wanted(last.req.want) : Serving(slots, i)

-------------------------------------------------------------------------------
(* What apply leaves of an id. *)

(* Binding succeeds only on an address that nobody else's listener is on. *)
LEMMA BindFree ==
  ASSUME NEW S, NEW i, NEW p, NEW a
  PROVE  /\ TRUE \in Bind(S, i, p, a) => ~Taken(S, i, p, a)
         /\ FALSE \in Bind(S, i, p, a) => Taken(S, i, p, a) \/ hostile
  BY Zenon DEF Bind

(* The slot t runs b, which was bound where nobody else is. *)
Bound(S, i, p, b, t) ==
    /\ t # None
    /\ t.active # None
    /\ t.active.alive
    /\ t.endpoint = b.endpoint
    /\ t.material = b.material
    /\ ~Taken(S, i, p, b.endpoint.addr)

(* The slot t runs what it ran before, and lives when it did. *)
Stayed(S, i, p, t) ==
    /\ Active(S, i, p)
    /\ t # None
    /\ t.active # None
    /\ S[i][p].active.alive => t.active.alive
    /\ t.endpoint = S[i][p].endpoint
    /\ t.material = S[i][p].material

(* What apply_slot leaves when it succeeds, and when it fails. *)
Success(S, i, p, b, t) ==
    \/ Bound(S, i, p, b, t)
    \/ /\ Stayed(S, i, p, t)
       /\ t.material = b.material
       /\ EndpointUnchanged(t.endpoint, b.endpoint)

Failure(S, i, p, b, t) ==
    /\ t # None /\ t.active # None => Stayed(S, i, p, t)
    /\ Taken(S, i, p, b.endpoint.addr) \/ hostile

SlotResult(S, i, p, b, o) ==
    /\ o.action = "failed" => Failure(S, i, p, b, o.slot)
    /\ o.action # "failed" => Success(S, i, p, b, o.slot)

(* A slot that runs b lives. *)
LEMMA RunningBound ==
  ASSUME NEW S, NEW i, NEW p, NEW s, NEW g \in Nat, NEW b \in EndpointSpec,
         ~Taken(S, i, p, b.endpoint.addr)
  PROVE  Bound(S, i, p, b, RunningSlot(s, g, b))
  <1>1. Task(g, b.endpoint, b.material) \in TaskType
    BY DEF Task, TaskType, EndpointSpec
  <1>2. RunningSlot(s, g, b) \in SlotType
    BY <1>1 DEF RunningSlot, SlotType, EndpointSpec, Option
  <1> QED
    BY <1>1, <1>2, NoneIsNoSlot, Zenon DEF Bound, RunningSlot, Task

(* A plain start. *)
LEMMA StartResult ==
  ASSUME NEW S, NEW i, NEW p, NEW g \in Nat, NEW b \in EndpointSpec,
         NEW o \in StartSlot(S, i, p, g, b)
  PROVE  SlotResult(S, i, p, b, o)
  <1> DEFINE failed == [state |-> "failed", gen |-> g, endpoint |-> b.endpoint,
                        material |-> b.material, active |-> None]
  <1>1. PICK ok \in Bind(S, i, p, b.endpoint.addr) :
          o = IF ok THEN Outcome(RunningSlot(S[i][p], g, b), "created", {})
              ELSE Outcome(failed, "failed", {})
    BY Zenon DEF StartSlot
  <1>2. ok \in BOOLEAN
    BY Zenon DEF Bind
  <1>3. CASE ok = TRUE
    <2>1. o = Outcome(RunningSlot(S[i][p], g, b), "created", {})
      BY <1>1, <1>3, Zenon
    <2>2. ~Taken(S, i, p, b.endpoint.addr)
      BY <1>3, BindFree, Zenon
    <2> QED
      BY <2>1, <2>2, RunningBound DEF Outcome, SlotResult, Success
  <1>4. CASE ok = FALSE
    <2>1. o = Outcome(failed, "failed", {})
      BY <1>1, <1>4, Zenon
    <2>2. Taken(S, i, p, b.endpoint.addr) \/ hostile
      BY <1>4, BindFree, Zenon
    <2>3. failed \in SlotType
      BY DEF SlotType, EndpointSpec, Option
    <2>4. failed.active = None
      OBVIOUS
    <2> HIDE DEF failed
    <2> QED
      BY <2>1, <2>2, <2>3, <2>4, NoneIsNoSlot DEF Outcome, SlotResult, Failure
  <1> QED
    BY <1>2, <1>3, <1>4, Zenon

(* A rebind. *)
LEMMA RebindResult ==
  ASSUME NEW S, NEW i, NEW p, NEW g \in Nat, NEW b \in EndpointSpec,
         S[i][p] \in SlotType, S[i][p].active # None, Describing(S[i][p]),
         NEW o \in RebindSlot(S, i, p, g, b)
  PROVE  SlotResult(S, i, p, b, o)
  <1> DEFINE s == S[i][p]
             task == Task(s.active.gen, s.endpoint, s.material)
             back == [s EXCEPT !.state = "failed", !.active = task]
             lost == [s EXCEPT !.state = "failed", !.active = None]
             bound == Bind(S, i, p, b.endpoint.addr)
  <1>1. PICK d : \/ /\ o = Outcome(RunningSlot(s, g, b), "updated", d)
                    /\ TRUE \in bound
                 \/ /\ o = Outcome(back, "failed", d) \/ o = Outcome(lost, "failed", d)
                    /\ FALSE \in bound
    BY ZenonT(30) DEF RebindSlot
  <1>2. s # None /\ Active(S, i, p) /\ s.active.gen = s.gen
    BY NoneIsNoSlot DEF Active, Describing
  <1>3. Stayed(S, i, p, back)
    <2>1. task \in TaskType /\ task.alive
      BY <1>2 DEF Task, TaskType, SlotType
    <2> HIDE DEF task
    <2>2. back \in SlotType
      BY <2>1, Zenon DEF SlotType, Option
    <2> QED
      BY <1>2, <2>1, <2>2, NoneIsNoSlot, Zenon DEF Stayed, SlotType
  <1>4. lost \in SlotType /\ lost.active = None
    BY Zenon DEF SlotType, Option
  <1>5. CASE o = Outcome(RunningSlot(s, g, b), "updated", d) /\ TRUE \in bound
    BY <1>5, BindFree, RunningBound, Zenon DEF Outcome, SlotResult, Success
  <1> HIDE DEF back, lost, s
  <1>6. CASE o = Outcome(back, "failed", d) /\ FALSE \in bound
    <2>1. o.slot = back /\ o.action = "failed"
      BY <1>6 DEF Outcome
    <2>2. Taken(S, i, p, b.endpoint.addr) \/ hostile
      BY <1>6, BindFree, Zenon
    <2> QED
      BY <1>3, <2>1, <2>2, Zenon DEF SlotResult, Failure, Stayed
  <1>7. CASE o = Outcome(lost, "failed", d) /\ FALSE \in bound
    <2>1. o.slot = lost /\ o.action = "failed"
      BY <1>7 DEF Outcome
    <2>2. Taken(S, i, p, b.endpoint.addr) \/ hostile
      BY <1>7, BindFree, Zenon
    <2> QED
      BY <1>4, <2>1, <2>2, NoneIsNoSlot, Zenon DEF SlotResult, Failure
  <1> QED
    BY <1>1, <1>5, <1>6, <1>7, Zenon

(* A move. *)
LEMMA MoveResult ==
  ASSUME NEW S, NEW i, NEW p, NEW g \in Nat, NEW b \in EndpointSpec,
         S[i][p] \in SlotType, S[i][p].active # None,
         NEW o \in MoveSlot(S, i, p, g, b)
  PROVE  SlotResult(S, i, p, b, o)
  <1> DEFINE s == S[i][p]
             kept == [s EXCEPT !.state = "failed"]
             bound == Bind(S, i, p, b.endpoint.addr)
  <1>1. PICK ok \in bound :
          o = IF ok THEN Outcome(RunningSlot(s, g, b), "updated",
                                 SpawnDrain(i, p, s.active.gen, FALSE))
              ELSE Outcome(kept, "failed", {})
    BY ZenonT(30) DEF MoveSlot
  <1>2. ok \in BOOLEAN
    BY Zenon DEF Bind
  <1>3. CASE ok = TRUE
    <2>1. PICK d : o = Outcome(RunningSlot(s, g, b), "updated", d)
      BY <1>1, <1>3, Zenon
    <2>2. ~Taken(S, i, p, b.endpoint.addr)
      BY <1>3, BindFree, Zenon
    <2> QED
      BY <2>1, <2>2, RunningBound, Zenon DEF Outcome, SlotResult, Success
  <1>4. CASE ok = FALSE
    <2>1. o = Outcome(kept, "failed", {})
      BY <1>1, <1>4, Zenon
    <2>2. Taken(S, i, p, b.endpoint.addr) \/ hostile
      BY <1>4, BindFree, Zenon
    <2>3. Stayed(S, i, p, kept)
      BY NoneIsNoSlot DEF Stayed, SlotType, Active
    <2> HIDE DEF kept
    <2>4. o.slot = kept /\ o.action = "failed"
      BY <2>1 DEF Outcome
    <2> QED
      BY <2>2, <2>3, <2>4, Zenon DEF SlotResult, Failure, Stayed
  <1> QED
    BY <1>2, <1>3, <1>4, Zenon

(* apply_slot, whichever way it takes. *)
LEMMA ApplySlotResult ==
  ASSUME NEW S, NEW i, NEW p, NEW g \in Nat, NEW b \in EndpointSpec,
         S[i][p] \in Slot, Describing(S[i][p]),
         NEW o \in ApplySlot(S, i, p, g, b)
  PROVE  SlotResult(S, i, p, b, o)
  <1>1. CASE ~Active(S, i, p)
    BY <1>1, StartResult DEF ApplySlot
  <1>2. CASE Active(S, i, p)
    <2>1. S[i][p] \in SlotType /\ S[i][p].active # None /\ S[i][p] # None
      BY <1>2 DEF Active, Slot, Option
    <2>2. CASE /\ o = Outcome(S[i][p], "unchanged", {})
               /\ S[i][p].material = b.material
               /\ EndpointUnchanged(S[i][p].endpoint, b.endpoint)
      BY <1>2, <2>1, <2>2 DEF Outcome, SlotResult, Success, Stayed
    <2>3. CASE o \in RebindSlot(S, i, p, g, b)
      BY <2>1, <2>3, RebindResult, Zenon
    <2>4. CASE o \in MoveSlot(S, i, p, g, b)
      BY <2>1, <2>4, MoveResult, Zenon
    <2> QED
      BY <1>2, <2>2, <2>3, <2>4, Zenon DEF ApplySlot
  <1> QED
    BY <1>1, <1>2

(* The step left the ids other than i as they are in S, and i with at most a
   slot of the protocol q. *)
Placed(S, i, q) ==
    /\ Sound(slots')
    /\ \A j \in Ids \ {i} : slots'[j] = S[j]
    /\ \A p \in Protos \ {q} : slots'[i][p] = None

(* apply of an endpoint of one protocol. *)
LEMMA ApplyResult ==
  ASSUME NEW S, Sound(S), NEW i \in Ids, NEW g \in Nat, NEW b \in EndpointSpec,
         NEW q \in Protos, b.protos = {q},
         NEW r \in Apply(S, i, g, b), ApplyEffect(S, i, b, r)
  PROVE  /\ Placed(S, i, q)
         /\ ~Failed(r) => Success(S, i, q, b, slots'[i][q])
         /\ Failed(r) => Failure(S, i, q, b, slots'[i][q])
  <1> DEFINE steps(p) == IF p \in b.protos THEN ApplySlot(S, i, p, g, b)
                         ELSE IF S[i][p] # None THEN {StopSlot(S, i, p)}
                         ELSE {Outcome(None, "none", {})}
             T == AfterSlots(S, i, r)
  <1>1. PICK t \in steps("tcp"), u \in steps("udp") :
          r = [p \in Protos |-> IF p = "tcp" THEN t ELSE u]
    BY DEF Apply
  <1>2. \A p \in Protos : r[p] \in steps(p)
    BY <1>1 DEF Protos
  <1>3. r[q] \in ApplySlot(S, i, q, g, b)
    BY <1>2, Zenon
  <1>4. \A p \in Protos \ {q} : r[p].slot = None /\ r[p].action # "failed"
    <2> SUFFICES ASSUME NEW p \in Protos \ {q}
                 PROVE  r[p].slot = None /\ r[p].action # "failed"
      OBVIOUS
    <2>1. r[p] = StopSlot(S, i, p) \/ r[p] = Outcome(None, "none", {})
      BY <1>2, Zenon
    <2>2. PICK d : r[p] = Outcome(None, "deleted", d) \/ r[p] = Outcome(None, "none", d)
      BY <2>1, Zenon DEF StopSlot
    <2> QED
      BY <2>2 DEF Outcome
  <1>5. SlotResult(S, i, q, b, r[q])
    BY <1>3, ApplySlotResult DEF Sound, Table
  <1>6. Failed(r) <=> r[q].action = "failed"
    BY <1>4 DEF Failed
  <1>7. /\ Sound(T)
        /\ \A p \in Protos : T[i][p] = r[p].slot
    BY ApplyInstalled, SMTT(30)
  <1>8. slots' = Prune(i, T, AfterCohorts(i, r))
    BY DEF ApplyEffect
  <1>9. Sound(slots') /\ \A j \in Ids \ {i} : slots'[j] = S[j]
    BY ApplyEffectSound
  <1> HIDE DEF T, steps
  <1>10. \A p \in Protos : \/ slots'[i][p] = T[i][p]
                           \/ slots'[i][p] = None /\ ~Active(T, i, p)
    BY <1>7, <1>8 DEF Prune, Sound, Table, Active
  <1>11. Placed(S, i, q)
    BY <1>4, <1>7, <1>9, <1>10 DEF Placed
  <1>12. ASSUME ~Failed(r) PROVE Success(S, i, q, b, slots'[i][q])
    <2>1. Success(S, i, q, b, r[q].slot)
      BY <1>5, <1>6, <1>12 DEF SlotResult
    <2>2. Active(T, i, q)
      BY <1>7, <2>1 DEF Success, Bound, Stayed, Active
    <2> QED
      BY <1>7, <1>10, <2>1, <2>2
  <1>13. ASSUME Failed(r) PROVE Failure(S, i, q, b, slots'[i][q])
    <2>1. Failure(S, i, q, b, r[q].slot)
      BY <1>5, <1>6, <1>13 DEF SlotResult
    <2>2. CASE slots'[i][q] = r[q].slot
      BY <2>1, <2>2
    <2>3. CASE slots'[i][q] = None
      BY <2>1, <2>3 DEF Failure
    <2> QED
      BY <1>7, <1>10, <2>2, <2>3
  <1> QED
    BY <1>11, <1>12, <1>13, Zenon

-------------------------------------------------------------------------------
(* What a step does to what serves an id. *)

(* T has no slot and no listener that S does not have. *)
Thinner(S, T) ==
    \A i \in Ids, p \in Protos :
      /\ T[i][p] # None => S[i][p] # None
      /\ Active(T, i, p) =>
           /\ Active(S, i, p)
           /\ T[i][p].endpoint = S[i][p].endpoint
           /\ T[i][p].material = S[i][p].material

(* Then whatever still serves an id is what served it. *)
LEMMA ThinnerKeeps ==
  ASSUME NEW S, NEW T, Thinner(S, T)
  PROVE  /\ Lone(S) => Lone(T)
         /\ \A i \in Ids : \A x : Keeps(S, i, x) => Keeps(T, i, x)
  <1>1. Lone(S) => Lone(T)
    BY DEF Thinner, Lone
  <1>2. ASSUME NEW i \in Ids, NEW x, Keeps(S, i, x) PROVE Keeps(T, i, x)
    BY <1>2 DEF Thinner, Keeps, Holds, Serving
  <1> QED
    BY <1>1, <1>2

(* Refreshing drops what exited. *)
LEMMA RefreshThinner ==
  ASSUME Sound(slots)
  PROVE  Thinner(slots, RefreshSlots)
  <1> SUFFICES ASSUME NEW i \in Ids, NEW p \in Protos
               PROVE  /\ RefreshSlots[i][p] # None => slots[i][p] # None
                      /\ Active(RefreshSlots, i, p) =>
                           Active(slots, i, p) /\ RefreshSlots[i][p] = slots[i][p]
    BY DEF Thinner
  <1>1. CASE Exited(i, p)
    <2>1. RefreshSlots[i][p] = [slots[i][p] EXCEPT !.active = None, !.state = "failed"]
      BY <1>1 DEF RefreshSlots
    <2>2. slots[i][p] \in SlotType /\ slots[i][p] # None
      BY <1>1 DEF Exited, Active, Sound, Table, Slot, Option
    <2>3. RefreshSlots[i][p].active = None
      BY <2>1, <2>2 DEF SlotType
    <2> QED
      BY <2>2, <2>3 DEF Active
  <1>2. CASE ~Exited(i, p)
    <2>1. RefreshSlots[i][p] = slots[i][p]
      BY <1>2 DEF RefreshSlots
    <2> QED
      BY <2>1 DEF Active
  <1> QED
    BY <1>1, <1>2

(* Releasing drops what is handed off. *)
LEMMA ReleaseThinner ==
  ASSUME Sound(slots), Release
  PROVE  /\ Thinner(slots, slots')
         /\ \A i \in Ids, p \in Protos :
              /\ <<i, p>> \in ReleasedSlots => ~Active(slots', i, p)
              /\ <<i, p>> \notin ReleasedSlots => slots'[i][p] = slots[i][p]
  <1>1. slots' = [i \in Ids |-> [p \in Protos |->
                    IF <<i, p>> \in ReleasedSlots
                    THEN [slots[i][p] EXCEPT !.active = None, !.state = "draining"]
                    ELSE slots[i][p]]]
    BY Zenon DEF Release, StopAccept
  <1> SUFFICES ASSUME NEW i \in Ids, NEW p \in Protos
               PROVE  /\ slots'[i][p] # None => slots[i][p] # None
                      /\ <<i, p>> \in ReleasedSlots => ~Active(slots', i, p)
                      /\ <<i, p>> \notin ReleasedSlots => slots'[i][p] = slots[i][p]
    BY Zenon DEF Thinner, Active
  <1>2. CASE <<i, p>> \in ReleasedSlots
    <2>1. slots'[i][p] = [slots[i][p] EXCEPT !.active = None, !.state = "draining"]
      BY <1>1, <1>2, Zenon
    <2>2. slots[i][p] \in SlotType /\ slots[i][p] # None
      BY <1>2 DEF ReleasedSlots, Active, Sound, Table, Slot, Option
    <2>3. slots'[i][p].active = None
      BY <2>1, <2>2 DEF SlotType
    <2> QED
      BY <1>2, <2>2, <2>3 DEF Active
  <1>3. CASE <<i, p>> \notin ReleasedSlots
    <2>1. slots'[i][p] = slots[i][p]
      BY <1>1, <1>3, Zenon
    <2> QED
      BY <1>3, <2>1
  <1> QED
    BY <1>2, <1>3

(* A task that exits changes nothing that its slot says. *)
LEMMA ExitThinner ==
  ASSUME Sound(slots), NEW j \in Ids, NEW q \in Protos, TaskExit(j, q)
  PROVE  Thinner(slots, slots')
  <1>1. /\ \A i \in Ids, p \in Protos :
             /\ slots'[i][p] = None <=> slots[i][p] = None
             /\ Active(slots', i, p) <=> Active(slots, i, p)
    BY TaskExitSound
  <1>2. slots[j][q] \in SlotType
    BY DEF TaskExit, Active, Sound, Table, Slot, Option
  <1>3. slots' = [slots EXCEPT ![j] = [@ EXCEPT ![q] =
                    [slots[j][q] EXCEPT !.active = [slots[j][q].active EXCEPT !.alive = FALSE]]]]
    BY DEF TaskExit
  <1>4. /\ slots'[j][q].endpoint = slots[j][q].endpoint
        /\ slots'[j][q].material = slots[j][q].material
    BY <1>2, <1>3 DEF Sound, Table, SlotType
  <1>5. \A i \in Ids, p \in Protos : i # j \/ p # q => slots'[i][p] = slots[i][p]
    BY <1>3 DEF Sound, Table
  <1> QED
    BY <1>1, <1>4, <1>5 DEF Thinner

(* An operation on i, after the refresh it starts with. *)
LEMMA PlacedKeeps ==
  ASSUME Sound(slots), NEW i \in Ids, NEW q \in Protos, Placed(RefreshSlots, i, q),
         Lone(slots)
  PROVE  /\ Lone(slots')
         /\ \A j \in Ids \ {i} : \A x : Keeps(slots, j, x) => Keeps(slots', j, x)
  <1>1. Thinner(slots, RefreshSlots)
    BY RefreshThinner
  <1>2. Lone(RefreshSlots)
    BY <1>1, ThinnerKeeps
  <1>3. Lone(slots')
    BY <1>2 DEF Lone, Placed
  <1>4. ASSUME NEW j \in Ids \ {i}, NEW x, Keeps(slots, j, x) PROVE Keeps(slots', j, x)
    <2>1. Keeps(RefreshSlots, j, x)
      BY <1>1, <1>4, ThinnerKeeps
    <2>2. slots'[j] = RefreshSlots[j]
      BY DEF Placed
    <2> QED
      BY <2>1, <2>2 DEF Keeps, Holds, Serving, Active
  <1> QED
    BY <1>3, <1>4

(* apply that succeeds serves the source the spec was built from. *)
LEMMA SuccessKeeps ==
  ASSUME NEW S, NEW i \in Ids, NEW q \in Protos, NEW b, NEW src,
         Placed(S, i, q), Success(S, i, q, b, slots'[i][q]),
         src.desc.protos = {q}, Fits(src, b.endpoint, b.material)
  PROVE  Holds(slots', i, src) /\ Active(slots', i, q)
  <1>1. Active(slots', i, q)
    BY DEF Success, Bound, Stayed, Active
  <1>2. Fits(src, slots'[i][q].endpoint, slots'[i][q].material)
    BY DEF Success, Bound, Fits, EndpointUnchanged
  <1>3. \A p \in Protos : Active(slots', i, p) => p = q
    BY DEF Placed, Active
  <1> QED
    BY <1>1, <1>2, <1>3 DEF Holds

(* apply that fails leaves what served before, or nothing. *)
LEMMA FailureKeeps ==
  ASSUME NEW S, NEW i \in Ids, NEW q \in Protos, NEW b, NEW x,
         Placed(S, i, q), Failure(S, i, q, b, slots'[i][q]), Keeps(S, i, x)
  PROVE  Keeps(slots', i, x)
  <1>1. \A p \in Protos : Active(slots', i, p) => p = q /\ Stayed(S, i, q, slots'[i][q])
    BY DEF Placed, Active, Failure
  <1> QED
    BY <1>1 DEF Keeps, Holds, Serving, Stayed

(* The source kept for a failed endpoint is the one that serves. *)
LEMMA KeptKeeps ==
  ASSUME NEW S, NEW i \in Ids, Keeps(S, i, applied[i])
  PROVE  Keeps(S, i, KeptSource(S, i))
  BY DEF Keeps, KeptSource

(* A spec is what its source asks for. *)
LEMMA BuildFits ==
  ASSUME NEW src, NEW f
  PROVE  /\ Build(src, f).protos = src.desc.protos
         /\ Fits(src, Build(src, f).endpoint, Build(src, f).material)
  BY DEF Build, Fits

-------------------------------------------------------------------------------
(* The three steps that call apply, with one protocol q at stake. *)

BuiltOutcome(i, q) ==
    /\ job.src[i] \in Source
    /\ job.src[i].desc.protos = {q}
    /\ job.built[i].protos = {q}
    /\ Placed(RefreshSlots, i, q)
    /\ \/ /\ Success(RefreshSlots, i, q, job.built[i], slots'[i][q])
          /\ job' = [job EXCEPT !.todo = @ \ {i}]
       \/ /\ Failure(RefreshSlots, i, q, job.built[i], slots'[i][q])
          /\ \/ /\ ~Serving(slots', i)
                /\ job' = [job EXCEPT !.failed = TRUE, !.restoring = TRUE]
             \/ job' = [job EXCEPT !.failed = TRUE,
                                   !.todo = @ \ {i},
                                   !.desired[i] = KeptSource(slots', i)]

(* apply of what the plan binds. *)
LEMMA BuiltResult ==
  ASSUME OneProtocol, IInv, SInv, TInv, AInv, NEW i \in Ids, ApplyBuilt(i)
  PROVE  \E q \in Protos : BuiltOutcome(i, q)
  <1> DEFINE S == RefreshSlots
             b == job.built[i]
             g == job.req.gen
  <1>1. pc = "apply" /\ Binding(job.plan, i) /\ BuiltOf(i)
    BY DEF ApplyBuilt, Turn, AInv
  <1>2. job.src[i] \in Source
    BY <1>1 DEF BuiltOf, IInv, JobInv, Applying, Sources, Option
  <1>3. PICK q \in Protos : job.src[i].desc.protos = {q}
    BY <1>2 DEF OneProtocol, Source
  <1>4. b.protos = {q} /\ b \in EndpointSpec /\ g \in Nat
    BY <1>1, <1>3, Zenon DEF BuiltOf, SInv, PlanInv, IInv, JobInv, Applying
  <1>5. Sound(S)
    BY RefreshSound DEF SInv
  <1>6. PICK r \in Apply(S, i, g, b) :
          /\ ApplyEffect(S, i, b, r)
          /\ job' = IF ~Failed(r) THEN [job EXCEPT !.todo = @ \ {i}]
                    ELSE IF i \in job.released /\ ~Serving(slots', i)
                         THEN [job EXCEPT !.failed = TRUE, !.restoring = TRUE]
                    ELSE [job EXCEPT !.failed = TRUE,
                                     !.todo = @ \ {i},
                                     !.desired[i] = KeptSource(slots', i)]
    BY Zenon DEF ApplyBuilt
  <1> HIDE DEF S, b, g
  <1>7. /\ Placed(S, i, q)
        /\ ~Failed(r) => Success(S, i, q, b, slots'[i][q])
        /\ Failed(r) => Failure(S, i, q, b, slots'[i][q])
    BY <1>4, <1>5, <1>6, ApplyResult
  <1>8. BuiltOutcome(i, q)
    BY <1>2, <1>3, <1>4, <1>6, <1>7, ZenonT(30) DEF BuiltOutcome, S, b, g
  <1> QED
    BY <1>8

(* The slots of i once restore_released put the source applied for it back, or
   failed to. *)
PutBack(i, q) ==
    /\ applied[i] # None
    /\ applied[i] \in Source
    /\ applied[i].desc.protos = {q}
    /\ Placed(RefreshSlots, i, q)
    /\ \/ Success(RefreshSlots, i, q, Build(applied[i], file), slots'[i][q])
       \/ Failure(RefreshSlots, i, q, Build(applied[i], file), slots'[i][q])

(* restore_released. *)
LEMMA PutBackResult ==
  ASSUME OneProtocol, IInv, SInv, TInv, NEW i \in Ids, RestoreReleased(i)
  PROVE  slots' = slots \/ \E q \in Protos : PutBack(i, q)
  <1> SUFFICES ASSUME slots' # slots PROVE \E q \in Protos : PutBack(i, q)
    OBVIOUS
  <1> DEFINE S == RefreshSlots
             b == Build(applied[i], file)
             g == job.req.gen
  <1>1. PICK r \in Apply(S, i, g, b) : applied[i] # None /\ ApplyEffect(S, i, b, r)
    BY Zenon DEF RestoreReleased, managerVars
  <1>2. applied[i] \in Source /\ file \in Materials
    BY <1>1 DEF IInv, StateInv, Sources, Option
  <1>3. PICK q \in Protos : applied[i].desc.protos = {q}
    BY <1>2 DEF OneProtocol, Source
  <1>4. b.protos = {q} /\ b \in EndpointSpec /\ g \in Nat
    BY <1>2, <1>3, BuildFits, BuildSpec
       DEF RestoreReleased, Turn, IInv, JobInv, Applying
  <1>5. Sound(S)
    BY RefreshSound DEF SInv
  <1> HIDE DEF S, b, g
  <1>6. /\ Placed(S, i, q)
        /\ ~Failed(r) => Success(S, i, q, b, slots'[i][q])
        /\ Failed(r) => Failure(S, i, q, b, slots'[i][q])
    BY <1>1, <1>4, <1>5, ApplyResult, Zenon
  <1>7. PutBack(i, q)
    BY <1>1, <1>2, <1>3, <1>6, Zenon DEF PutBack, S, b
  <1> QED
    BY <1>7

(* The endpoint i of a snapshot is up again, or is not. *)
Revived(i, q) ==
    LET src == Refreshed(job.src[i], file)
    IN  /\ src \in Source
        /\ src.desc.protos = {q}
        /\ Placed(RefreshSlots, i, q)
        /\ \/ /\ Success(RefreshSlots, i, q, Build(src, file), slots'[i][q])
              /\ applied' = [applied EXCEPT ![i] = src]
           \/ /\ Failure(RefreshSlots, i, q, Build(src, file), slots'[i][q])
              /\ applied' = applied

(* restore, one endpoint. *)
LEMMA RevivedResult ==
  ASSUME OneProtocol, IInv, SInv, TInv, NEW i \in Ids, RestoreOne(i)
  PROVE  /\ pc = "restore" /\ pc' = "restore"
         /\ i \in job.todo
         /\ job'.todo = job.todo \ {i}
         /\ job'.src = job.src
         /\ UNCHANGED <<hostile, last, snapshot, file>>
         /\ \/ hostile /\ slots' = slots /\ applied' = applied
            \/ \E q \in Protos : Revived(i, q)
  <1> DEFINE src == Refreshed(job.src[i], file)
             S == RefreshSlots
             b == Build(src, file)
             g == job.req.gen
  <1>1. /\ pc = "restore" /\ pc' = "restore" /\ i \in job.todo
        /\ UNCHANGED <<hostile, last, snapshot, file>>
    BY Zenon DEF RestoreOne
  <1>2. job \in JobType
    BY <1>1 DEF TInv
  <1>3. job'.todo = job.todo \ {i} /\ job'.src = job.src
    BY <1>2, Zenon DEF RestoreOne, JobType
  <1>4. ASSUME ~(hostile /\ slots' = slots /\ applied' = applied)
        PROVE  \E q \in Protos : Revived(i, q)
    <2>1. PICK r \in Apply(S, i, g, b) :
            /\ ApplyEffect(S, i, b, r)
            /\ applied' = IF Failed(r) THEN applied ELSE [applied EXCEPT ![i] = src]
      BY <1>4, Zenon DEF RestoreOne, managerVars
    <2>2. job.src[i] \in Descs /\ file \in Materials
      BY <1>1, Zenon DEF IInv, JobInv, StateInv, Desired, Option
    <2>3. src \in Source /\ src.desc = job.src[i]
      BY <2>2, RefreshedSource DEF Refreshed
    <2>4. PICK q \in Protos : src.desc.protos = {q}
      BY <2>2, <2>3 DEF OneProtocol
    <2>5. b.protos = {q} /\ b \in EndpointSpec /\ g \in Nat
      BY <1>1, <2>2, <2>3, <2>4, BuildFits, BuildSpec, Zenon DEF IInv, JobInv
    <2>6. Sound(S)
      BY RefreshSound DEF SInv
    <2> HIDE DEF S, b, g
    <2>7. /\ Placed(S, i, q)
          /\ ~Failed(r) => Success(S, i, q, b, slots'[i][q])
          /\ Failed(r) => Failure(S, i, q, b, slots'[i][q])
      BY <2>1, <2>5, <2>6, ApplyResult, Zenon
    <2>8. Revived(i, q)
      BY <2>1, <2>3, <2>4, <2>7, ZenonT(30) DEF Revived, S, b
    <2> QED
      BY <2>8
  <1> QED
    BY <1>1, <1>3, <1>4

-------------------------------------------------------------------------------
(* AInv: a turn, whatever its outcome. *)

(* The turn of i is over, and what serves it is what is desired for it; or it
   failed, and its released listener is about to be put back. *)
ATurn(i) ==
    /\ pc = "apply" /\ pc' = "apply"
    /\ i \in job.todo
    /\ applied' = applied
    /\ job'.req = job.req
    /\ job'.src = job.src
    /\ job'.plan = job.plan
    /\ job'.built = job.built
    /\ job'.file = job.file
    /\ \A j \in Ids \ {i} : job'.desired[j] = job.desired[j]
    /\ Lone(slots')
    /\ \A j \in Ids \ {i} : \A x : Keeps(slots, j, x) => Keeps(slots', j, x)
    /\ job.failed => job'.failed
    /\ \/ /\ job'.todo = job.todo \ {i}
          /\ ~job'.restoring
          /\ Keeps(slots', i, job'.desired[i])
          /\ ~job'.failed => Done(i)'
       \/ /\ job'.todo = job.todo
          /\ job'.failed
          /\ job'.desired[i] = job.desired[i]
          /\ Keeps(slots', i, applied[i])

(* Such a turn preserves the invariant. *)
LEMMA ATurnAInv ==
  ASSUME AInv, NEW i \in Ids, ATurn(i)
  PROVE  AInv'
  <1>1. \A j \in Ids : SourceOf(j)'
    BY Zenon DEF AInv, ATurn, SourceOf, Applying
  <1>2. \A j \in Ids : BuiltOf(j)'
    BY Zenon DEF AInv, ATurn, BuiltOf, Binding
  <1>3. ASSUME NEW j \in Ids, j \in job'.todo
        PROVE  Planned(j)' /\ Keeps(slots', j, applied'[j])
    <2>1. Planned(j) /\ Keeps(slots, j, applied[j])
      BY <1>3, Zenon DEF AInv, ATurn
    <2>2. job'.desired[j] = job.desired[j]
      BY <1>3 DEF ATurn
    <2>3. Planned(j)'
      BY <2>1, <2>2 DEF ATurn, Planned, Binding
    <2> QED
      BY <1>3, <2>1, <2>3, Zenon DEF ATurn
  <1>4. ASSUME NEW j \in Ids, j \notin job'.todo
        PROVE  Keeps(slots', j, job'.desired[j]) /\ (~job'.failed => Done(j)')
    <2>1. CASE j = i
      BY <1>4, <2>1 DEF ATurn
    <2>2. CASE j # i
      <3>1. j \notin job.todo /\ job'.desired[j] = job.desired[j]
        BY <1>4, <2>2 DEF ATurn
      <3>2. Keeps(slots, j, job.desired[j]) /\ (~job.failed => Done(j))
        BY <3>1, Zenon DEF AInv, ATurn
      <3> QED
        BY <2>2, <3>1, <3>2 DEF ATurn, Done
    <2> QED
      BY <2>1, <2>2
  <1>5. job'.restoring => job'.failed
    BY Zenon DEF ATurn
  <1> QED
    BY <1>1, <1>2, <1>3, <1>4, <1>5, Zenon DEF AInv, ATurn, Applying

(* Leaving an endpoint alone, or refusing it, changes no listener. *)
LEMMA AQuietTurn ==
  ASSUME IInv, SInv, TInv, AInv, NEW i \in Ids, ApplyUnchanged(i) \/ ApplyInvalid(i)
  PROVE  ATurn(i)
  <1>1. pc = "apply" /\ i = Min(job.todo) /\ i \in job.todo /\ job \in JobType
    BY DEF ApplyUnchanged, ApplyInvalid, Turn, TInv, Applying
  <1>2. slots' = slots /\ pc' = pc /\ applied' = applied
    BY DEF ApplyUnchanged, ApplyInvalid, managerVars, reconcilerVars
  <1>3. ~job.restoring
    BY <1>1 DEF ApplyUnchanged, ApplyInvalid, SInv, PlanInv, Binding
  <1>4. Planned(i) /\ Keeps(slots, i, applied[i]) /\ Lone(slots)
    BY <1>1, Zenon DEF AInv
  <1>5. CASE ApplyUnchanged(i)
    <2>1. job' = [job EXCEPT !.todo = @ \ {i}] /\ job.plan[i] = "unchanged"
      BY <1>5 DEF ApplyUnchanged
    <2>2. /\ job'.req = job.req /\ job'.src = job.src /\ job'.plan = job.plan
          /\ job'.built = job.built /\ job'.file = job.file
          /\ job'.desired = job.desired /\ job'.failed = job.failed
          /\ job'.restoring = job.restoring /\ job'.todo = job.todo \ {i}
      BY <1>1, <2>1 DEF JobType
    <2> QED
      BY <1>1, <1>2, <1>3, <1>4, <2>1, <2>2 DEF ATurn, Planned, Done
  <1>6. CASE ApplyInvalid(i)
    <2> DEFINE kept == IF ~Contains(slots, i) THEN None
                       ELSE IF applied[i] # None THEN applied[i] ELSE job.desired[i]
    <2>1. job' = [job EXCEPT !.todo = @ \ {i}, !.failed = TRUE, !.desired[i] = kept]
      BY <1>6, Zenon DEF ApplyInvalid
    <2>2. Keeps(slots, i, kept)
      BY <1>4, Zenon DEF Keeps, Holds, Contains, Serving, Active
    <2> HIDE DEF kept
    <2>3. /\ job'.req = job.req /\ job'.src = job.src /\ job'.plan = job.plan
          /\ job'.built = job.built /\ job'.file = job.file
          /\ job'.desired = [job.desired EXCEPT ![i] = kept] /\ job'.failed = TRUE
          /\ job'.restoring = job.restoring /\ job'.todo = job.todo \ {i}
      BY <1>1, <2>1, Zenon DEF JobType
    <2>4. job'.desired[i] = kept /\ \A j \in Ids \ {i} : job'.desired[j] = job.desired[j]
      BY <1>1, <2>3 DEF JobType
    <2> QED
      BY <1>1, <1>2, <1>3, <1>4, <2>2, <2>3, <2>4, Zenon DEF ATurn
  <1> QED
    BY <1>5, <1>6

(* A delete leaves nothing. *)
LEMMA ADeleteTurn ==
  ASSUME IInv, SInv, TInv, AInv, NEW i \in Ids, ApplyDelete(i)
  PROVE  ATurn(i)
  <1>1. pc = "apply" /\ i = Min(job.todo) /\ i \in job.todo /\ job \in JobType
    BY DEF ApplyDelete, Turn, TInv, Applying
  <1>2. /\ pc' = pc /\ applied' = applied /\ job.plan[i] = "delete"
        /\ job' = [job EXCEPT !.todo = @ \ {i}, !.desired[i] = None]
    BY DEF ApplyDelete, reconcilerVars
  <1>3. ~job.restoring
    BY <1>1, <1>2 DEF SInv, PlanInv, Binding
  <1>4. Planned(i) /\ Lone(slots)
    BY <1>1, Zenon DEF AInv
  <1>5. /\ Sound(slots') /\ ~Contains(slots', i)
        /\ \A j \in Ids \ {i} : slots'[j] = RefreshSlots[j]
    BY RefreshSound, RemoveEffectSound, SMTT(30) DEF ApplyDelete, SInv
  <1>6. Placed(RefreshSlots, i, "tcp") /\ "tcp" \in Protos
    BY <1>5 DEF Placed, Contains, Protos
  <1>7. /\ Lone(slots')
        /\ \A j \in Ids \ {i} : \A x : Keeps(slots, j, x) => Keeps(slots', j, x)
    BY <1>4, <1>6, PlacedKeeps DEF SInv
  <1>8. /\ job'.req = job.req /\ job'.src = job.src /\ job'.plan = job.plan
        /\ job'.built = job.built /\ job'.file = job.file
        /\ job'.desired = [job.desired EXCEPT ![i] = None] /\ job'.failed = job.failed
        /\ job'.restoring = job.restoring /\ job'.todo = job.todo \ {i}
    BY <1>1, <1>2, Zenon DEF JobType
  <1>9. job'.desired[i] = None /\ \A j \in Ids \ {i} : job'.desired[j] = job.desired[j]
    BY <1>1, <1>8 DEF JobType
  <1>10. Keeps(slots', i, None)
    BY <1>5 DEF Keeps, Serving, Contains, Active
  <1> QED
    BY <1>1, <1>2, <1>3, <1>4, <1>7, <1>8, <1>9, <1>10 DEF ATurn, Done, Planned

(* The turn of an endpoint that is bound. *)
LEMMA ABuiltTurn ==
  ASSUME OneProtocol, IInv, SInv, TInv, AInv, NEW i \in Ids, ApplyBuilt(i)
  PROVE  ATurn(i)
  <1>1. /\ pc = "apply" /\ i = Min(job.todo) /\ i \in job.todo /\ job \in JobType
        /\ pc' = pc /\ applied' = applied /\ ~job.restoring /\ Binding(job.plan, i)
    BY DEF ApplyBuilt, Turn, TInv, Applying, reconcilerVars
  <1>2. PICK q \in Protos : BuiltOutcome(i, q)
    BY BuiltResult
  <1>3. Planned(i) /\ BuiltOf(i) /\ Keeps(slots, i, applied[i]) /\ Lone(slots)
    BY <1>1, Zenon DEF AInv
  <1>4. /\ Lone(slots')
        /\ \A j \in Ids \ {i} : \A x : Keeps(slots, j, x) => Keeps(slots', j, x)
    BY <1>2, <1>3, PlacedKeeps DEF SInv, BuiltOutcome
  <1>5. Keeps(RefreshSlots, i, applied[i])
    BY <1>3, RefreshThinner, ThinnerKeeps DEF SInv
  <1>6. CASE /\ Success(RefreshSlots, i, q, job.built[i], slots'[i][q])
             /\ job' = [job EXCEPT !.todo = @ \ {i}]
    <2>1. /\ job'.req = job.req /\ job'.src = job.src /\ job'.plan = job.plan
          /\ job'.built = job.built /\ job'.file = job.file
          /\ job'.desired = job.desired /\ job'.failed = job.failed
          /\ job'.restoring = job.restoring /\ job'.todo = job.todo \ {i}
      BY <1>1, <1>6 DEF JobType
    <2>2. job.desired[i] = job.src[i] /\ job.src[i] # None /\ job.plan[i] # "invalid"
      BY <1>1, <1>3, Zenon DEF Planned, Binding
    <2>3. Holds(slots', i, job.src[i])
      BY <1>1, <1>2, <1>3, <1>6, SuccessKeeps DEF BuiltOutcome, BuiltOf
    <2>4. Keeps(slots', i, job'.desired[i]) /\ Done(i)'
      BY <2>1, <2>2, <2>3 DEF Keeps, Done
    <2> QED
      BY <1>1, <1>4, <2>1, <2>4, Zenon DEF ATurn
  <1>7. CASE /\ Failure(RefreshSlots, i, q, job.built[i], slots'[i][q])
             /\ job' = [job EXCEPT !.failed = TRUE, !.restoring = TRUE]
    <2>1. /\ job'.req = job.req /\ job'.src = job.src /\ job'.plan = job.plan
          /\ job'.built = job.built /\ job'.file = job.file
          /\ job'.desired = job.desired /\ job'.failed = TRUE
          /\ job'.todo = job.todo
      BY <1>1, <1>7 DEF JobType
    <2>2. Keeps(slots', i, applied[i])
      BY <1>2, <1>5, <1>7, FailureKeeps DEF BuiltOutcome
    <2> QED
      BY <1>1, <1>4, <2>1, <2>2, Zenon DEF ATurn
  <1>8. CASE /\ Failure(RefreshSlots, i, q, job.built[i], slots'[i][q])
             /\ job' = [job EXCEPT !.failed = TRUE,
                                   !.todo = @ \ {i},
                                   !.desired[i] = KeptSource(slots', i)]
    <2> DEFINE kept == KeptSource(slots', i)
    <2>1. Keeps(slots', i, applied[i])
      BY <1>2, <1>5, <1>8, FailureKeeps DEF BuiltOutcome
    <2>2. Keeps(slots', i, kept)
      BY <2>1, KeptKeeps
    <2> HIDE DEF kept
    <2>3. /\ job'.req = job.req /\ job'.src = job.src /\ job'.plan = job.plan
          /\ job'.built = job.built /\ job'.file = job.file
          /\ job'.desired = [job.desired EXCEPT ![i] = kept] /\ job'.failed = TRUE
          /\ job'.restoring = job.restoring /\ job'.todo = job.todo \ {i}
      BY <1>1, <1>8, Zenon DEF JobType, kept
    <2>4. job'.desired[i] = kept /\ \A j \in Ids \ {i} : job'.desired[j] = job.desired[j]
      BY <1>1, <2>3 DEF JobType
    <2> QED
      BY <1>1, <1>4, <2>2, <2>3, <2>4, Zenon DEF ATurn
  <1> QED
    BY <1>2, <1>6, <1>7, <1>8, Zenon DEF BuiltOutcome

(* The turn of an endpoint whose released listener is put back. *)
LEMMA APutBackTurn ==
  ASSUME OneProtocol, IInv, SInv, TInv, AInv, NEW i \in Ids, RestoreReleased(i)
  PROVE  ATurn(i)
  <1>1. /\ pc = "apply" /\ i = Min(job.todo) /\ i \in job.todo /\ job \in JobType
        /\ pc' = pc /\ applied' = applied /\ job.restoring
    BY DEF RestoreReleased, Turn, TInv, Applying, reconcilerVars
  <1>2. Keeps(slots, i, applied[i]) /\ Lone(slots) /\ job.failed
    BY <1>1, Zenon DEF AInv
  <1>3. Keeps(RefreshSlots, i, applied[i])
    BY <1>2, RefreshThinner, ThinnerKeeps DEF SInv
  <1>4. /\ Lone(slots')
        /\ \A j \in Ids \ {i} : \A x : Keeps(slots, j, x) => Keeps(slots', j, x)
        /\ Keeps(slots', i, applied[i])
    <2>1. CASE slots' = slots
      BY <1>2, <2>1
    <2>2. ASSUME NEW q \in Protos, PutBack(i, q)
          PROVE  /\ Lone(slots')
                 /\ \A j \in Ids \ {i} : \A x : Keeps(slots, j, x) => Keeps(slots', j, x)
                 /\ Keeps(slots', i, applied[i])
      <3>1. /\ Lone(slots')
            /\ \A j \in Ids \ {i} : \A x : Keeps(slots, j, x) => Keeps(slots', j, x)
        BY <1>2, <2>2, PlacedKeeps, Zenon DEF SInv, PutBack
      <3>2. CASE Success(RefreshSlots, i, q, Build(applied[i], file), slots'[i][q])
        <4>1. Holds(slots', i, applied[i])
          BY <2>2, <3>2, SuccessKeeps, BuildFits, Zenon DEF PutBack
        <4>2. applied[i] # None
          BY <2>2, Zenon DEF PutBack
        <4> QED
          BY <3>1, <4>1, <4>2 DEF Keeps
      <3>3. CASE Failure(RefreshSlots, i, q, Build(applied[i], file), slots'[i][q])
        BY <1>3, <2>2, <3>1, <3>3, FailureKeeps, Zenon DEF PutBack
      <3> QED
        BY <2>2, <3>2, <3>3, Zenon DEF PutBack
    <2> QED
      BY <2>1, <2>2, PutBackResult
  <1> DEFINE kept == KeptSource(slots', i)
  <1>5. Keeps(slots', i, kept)
    BY <1>4, KeptKeeps
  <1>6. job' = [job EXCEPT !.restoring = FALSE, !.todo = @ \ {i}, !.desired[i] = kept]
    BY Zenon DEF RestoreReleased
  <1> HIDE DEF kept
  <1>7. /\ job'.req = job.req /\ job'.src = job.src /\ job'.plan = job.plan
        /\ job'.built = job.built /\ job'.file = job.file
        /\ job'.desired = [job.desired EXCEPT ![i] = kept] /\ job'.failed = job.failed
        /\ job'.restoring = FALSE /\ job'.todo = job.todo \ {i}
    BY <1>1, <1>6, Zenon DEF JobType
  <1>8. job'.desired[i] = kept /\ \A j \in Ids \ {i} : job'.desired[j] = job.desired[j]
    BY <1>1, <1>7 DEF JobType
  <1> QED
    BY <1>1, <1>2, <1>4, <1>5, <1>7, <1>8, Zenon DEF ATurn

-------------------------------------------------------------------------------
(* AInv: the plan. *)

(* Somebody else is to be on the address of i: another endpoint that is built,
   or the listener of one that is left alone. *)
Clashes(i, ok) ==
    \E j \in ok \ {i}, p \in Protos :
      /\ p \in job.src[i].desc.protos
      /\ \/ /\ p \in job.src[j].desc.protos
            /\ job.src[j].desc.addr = job.src[i].desc.addr
         \/ /\ applied[j] = job.src[j]
            /\ Active(slots, j, p)
            /\ slots[j][p].endpoint.addr = job.src[i].desc.addr

(* What the plan says of i when the ids ok could be built. *)
PlannedAs(i, ok) ==
    /\ job'.built[i] = IF i \in ok THEN Build(job.src[i], file) ELSE None
    /\ job'.desired[i] = IF i \in ok THEN job.src[i] ELSE None
    /\ job'.plan[i] \in {"none", "delete"} => job.req.want[i] = None
    /\ job'.plan[i] = "unchanged" =>
         i \in ok /\ applied[i] = job.src[i] /\ AllRunning(slots, i, job'.built[i])
    /\ job'.plan[i] = "start" => i \in ok /\ applied[i] = None
    /\ job'.plan[i] = "replace" => i \in ok
    /\ job'.plan[i] = "invalid" =>
         i \in job.req.again \/ i \notin ok \/ Clashes(i, ok)

PlanOutcome(ok) ==
    /\ ok \subseteq Wanted(job.req.want)
    /\ ~hostile => ok = Wanted(job.req.want) \ job.unrefreshed
    /\ job'.req = job.req
    /\ job'.src = job.src
    /\ job'.file = job.file
    /\ job'.failed = job.failed
    /\ \A i \in Ids : PlannedAs(i, ok)

(* The validation of a generation. *)
LEMMA PlanResult ==
  ASSUME IInv, SInv, TInv, PlanGeneration
  PROVE  \E ok : PlanOutcome(ok)
  <1> DEFINE built(ok) == [i \in Ids |-> IF i \in ok THEN Build(job.src[i], file)
                                          ELSE None]
             desired(ok) == [i \in Ids |-> IF i \in ok THEN job.src[i] ELSE None]
             candidates == Wanted(job.req.want) \ job.unrefreshed
  <1>1. PICK ok \in SUBSET candidates :
          /\ ~hostile => ok = candidates
          /\ job' = [job EXCEPT !.built = built(ok), !.plan = FinalPlan(built(ok)),
                                !.desired = desired(ok)]
    BY Zenon DEF PlanGeneration
  <1>2. job \in JobType /\ pc = "plan"
    BY DEF PlanGeneration, TInv, Applying
  <1>3. /\ job'.req = job.req /\ job'.src = job.src /\ job'.file = job.file
        /\ job'.failed = job.failed
        /\ job'.built = built(ok)
        /\ job'.plan = FinalPlan(built(ok))
        /\ job'.desired = desired(ok)
    <2> HIDE DEF built, desired
    <2> QED
      BY <1>1, <1>2 DEF JobType
  <1>4. \A i \in ok : i \in Ids /\ job.src[i] \in Source
    BY <1>1, <1>2 DEF SInv, PlanInv, Wanted
  <1>5. \A i \in ok : Build(job.src[i], file) \in EndpointSpec
    BY <1>4, BuildSpec DEF IInv, StateInv
  <1>6. ASSUME NEW i \in Ids, built(ok)[i] # None PROVE i \in ok
    BY <1>6
  <1>7. ASSUME NEW i \in ok
        PROVE  /\ built(ok)[i] = Build(job.src[i], file)
               /\ built(ok)[i].protos = job.src[i].desc.protos
               /\ built(ok)[i].endpoint.addr = job.src[i].desc.addr
               /\ built(ok)[i].protos \subseteq Protos
    BY <1>4, <1>5, <1>7, BuildFits DEF Fits, EndpointSpec
  <1> DEFINE B == built(ok)
             diff == [i \in Ids |-> PlanOf(i, B)]
  <1>8. \A i \in Ids : B[i] = IF i \in ok THEN Build(job.src[i], file) ELSE None
    OBVIOUS
  <1>9. \A i \in Ids : desired(ok)[i] = IF i \in ok THEN job.src[i] ELSE None
    OBVIOUS
  <1> HIDE DEF built, B, desired
  <1>10. ASSUME NEW i \in Ids
         PROVE  /\ diff[i] = "none" => job.req.want[i] = None
                /\ diff[i] # "delete"
                /\ diff[i] \in {"unchanged", "start", "replace"} => i \in ok
                /\ diff[i] = "unchanged" =>
                     applied[i] = job.src[i] /\ AllRunning(slots, i, B[i])
                /\ diff[i] = "start" => applied[i] = None
                /\ diff[i] = "invalid" => i \in job.req.again \/ i \notin ok
    <2>1. diff[i] = PlanOf(i, B)
      OBVIOUS
    <2>2. B[i] # None => i \in ok
      BY <1>6 DEF B
    <2>3. B[i] = None => i \notin ok
      <3>1. ASSUME i \in ok PROVE B[i] # None
        <4>1. B[i] \in EndpointSpec
          BY <1>5, <1>7, <3>1 DEF B
        <4> QED
          BY <4>1, NoneIsNoSpec
      <3> QED
        BY <3>1
    <2> HIDE DEF diff
    <2> QED
      BY <2>1, <2>2, <2>3, Zenon DEF PlanOf
  <1>11. \A i \in Ids :
           job'.plan[i] = IF Collides(diff, B, i) THEN "invalid"
                          ELSE IF Removed(i) THEN "delete" ELSE diff[i]
    BY <1>3 DEF FinalPlan, B
  <1> HIDE DEF diff
  <1>12. ASSUME NEW i \in Ids, Collides(diff, B, i) PROVE Clashes(i, ok)
    <2>1. PICK p \in B[i].protos, j \in Ids \ {i} :
            \/ /\ Binding(diff, j)
               /\ p \in B[j].protos
               /\ B[j].endpoint.addr = B[i].endpoint.addr
            \/ /\ diff[j] = "unchanged"
               /\ Active(slots, j, p)
               /\ slots[j][p].endpoint.addr = B[i].endpoint.addr
      BY <1>12, Zenon DEF Collides
    <2>2. i \in ok /\ j \in ok
      BY <1>10, <1>12, <2>1, Zenon DEF Collides, Binding
    <2>3. p \in Protos /\ p \in job.src[i].desc.protos
      BY <1>7, <2>1, <2>2, Zenon DEF B
    <2>4. /\ B[i].endpoint.addr = job.src[i].desc.addr
          /\ B[j].endpoint.addr = job.src[j].desc.addr
          /\ B[j].protos = job.src[j].desc.protos
      BY <1>7, <2>2, Zenon DEF B
    <2>5. diff[j] = "unchanged" => applied[j] = job.src[j]
      BY <1>10, Zenon
    <2>6. j \in ok \ {i}
      BY <2>1, <2>2
    <2> QED
      BY <2>1, <2>3, <2>4, <2>5, <2>6, Zenon DEF Clashes
  <1>13. ASSUME NEW i \in Ids PROVE PlannedAs(i, ok)
    <2>1. /\ job'.built[i] = IF i \in ok THEN Build(job.src[i], file) ELSE None
          /\ job'.desired[i] = IF i \in ok THEN job.src[i] ELSE None
          /\ job'.built[i] = B[i]
      BY <1>3, <1>8, <1>9 DEF B
    <2>2. CASE Collides(diff, B, i)
      <3>1. job'.plan[i] = "invalid"
        BY <1>11, <2>2
      <3> QED
        BY <1>12, <2>1, <2>2, <3>1, Zenon DEF PlannedAs
    <2>3. CASE ~Collides(diff, B, i) /\ Removed(i)
      <3>1. job'.plan[i] = "delete" /\ job.req.want[i] = None
        BY <1>11, <2>3 DEF Removed
      <3> QED
        BY <2>1, <3>1 DEF PlannedAs
    <2>4. CASE ~Collides(diff, B, i) /\ ~Removed(i)
      <3>1. job'.plan[i] = diff[i]
        BY <1>11, <2>4
      <3> QED
        BY <1>10, <2>1, <3>1, Zenon DEF PlannedAs
    <2> QED
      BY <2>2, <2>3, <2>4
  <1> QED
    BY <1>1, <1>3, <1>13 DEF PlanOutcome

(* The plan is made of sources, and finds what serves unchanged. *)
LEMMA PlanAInv == IInv /\ SInv /\ TInv /\ AInv /\ PlanGeneration => AInv'
  <1> SUFFICES ASSUME IInv, SInv, TInv, AInv, PlanGeneration PROVE AInv'
    OBVIOUS
  <1>1. PICK ok : PlanOutcome(ok)
    BY PlanResult
  <1>2. pc = "plan" /\ pc' = "release" /\ slots' = slots /\ applied' = applied
    BY DEF PlanGeneration, managerVars, reconcilerVars
  <1>3. \A i \in Ids : SourceOf(i)'
    BY <1>1, <1>2, Zenon DEF AInv, PlanOutcome, SourceOf, Applying
  <1>4. ASSUME NEW i \in Ids PROVE BuiltOf(i)' /\ Planned(i)'
    <2>1. PlannedAs(i, ok)
      BY <1>1 DEF PlanOutcome
    <2>2. ASSUME i \in ok
          PROVE  /\ job'.src[i] # None
                 /\ job'.desired[i] = job'.src[i]
                 /\ job'.built[i].protos = job'.src[i].desc.protos
                 /\ Fits(job'.src[i], job'.built[i].endpoint, job'.built[i].material)
      <3>1. job.src[i] \in Source
        BY <1>1, <1>2, <2>2 DEF PlanOutcome, Wanted, SInv, PlanInv
      <3>2. /\ job'.src = job.src
            /\ job'.desired[i] = job.src[i]
            /\ job'.built[i] = Build(job.src[i], file)
        BY <1>1, <2>1, <2>2, Zenon DEF PlanOutcome, PlannedAs
      <3> QED
        BY <3>1, <3>2, BuildFits, NoneIsNoSpec, Zenon
    <2>3. BuiltOf(i)'
      BY <2>1, <2>2, Zenon DEF PlannedAs, BuiltOf, Binding
    <2>4. job.req.want[i] = None => i \notin ok
      BY <1>1 DEF PlanOutcome, Wanted
    <2>5. Planned(i)'
      BY <1>1, <1>2, <2>1, <2>2, <2>4, Zenon DEF PlanOutcome, PlannedAs, Planned, Binding
    <2> QED
      BY <2>3, <2>5
  <1>5. ~job'.failed
    BY <1>1, <1>2, Zenon DEF AInv, PlanOutcome
  <1> QED
    BY <1>2, <1>3, <1>4, <1>5, Zenon DEF AInv, Applying

(* Releasing takes listeners away and starts none. *)
LEMMA ReleaseAInv == IInv /\ SInv /\ TInv /\ AInv /\ Release => AInv'
  <1> SUFFICES ASSUME IInv, SInv, TInv, AInv, Release PROVE AInv'
    OBVIOUS
  <1>1. /\ pc = "release" /\ pc' = "apply" /\ applied' = applied
        /\ job \in JobType
    BY DEF Release, reconcilerVars, TInv, Applying
  <1>2. /\ job'.req = job.req /\ job'.src = job.src /\ job'.plan = job.plan
        /\ job'.built = job.built /\ job'.file = job.file
        /\ job'.desired = job.desired /\ job'.failed = job.failed
        /\ job'.restoring = job.restoring
        /\ job'.todo = {i \in Ids : job.plan[i] # "none"}
    BY <1>1 DEF Release, JobType
  <1>3. Thinner(slots, slots')
    BY ReleaseThinner DEF SInv
  <1>4. Lone(slots') /\ \A i \in Ids : \A x : Keeps(slots, i, x) => Keeps(slots', i, x)
    BY <1>3, ThinnerKeeps, Zenon DEF AInv
  <1>5. \A i \in Ids : SourceOf(i)' /\ BuiltOf(i)' /\ Planned(i)'
    <2>1. \A i \in Ids : SourceOf(i) /\ BuiltOf(i) /\ Planned(i)
      BY <1>1, Zenon DEF AInv, Applying
    <2> SUFFICES ASSUME NEW i \in Ids PROVE SourceOf(i)' /\ BuiltOf(i)' /\ Planned(i)'
      OBVIOUS
    <2>2. SourceOf(i)' /\ BuiltOf(i)'
      BY <1>1, <1>2, <2>1, Zenon DEF SourceOf, BuiltOf, Binding
    <2> QED
      BY <1>1, <1>2, <2>1, <2>2, Zenon DEF Planned, Binding
  <1>6. \A i \in Ids : Keeps(slots', i, applied'[i])
    BY <1>1, <1>4, Zenon DEF AInv
  <1>7. ASSUME NEW i \in Ids, job.plan[i] = "none"
        PROVE  Keeps(slots', i, job'.desired[i]) /\ Done(i)'
    <2>1. job.req.want[i] = None /\ job.desired[i] = None
      BY <1>1, <1>7, Zenon DEF AInv, Planned
    <2>2. ~Contains(slots, i)
      BY <1>1, <1>7, <2>1, Zenon DEF SInv, PlanInv, Undeclared
    <2>3. Keeps(slots, i, None)
      BY <2>2 DEF Keeps, Contains, Serving, Active
    <2> QED
      BY <1>2, <1>4, <1>7, <2>1, <2>3, Zenon DEF Done
  <1>8. ~job.failed /\ ~job.restoring
    BY <1>1, Zenon DEF AInv, SInv, PlanInv
  <1> QED
    BY <1>1, <1>2, <1>4, <1>5, <1>6, <1>7, <1>8, Zenon DEF AInv, Applying

-------------------------------------------------------------------------------
(* AInv: every other step. *)

(* A step that starts no listener and leaves the rest alone. *)
LEMMA ThinnerAInv ==
  ASSUME AInv, Thinner(slots, slots'), UNCHANGED <<pc, job, applied, last>>
  PROVE  AInv'
  <1>1. Lone(slots') /\ \A i \in Ids : \A x : Keeps(slots, i, x) => Keeps(slots', i, x)
    BY ThinnerKeeps, Zenon DEF AInv
  <1>2. \A i \in Ids : /\ SourceOf(i)' <=> SourceOf(i)
                       /\ Planned(i)' <=> Planned(i)
                       /\ BuiltOf(i)' <=> BuiltOf(i)
                       /\ Done(i)' <=> Done(i)
    BY Zenon DEF SourceOf, Planned, BuiltOf, Done, Binding
  <1> QED
    BY <1>1, <1>2, Zenon DEF AInv

(* A table is no thicker than itself. *)
LEMMA SameThinner ==
  ASSUME slots' = slots
  PROVE  Thinner(slots, slots')
  BY DEF Thinner, Active

(* A job that starts has the sources it was given, and nothing failed yet. *)
LEMMA StartedJob ==
  ASSUME NEW g, NEW want \in Desired, NEW again, NEW u, file \in Materials,
         job' = NewJob(Request(g, want, again), Refresh(want), u)
  PROVE  /\ job'.req.want = want
         /\ job'.req.again = again
         /\ job'.unrefreshed = u
         /\ job'.failed = FALSE
         /\ job'.file = file
         /\ \A i \in Ids : SourceOf(i)'
  <1>1. /\ job'.req.want = want
        /\ job'.req.again = again
        /\ job'.unrefreshed = u
        /\ job'.failed = FALSE
        /\ job'.file = file
        /\ job'.src = Refresh(want)
    BY DEF NewJob, Request
  <1>2. \A i \in Ids : SourceOf(i)'
    BY <1>1 DEF SourceOf, Refresh
  <1> QED
    BY <1>1, <1>2

(* A submission starts from what is applied. *)
LEMMA SubmissionAInv == IInv /\ AInv /\ Submission => AInv'
  <1> SUFFICES ASSUME IInv, AInv, NEW g \in Gens, NEW want \in Desired,
                      NEW again, Submit(g, want, again)
               PROVE  AInv'
    BY DEF Submission
  <1>1. PICK u : job' = NewJob(Request(g, want, again), Refresh(want), u)
    BY DEF Submit
  <1>2. pc = "idle" /\ pc' = "plan" /\ slots' = slots /\ applied' = applied
    BY DEF Submit, managerVars, reconcilerVars
  <1>3. job'.failed = FALSE /\ \A i \in Ids : SourceOf(i)'
    BY <1>1, StartedJob, Zenon DEF IInv, StateInv
  <1> QED
    BY <1>2, <1>3, Zenon DEF AInv, Applying

(* A commit makes what is desired what is applied. *)
LEMMA CommitAInv == IInv /\ TInv /\ AInv /\ Commit => AInv'
  <1> SUFFICES ASSUME IInv, TInv, AInv, Commit PROVE AInv'
    OBVIOUS
  <1>1. /\ pc = "apply" /\ pc' = "persist" /\ slots' = slots /\ job' = job
        /\ applied' = job.desired /\ job.todo = {}
        /\ last' = [req |-> job.req, file |-> job.file, partial |-> job.failed]
    BY Zenon DEF Commit, managerVars
  <1>2. \A i \in Ids : SourceOf(i)'
    BY <1>1, Zenon DEF AInv, SourceOf, Applying
  <1>3. \A i \in Ids : Keeps(slots', i, applied'[i])
    BY <1>1, Zenon DEF AInv
  <1>4. ~job.failed => \A i \in Wanted(job.req.want) : job.desired[i] = job.src[i]
    BY <1>1, Zenon DEF AInv, Done, Wanted
  <1> QED
    BY <1>1, <1>2, <1>3, <1>4, Zenon DEF AInv, Applying

(* Persisting changes neither what serves nor what is applied. *)
LEMMA PersistAInv == IInv /\ TInv /\ AInv /\ Persist => AInv'
  <1> SUFFICES ASSUME IInv, TInv, AInv, Persist PROVE AInv'
    OBVIOUS
  <1>1. /\ pc = "persist" /\ pc' = "idle"
        /\ slots' = slots /\ applied' = applied /\ last' = last
    BY DEF Persist, managerVars, reconcilerVars
  <1>2. ASSUME ~last.partial, NEW i \in Wanted(last.req.want)
        PROVE  applied[i] # None /\ applied[i].desc = last.req.want[i]
    <2>1. last.req = job.req /\ last.partial = job.failed
      <3>1. last = [req |-> job.req, file |-> job.file, partial |-> job.failed]
        BY <1>1, Zenon DEF AInv
      <3> QED
        BY <3>1
    <2>2. i \in Ids /\ job.req.want[i] # None /\ applied[i] = job.src[i]
      BY <1>1, <1>2, <2>1, Zenon DEF AInv, Wanted
    <2>3. job.src[i] = Refreshed(job.req.want[i], job.file)
      BY <1>1, <2>2, Zenon DEF AInv, SourceOf
    <2>4. job.req.want[i] \in Descs /\ job.file \in Materials
      BY <1>1, <2>2 DEF TInv, JobType, Desired, Option
    <2>5. job.src[i] # None
      BY <2>3, <2>4, RefreshedSource, NoneIsNoSpec
    <2> QED
      BY <2>1, <2>2, <2>3, <2>5, SMTT(30) DEF Refreshed
  <1> QED
    BY <1>1, <1>2, Zenon DEF AInv, Applying

(* Starting, from nothing or from a snapshot. *)
LEMMA StartupAInv ==
  ASSUME OneProtocol, IInv, SInv, TInv, AInv, Startup
  PROVE  AInv'
  <1>1. CASE Boot
    <2>1. pc = "down" /\ slots' = slots /\ applied' = applied
      BY <1>1 DEF Boot, managerVars, reconcilerVars
    <2>2. CASE pc' = "plan"
      <3>1. PICK u : job' = NewJob(Request(0, Static, {}), Refresh(Static), u)
        BY <1>1, <2>2 DEF Boot
      <3>2. job'.failed = FALSE /\ \A i \in Ids : SourceOf(i)'
        BY <3>1, StartedJob, StaticIsDesired, Zenon DEF IInv, StateInv
      <3> QED
        BY <2>1, <2>2, <3>2, Zenon DEF AInv, Applying
    <2>3. CASE pc' = "restore"
      <3>1. job'.todo = Wanted(snapshot.endpoints)
        BY <1>1, <2>3, Zenon DEF Boot, NewJob
      <3>2. \A i \in job'.todo : applied[i] = None
        BY <2>1, <3>1, Zenon DEF AInv, Wanted, NoSources
      <3> QED
        BY <2>1, <2>3, <3>2, Zenon DEF AInv, Applying
    <2> QED
      BY <1>1, <2>2, <2>3 DEF Boot
  <1>2. ASSUME NEW i \in Ids, RestoreOne(i) PROVE AInv'
    <2>1. /\ pc = "restore" /\ pc' = "restore"
          /\ i \in job.todo /\ job'.todo = job.todo \ {i}
      BY <1>2, RevivedResult, Zenon
    <2>2. applied[i] = None /\ \A j \in job.todo : applied[j] = None
      BY <2>1, Zenon DEF AInv
    <2>3. CASE slots' = slots /\ applied' = applied
      BY <2>1, <2>2, <2>3, Zenon DEF AInv, Applying
    <2>4. ASSUME NEW q \in Protos, Revived(i, q) PROVE AInv'
      <3> DEFINE src == Refreshed(job.src[i], file)
      <3>1. /\ Lone(slots')
            /\ \A j \in Ids \ {i} : \A x : Keeps(slots, j, x) => Keeps(slots', j, x)
        BY <2>4, PlacedKeeps DEF SInv, AInv, Revived
      <3>2. Keeps(RefreshSlots, i, applied[i])
        BY <2>1, RefreshThinner, ThinnerKeeps, Zenon DEF SInv, AInv
      <3>3. \A j \in Ids \ {i} : applied'[j] = applied[j]
        BY <2>4, Zenon DEF Revived, IInv, StateInv, Sources
      <3>4. Keeps(slots', i, applied'[i])
        <4>1. CASE /\ Success(RefreshSlots, i, q, Build(src, file), slots'[i][q])
                   /\ applied' = [applied EXCEPT ![i] = src]
          <5>1. Holds(slots', i, src)
            BY <2>4, <4>1, SuccessKeeps, BuildFits, Zenon DEF Revived
          <5>2. applied'[i] = src /\ src # None
            BY <2>4, <4>1, NoneIsNoSpec, Zenon DEF Revived, IInv, StateInv, Sources
          <5> QED
            BY <5>1, <5>2 DEF Keeps
        <4>2. CASE /\ Failure(RefreshSlots, i, q, Build(src, file), slots'[i][q])
                   /\ applied' = applied
          BY <2>4, <3>2, <4>2, FailureKeeps, Zenon DEF Revived
        <4> QED
          BY <2>4, <4>1, <4>2, Zenon DEF Revived
      <3>5. \A j \in Ids : Keeps(slots', j, applied'[j])
        BY <2>1, <3>1, <3>3, <3>4, Zenon DEF AInv
      <3>6. \A j \in job'.todo : applied'[j] = None
        BY <2>1, <2>2, <3>3 DEF IInv, JobInv
      <3> QED
        BY <2>1, <3>1, <3>5, <3>6, Zenon DEF AInv, Applying
    <2> QED
      BY <1>2, <2>3, <2>4, RevivedResult, Zenon
  <1>3. CASE RestoreDone
    <2>1. /\ pc = "restore" /\ pc' = "idle" /\ slots' = slots /\ applied' = applied
          /\ last' = last /\ last = None
      BY <1>3 DEF RestoreDone, managerVars, SInv, LastInv
    <2> QED
      BY <2>1, Zenon DEF AInv, Applying
  <1> QED
    BY <1>1, <1>2, <1>3 DEF Startup

(* No slot at all serves nothing. *)
LEMMA EmptyKeeps ==
  ASSUME NEW S, S = [i \in Ids |-> [p \in Protos |-> None]]
  PROVE  /\ Lone(S)
         /\ \A i \in Ids : ~Serving(S, i)
         /\ \A i \in Ids : Keeps(S, i, NoSources[i])
  BY DEF Lone, Keeps, Serving, Active, NoSources

(* Every step preserves AInv. *)
LEMMA NextAInv ==
  ASSUME OneProtocol
  PROVE  IInv /\ SInv /\ TInv /\ AInv /\ [Next]_vars => AInv'
  <1> SUFFICES ASSUME IInv, SInv, TInv, AInv, [Next]_vars PROVE AInv'
    OBVIOUS
  <1>1. CASE Generation
    BY <1>1, PlanAInv, ReleaseAInv, ATurnAInv, AQuietTurn, ADeleteTurn, ABuiltTurn,
       APutBackTurn, CommitAInv, PersistAInv DEF Generation
  <1>2. CASE Crash
    BY <1>2, EmptyKeeps DEF Crash, AInv, Applying
  <1>3. CASE Status
    BY <1>3, RefreshThinner, ThinnerAInv
       DEF Status, StatusRefresh, SInv, reconcilerVars
  <1>4. CASE Environment
    <2>1. UNCHANGED <<pc, job, applied, last>>
      BY <1>4 DEF Environment, reconcilerVars
    <2>2. Thinner(slots, slots')
      <3>1. ASSUME NEW c \in cohorts, DrainEnds(c) PROVE Thinner(slots, slots')
        BY <3>1, SameThinner DEF DrainEnds
      <3> QED
        BY <1>4, <3>1, ExitThinner DEF Environment, SInv
    <2> QED
      BY <2>1, <2>2, ThinnerAInv
  <1>5. CASE Rotate \/ UNCHANGED vars
    BY <1>5, SameThinner, ThinnerAInv DEF Rotate, vars, managerVars, reconcilerVars
  <1> QED
    BY <1>1, <1>2, <1>3, <1>4, <1>5, SubmissionAInv, StartupAInv DEF Next

(* What serves an id is what is applied for it, from the first boot on. *)
LEMMA AInvariance ==
  ASSUME OneProtocol
  PROVE  Spec => [](IInv /\ SInv /\ TInv /\ AInv)
  <1>1. Init => AInv
    BY EmptyKeeps DEF Init, AInv, Applying
  <1> QED
    BY <1>1, NextAInv, TypeInvariance, PTL DEF Spec

-------------------------------------------------------------------------------
(* UInv: without exits, what is reported as applied serves. *)

(* Refreshing changes nothing when nothing exited. *)
LEMMA AliveRefresh ==
  ASSUME Sound(slots), Alive(slots)
  PROVE  RefreshSlots = slots
  <1>1. \A i \in Ids, p \in Protos : ~Exited(i, p)
    BY DEF Alive, Exited
  <1> QED
    BY <1>1, Zenon DEF RefreshSlots, Sound, Table

(* What apply leaves lives. *)
LEMMA PlacedAlive ==
  ASSUME NEW S, Alive(S), NEW i \in Ids, NEW q \in Protos, NEW b, Placed(S, i, q),
         \/ Success(S, i, q, b, slots'[i][q])
         \/ Failure(S, i, q, b, slots'[i][q])
  PROVE  Alive(slots')
  <1> SUFFICES ASSUME NEW j \in Ids, NEW p \in Protos, Active(slots', j, p)
               PROVE  slots'[j][p].active.alive
    BY DEF Alive
  <1>1. CASE j # i
    BY <1>1 DEF Placed, Alive, Active
  <1>2. CASE j = i
    <2>1. p = q
      BY <1>2, Zenon DEF Placed, Active
    <2>2. Bound(S, i, q, b, slots'[i][q]) \/ Stayed(S, i, q, slots'[i][q])
      BY <1>2, <2>1, Zenon DEF Success, Failure, Active
    <2> QED
      BY <1>2, <2>1, <2>2, Zenon DEF Bound, Stayed, Alive
  <1> QED
    BY <1>1, <1>2

(* A turn leaves the other ids alone and its own id serving, or is reported. *)
UTurn(i) ==
    /\ pc = "apply" /\ pc' = "apply"
    /\ job'.req = job.req
    /\ job'.plan = job.plan
    /\ Alive(slots')
    /\ \A j \in Ids \ {i} : slots'[j] = slots[j]
    /\ slots' = slots \/ job.plan[i] # "unchanged"
    /\ job.failed => job'.failed
    /\ ~job'.failed =>
         /\ job'.todo = job.todo \ {i}
         /\ job.req.want[i] # None => Serving(slots', i)

(* Such a turn preserves the invariant. *)
LEMMA UTurnUInv ==
  ASSUME UInv, NEW i \in Ids, UTurn(i)
  PROVE  UInv'
  <1>1. ASSUME NEW j \in Ids, job'.plan[j] = "unchanged" PROVE Serving(slots', j)
    BY <1>1 DEF UTurn, UInv, Serving, Active
  <1>2. ASSUME ~job'.failed, NEW j \in Wanted(job'.req.want), j \notin job'.todo
        PROVE  Serving(slots', j)
    <2>1. CASE j = i
      BY <1>2, <2>1, Zenon DEF UTurn, Wanted
    <2>2. CASE j # i
      BY <1>2, <2>2 DEF UTurn, UInv, Wanted, Serving, Active
    <2> QED
      BY <2>1, <2>2
  <1> QED
    BY <1>1, <1>2 DEF UInv, UTurn

(* Every turn is one. *)
LEMMA UTurns ==
  ASSUME OneProtocol, IInv, SInv, TInv, AInv, UInv, NEW i \in Ids,
         \/ ApplyUnchanged(i) \/ ApplyInvalid(i) \/ ApplyDelete(i)
         \/ ApplyBuilt(i) \/ RestoreReleased(i)
  PROVE  UTurn(i)
  <1>1. pc = "apply" /\ i = Min(job.todo) /\ i \in job.todo /\ job \in JobType /\ pc' = pc
    BY DEF ApplyUnchanged, ApplyInvalid, ApplyDelete, ApplyBuilt, RestoreReleased, Turn,
       TInv, Applying
  <1>2. Alive(slots) /\ RefreshSlots = slots
    BY AliveRefresh DEF UInv, SInv
  <1>3. CASE ApplyUnchanged(i)
    <2>1. /\ job' = [job EXCEPT !.todo = @ \ {i}] /\ job.plan[i] = "unchanged"
          /\ slots' = slots
      BY <1>3 DEF ApplyUnchanged, managerVars
    <2>2. /\ job'.req = job.req /\ job'.plan = job.plan /\ job'.failed = job.failed
          /\ job'.todo = job.todo \ {i}
      BY <1>1, <2>1 DEF JobType
    <2> QED
      BY <1>1, <1>2, <2>1, <2>2 DEF UTurn, UInv
  <1>4. CASE ApplyInvalid(i)
    <2>1. /\ job'.req = job.req /\ job'.plan = job.plan /\ job'.failed = TRUE
          /\ slots' = slots
      BY <1>1, <1>4, Zenon DEF JobType, ApplyInvalid, managerVars
    <2> QED
      BY <1>1, <1>2, <2>1 DEF UTurn
  <1>5. CASE ApplyDelete(i)
    <2>1. /\ job' = [job EXCEPT !.todo = @ \ {i}, !.desired[i] = None]
          /\ job.plan[i] = "delete"
      BY <1>5 DEF ApplyDelete
    <2>2. /\ job'.req = job.req /\ job'.plan = job.plan /\ job'.failed = job.failed
          /\ job'.todo = job.todo \ {i}
      BY <1>1, <2>1, Zenon DEF JobType
    <2>3. /\ ~Contains(slots', i)
          /\ \A j \in Ids \ {i} : slots'[j] = slots[j]
      BY <1>2, <1>5, RemoveEffectSound DEF ApplyDelete, SInv
    <2>4. Alive(slots')
      BY <1>2, <2>3 DEF Alive, Contains, Active
    <2>5. job.req.want[i] = None
      BY <1>1, <2>1 DEF AInv, Planned
    <2> QED
      BY <1>1, <2>1, <2>2, <2>3, <2>4, <2>5 DEF UTurn
  <1>6. CASE ApplyBuilt(i)
    <2>1. PICK q \in Protos : BuiltOutcome(i, q)
      BY <1>6, BuiltResult
    <2>2. Alive(slots') /\ \A j \in Ids \ {i} : slots'[j] = slots[j]
      BY <1>2, <2>1, PlacedAlive DEF BuiltOutcome, Placed
    <2>3. job.plan[i] # "unchanged"
      BY <1>6 DEF ApplyBuilt, Binding
    <2>4. /\ job'.req = job.req /\ job'.plan = job.plan
          /\ \/ job'.failed = TRUE
             \/ /\ job'.failed = job.failed
                /\ job'.todo = job.todo \ {i}
                /\ Success(slots, i, q, job.built[i], slots'[i][q])
      BY <1>1, <1>2, <2>1, ZenonT(30) DEF JobType, BuiltOutcome
    <2>5. Success(slots, i, q, job.built[i], slots'[i][q]) => Serving(slots', i)
      BY Zenon DEF Success, Bound, Stayed, Serving, Active
    <2> QED
      BY <1>1, <2>2, <2>3, <2>4, <2>5, Zenon DEF UTurn
  <1>7. CASE RestoreReleased(i)
    <2>1. job.restoring /\ job.failed /\ job.plan[i] # "unchanged"
      BY <1>1, <1>7 DEF RestoreReleased, AInv, SInv, PlanInv, Binding
    <2>2. job'.req = job.req /\ job'.plan = job.plan /\ job'.failed = job.failed
      BY <1>1, <1>7, ZenonT(30) DEF JobType, RestoreReleased
    <2>3. Alive(slots') /\ \A j \in Ids \ {i} : slots'[j] = slots[j]
      <3>1. ASSUME NEW q \in Protos, PutBack(i, q)
            PROVE  Alive(slots') /\ \A j \in Ids \ {i} : slots'[j] = slots[j]
        BY <1>2, <3>1, PlacedAlive, Zenon DEF PutBack, Placed
      <3> QED
        BY <1>2, <1>7, <3>1, PutBackResult
    <2> QED
      BY <1>1, <2>1, <2>2, <2>3 DEF UTurn
  <1> QED
    BY <1>3, <1>4, <1>5, <1>6, <1>7

(* A step that changes no slot, no job and no answer. *)
LEMMA SameUInv ==
  ASSUME UInv, UNCHANGED <<slots, pc, job, last>>
  PROVE  UInv'
  BY Zenon DEF UInv

(* Every step preserves UInv. *)
LEMMA NextUInv ==
  ASSUME OneProtocol, "exit" \notin Env
  PROVE  IInv /\ SInv /\ TInv /\ AInv /\ UInv /\ [Next]_vars => UInv'
  <1> SUFFICES ASSUME IInv, SInv, TInv, AInv, UInv, [Next]_vars PROVE UInv'
    OBVIOUS
  <1>0. Alive(slots) /\ RefreshSlots = slots
    BY AliveRefresh DEF UInv, SInv
  <1>1. CASE Submission
    BY <1>1, Zenon DEF Submission, Submit, managerVars, UInv
  <1>2. CASE PlanGeneration
    <2>1. PICK ok : PlanOutcome(ok)
      BY <1>2, PlanResult
    <2>2. pc = "plan" /\ pc' = "release" /\ slots' = slots
      BY <1>2 DEF PlanGeneration, managerVars
    <2>3. ASSUME NEW i \in Ids, job'.plan[i] = "unchanged" PROVE Serving(slots', i)
      <3>1. /\ i \in ok /\ AllRunning(slots, i, Build(job.src[i], file))
            /\ job.src[i] \in Source
        BY <2>1, <2>2, <2>3, Zenon DEF PlanOutcome, PlannedAs, Wanted, SInv, PlanInv
      <3>2. PICK p \in Protos : job.src[i].desc.protos = {p}
        BY <3>1 DEF OneProtocol, Source
      <3>3. Active(slots, i, p)
        BY <3>1, <3>2, BuildFits, Zenon DEF AllRunning
      <3> QED
        BY <2>2, <3>3 DEF Serving
    <2> QED
      BY <2>2, <2>3 DEF UInv
  <1>3. CASE Release
    <2>1. /\ pc = "release" /\ pc' = "apply" /\ job \in JobType
      BY <1>3 DEF Release, TInv, Applying
    <2>2. /\ job'.req = job.req /\ job'.plan = job.plan
          /\ job'.todo = {i \in Ids : job.plan[i] # "none"}
      BY <1>3, <2>1 DEF Release, JobType
    <2>3. Alive(slots')
      BY <1>0, <1>3, ReleaseThinner, Zenon DEF SInv, Alive, Active
    <2>4. ASSUME NEW i \in Ids, job.plan[i] = "unchanged" PROVE Serving(slots', i)
      <3>1. \A p \in Protos : <<i, p>> \notin ReleasedSlots
        BY <2>4 DEF ReleasedSlots, Leaving
      <3>2. \A p \in Protos : slots'[i][p] = slots[i][p]
        BY <1>3, <3>1, ReleaseThinner, Zenon DEF SInv
      <3> QED
        BY <2>1, <2>4, <3>2 DEF UInv, Serving, Active
    <2>5. ASSUME NEW i \in Ids, job.plan[i] = "none" PROVE job.req.want[i] = None
      BY <2>1, <2>5, Zenon DEF AInv, Planned
    <2> QED
      BY <2>1, <2>2, <2>3, <2>4, <2>5 DEF UInv, Wanted
  <1>4. CASE Commit
    BY <1>4 DEF Commit, managerVars, UInv
  <1>5. CASE Persist
    BY <1>5, Zenon DEF Persist, managerVars, reconcilerVars, UInv
  <1>6. ASSUME NEW i \in Ids, UTurn(i) PROVE UInv'
    BY <1>6, UTurnUInv
  <1>7. CASE Boot
    BY <1>7 DEF Boot, managerVars, UInv
  <1>8. ASSUME NEW i \in Ids, RestoreOne(i) PROVE UInv'
    <2>1. pc' = "restore"
      BY <1>8, RevivedResult, Zenon
    <2>2. Alive(slots')
      <3>1. ASSUME NEW q \in Protos, Revived(i, q) PROVE Alive(slots')
        BY <1>0, <3>1, PlacedAlive, Zenon DEF Revived
      <3> QED
        BY <1>0, <1>8, <3>1, RevivedResult
    <2> QED
      BY <2>1, <2>2, Zenon DEF UInv
  <1>9. CASE RestoreDone
    BY <1>9 DEF RestoreDone, managerVars, UInv, SInv, LastInv
  <1>10. CASE Crash
    <2>1. Alive(slots')
      BY <1>10 DEF Crash, Alive, Active
    <2> QED
      BY <1>10, <2>1 DEF Crash, UInv
  <1>11. CASE Status \/ Rotate \/ UNCHANGED vars
    BY <1>0, <1>11, SameUInv
       DEF Status, StatusRefresh, Rotate, vars, managerVars, reconcilerVars
  <1>12. CASE Environment
    BY <1>12, SameUInv DEF Environment, TaskExit, DrainEnds, reconcilerVars
  <1> QED
    BY <1>1, <1>2, <1>3, <1>4, <1>5, <1>6, <1>7, <1>8, <1>9, <1>10, <1>11, <1>12, UTurns
       DEF Next, Generation, Startup

(* Without exits what is reported as applied serves, from the first boot on. *)
LEMMA UInvariance ==
  ASSUME OneProtocol, "exit" \notin Env
  PROVE  Spec => [](IInv /\ SInv /\ TInv /\ AInv /\ UInv)
  <1>1. Init => UInv
    BY DEF Init, UInv, Alive, Active
  <1> QED
    BY <1>1, NextUInv, AInvariance, PTL DEF Spec

(* An id that something serves, and that only a source can be serving, serves
   that source's description in full. *)
LEMMA HeldIsServed ==
  ASSUME OneProtocol, OneWeight, Sound(slots), Lone(slots), NEW i \in Ids,
         NEW src \in Source, Holds(slots, i, src), Serving(slots, i)
  PROVE  Serves(i, src.desc)
  <1>1. PICK q \in Protos : Active(slots, i, q)
    BY DEF Serving
  <1>2. src.desc \in Descs /\ src.desc.protos = {q}
    BY <1>1 DEF Holds, OneProtocol, Source
  <1>3. slots[i][q] \in SlotType /\ Describing(slots[i][q])
    BY <1>1 DEF Sound, Table, Slot, Option, Active
  <1>4. Fits(src, slots[i][q].endpoint, slots[i][q].material)
    BY <1>1 DEF Holds
  <1>5. slots[i][q].endpoint.weights \in Weights /\ src.desc.weights \in Weights
    BY <1>2, <1>3, DescsAreDescriptions, Zenon DEF SlotType, Endpoint
  <1>6. slots[i][q].endpoint.weights = src.desc.weights
    BY <1>5 DEF OneWeight
  <1>7. Describes(src.desc, slots[i][q].active.endpoint)
    BY <1>1, <1>3, <1>4, <1>6, Zenon DEF Describing, Active, Fits, Describes
  <1>8. \A p \in Protos : p # q => slots[i][p] = None
    BY <1>1 DEF Lone, Active
  <1> QED
    BY <1>1, <1>2, <1>7, <1>8, Zenon DEF Serves

(* A generation answered as applied serves every endpoint it declared, whatever
   failed, was refused, was released and was put back in the generations before
   it: apply_generation reports a failure for every endpoint that it does not
   find or leave running. *)
THEOREM AppliedIsServed ==
  ASSUME OneProtocol, OneWeight, "exit" \notin Env
  PROVE  Spec => []AppliedMeansServed
  <1>1. IInv /\ SInv /\ AInv /\ UInv => AppliedMeansServed
    <2> SUFFICES ASSUME IInv, SInv, AInv, UInv, pc = "idle", last # None, ~last.partial,
                        NEW i \in Wanted(last.req.want)
                 PROVE  Serves(i, last.req.want[i])
      BY DEF AppliedMeansServed
    <2>1. i \in Ids /\ Serving(slots, i)
      BY DEF UInv, Wanted
    <2>2. applied[i] # None /\ applied[i].desc = last.req.want[i]
      BY Zenon DEF AInv
    <2>3. Holds(slots, i, applied[i]) /\ applied[i] \in Source
      BY <2>1, <2>2, Zenon DEF AInv, Keeps, IInv, StateInv, Sources, Option
    <2> QED
      BY <2>1, <2>2, <2>3, HeldIsServed, Zenon DEF SInv, AInv
  <1> QED
    BY <1>1, UInvariance, PTL
==============================================================================
