--------------------------- MODULE ConvergenceProofs ---------------------------
(***************************************************************************)
(* What a generation leaves behind: that what the reconciler calls applied *)
(* is what the manager serves, and that a generation nothing interferes    *)
(* with is applied in full.  For every number of endpoints, addresses and  *)
(* generations, and for endpoints of one protocol each.                    *)
(*                                                                         *)
(* The invariants come in layers, each under the hypotheses it needs, on   *)
(* top of AInv (whatever serves an id is the source applied for it, or the *)
(* one desired once it has had its turn) and UInv of ReconcilerProofs.     *)
(*   BInv   what is applied does serve    (no exits, duplicates, clashes)  *)
(*   FInv   nobody else is on an address about to be bound                 *)
(*   RInv   restoring meets no address twice                               *)
(*   MInv   transports run on the files their digest is of                 *)
(***************************************************************************)
EXTENDS ReconcilerProofs

-------------------------------------------------------------------------------
(* The invariants. *)

(* What is applied serves; what is replaced or deleted may have been released. *)
BInv ==
    /\ pc \in Applying =>
         job.req.again = {} /\ ConflictFree(job.req.want)
    /\ pc # "apply" => \A i \in Ids : applied[i] # None => Serving(slots, i)
    /\ pc \in {"release", "apply"} =>
         \A i \in Ids : job.plan[i] = "invalid" /\ (pc = "apply" => i \in job.todo)
                          => job.desired[i] = None
    /\ pc = "apply" =>
         \A i \in Ids :
           /\ i \in job.todo /\ job.plan[i] \in {"unchanged", "invalid"} =>
                (applied[i] # None => Serving(slots, i))
           /\ i \notin job.todo => (job.desired[i] # None => Serving(slots, i))

(* Two tcp listeners of different ids never share an address. *)
Apart(S) ==
    \A i, j \in Ids :
      /\ Active(S, i, "tcp")
      /\ Active(S, j, "tcp")
      /\ S[i]["tcp"].endpoint.addr = S[j]["tcp"].endpoint.addr
      => i = j

(* A generation that nothing can interfere with. *)
Unhindered ==
    /\ pc \in Applying \cup {"persist"}
    /\ ~hostile
    /\ job.req.again = {}
    /\ ConflictFree(job.req.want)

FInv ==
    /\ Apart(slots)
    /\ Unhindered =>
         /\ ~job.failed
         /\ pc = "plan" => job.unrefreshed = {}
         /\ pc \in {"release", "apply"} => \A i \in Ids : job.plan[i] # "invalid"
         /\ pc = "apply" =>
              /\ ~job.restoring
              /\ \A i \in job.todo :
                   Binding(job.plan, i) /\ "tcp" \in job.built[i].protos =>
                     ~Taken(slots, i, "tcp", job.built[i].endpoint.addr)

(* No two endpoints of a desired state listen on one tcp address. *)
Distinct(want) ==
    \A i, j \in Wanted(want) :
      /\ "tcp" \in want[i].protos
      /\ "tcp" \in want[j].protos
      /\ want[i].addr = want[j].addr
      => i = j

(* What is applied for i is what d declares. *)
Restored(i, d) ==
    /\ d = None => applied[i] = None
    /\ d # None => applied[i] # None /\ applied[i].desc = d

RInv ==
    /\ snapshot # None => Distinct(snapshot.endpoints)
    /\ pc = "restore" => snapshot # None /\ job.src = snapshot.endpoints
    /\ pc = "restore" /\ ~hostile =>
         \A i \in Ids \ job.todo : Restored(i, snapshot.endpoints[i])
    /\ pc = "idle" /\ last = None /\ ~hostile =>
         snapshot # None /\ \A i \in Ids : Restored(i, snapshot.endpoints[i])

(* The transport e runs on the files that the digest m is of. *)
Current(e, m) == e.tls => e.content = m

(* Every transport does. *)
AllCurrent(S) ==
    \A i \in Ids, p \in Protos :
      Active(S, i, p) => Current(S[i][p].endpoint, S[i][p].material)

MInv ==
    /\ AllCurrent(slots)
    /\ pc \in Applying \cup {"persist"} => job.file = file
    /\ pc \in {"release", "apply"} =>
         \A i \in Ids : Binding(job.plan, i) =>
           Current(job.built[i].endpoint, job.built[i].material)

-------------------------------------------------------------------------------
(* BInv: with neither exits nor addresses declared twice, what is applied
   serves. *)

(* Every turn does to the job what AInv needs. *)
LEMMA ATurns ==
  ASSUME OneProtocol, IInv, SInv, TInv, AInv, NEW i \in Ids,
         \/ ApplyUnchanged(i) \/ ApplyInvalid(i) \/ ApplyDelete(i)
         \/ ApplyBuilt(i) \/ RestoreReleased(i)
  PROVE  ATurn(i)
  BY AQuietTurn, ADeleteTurn, ABuiltTurn, APutBackTurn

(* Nothing clashes in a state that declares no address twice. *)
LEMMA NoClash ==
  ASSUME IInv, SInv, TInv, AInv, pc = "plan", ConflictFree(job.req.want),
         NEW ok \in SUBSET Wanted(job.req.want), NEW i \in ok
  PROVE  ~Clashes(i, ok)
  <1> SUFFICES ASSUME Clashes(i, ok) PROVE FALSE
    OBVIOUS
  <1>1. ASSUME NEW j \in ok
        PROVE  j \in Ids /\ job.req.want[j] # None /\ job.src[j].desc = job.req.want[j]
    <2>1. j \in Ids /\ job.req.want[j] # None
      BY DEF Wanted
    <2>2. job.src[j] = Refreshed(job.req.want[j], job.file)
      BY <2>1 DEF AInv, SourceOf, Applying
    <2> QED
      BY <2>1, <2>2 DEF Refreshed
  <1>2. PICK j \in ok \ {i}, p \in Protos :
          /\ p \in job.src[i].desc.protos
          /\ \/ /\ p \in job.src[j].desc.protos
                /\ job.src[j].desc.addr = job.src[i].desc.addr
             \/ /\ applied[j] = job.src[j]
                /\ Active(slots, j, p)
                /\ slots[j][p].endpoint.addr = job.src[i].desc.addr
    BY DEF Clashes
  <1>3. ASSUME applied[j] = job.src[j], Active(slots, j, p)
        PROVE  p \in job.src[j].desc.protos /\ slots[j][p].endpoint.addr = job.src[j].desc.addr
    <2>1. Keeps(slots, j, applied[j])
      BY <1>1 DEF AInv
    <2>2. Serving(slots, j)
      BY <1>3 DEF Serving
    <2>3. Holds(slots, j, applied[j])
      BY <2>1, <2>2 DEF Keeps
    <2> QED
      BY <1>3, <2>3 DEF Holds, Fits
  <1>4. p \in job.src[j].desc.protos /\ job.src[j].desc.addr = job.src[i].desc.addr
    BY <1>2, <1>3
  <1> QED
    BY <1>1, <1>2, <1>4 DEF ConflictFree, Wanted

(* What is desired for an id that had its turn serves. *)
BTurn(i) ==
    \/ /\ job'.todo = job.todo \ {i}
       /\ job'.desired[i] # None => Serving(slots', i)
    \/ /\ job'.todo = job.todo
       /\ Binding(job.plan, i)

(* Such a turn preserves the invariant. *)
LEMMA BTurnBInv ==
  ASSUME BInv, NEW i \in Ids, ATurn(i), UTurn(i), BTurn(i)
  PROVE  BInv'
  <1>1. /\ pc = "apply" /\ pc' = "apply" /\ job'.req = job.req /\ job'.plan = job.plan
        /\ applied' = applied
        /\ \A j \in Ids \ {i} : job'.desired[j] = job.desired[j] /\ slots'[j] = slots[j]
    BY DEF ATurn, UTurn
  <1>2. \A j \in Ids \ {i} : j \in job'.todo <=> j \in job.todo
    BY DEF BTurn
  <1>3. \A j \in Ids \ {i} : Serving(slots', j) <=> Serving(slots, j)
    BY <1>1 DEF Serving, Active
  <1>4. ASSUME NEW j \in Ids
        PROVE  /\ job'.plan[j] = "invalid" /\ j \in job'.todo => job'.desired[j] = None
               /\ j \in job'.todo /\ job'.plan[j] \in {"unchanged", "invalid"} =>
                    (applied'[j] # None => Serving(slots', j))
               /\ j \notin job'.todo => (job'.desired[j] # None => Serving(slots', j))
    <2>1. CASE j # i
      BY <1>1, <1>2, <1>3, <2>1 DEF BInv
    <2>2. CASE j = i
      BY <1>1, <2>2 DEF BTurn, ATurn, Binding
    <2> QED
      BY <2>1, <2>2
  <1> QED
    BY <1>1, <1>4 DEF BInv, Applying

(* Every turn is one. *)
LEMMA BTurns ==
  ASSUME OneProtocol, IInv, SInv, TInv, AInv, UInv, BInv, NEW i \in Ids,
         \/ ApplyUnchanged(i) \/ ApplyInvalid(i) \/ ApplyDelete(i)
         \/ ApplyBuilt(i) \/ RestoreReleased(i)
  PROVE  BTurn(i)
  <1>1. pc = "apply" /\ i \in job.todo /\ job \in JobType
    BY DEF ApplyUnchanged, ApplyInvalid, ApplyDelete, ApplyBuilt, RestoreReleased, Turn,
       TInv, Applying
  <1>2. RefreshSlots = slots
    BY AliveRefresh DEF UInv, SInv
  <1>3. \A S : KeptSource(S, i) # None => Serving(S, i)
    BY DEF KeptSource
  <1>4. CASE ApplyUnchanged(i)
    <2>1. /\ job'.todo = job.todo \ {i} /\ job'.desired = job.desired /\ slots' = slots
          /\ job.plan[i] = "unchanged"
      BY <1>1, <1>4, Zenon DEF JobType, ApplyUnchanged, managerVars
    <2>2. Serving(slots, i)
      BY <1>1, <2>1 DEF UInv
    <2> QED
      BY <2>1, <2>2 DEF BTurn
  <1>5. CASE ApplyInvalid(i)
    <2>1. /\ job.plan[i] = "invalid" /\ slots' = slots
          /\ job' = [job EXCEPT
                       !.todo = @ \ {i},
                       !.failed = TRUE,
                       !.desired[i] = IF ~Contains(slots, i) THEN None
                                      ELSE IF applied[i] # None THEN applied[i] ELSE @]
      BY <1>5 DEF ApplyInvalid, managerVars
    <2>2. job'.todo = job.todo \ {i}
      BY <1>1, <2>1, Zenon DEF JobType
    <2>3. job'.desired[i] \in {None, applied[i], job.desired[i]}
      BY <1>1, <2>1 DEF JobType
    <2>4. job.desired[i] = None /\ (applied[i] # None => Serving(slots, i))
      BY <1>1, <2>1 DEF BInv
    <2> QED
      BY <2>1, <2>2, <2>3, <2>4 DEF BTurn
  <1>6. CASE ApplyDelete(i)
    <2>1. job' = [job EXCEPT !.todo = @ \ {i}, !.desired[i] = None]
      BY <1>6 DEF ApplyDelete
    <2>2. job'.todo = job.todo \ {i} /\ job'.desired[i] = None
      BY <1>1, <2>1 DEF JobType
    <2> QED
      BY <2>2 DEF BTurn
  <1>7. CASE ApplyBuilt(i)
    <2>1. PICK q \in Protos : BuiltOutcome(i, q)
      BY <1>7, BuiltResult
    <2>2. CASE /\ Success(RefreshSlots, i, q, job.built[i], slots'[i][q])
               /\ job' = [job EXCEPT !.todo = @ \ {i}]
      <3>1. job'.todo = job.todo \ {i}
        BY <1>1, <2>2 DEF JobType
      <3>2. Serving(slots', i)
        BY <2>2 DEF Success, Bound, Stayed, Serving, Active
      <3> QED
        BY <3>1, <3>2 DEF BTurn
    <2>3. CASE job' = [job EXCEPT !.failed = TRUE, !.restoring = TRUE]
      <3>1. job'.todo = job.todo /\ Binding(job.plan, i)
        BY <1>1, <1>7, <2>3, Zenon DEF JobType, ApplyBuilt
      <3> QED
        BY <3>1 DEF BTurn
    <2>4. CASE job' = [job EXCEPT !.failed = TRUE, !.todo = @ \ {i},
                                  !.desired[i] = KeptSource(slots', i)]
      <3>1. job'.todo = job.todo \ {i} /\ job'.desired[i] = KeptSource(slots', i)
        BY <1>1, <2>4 DEF JobType
      <3> QED
        BY <1>3, <3>1 DEF BTurn
    <2> QED
      BY <2>1, <2>2, <2>3, <2>4 DEF BuiltOutcome
  <1>8. CASE RestoreReleased(i)
    <2>1. job' = [job EXCEPT !.restoring = FALSE, !.todo = @ \ {i},
                             !.desired[i] = KeptSource(slots', i)]
      BY <1>8 DEF RestoreReleased
    <2>2. job'.todo = job.todo \ {i} /\ job'.desired[i] = KeptSource(slots', i)
      BY <1>1, <2>1 DEF JobType
    <2> QED
      BY <1>3, <2>2 DEF BTurn
  <1> QED
    BY <1>4, <1>5, <1>6, <1>7, <1>8

(* A step that changes no slot, no job and nothing applied. *)
LEMMA SameBInv ==
  ASSUME BInv, UNCHANGED <<slots, pc, job, applied>>
  PROVE  BInv'
  BY DEF BInv

(* Every step preserves BInv. *)
LEMMA NextBInv ==
  ASSUME OneProtocol, Env \cap {"exit", "dup", "clash"} = {}, ConflictFree(Static)
  PROVE  IInv /\ SInv /\ TInv /\ AInv /\ UInv /\ BInv /\ [Next]_vars => BInv'
  <1> SUFFICES ASSUME IInv, SInv, TInv, AInv, UInv, BInv, [Next]_vars PROVE BInv'
    OBVIOUS
  <1>0. RefreshSlots = slots /\ file \in Materials
    BY AliveRefresh DEF UInv, SInv, TInv, TypeOK
  <1>1. CASE Submission
    <2>1. PICK g \in Gens, want \in Desired : 
            /\ "clash" \in Env \/ ConflictFree(want)
            /\ \E again \in IF "dup" \in Env THEN SUBSET Wanted(want) ELSE {{}} :
                 Submit(g, want, again)
      BY <1>1 DEF Submission
    <2>2. ConflictFree(want) /\ Submit(g, want, {})
      BY <2>1
    <2>3. pc = "idle" /\ pc' = "plan" /\ slots' = slots /\ applied' = applied
      BY <2>2 DEF Submit, managerVars, reconcilerVars
    <2>4. job'.req.want = want /\ job'.req.again = {}
      BY <1>0, <2>2, StartedJob, Zenon DEF Submit
    <2> QED
      BY <2>2, <2>3, <2>4 DEF BInv
  <1>2. CASE PlanGeneration
    <2>1. PICK ok : PlanOutcome(ok)
      BY <1>2, PlanResult
    <2>2. /\ pc = "plan" /\ pc' = "release" /\ slots' = slots /\ applied' = applied
          /\ job'.req = job.req
      BY <1>2, <2>1 DEF PlanGeneration, managerVars, reconcilerVars, PlanOutcome
    <2>3. ASSUME NEW i \in Ids, job'.plan[i] = "invalid" PROVE job'.desired[i] = None
      <3>1. i \in ok => ~Clashes(i, ok)
        BY <2>1, <2>2, NoClash DEF BInv, Applying, PlanOutcome
      <3>2. i \notin job.req.again
        BY <2>2 DEF BInv, Applying
      <3> QED
        BY <2>1, <2>3, <3>1, <3>2 DEF PlanOutcome, PlannedAs
    <2> QED
      BY <2>2, <2>3 DEF BInv, Applying
  <1>3. CASE Release
    <2>1. /\ pc = "release" /\ pc' = "apply" /\ job \in JobType /\ applied' = applied
      BY <1>3 DEF Release, TInv, Applying, reconcilerVars
    <2>2. /\ job'.req = job.req /\ job'.plan = job.plan /\ job'.desired = job.desired
          /\ job'.todo = {i \in Ids : job.plan[i] # "none"}
      BY <1>3, <2>1 DEF Release, JobType
    <2>3. ASSUME NEW i \in Ids, job.plan[i] \in {"unchanged", "invalid"}, applied[i] # None
          PROVE  Serving(slots', i)
      <3>1. \A p \in Protos : <<i, p>> \notin ReleasedSlots
        BY <2>3 DEF ReleasedSlots, Leaving
      <3>2. \A p \in Protos : slots'[i][p] = slots[i][p]
        BY <1>3, <3>1, ReleaseThinner, Zenon DEF SInv
      <3> QED
        BY <2>1, <2>3, <3>2 DEF BInv, Serving, Active
    <2>4. ASSUME NEW i \in Ids, job.plan[i] = "none" PROVE job.desired[i] = None
      BY <2>1, <2>4 DEF AInv, Planned
    <2>5. ASSUME NEW i \in Ids, job.plan[i] = "invalid" PROVE job.desired[i] = None
      BY <2>1, <2>5 DEF BInv
    <2>6. job.req.again = {} /\ ConflictFree(job.req.want)
      BY <2>1 DEF BInv, Applying
    <2> QED
      BY <2>1, <2>2, <2>3, <2>4, <2>5, <2>6 DEF BInv, Applying
  <1>4. CASE Commit
    BY <1>4 DEF Commit, managerVars, BInv, Applying
  <1>5. CASE Persist
    BY <1>5 DEF Persist, managerVars, reconcilerVars, BInv, Applying
  <1>6. ASSUME NEW i \in Ids,
               \/ ApplyUnchanged(i) \/ ApplyInvalid(i) \/ ApplyDelete(i)
               \/ ApplyBuilt(i) \/ RestoreReleased(i)
        PROVE  BInv'
    BY <1>6, ATurns, UTurns, BTurns, BTurnBInv
  <1>7. CASE Boot
    <2>1. pc = "down" /\ slots' = slots /\ applied' = applied
      BY <1>7 DEF Boot, managerVars, reconcilerVars
    <2>2. CASE pc' = "restore"
      BY <2>1, <2>2 DEF BInv, Applying
    <2>3. CASE pc' = "plan"
      <3>1. \E u : job' = NewJob(Request(0, Static, {}), Refresh(Static), u)
        BY <1>7, <2>3 DEF Boot
      <3>2. job'.req.want = Static /\ job'.req.again = {}
        BY <1>0, <3>1, StartedJob, StaticIsDesired, Zenon
      <3> QED
        BY <2>1, <2>3, <3>2 DEF BInv
    <2> QED
      BY <1>7, <2>2, <2>3 DEF Boot
  <1>8. ASSUME NEW i \in Ids, RestoreOne(i) PROVE BInv'
    <2>1. pc = "restore" /\ pc' = "restore" /\ i \in job.todo
      BY <1>8, RevivedResult
    <2>2. applied \in Sources /\ applied[i] = None
      BY <2>1 DEF AInv, IInv, StateInv
    <2>3. ASSUME NEW j \in Ids, applied'[j] # None PROVE Serving(slots', j)
      <3>1. CASE slots' = slots /\ applied' = applied
        BY <2>1, <2>3, <3>1 DEF BInv
      <3>2. ASSUME NEW q \in Protos, Revived(i, q) PROVE Serving(slots', j)
        <4>1. CASE j = i
          <5>1. Success(slots, i, q, Build(Refreshed(job.src[i], file), file), slots'[i][q])
            BY <1>0, <2>2, <2>3, <3>2, <4>1 DEF Revived
          <5> QED
            BY <4>1, <5>1 DEF Success, Bound, Stayed, Serving, Active
        <4>2. CASE j # i
          <5>1. applied'[j] = applied[j] /\ slots'[j] = slots[j]
            BY <1>0, <2>2, <3>2, <4>2 DEF Revived, Sources, Placed
          <5> QED
            BY <2>1, <2>3, <5>1 DEF BInv, Serving, Active
        <4> QED
          BY <4>1, <4>2
      <3> QED
        BY <1>8, <3>1, <3>2, RevivedResult
    <2> QED
      BY <2>1, <2>3 DEF BInv, Applying
  <1>9. CASE RestoreDone
    BY <1>9 DEF RestoreDone, managerVars, BInv, Applying
  <1>10. CASE Crash
    BY <1>10 DEF Crash, BInv, NoSources, Applying
  <1>11. CASE Status \/ Rotate \/ UNCHANGED vars
    BY <1>0, <1>11, SameBInv
       DEF Status, StatusRefresh, Rotate, vars, managerVars, reconcilerVars
  <1>12. CASE Environment
    BY <1>12, SameBInv DEF Environment, TaskExit, DrainEnds, reconcilerVars
  <1> QED
    BY <1>1, <1>2, <1>3, <1>4, <1>5, <1>6, <1>7, <1>8, <1>9, <1>10, <1>11, <1>12
       DEF Next, Generation, Startup

(* What is applied serves, from the first boot on. *)
LEMMA BInvariance ==
  ASSUME OneProtocol, Env \cap {"exit", "dup", "clash"} = {}, ConflictFree(Static)
  PROVE  Spec => [](IInv /\ SInv /\ TInv /\ AInv /\ UInv /\ BInv)
  <1>1. Init => BInv
    BY DEF Init, BInv, NoSources, Applying
  <1>2. "exit" \notin Env
    OBVIOUS
  <1>3. Spec => [](IInv /\ SInv /\ TInv /\ AInv /\ UInv)
    BY <1>2, UInvariance
  <1>4. IInv /\ SInv /\ TInv /\ AInv /\ UInv /\ BInv /\ [Next]_vars => BInv'
    BY NextBInv
  <1> QED
    BY <1>1, <1>3, <1>4, PTL DEF Spec

(* Then what is applied for an id is all that serves it, and serves it in full. *)
LEMMA AppliedServes ==
  ASSUME OneProtocol, OneWeight, IInv, SInv, AInv, BInv, pc # "apply", NEW i \in Ids
  PROVE  /\ applied[i] = None => ~Serving(slots, i)
         /\ applied[i] # None => Serves(i, applied[i].desc)
  <1>1. Keeps(slots, i, applied[i])
    BY DEF AInv
  <1>2. ASSUME applied[i] # None PROVE Serves(i, applied[i].desc)
    <2>1. applied[i] \in Source
      BY <1>2 DEF IInv, StateInv, Sources, Option
    <2>2. Serving(slots, i)
      BY <1>2 DEF BInv
    <2> QED
      BY <1>1, <1>2, <2>1, <2>2, HeldIsServed DEF Keeps, SInv, AInv
  <1> QED
    BY <1>1, <1>2 DEF Keeps

(* The applied set, from which the next generation is diffed and the snapshot is
   written, is what the manager serves: whatever bind, build, refresh or write
   failed on the way, and across crashes. *)
THEOREM AppliedIsServing ==
  ASSUME OneProtocol, OneWeight, Env \cap {"exit", "dup", "clash"} = {},
         ConflictFree(Static)
  PROVE  Spec => []AppliedMatchesServing
  <1>1. IInv /\ SInv /\ AInv /\ BInv => AppliedMatchesServing
    BY AppliedServes DEF AppliedMatchesServing
  <1> QED
    BY <1>1, BInvariance, PTL

-------------------------------------------------------------------------------
(* FInv: what nothing interferes with is applied in full. *)

(* What apply leaves stays on addresses of its own. *)
LEMMA PlacedApart ==
  ASSUME Sound(slots), Alive(slots), Apart(slots), NEW i \in Ids, NEW q \in Protos, NEW b,
         Placed(slots, i, q),
         \/ Success(slots, i, q, b, slots'[i][q])
         \/ Failure(slots, i, q, b, slots'[i][q])
  PROVE  Apart(slots')
  <1> DEFINE At(S, j, a) == Active(S, j, "tcp") /\ S[j]["tcp"].endpoint.addr = a
  <1>1. ASSUME NEW j \in Ids \ {i}, NEW a, At(slots', j, a) PROVE At(slots, j, a)
    BY <1>1 DEF Placed, Active
  <1>2. ASSUME NEW a, At(slots', i, a)
        PROVE  At(slots, i, a) \/ ~Taken(slots, i, "tcp", a)
    <2>1. q = "tcp"
      BY <1>2 DEF Placed, Active, Protos
    <2>2. Bound(slots, i, q, b, slots'[i][q]) \/ Stayed(slots, i, q, slots'[i][q])
      BY <1>2, <2>1 DEF Success, Failure, Active
    <2> QED
      BY <1>2, <2>1, <2>2 DEF Bound, Stayed
  <1>3. ASSUME NEW j \in Ids \ {i}, NEW a, At(slots, j, a)
        PROVE  Taken(slots, i, "tcp", a)
    <2>1. slots[j]["tcp"].active.endpoint.addr = a /\ slots[j]["tcp"].active.alive
      BY <1>3 DEF Sound, Describing, Active, Alive, Protos
    <2> QED
      BY <1>3, <2>1 DEF Taken
  <1>4. ASSUME NEW j \in Ids, NEW k \in Ids, NEW a, At(slots', j, a), At(slots', k, a),
               j # k
        PROVE  FALSE
    <2>1. CASE j # i /\ k # i
      BY <1>1, <1>4, <2>1, Zenon DEF Apart
    <2>2. CASE j = i
      <3>1. At(slots, k, a) /\ Taken(slots, i, "tcp", a)
        BY <1>1, <1>3, <1>4, <2>2
      <3>2. At(slots, i, a)
        BY <1>2, <1>4, <2>2, <3>1
      <3> QED
        BY <1>4, <2>2, <3>1, <3>2 DEF Apart
    <2>3. CASE k = i
      <3>1. At(slots, j, a) /\ Taken(slots, i, "tcp", a)
        BY <1>1, <1>3, <1>4, <2>3
      <3>2. At(slots, i, a)
        BY <1>2, <1>4, <2>3, <3>1
      <3> QED
        BY <1>4, <2>3, <3>1, <3>2 DEF Apart
    <2> QED
      BY <2>1, <2>2, <2>3
  <1> QED
    BY <1>4 DEF Apart

(* Fewer listeners stay apart ... *)
LEMMA ThinnerApart ==
  ASSUME Sound(slots), Sound(slots'), Thinner(slots, slots')
  PROVE  Apart(slots) => Apart(slots')
  BY DEF Thinner, Apart, Protos

(* ... and take no other address. *)
LEMMA ThinnerTaken ==
  ASSUME Sound(slots), Sound(slots'), Alive(slots), Thinner(slots, slots'),
         NEW i \in Ids, NEW a, Taken(slots', i, "tcp", a)
  PROVE  Taken(slots, i, "tcp", a)
  <1>1. PICK j \in Ids \ {i} : /\ Active(slots', j, "tcp")
                               /\ slots'[j]["tcp"].active.endpoint.addr = a
    BY DEF Taken
  <1>2. Active(slots, j, "tcp") /\ slots[j]["tcp"].endpoint = slots'[j]["tcp"].endpoint
    BY <1>1 DEF Thinner, Protos
  <1>3. /\ slots'[j]["tcp"].endpoint = slots'[j]["tcp"].active.endpoint
        /\ slots[j]["tcp"].endpoint = slots[j]["tcp"].active.endpoint
    BY <1>1, <1>2 DEF Sound, Describing, Active, Protos
  <1>4. slots[j]["tcp"].active.alive
    BY <1>2 DEF Alive, Protos
  <1> QED
    BY <1>1, <1>2, <1>3, <1>4 DEF Taken

(* The sources of two ids do not meet when their declarations do not. *)
LEMMA NoMeeting ==
  ASSUME AInv, pc \in Applying, ConflictFree(job.req.want),
         NEW i \in Ids, NEW j \in Ids, job.src[i] # None, job.src[j] # None, i # j,
         NEW p, p \in job.src[i].desc.protos, p \in job.src[j].desc.protos
  PROVE  job.src[i].desc.addr # job.src[j].desc.addr
  <1>1. ASSUME NEW k \in Ids, job.src[k] # None
        PROVE  k \in Wanted(job.req.want) /\ job.src[k].desc = job.req.want[k]
    <2>1. SourceOf(k)
      BY DEF AInv
    <2>2. job.req.want[k] # None /\ job.src[k] = Refreshed(job.req.want[k], job.file)
      BY <1>1, <2>1 DEF SourceOf
    <2> QED
      BY <2>2 DEF Wanted, Refreshed
  <1>2. /\ i \in Wanted(job.req.want) /\ job.src[i].desc = job.req.want[i]
        /\ j \in Wanted(job.req.want) /\ job.src[j].desc = job.req.want[j]
    BY <1>1
  <1> QED
    BY <1>2 DEF ConflictFree

(* Releasing frees every address that is about to be bound. *)
LEMMA ReleaseFrees ==
  ASSUME SInv, SInv', AInv, UInv, Release, Apart(slots), ConflictFree(job.req.want),
         \A j \in Ids : job.plan[j] # "invalid", job \in JobType,
         NEW i \in Ids, Binding(job.plan, i), "tcp" \in job.built[i].protos
  PROVE  ~Taken(slots', i, "tcp", job.built[i].endpoint.addr)
  <1> DEFINE a == job.built[i].endpoint.addr
  <1>1. pc = "release" /\ pc \in Applying /\ "tcp" \in Protos
    BY DEF Release, Applying, Protos
  <1>2. a \in Addrs
    BY <1>1 DEF SInv, PlanInv, EndpointSpec, Endpoint
  <1>3. /\ job.src[i] # None /\ "tcp" \in job.src[i].desc.protos
        /\ job.src[i].desc.addr = a
    BY <1>1 DEF AInv, BuiltOf, Fits
  <1> SUFFICES ASSUME NEW j \in Ids \ {i}, Active(slots', j, "tcp"),
                      slots'[j]["tcp"].active.endpoint.addr = a
               PROVE  FALSE
    BY DEF Taken
  <1>4. <<j, "tcp">> \notin ReleasedSlots /\ slots'[j]["tcp"] = slots[j]["tcp"]
    BY <1>1, ReleaseThinner DEF SInv
  <1>5. Active(slots, j, "tcp") /\ slots[j]["tcp"].endpoint.addr = a
    BY <1>1, <1>4 DEF Active, SInv, Sound, Describing
  <1>6. Serving(slots, j) /\ Contains(slots, j)
    BY <1>1, <1>5 DEF Serving, Contains, Active
  <1>7. ~Active(slots, i, "tcp") \/ slots[i]["tcp"].endpoint.addr # a
    BY <1>5 DEF Apart
  <1>8. <<a, "tcp">> \in WantedAddrs
    BY <1>1, <1>2, <1>7 DEF WantedAddrs
  <1>9. ~Leaving(j)
    BY <1>1, <1>4, <1>5, <1>8 DEF ReleasedSlots
  <1>10. Keeps(slots, j, applied[j]) /\ Planned(j) /\ BuiltOf(j)
    BY <1>1 DEF AInv
  <1>11. CASE job.plan[j] = "none"
    BY <1>1, <1>6, <1>10, <1>11 DEF Planned, SInv, PlanInv, Undeclared
  <1>12. CASE job.plan[j] = "start"
    BY <1>6, <1>10, <1>12 DEF Planned, Keeps
  <1>13. CASE job.plan[j] = "unchanged"
    <2>1. Holds(slots, j, applied[j]) /\ applied[j] = job.src[j] /\ job.src[j] # None
      BY <1>6, <1>10, <1>13 DEF Planned, Keeps
    <2>2. "tcp" \in job.src[j].desc.protos /\ job.src[j].desc.addr = a
      BY <1>1, <1>5, <2>1 DEF Holds, Fits
    <2> QED
      BY <1>1, <1>3, <2>1, <2>2, NoMeeting
  <1>14. CASE job.plan[j] = "delete"
    BY <1>9, <1>14 DEF Leaving
  <1>15. CASE job.plan[j] = "replace"
    <2>1. job.built[j].endpoint.addr = a /\ "tcp" \in job.built[j].protos
      BY <1>1, <1>5, <1>9, <1>15 DEF Leaving
    <2>2. /\ job.src[j] # None /\ "tcp" \in job.src[j].desc.protos
          /\ job.src[j].desc.addr = a
      BY <1>10, <1>15, <2>1 DEF BuiltOf, Binding, Fits
    <2> QED
      BY <1>1, <1>3, <2>2, NoMeeting
  <1>16. job.plan[j] \in PlanKinds
    BY DEF JobType
  <1> QED
    BY <1>11, <1>12, <1>13, <1>14, <1>15, <1>16 DEF PlanKinds

(* A turn that reports nothing puts nobody on an address that is still to be
   bound. *)
FTurn(i) ==
    /\ hostile' = hostile
    /\ Apart(slots')
    /\ Unhindered =>
         /\ job'.failed = job.failed
         /\ ~job'.restoring
         /\ job'.todo = job.todo \ {i}
         /\ \A k \in job.todo \ {i} :
              Binding(job.plan, k) /\ "tcp" \in job.built[k].protos =>
                ~Taken(slots', k, "tcp", job.built[k].endpoint.addr)

(* Such a turn preserves the invariant. *)
LEMMA FTurnFInv ==
  ASSUME FInv, NEW i \in Ids, ATurn(i), FTurn(i)
  PROVE  FInv'
  <1>1. /\ pc = "apply" /\ pc' = "apply" /\ job'.req = job.req /\ job'.plan = job.plan
        /\ job'.built = job.built
    BY DEF ATurn
  <1>2. Unhindered' => Unhindered
    BY <1>1 DEF Unhindered, FTurn
  <1> QED
    BY <1>1, <1>2 DEF FInv, FTurn

(* Every turn is one. *)
LEMMA FTurns ==
  ASSUME OneProtocol, IInv, SInv, SInv', TInv, AInv, UInv, FInv, NEW i \in Ids,
         \/ ApplyUnchanged(i) \/ ApplyInvalid(i) \/ ApplyDelete(i)
         \/ ApplyBuilt(i) \/ RestoreReleased(i)
  PROVE  FTurn(i)
  <1>1. /\ pc = "apply" /\ i \in job.todo /\ job \in JobType /\ hostile' = hostile
        /\ pc \in Applying
    BY DEF ApplyUnchanged, ApplyInvalid, ApplyDelete, ApplyBuilt, RestoreReleased, Turn,
       TInv, Applying
  <1>2. /\ RefreshSlots = slots /\ Alive(slots) /\ Sound(slots) /\ Sound(slots')
        /\ Apart(slots)
    BY AliveRefresh DEF UInv, SInv, FInv
  <1>3. ASSUME Unhindered
        PROVE  /\ ~job.restoring
               /\ job.plan[i] # "invalid"
               /\ \A k \in job.todo :
                    Binding(job.plan, k) /\ "tcp" \in job.built[k].protos =>
                      ~Taken(slots, k, "tcp", job.built[k].endpoint.addr)
    BY <1>1, <1>3 DEF FInv
  <1>4. ASSUME Thinner(slots, slots'), job'.failed = job.failed,
               job'.restoring = job.restoring, job'.todo = job.todo \ {i}
        PROVE  FTurn(i)
    <2>1. Apart(slots')
      BY <1>2, <1>4, ThinnerApart
    <2>2. job.todo \subseteq Ids
      BY <1>1 DEF JobType
    <2> QED
      BY <1>1, <1>2, <1>3, <1>4, <2>1, <2>2, ThinnerTaken DEF FTurn
  <1>5. CASE ApplyUnchanged(i)
    <2>1. job' = [job EXCEPT !.todo = @ \ {i}] /\ slots' = slots
      BY <1>5 DEF ApplyUnchanged, managerVars
    <2>2. /\ job'.failed = job.failed /\ job'.restoring = job.restoring
          /\ job'.todo = job.todo \ {i}
      BY <1>1, <2>1 DEF JobType
    <2> QED
      BY <1>4, <2>1, <2>2, SameThinner
  <1>6. CASE ApplyInvalid(i)
    BY <1>1, <1>2, <1>3, <1>6, Zenon DEF ApplyInvalid, managerVars, FTurn
  <1>7. CASE ApplyDelete(i)
    <2>1. job' = [job EXCEPT !.todo = @ \ {i}, !.desired[i] = None]
      BY <1>7 DEF ApplyDelete
    <2>2. /\ job'.failed = job.failed /\ job'.restoring = job.restoring
          /\ job'.todo = job.todo \ {i}
      BY <1>1, <2>1, Zenon DEF JobType
    <2>3. /\ ~Contains(slots', i)
          /\ \A j \in Ids \ {i} : slots'[j] = slots[j]
      BY <1>2, <1>7, RemoveEffectSound DEF ApplyDelete
    <2>4. Thinner(slots, slots')
      BY <2>3 DEF Thinner, Contains, Active
    <2> QED
      BY <1>4, <2>2, <2>4
  <1>8. CASE ApplyBuilt(i)
    <2>1. PICK q \in Protos : BuiltOutcome(i, q)
      BY <1>8, BuiltResult
    <2>2. Apart(slots')
      BY <1>2, <2>1, PlacedApart DEF BuiltOutcome
    <2>3. ASSUME Unhindered
          PROVE  ~Failure(slots, i, q, job.built[i], slots'[i][q])
      <3>1. Binding(job.plan, i) /\ q \in job.built[i].protos /\ ~hostile
        BY <1>8, <2>1, <2>3 DEF ApplyBuilt, BuiltOutcome, Unhindered
      <3>2. ~Taken(slots, i, q, job.built[i].endpoint.addr)
        BY <1>1, <1>3, <2>3, <3>1 DEF Taken
      <3> QED
        BY <3>1, <3>2 DEF Failure
    <2>4. ASSUME Unhindered
          PROVE  /\ Success(slots, i, q, job.built[i], slots'[i][q])
                 /\ job'.failed = job.failed /\ job'.restoring = job.restoring
                 /\ job'.todo = job.todo \ {i}
      <3>1. /\ Success(slots, i, q, job.built[i], slots'[i][q])
            /\ job' = [job EXCEPT !.todo = @ \ {i}]
        BY <1>2, <2>1, <2>3, <2>4 DEF BuiltOutcome
      <3> QED
        BY <1>1, <3>1 DEF JobType
    <2>5. ASSUME Unhindered, NEW k \in job.todo \ {i}, Binding(job.plan, k),
                 "tcp" \in job.built[k].protos,
                 Taken(slots', k, "tcp", job.built[k].endpoint.addr)
          PROVE  FALSE
      <3>1. k \in Ids
        BY <1>1 DEF JobType
      <3>2. PICK j \in Ids \ {k} :
              /\ Active(slots', j, "tcp")
              /\ slots'[j]["tcp"].active.alive
              /\ slots'[j]["tcp"].active.endpoint.addr = job.built[k].endpoint.addr
        BY <2>5 DEF Taken
      <3>3. CASE j # i
        <4>1. slots'[j] = slots[j]
          BY <1>2, <2>1, <3>3 DEF BuiltOutcome, Placed
        <4> QED
          BY <1>3, <2>5, <3>2, <4>1 DEF Taken, Active
      <3>4. CASE j = i
        <4>1. q = "tcp"
          BY <2>1, <3>2, <3>4 DEF BuiltOutcome, Placed, Active, Protos
        <4>2. slots'[i]["tcp"].endpoint.addr = job.built[i].endpoint.addr
          BY <2>4, <2>5, <4>1 DEF Success, Bound, Stayed, EndpointUnchanged
        <4>3. job.built[i].endpoint.addr = job.built[k].endpoint.addr
          BY <1>2, <3>2, <3>4, <4>1, <4>2 DEF Sound, Describing, Active
        <4>4. /\ job.src[i] # None /\ "tcp" \in job.src[i].desc.protos
              /\ job.src[i].desc.addr = job.built[i].endpoint.addr
          BY <1>1, <1>8, <2>1, <4>1 DEF AInv, BuiltOf, Fits, BuiltOutcome, ApplyBuilt
        <4>5. /\ job.src[k] # None /\ "tcp" \in job.src[k].desc.protos
              /\ job.src[k].desc.addr = job.built[k].endpoint.addr
          BY <1>1, <2>5, <3>1, Zenon DEF AInv, BuiltOf, Fits
        <4> QED
          BY <1>1, <2>5, <3>1, <4>3, <4>4, <4>5, NoMeeting DEF Unhindered
      <3> QED
        BY <3>3, <3>4
    <2> QED
      BY <1>1, <1>3, <2>2, <2>4, <2>5 DEF FTurn
  <1>9. CASE RestoreReleased(i)
    <2>1. job.restoring
      BY <1>9 DEF RestoreReleased
    <2>2. Apart(slots')
      <3>1. ASSUME NEW q \in Protos, PutBack(i, q) PROVE Apart(slots')
        BY <1>2, <3>1, PlacedApart DEF PutBack
      <3> QED
        BY <1>2, <1>9, <3>1, PutBackResult
    <2> QED
      BY <1>1, <1>3, <2>1, <2>2 DEF FTurn
  <1> QED
    BY <1>5, <1>6, <1>7, <1>8, <1>9

(* A step that changes no slot, no job and nothing the environment may do. *)
LEMMA SameFInv ==
  ASSUME FInv, UNCHANGED <<slots, pc, job, hostile>>
  PROVE  FInv'
  BY DEF FInv, Unhindered, Apart

(* Every step preserves FInv. *)
LEMMA NextFInv ==
  ASSUME OneProtocol, "exit" \notin Env
  PROVE  IInv /\ SInv /\ TInv /\ AInv /\ UInv /\ FInv /\ [Next]_vars => FInv'
  <1> SUFFICES ASSUME IInv, SInv, TInv, AInv, UInv, FInv, [Next]_vars PROVE FInv'
    OBVIOUS
  <1>0. /\ RefreshSlots = slots /\ file \in Materials /\ Sound(slots) /\ Alive(slots)
        /\ Apart(slots)
    BY AliveRefresh DEF UInv, SInv, TInv, TypeOK, FInv
  <1>a. SInv'
    BY NextSInv
  <1>b. \A want : Unrefreshable(FALSE, want) = {{}}
    BY DEF Unrefreshable
  <1>1. CASE Submission
    <2>1. PICK g \in Gens, want \in Desired : \E again : Submit(g, want, again)
      BY <1>1 DEF Submission
    <2>2. PICK again : Submit(g, want, again)
      BY <2>1
    <2>3. pc' = "plan" /\ slots' = slots
      BY <2>2 DEF Submit, managerVars
    <2>4. PICK u : /\ u \in Unrefreshable(hostile', want)
                   /\ job' = NewJob(Request(g, want, again), Refresh(want), u)
      BY <2>2 DEF Submit
    <2>5. job'.failed = FALSE /\ job'.unrefreshed = u
      BY <1>0, <2>4, StartedJob, Zenon
    <2>6. ~hostile' => u = {}
      BY <2>4 DEF Unrefreshable
    <2> QED
      BY <1>0, <2>3, <2>5, <2>6 DEF FInv, Unhindered
  <1>2. CASE PlanGeneration
    <2>1. PICK ok : PlanOutcome(ok)
      BY <1>2, PlanResult
    <2>2. /\ pc = "plan" /\ pc' = "release" /\ slots' = slots /\ hostile' = hostile
          /\ job'.req = job.req /\ job'.failed = job.failed
      BY <1>2, <2>1 DEF PlanGeneration, managerVars, PlanOutcome
    <2>3. ASSUME Unhindered', NEW i \in Ids PROVE job'.plan[i] # "invalid"
      <3>1. Unhindered
        BY <2>2, <2>3 DEF Unhindered, Applying
      <3>2. job.unrefreshed = {} /\ ~hostile /\ job.req.again = {} /\ ConflictFree(job.req.want)
        BY <2>2, <3>1 DEF FInv, Unhindered
      <3>3. ok = Wanted(job.req.want)
        BY <2>1, <3>2 DEF PlanOutcome
      <3>4. i \in ok => ~Clashes(i, ok)
        BY <2>2, <3>2, <3>3, NoClash
      <3>5. job'.plan[i] = "invalid" => i \in ok
        BY <1>a, <2>2, <3>3 DEF SInv, PlanInv, Wanted
      <3> QED
        BY <2>1, <3>2, <3>4, <3>5 DEF PlanOutcome, PlannedAs
    <2>4. Unhindered' => ~job'.failed
      BY <2>2 DEF FInv, Unhindered, Applying
    <2> QED
      BY <1>0, <2>2, <2>3, <2>4 DEF FInv
  <1>3. CASE Release
    <2>1. /\ pc = "release" /\ pc' = "apply" /\ job \in JobType /\ hostile' = hostile
          /\ pc \in Applying
      BY <1>3 DEF Release, TInv, Applying
    <2>2. /\ job'.req = job.req /\ job'.plan = job.plan /\ job'.built = job.built
          /\ job'.failed = job.failed /\ job'.restoring = job.restoring
          /\ job'.todo \subseteq Ids
      BY <1>3, <2>1 DEF Release, JobType
    <2>3. Apart(slots')
      BY <1>0, <1>3, <1>a, ReleaseThinner, ThinnerApart DEF SInv
    <2>4. ASSUME Unhindered' PROVE Unhindered
      BY <2>1, <2>2, <2>4 DEF Unhindered
    <2>5. ~job.restoring
      BY <2>1 DEF SInv, PlanInv
    <2>6. ASSUME Unhindered
          PROVE  ~job.failed /\ \A i \in Ids : job.plan[i] # "invalid"
      BY <2>1, <2>6 DEF FInv
    <2>7. ASSUME Unhindered, NEW i \in Ids, Binding(job.plan, i),
                 "tcp" \in job.built[i].protos
          PROVE  ~Taken(slots', i, "tcp", job.built[i].endpoint.addr)
      BY <1>0, <1>3, <1>a, <2>1, <2>6, <2>7, ReleaseFrees DEF Unhindered
    <2> QED
      BY <2>1, <2>2, <2>3, <2>4, <2>5, <2>6, <2>7 DEF FInv
  <1>4. CASE Commit
    BY <1>4 DEF Commit, managerVars, FInv, Unhindered, Applying
  <1>5. CASE Persist
    BY <1>5 DEF Persist, managerVars, FInv, Unhindered, Applying
  <1>6. ASSUME NEW i \in Ids,
               \/ ApplyUnchanged(i) \/ ApplyInvalid(i) \/ ApplyDelete(i)
               \/ ApplyBuilt(i) \/ RestoreReleased(i)
        PROVE  FInv'
    BY <1>6, <1>a, ATurns, FTurns, FTurnFInv
  <1>7. CASE Boot
    <2>1. slots' = slots
      BY <1>7 DEF Boot, managerVars
    <2>2. CASE pc' = "restore"
      BY <1>0, <2>1, <2>2 DEF FInv, Unhindered, Applying
    <2>3. CASE pc' = "plan"
      <3>1. PICK u : /\ u \in Unrefreshable(hostile', Static)
                     /\ job' = NewJob(Request(0, Static, {}), Refresh(Static), u)
        BY <1>7, <2>3 DEF Boot
      <3>2. job'.failed = FALSE /\ job'.unrefreshed = u
        BY <1>0, <3>1, StartedJob, StaticIsDesired, Zenon
      <3>3. ~hostile' => u = {}
        BY <3>1 DEF Unrefreshable
      <3> QED
        BY <1>0, <2>1, <2>3, <3>2, <3>3 DEF FInv, Unhindered
    <2> QED
      BY <1>7, <2>2, <2>3 DEF Boot
  <1>8. ASSUME NEW i \in Ids, RestoreOne(i) PROVE FInv'
    <2>1. pc' = "restore"
      BY <1>8, RevivedResult
    <2>2. Apart(slots')
      <3>1. ASSUME NEW q \in Protos, Revived(i, q) PROVE Apart(slots')
        BY <1>0, <3>1, PlacedApart DEF Revived
      <3> QED
        BY <1>0, <1>8, <3>1, RevivedResult
    <2> QED
      BY <2>1, <2>2 DEF FInv, Unhindered, Applying
  <1>9. CASE RestoreDone
    BY <1>9 DEF RestoreDone, managerVars, FInv, Unhindered, Applying
  <1>10. CASE Crash
    <2>1. Apart(slots')
      BY <1>10 DEF Crash, Apart, Active, Protos
    <2> QED
      BY <1>10, <2>1 DEF Crash, FInv, Unhindered, Applying
  <1>11. CASE Status \/ Rotate \/ UNCHANGED vars
    BY <1>0, <1>11, SameFInv DEF Status, StatusRefresh, Rotate, vars, managerVars
  <1>12. CASE Environment
    BY <1>12, SameFInv DEF Environment, TaskExit, DrainEnds
  <1> QED
    BY <1>1, <1>2, <1>3, <1>4, <1>5, <1>6, <1>7, <1>8, <1>9, <1>10, <1>11, <1>12
       DEF Next, Generation, Startup

(* An address about to be bound is free, from the first boot on. *)
LEMMA FInvariance ==
  ASSUME OneProtocol, "exit" \notin Env
  PROVE  Spec => [](IInv /\ SInv /\ TInv /\ AInv /\ UInv /\ FInv)
  <1>1. Init => FInv
    BY DEF Init, FInv, Unhindered, Applying, Apart, Active, Protos
  <1>2. Spec => [](IInv /\ SInv /\ TInv /\ AInv /\ UInv)
    BY UInvariance
  <1>3. IInv /\ SInv /\ TInv /\ AInv /\ UInv /\ FInv /\ [Next]_vars => FInv'
    BY NextFInv
  <1> QED
    BY <1>1, <1>2, <1>3, PTL DEF Spec

(* A generation that declares no address twice, and whose calls the environment
   does not fail, is applied in full: from whatever state failed generations,
   put back listeners and crashes left, and however its endpoints exchange their
   addresses.  release_contended_addresses is what this rests on. *)
THEOREM FaultFreeIsAppliedInFull ==
  ASSUME OneProtocol, "exit" \notin Env
  PROVE  Spec => []FaultFreeConverges
  <1>1. FInv => FaultFreeConverges
    BY DEF FInv, Unhindered, FaultFreeConverges
  <1> QED
    BY <1>1, FInvariance, PTL

-------------------------------------------------------------------------------
(* RInv: a restore that meets no fault brings back what the snapshot records. *)

(* What is applied on tcp is a listener on the address it declares. *)
LEMMA AppliedListens ==
  ASSUME OneProtocol, IInv, AInv, BInv, pc # "apply", NEW i \in Ids,
         applied[i] # None, "tcp" \in applied[i].desc.protos
  PROVE  Active(slots, i, "tcp") /\ slots[i]["tcp"].endpoint.addr = applied[i].desc.addr
  <1>1. Holds(slots, i, applied[i]) /\ Serving(slots, i)
    BY Zenon DEF AInv, Keeps, BInv
  <1>2. applied[i].desc \in Descs
    BY DEF IInv, StateInv, Sources, Option, Source
  <1>3. applied[i].desc.protos = {"tcp"}
    BY <1>2 DEF OneProtocol
  <1>4. PICK p \in Protos : Active(slots, i, p)
    BY <1>1 DEF Serving
  <1> QED
    BY <1>1, <1>3, <1>4 DEF Holds, Fits

(* So what is written declares no tcp address twice. *)
LEMMA WrittenDistinct ==
  ASSUME OneProtocol, IInv, AInv, BInv, FInv, pc = "persist"
  PROVE  Distinct(Written.endpoints)
  <1> DEFINE E == Written.endpoints
  <1>1. \A i \in Ids : E[i] = IF applied[i] = None THEN None ELSE applied[i].desc
    BY DEF Written
  <1> HIDE DEF E
  <1>2. ASSUME NEW i \in Wanted(E), "tcp" \in E[i].protos
        PROVE  /\ i \in Ids /\ Active(slots, i, "tcp")
               /\ slots[i]["tcp"].endpoint.addr = E[i].addr
    <2>1. i \in Ids /\ applied[i] # None /\ E[i] = applied[i].desc
      BY <1>1 DEF Wanted
    <2> QED
      BY <1>2, <2>1, AppliedListens
  <1> QED
    BY <1>2 DEF Distinct, FInv, Apart, E

(* Whoever listens during a restore that met no fault was restored, and listens
   on the address the snapshot has for it. *)
LEMMA RestoredListener ==
  ASSUME IInv, SInv, TInv, AInv, RInv, pc = "restore", ~hostile, NEW j \in Ids,
         Active(slots, j, "tcp")
  PROVE  /\ j \in Wanted(snapshot.endpoints)
         /\ "tcp" \in snapshot.endpoints[j].protos
         /\ slots[j]["tcp"].endpoint.addr = snapshot.endpoints[j].addr
  <1>1. "tcp" \in Protos /\ Keeps(slots, j, applied[j])
    BY DEF Protos, AInv
  <1>2. applied[j] # None /\ Holds(slots, j, applied[j])
    BY <1>1 DEF Keeps, Serving
  <1>3. j \notin job.todo
    BY <1>2 DEF AInv
  <1>4. Restored(j, snapshot.endpoints[j])
    BY <1>3 DEF RInv
  <1>5. snapshot.endpoints[j] # None /\ applied[j].desc = snapshot.endpoints[j]
    BY <1>2, <1>4 DEF Restored
  <1> QED
    BY <1>1, <1>2, <1>5 DEF Holds, Fits, Wanted

(* Restoring one endpoint. *)
LEMMA RestoreOneRInv ==
  ASSUME OneProtocol, IInv, SInv, TInv, AInv, UInv, RInv, NEW i \in Ids, RestoreOne(i)
  PROVE  RInv'
  <1>1. /\ pc = "restore" /\ pc' = "restore" /\ i \in job.todo
        /\ job'.todo = job.todo \ {i} /\ job'.src = job.src
        /\ hostile' = hostile /\ snapshot' = snapshot
    BY RevivedResult
  <1>2. RefreshSlots = slots /\ Sound(slots)
    BY AliveRefresh DEF UInv, SInv
  <1>3. /\ snapshot # None /\ job.src = snapshot.endpoints /\ Distinct(snapshot.endpoints)
        /\ job.src[i] # None /\ applied \in Sources
    BY <1>1 DEF RInv, IInv, JobInv, StateInv
  <1> DEFINE src == Refreshed(job.src[i], file)
  <1>4. src.desc = snapshot.endpoints[i]
    BY <1>3 DEF Refreshed
  <1>5. ASSUME ~hostile PROVE applied' = [applied EXCEPT ![i] = src]
    <2>1. PICK q \in Protos : Revived(i, q)
      BY <1>5, RevivedResult
    <2>2. ASSUME Failure(RefreshSlots, i, q, Build(src, file), slots'[i][q]) PROVE FALSE
      <3>1. Taken(slots, i, q, Build(src, file).endpoint.addr)
        BY <1>2, <1>5, <2>2 DEF Failure
      <3>2. q = "tcp" /\ src.desc.protos = {q}
        BY <2>1, <3>1 DEF Taken, Revived
      <3>3. PICK j \in Ids \ {i} : /\ Active(slots, j, "tcp")
                                   /\ slots[j]["tcp"].active.endpoint.addr = src.desc.addr
        BY <3>1, <3>2, BuildFits DEF Taken, Fits
      <3>4. slots[j]["tcp"].endpoint.addr = src.desc.addr
        BY <1>2, <3>3 DEF Sound, Describing, Active, Protos
      <3>5. /\ j \in Wanted(snapshot.endpoints) /\ "tcp" \in snapshot.endpoints[j].protos
            /\ snapshot.endpoints[j].addr = src.desc.addr
        BY <1>1, <1>5, <3>3, <3>4, RestoredListener
      <3>6. /\ i \in Wanted(snapshot.endpoints) /\ "tcp" \in snapshot.endpoints[i].protos
            /\ snapshot.endpoints[i].addr = src.desc.addr
        BY <1>3, <1>4, <3>2 DEF Wanted
      <3> QED
        BY <1>3, <3>3, <3>5, <3>6 DEF Distinct
    <2> QED
      BY <2>1, <2>2 DEF Revived
  <1>6. ASSUME ~hostile, NEW j \in Ids \ job'.todo
        PROVE  Restored(j, snapshot.endpoints[j])'
    <2> HIDE DEF src
    <2>1. CASE j = i
      <3>1. applied'[i] = src
        BY <1>3, <1>5, <1>6 DEF Sources
      <3>2. src # None
        BY <1>3, <1>6, RevivedResult, NoneIsNoSpec DEF Revived, src
      <3> QED
        BY <1>1, <1>3, <1>4, <2>1, <3>1, <3>2 DEF Restored
    <2>2. CASE j # i
      <3>1. applied'[j] = applied[j]
        BY <1>3, <1>5, <1>6, <2>2 DEF Sources
      <3>2. Restored(j, snapshot.endpoints[j])
        BY <1>1, <1>6, <2>2 DEF RInv
      <3> QED
        BY <1>1, <3>1, <3>2 DEF Restored
    <2> QED
      BY <2>1, <2>2
  <1> QED
    BY <1>1, <1>3, <1>6 DEF RInv

(* Every step preserves RInv. *)
LEMMA NextRInv ==
  ASSUME OneProtocol, Env \cap {"exit", "dup", "clash"} = {}, ConflictFree(Static)
  PROVE  IInv /\ SInv /\ TInv /\ AInv /\ UInv /\ BInv /\ FInv /\ RInv /\ [Next]_vars
           => RInv'
  <1> SUFFICES ASSUME IInv, SInv, TInv, AInv, UInv, BInv, FInv, RInv, [Next]_vars
               PROVE  RInv'
    OBVIOUS
  <1>1. ASSUME pc' \notin {"restore", "idle"}, snapshot' = snapshot PROVE RInv'
    BY <1>1 DEF RInv
  <1>2. CASE Submission
    BY <1>1, <1>2 DEF Submission, Submit
  <1>3. CASE PlanGeneration \/ Release \/ Commit
    BY <1>1, <1>3, Zenon DEF PlanGeneration, Release, Commit
  <1>4. ASSUME NEW i \in Ids,
               \/ ApplyUnchanged(i) \/ ApplyInvalid(i) \/ ApplyDelete(i)
               \/ ApplyBuilt(i) \/ RestoreReleased(i)
        PROVE  RInv'
    BY <1>1, <1>4
       DEF ApplyUnchanged, ApplyInvalid, ApplyDelete, ApplyBuilt, RestoreReleased, Turn
  <1>5. CASE Persist
    <2>1. pc = "persist" /\ pc' = "idle" /\ last' = last
      BY <1>5 DEF Persist, reconcilerVars
    <2>2. last # None
      <3>1. last = [req |-> job.req, file |-> job.file, partial |-> job.failed]
        BY <2>1 DEF AInv
      <3>2. job \in JobType
        BY <2>1 DEF TInv
      <3>3. last \in Answers
        BY <3>1, <3>2, Zenon DEF JobType, Answers
      <3> QED
        BY <3>3, NoneIsNoAnswer
    <2>3. snapshot' # None => Distinct(snapshot'.endpoints)
      BY <1>5, <2>1, WrittenDistinct DEF Persist, RInv
    <2> QED
      BY <2>1, <2>2, <2>3 DEF RInv
  <1>6. CASE Boot
    <2>1. pc = "down" /\ applied' = applied /\ snapshot' = snapshot
      BY <1>6 DEF Boot, reconcilerVars
    <2>2. CASE pc' = "plan"
      BY <1>1, <2>1, <2>2
    <2>3. CASE pc' = "restore"
      <3> DEFINE new == NewJob(Request(snapshot.gen, NoSources, {}), snapshot.endpoints, {})
      <3>1. /\ snapshot # None
            /\ job' = [new EXCEPT !.todo = Wanted(snapshot.endpoints),
                                  !.failed = snapshot.partial]
        BY <1>6, <2>3 DEF Boot
      <3>2. job'.src = snapshot.endpoints /\ job'.todo = Wanted(snapshot.endpoints)
        BY <3>1 DEF NewJob
      <3>3. \A i \in Ids : applied[i] = None
        BY <2>1 DEF AInv, NoSources
      <3>4. \A i \in Ids \ job'.todo : Restored(i, snapshot.endpoints[i])'
        BY <2>1, <3>2, <3>3 DEF Restored, Wanted
      <3> QED
        BY <2>1, <2>3, <3>1, <3>2, <3>4 DEF RInv
    <2> QED
      BY <1>6, <2>2, <2>3 DEF Boot
  <1>7. ASSUME NEW i \in Ids, RestoreOne(i) PROVE RInv'
    BY <1>7, RestoreOneRInv
  <1>8. CASE RestoreDone
    <2>1. /\ pc = "restore" /\ pc' = "idle" /\ job.todo = {} /\ hostile' = hostile
          /\ applied' = applied /\ snapshot' = snapshot
      BY <1>8 DEF RestoreDone
    <2> QED
      BY <2>1 DEF RInv, Restored
  <1>9. CASE Crash
    BY <1>1, <1>9 DEF Crash
  <1>10. CASE UNCHANGED <<hostile, pc, job, applied, last, snapshot>>
    BY <1>10 DEF RInv, Restored
  <1>11. CASE Status \/ Rotate \/ Environment \/ UNCHANGED vars
    BY <1>10, <1>11 DEF Status, Rotate, Environment, vars, reconcilerVars
  <1> QED
    BY <1>2, <1>3, <1>4, <1>5, <1>6, <1>7, <1>8, <1>9, <1>11
       DEF Next, Generation, Startup

(* After a restart that met no fault the process serves what the snapshot
   records and nothing else, whichever step of whichever generation or earlier
   restore the crash interrupted. *)
THEOREM RestartResumes ==
  ASSUME OneProtocol, OneWeight, Env \cap {"exit", "dup", "clash"} = {},
         ConflictFree(Static)
  PROVE  Spec => []ResumesAfterCrash
  <1>1. Init => RInv
    BY DEF Init, RInv
  <1>2. Spec => [](IInv /\ SInv /\ TInv /\ AInv /\ UInv /\ BInv)
    BY BInvariance
  <1>3. "exit" \notin Env
    OBVIOUS
  <1>4. Spec => [](IInv /\ SInv /\ TInv /\ AInv /\ UInv /\ FInv)
    BY <1>3, FInvariance
  <1>5. IInv /\ SInv /\ TInv /\ AInv /\ UInv /\ BInv /\ FInv /\ RInv /\ [Next]_vars => RInv'
    BY NextRInv
  <1>6. IInv /\ SInv /\ AInv /\ BInv /\ RInv => ResumesAfterCrash
    <2> SUFFICES ASSUME IInv, SInv, AInv, BInv, RInv, pc = "idle", last = None, ~hostile,
                        NEW i \in Ids
                 PROVE  IF snapshot.endpoints[i] = None THEN ~Serving(slots, i)
                        ELSE Serves(i, snapshot.endpoints[i])
      BY DEF ResumesAfterCrash
    <2>1. Restored(i, snapshot.endpoints[i])
      BY DEF RInv
    <2>2. /\ applied[i] = None => ~Serving(slots, i)
          /\ applied[i] # None => Serves(i, applied[i].desc)
      BY AppliedServes
    <2> QED
      BY <2>1, <2>2 DEF Restored
  <1> QED
    BY <1>1, <1>2, <1>4, <1>5, <1>6, PTL DEF Spec

-------------------------------------------------------------------------------
(* MInv: transports run on the files that their digest is of. *)

(* Fewer listeners do. *)
LEMMA ThinnerCurrent ==
  ASSUME NEW S, NEW T, Thinner(S, T), AllCurrent(S)
  PROVE  AllCurrent(T)
  BY DEF Thinner, AllCurrent

(* So do those that apply leaves, when what it applies does. *)
LEMMA PlacedCurrent ==
  ASSUME Sound(slots), AllCurrent(slots), NEW i \in Ids, NEW q \in Protos, NEW b,
         Current(b.endpoint, b.material), Placed(RefreshSlots, i, q),
         \/ Success(RefreshSlots, i, q, b, slots'[i][q])
         \/ Failure(RefreshSlots, i, q, b, slots'[i][q])
  PROVE  AllCurrent(slots')
  <1>1. AllCurrent(RefreshSlots)
    BY RefreshThinner, ThinnerCurrent
  <1> SUFFICES ASSUME NEW j \in Ids, NEW p \in Protos, Active(slots', j, p)
               PROVE  Current(slots'[j][p].endpoint, slots'[j][p].material)
    BY DEF AllCurrent
  <1>2. CASE j # i
    BY <1>1, <1>2 DEF Placed, AllCurrent, Active
  <1>3. CASE j = i
    <2>1. p = q
      BY <1>3 DEF Placed, Active
    <2>2. \/ Bound(RefreshSlots, i, q, b, slots'[i][q])
          \/ Stayed(RefreshSlots, i, q, slots'[i][q])
      BY <1>3, <2>1 DEF Success, Failure, Active
    <2> QED
      BY <1>1, <1>3, <2>1, <2>2, Zenon DEF Bound, Stayed, AllCurrent
  <1> QED
    BY <1>2, <1>3

(* What is built from the files it was refreshed with does. *)
LEMMA BuildCurrent ==
  ASSUME NEW d, NEW f
  PROVE  Current(Build(Refreshed(d, f), f).endpoint, Build(Refreshed(d, f), f).material)
  BY DEF Current, Build, Refreshed

(* Every step preserves MInv, but for one that puts a released listener back:
   that builds the source applied before with the files of now. *)
LEMMA NextMInv ==
  ASSUME OneProtocol, "torn" \notin Env
  PROVE  /\ IInv /\ SInv /\ TInv /\ AInv /\ MInv
         /\ pc = "apply" => ~job.restoring
         /\ [Next]_vars
         => MInv'
  <1> SUFFICES ASSUME IInv, SInv, TInv, AInv, MInv, pc = "apply" => ~job.restoring,
                      [Next]_vars
               PROVE  MInv'
    OBVIOUS
  <1>0. Sound(slots) /\ AllCurrent(slots) /\ file \in Materials
    BY DEF SInv, MInv, TInv, TypeOK
  <1>a. ASSUME AllCurrent(slots'), pc' \notin Applying \cup {"persist"} PROVE MInv'
    BY <1>a DEF MInv, Applying
  <1>b. ASSUME Thinner(slots, slots') PROVE AllCurrent(slots')
    BY <1>0, <1>b, ThinnerCurrent
  <1>c. ASSUME AllCurrent(slots'), pc \in Applying, pc' \in Applying, file' = file,
               job'.file = job.file, job'.plan = job.plan, job'.built = job.built,
               pc \in {"release", "apply"}
        PROVE  MInv'
    BY <1>c DEF MInv
  <1>1. CASE Submission
    <2>1. PICK g \in Gens, want \in Desired : \E again : Submit(g, want, again)
      BY <1>1 DEF Submission
    <2>2. PICK again : Submit(g, want, again)
      BY <2>1
    <2>3. pc' = "plan" /\ slots' = slots /\ file' = file
      BY <2>2 DEF Submit, managerVars
    <2>4. job'.file = file
      BY <1>0, <2>2, StartedJob, Zenon DEF Submit
    <2> QED
      BY <2>3, <2>4 DEF MInv
  <1>2. CASE PlanGeneration
    <2>1. PICK ok : PlanOutcome(ok)
      BY <1>2, PlanResult
    <2>2. /\ pc = "plan" /\ pc' = "release" /\ slots' = slots /\ file' = file
          /\ job'.file = job.file /\ job.file = file
      BY <1>2, <2>1 DEF PlanGeneration, managerVars, PlanOutcome, MInv, Applying
    <2>3. ASSUME NEW i \in Ids, Binding(job'.plan, i)
          PROVE  Current(job'.built[i].endpoint, job'.built[i].material)
      <3>1. i \in ok /\ job.req.want[i] # None /\ job'.built[i] = Build(job.src[i], file)
        BY <2>1, <2>3 DEF PlanOutcome, PlannedAs, Binding, Wanted
      <3>2. job.src[i] = Refreshed(job.req.want[i], file)
        BY <2>2, <3>1, Zenon DEF AInv, SourceOf, Applying
      <3> QED
        BY <3>1, <3>2, BuildCurrent
    <2> QED
      BY <2>2, <2>3 DEF MInv
  <1>3. CASE Release
    <2>1. /\ pc = "release" /\ pc' = "apply" /\ job \in JobType /\ file' = file
      BY <1>3 DEF Release, TInv, Applying
    <2>2. job'.file = job.file /\ job'.plan = job.plan /\ job'.built = job.built
      BY <1>3, <2>1 DEF Release, JobType
    <2> QED
      BY <1>0, <1>3, <1>b, <1>c, <2>1, <2>2, ReleaseThinner, Zenon DEF Applying
  <1>4. CASE Commit
    BY <1>4 DEF Commit, managerVars, MInv, Applying
  <1>5. CASE Persist
    BY <1>0, <1>5, <1>a DEF Persist, managerVars, Applying
  <1>6. ASSUME NEW i \in Ids,
               \/ ApplyUnchanged(i) \/ ApplyInvalid(i) \/ ApplyDelete(i)
               \/ ApplyBuilt(i) \/ RestoreReleased(i)
        PROVE  MInv'
    <2>1. /\ pc = "apply" /\ pc' = "apply" /\ file' = file /\ job'.file = job.file
          /\ job'.plan = job.plan /\ job'.built = job.built
      BY <1>6, ATurns, Zenon
         DEF ATurn, ApplyUnchanged, ApplyInvalid, ApplyDelete, ApplyBuilt, RestoreReleased
    <2>2. AllCurrent(slots')
      <3>1. CASE ApplyUnchanged(i) \/ ApplyInvalid(i)
        BY <1>0, <3>1 DEF ApplyUnchanged, ApplyInvalid, managerVars
      <3>2. CASE ApplyDelete(i)
        <4>1. AllCurrent(RefreshSlots) /\ Sound(RefreshSlots)
          BY <1>0, RefreshThinner, ThinnerCurrent, RefreshSound
        <4>2. /\ ~Contains(slots', i)
              /\ \A j \in Ids \ {i} : slots'[j] = RefreshSlots[j]
          BY <3>2, <4>1, RemoveEffectSound DEF ApplyDelete
        <4> QED
          BY <4>1, <4>2 DEF AllCurrent, Contains, Active
      <3>3. CASE ApplyBuilt(i)
        <4>1. PICK q \in Protos : BuiltOutcome(i, q)
          BY <3>3, BuiltResult
        <4>2. Current(job.built[i].endpoint, job.built[i].material)
          BY <2>1, <3>3 DEF MInv, ApplyBuilt
        <4> QED
          BY <1>0, <4>1, <4>2, PlacedCurrent DEF BuiltOutcome
      <3>4. CASE RestoreReleased(i)
        BY <2>1, <3>4 DEF RestoreReleased
      <3> QED
        BY <1>6, <3>1, <3>2, <3>3, <3>4
    <2> QED
      BY <1>c, <2>1, <2>2 DEF Applying
  <1>7. CASE Boot
    <2>1. slots' = slots /\ file' = file /\ pc' \in {"plan", "restore"}
      BY <1>7 DEF Boot, managerVars
    <2>2. CASE pc' = "restore"
      BY <1>0, <1>a, <2>1, <2>2 DEF Applying
    <2>3. CASE pc' = "plan"
      <3>1. \E u : job' = NewJob(Request(0, Static, {}), Refresh(Static), u)
        BY <1>7, <2>3 DEF Boot
      <3>2. job'.file = file
        BY <1>0, <3>1, StartedJob, StaticIsDesired, Zenon
      <3> QED
        BY <2>1, <2>3, <3>2 DEF MInv
    <2> QED
      BY <2>1, <2>2, <2>3
  <1>8. ASSUME NEW i \in Ids, RestoreOne(i) PROVE MInv'
    <2>1. pc' = "restore"
      BY <1>8, RevivedResult
    <2>2. AllCurrent(slots')
      <3>1. ASSUME NEW q \in Protos, Revived(i, q) PROVE AllCurrent(slots')
        BY <1>0, <3>1, PlacedCurrent, BuildCurrent, Zenon DEF Revived
      <3> QED
        BY <1>0, <1>8, <3>1, RevivedResult
    <2> QED
      BY <1>a, <2>1, <2>2 DEF Applying
  <1>9. CASE RestoreDone
    BY <1>0, <1>9, <1>a DEF RestoreDone, managerVars, Applying
  <1>10. CASE Crash
    <2>1. AllCurrent(slots')
      BY <1>10 DEF Crash, AllCurrent, Active
    <2> QED
      BY <1>10, <1>a, <2>1 DEF Crash, Applying
  <1>11. CASE Status
    <2>1. AllCurrent(slots')
      BY <1>0, <1>11, RefreshThinner, ThinnerCurrent DEF Status, StatusRefresh
    <2> QED
      BY <1>11, <1>a, <2>1 DEF Status, Applying
  <1>12. CASE Rotate
    BY <1>0, <1>12, <1>a DEF Rotate, managerVars, Applying
  <1>13. CASE Environment
    <2>1. Thinner(slots, slots')
      BY <1>0, <1>13, ExitThinner, SameThinner DEF Environment, DrainEnds
    <2> QED
      BY <1>13, <1>b, <2>1 DEF Environment, MInv
  <1>14. CASE UNCHANGED vars
    BY <1>14 DEF vars, MInv
  <1> QED
    BY <1>1, <1>2, <1>3, <1>4, <1>5, <1>6, <1>7, <1>8, <1>9, <1>10, <1>11, <1>12, <1>13,
       <1>14 DEF Next, Generation, Startup

(* A generation applied in full runs every transport on the files it was
   submitted with, however often they are rotated in between, as long as no
   generation has to put a released listener back: restore_released pairs the
   files of now with the digest of then. *)
THEOREM RotationsTakeEffect ==
  ASSUME OneProtocol, "torn" \notin Env
  PROVE  Spec /\ [](pc = "apply" => ~job.restoring) => []RotationTakesEffect
  <1>1. Init => MInv
    BY DEF Init, MInv, AllCurrent, Applying, Active
  <1>2. Spec => [](IInv /\ SInv /\ TInv /\ AInv)
    BY AInvariance
  <1>3. /\ IInv /\ SInv /\ TInv /\ AInv /\ MInv
        /\ pc = "apply" => ~job.restoring
        /\ [Next]_vars
        => MInv'
    BY NextMInv
  <1>4. SInv /\ AInv /\ MInv => RotationTakesEffect
    <2> SUFFICES ASSUME SInv, AInv, MInv, pc = "persist", ~job.failed,
                        NEW i \in Wanted(job.req.want), NEW p \in Protos,
                        job.req.want[i].tls, Active(slots, i, p)
                 PROVE  slots[i][p].active.endpoint.content = job.file
      BY DEF RotationTakesEffect
    <2>1. i \in Ids /\ job.req.want[i] # None
      BY DEF Wanted
    <2>2. applied[i] = Refreshed(job.req.want[i], job.file)
      BY <2>1, Zenon DEF AInv, SourceOf
    <2>3. applied[i].desc = job.req.want[i] /\ applied[i].digest = job.file
      BY <2>2 DEF Refreshed
    <2>4. Holds(slots, i, applied[i])
      BY <2>1, Zenon DEF AInv, Keeps, Serving
    <2>5. slots[i][p].endpoint.tls = TRUE /\ slots[i][p].material = job.file
      BY <2>3, <2>4, Zenon DEF Holds, Fits, AInv
    <2>6. slots[i][p].endpoint.content = job.file
      BY <2>1, <2>5, Zenon DEF MInv, AllCurrent, Current
    <2> QED
      BY <2>1, <2>6 DEF SInv, Sound, Describing, Active
  <1> QED
    BY <1>1, <1>2, <1>3, <1>4, PTL DEF Spec
==============================================================================
