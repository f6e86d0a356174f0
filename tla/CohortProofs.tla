----------------------------- MODULE CohortProofs -----------------------------
(***************************************************************************)
(* Proofs about Cohort for any finite set of connections: the counter is   *)
(* exact, a drained cohort is empty, nothing is admitted while draining,   *)
(* only a deadline disconnects, Forced covers what was terminated, and the *)
(* cohort implements DrainContract.                                        *)
(***************************************************************************)
EXTENDS Cohort, FiniteSetTheorems, TLAPS

Live == {c \in Conns : conn[c] = "live"}

(* A registration in progress belongs to the loop, which handles one
   connection at a time. *)
OneRegistration ==
    /\ loop # "registering" => \A c \in Conns : conn[c] # "counted"
    /\ \A c, d \in Conns : conn[c] = "counted" /\ conn[d] = "counted" => c = d

(* Past the join the loop is gone; the cohort's own sender goes after it. *)
LoopBeforeCohort ==
    /\ owner \notin {"serving", "joining"} => loop = "exited"
    /\ owner \in {"serving", "joining"} => ownerAlive
    /\ owner \notin {"serving", "joining", "stopped"} => ~ownerAlive

(* The deadline is known from the start of the drain; only a drain with a
   deadline gets past waiting other than by finishing. *)
DeadlineInv ==
    /\ owner \in {"serving", "joining", "stopped", "rebuilding"} => deadline = "none"
    /\ owner \in {"expired", "read", "forcing"} => deadline = "some"

(* A fired token finds live connections only while a rebuild or an expired
   drain is waiting for them to go. *)
TokenInv ==
    /\ token /\ owner \notin {"rebuilding", "forcing"} => Live = {}
    /\ owner \in {"serving", "joining"} => ~token

(* What the drain may still terminate was counted before it fired the token. *)
KilledInv ==
    /\ owner \notin {"forcing", "drained"} => killed = {}
    /\ owner \in {"read", "forcing"} => Cardinality(Live \cup killed) <= forced

DrainedInv == owner = "drained" => \A c \in Conns : conn[c] \in {"new", "gone"}

IInv ==
    /\ TypeOK
    /\ CountExact
    /\ OneRegistration
    /\ LoopBeforeCohort
    /\ DeadlineInv
    /\ TokenInv
    /\ KilledInv
    /\ DrainedInv
    /\ UpdateKeepsConnections
    /\ ForcedCoversKilled

-------------------------------------------------------------------------------
(* Cardinality facts, stated once for the sets the invariant counts. *)

(* The sets of connections the invariant talks about are finite, so their
   cardinalities are natural numbers that respect inclusion. *)
LEMMA ConnSets ==
    ASSUME NEW S, NEW T, T \subseteq Conns, S \subseteq T
    PROVE  /\ IsFiniteSet(S)
           /\ IsFiniteSet(T)
           /\ Cardinality(S) \in Nat
           /\ Cardinality(T) \in Nat
           /\ Cardinality(S) <= Cardinality(T)
<1>1. IsFiniteSet(T)
  BY ConnsFinite, FS_Subset
<1>2. IsFiniteSet(S) /\ Cardinality(S) <= Cardinality(T)
  BY <1>1, FS_Subset
<1>3. Cardinality(S) \in Nat /\ Cardinality(T) \in Nat
  BY <1>1, <1>2, FS_CardinalityType
<1>4. QED
  BY <1>1, <1>2, <1>3

(* Registering a connection adds one to the number of counted connections. *)
LEMMA CountedGrows ==
    ASSUME NEW S \in SUBSET Conns, NEW c \in Conns, c \notin S
    PROVE  Cardinality(S \cup {c}) = Cardinality(S) + 1
<1>1. IsFiniteSet(S)
  BY ConnsFinite, FS_Subset
<1>2. QED
  BY <1>1, FS_AddElement

(* Releasing a guard takes one from it. *)
LEMMA CountedShrinks ==
    ASSUME NEW S \in SUBSET Conns, NEW c \in S
    PROVE  /\ Cardinality(S \ {c}) = Cardinality(S) - 1
           /\ Cardinality(S) \in Nat \ {0}
<1>1. IsFiniteSet(S)
  BY ConnsFinite, FS_Subset
<1>2. Cardinality(S \ {c}) = Cardinality(S) - 1
  BY <1>1, FS_RemoveElement
<1>3. Cardinality(S) \in Nat /\ Cardinality(S \ {c}) \in Nat
  BY <1>1, FS_Subset, FS_CardinalityType
<1>4. QED
  BY <1>2, <1>3

-------------------------------------------------------------------------------
(* The initial state satisfies the invariant. *)
LEMMA InitIInv == Init => IInv
<1> SUFFICES ASSUME Init PROVE IInv
  OBVIOUS
<1>1. Counted = {} /\ Live = {} /\ killed = {}
  BY DEF Init, Counted, Live
<1>2. CountExact
  BY <1>1, FS_EmptySet DEF Init, CountExact
<1>3. QED
  BY <1>1, <1>2, Zenon DEF Init, IInv, TypeOK, OneRegistration, LoopBeforeCohort,
     DeadlineInv, TokenInv, KilledInv, DrainedInv, UpdateKeepsConnections,
     ForcedCoversKilled, LoopState, ConnState, OwnerState

(* Steps of the accept loop keep the invariant. *)
LEMMA AcceptingIInv == IInv /\ Accepting => IInv'
<1> SUFFICES ASSUME IInv, Accepting PROVE IInv'
  OBVIOUS
<1> USE DEF IInv, TypeOK, OneRegistration, LoopBeforeCohort, DeadlineInv,
     DrainedInv, UpdateKeepsConnections, LoopState, ConnState, OwnerState,
     ownerVars
<1>1. CASE PollShutdown \/ AcceptNothing \/ AcceptFails
  <2>1. Counted' = Counted /\ Live' = Live
    BY <1>1 DEF PollShutdown, AcceptNothing, AcceptFails, Counted, Live
  <2>2. QED
    BY <1>1, <2>1 DEF PollShutdown, AcceptNothing, AcceptFails, CountExact,
       TokenInv, KilledInv, ForcedCoversKilled
<1>2. ASSUME NEW c \in Conns, Accept(c) PROVE IInv'
  <2>1. owner \in {"serving", "joining"}
    BY <1>2 DEF Accept
  <2>2. Live' = Live
    BY <1>2 DEF Accept, Live
  <2>3. Counted' = Counted \cup {c} /\ c \notin Counted
    BY <1>2 DEF Accept, Counted
  <2>4. CountExact'
    BY <1>2, <2>3, CountedGrows DEF Accept, CountExact, Counted
  <2>5. QED
    BY <1>2, <2>1, <2>2, <2>4 DEF Accept, TokenInv, KilledInv, ForcedCoversKilled
<1>3. ASSUME NEW c \in Conns, SpawnRelay(c) PROVE IInv'
  <2>1. owner \in {"serving", "joining"}
    BY <1>3 DEF SpawnRelay
  <2>2. Counted' = Counted
    BY <1>3 DEF SpawnRelay, Counted
  <2>3. token = FALSE
    BY <2>1 DEF TokenInv
  <2>4. QED
    BY <1>3, <2>1, <2>2, <2>3 DEF SpawnRelay, CountExact, TokenInv, KilledInv,
       ForcedCoversKilled
<1>4. QED
  BY <1>1, <1>2, <1>3 DEF Accepting

(* Steps of a connection's task keep the invariant. *)
LEMMA RelayingIInv ==
    ASSUME NEW c \in Conns, IInv, Relaying(c)
    PROVE  IInv'
<1> USE DEF IInv, TypeOK, OneRegistration, LoopBeforeCohort, DeadlineInv,
     DrainedInv, UpdateKeepsConnections, LoopState, ConnState, OwnerState,
     ownerVars
<1>1. CASE RelayEnds(c)
  <2>1. Counted' = Counted /\ Live' = Live \ {c}
    BY <1>1 DEF RelayEnds, Counted, Live
  <2>2. Live' \cup killed' \subseteq Live \cup killed /\ Live \cup killed \subseteq Conns
    BY <1>1, <2>1 DEF RelayEnds, Live
  <2>3. Cardinality(Live' \cup killed') \in Nat /\ Cardinality(Live \cup killed) \in Nat
        /\ Cardinality(Live' \cup killed') <= Cardinality(Live \cup killed)
    BY <2>2, ConnSets
  <2>4. KilledInv'
    BY <1>1, <2>3 DEF RelayEnds, KilledInv
  <2>5. QED
    BY <1>1, <2>1, <2>4 DEF RelayEnds, CountExact, TokenInv, ForcedCoversKilled
<1>2. CASE RelayCancelled(c)
  <2>1. Counted' = Counted /\ Live' = Live \ {c} /\ c \in Live
    BY <1>2 DEF RelayCancelled, Counted, Live
  <2>2. owner \in {"rebuilding", "forcing"}
    BY <1>2, <2>1 DEF RelayCancelled, TokenInv
  <2>3. CASE owner = "rebuilding"
    BY <1>2, <2>1, <2>3 DEF RelayCancelled, CountExact, TokenInv, KilledInv,
       ForcedCoversKilled
  <2>4. CASE owner = "forcing"
    <3>1. Live' \cup killed' = Live \cup killed
      BY <1>2, <2>1, <2>4 DEF RelayCancelled
    <3>2. killed' \subseteq Live \cup killed /\ Live \cup killed \subseteq Conns
      BY <3>1 DEF Live
    <3>3. Cardinality(killed') \in Nat /\ Cardinality(Live \cup killed) \in Nat
          /\ Cardinality(killed') <= Cardinality(Live \cup killed)
      BY <3>2, ConnSets
    <3>4. Cardinality(Live \cup killed) <= forced
      BY <2>4 DEF KilledInv
    <3>5. KilledInv' /\ ForcedCoversKilled'
      BY SMTT(40), <1>2, <2>4, <3>1, <3>3, <3>4 DEF RelayCancelled, KilledInv, ForcedCoversKilled
    <3>6. QED
      BY <1>2, <2>1, <2>4, <3>5 DEF RelayCancelled, CountExact, TokenInv
  <2>5. QED
    BY <2>2, <2>3, <2>4
<1>3. CASE ReleaseGuard(c)
  <2>1. Counted' = Counted \ {c} /\ c \in Counted /\ Live' = Live
    BY <1>3 DEF ReleaseGuard, Counted, Live
  <2>2. CountExact' /\ count' \in Nat
    BY <1>3, <2>1, CountedShrinks DEF ReleaseGuard, CountExact, Counted
  <2>3. QED
    BY <1>3, <2>1, <2>2 DEF ReleaseGuard, TokenInv, KilledInv, ForcedCoversKilled
<1>4. CASE DropSender(c)
  <2>1. Counted' = Counted /\ Live' = Live
    BY <1>4 DEF DropSender, Counted, Live
  <2>2. QED
    BY <1>4, <2>1 DEF DropSender, CountExact, TokenInv, KilledInv, ForcedCoversKilled
<1>5. QED
  BY <1>1, <1>2, <1>3, <1>4 DEF Relaying

(* When every sender is gone past the join, every connection is gone. *)
LEMMA SendersGoneEmpty ==
    ASSUME IInv, SendersGone
    PROVE  \A c \in Conns : conn[c] \in {"new", "gone"}
BY DEF IInv, TypeOK, OneRegistration, SendersGone, Holders, ConnState

(* Steps of the owner keep the invariant. *)
LEMMA OwningIInv == IInv /\ Owning => IInv'
<1> SUFFICES ASSUME IInv, Owning PROVE IInv'
  OBVIOUS
<1> USE DEF IInv, TypeOK, OneRegistration, LoopBeforeCohort, DeadlineInv,
     DrainedInv, UpdateKeepsConnections, LoopState, ConnState, OwnerState,
     envVars
<1>1. conn' = conn /\ count' = count /\ killed' = killed /\ loop' = loop
  BY DEF Owning, StopActive, Join, RebuildCancel, RebuildDone, SpawnDrain,
     RefreshExited, DrainFinished, DrainTimesOut, DrainReadsCount,
     DrainCancels, DrainForced
<1>2. Counted' = Counted /\ Live' = Live
  BY <1>1 DEF Counted, Live
<1>3. CountExact'
  BY <1>1, <1>2 DEF CountExact
<1>4. Cardinality({}) = 0
  BY FS_EmptySet
<1> USE DEF TokenInv, KilledInv, ForcedCoversKilled
<1>5. CASE StopActive
  BY <1>1, <1>2, <1>3, <1>5 DEF StopActive
<1>6. CASE Join
  BY <1>1, <1>2, <1>3, <1>6 DEF Join
<1>7. CASE RebuildCancel
  BY <1>1, <1>2, <1>3, <1>7, Zenon DEF RebuildCancel
<1>8. CASE RebuildDone
  <2>1. Live = {}
    BY <1>8, SendersGoneEmpty DEF RebuildDone, Live
  <2>2. QED
    BY <1>1, <1>2, <1>3, <1>8, <2>1 DEF RebuildDone
<1>9. ASSUME NEW d \in {"none", "some"}, SpawnDrain(d) PROVE IInv'
  BY <1>1, <1>2, <1>3, <1>9, Zenon DEF SpawnDrain
<1>10. ASSUME NEW d \in {"none", "some"}, RefreshExited(d) PROVE IInv'
  BY <1>1, <1>2, <1>3, <1>10, Zenon DEF RefreshExited
<1>11. CASE DrainFinished
  <2>1. \A c \in Conns : conn[c] \in {"new", "gone"}
    BY <1>11, SendersGoneEmpty DEF DrainFinished
  <2>2. Live = {}
    BY <2>1 DEF Live
  <2>3. QED
    BY <1>1, <1>2, <1>3, <1>4, <1>11, <2>1, <2>2 DEF DrainFinished
<1>12. CASE DrainTimesOut
  BY <1>1, <1>2, <1>3, <1>12 DEF DrainTimesOut
<1>13. CASE DrainReadsCount
  <2>1. Live \cup killed = Live
    BY <1>13 DEF DrainReadsCount
  <2>2. Live \subseteq Counted /\ Counted \subseteq Conns
    BY DEF Live, Counted
  <2>3. Cardinality(Live \cup killed) <= count
    BY <2>1, <2>2, ConnSets DEF CountExact
  <2>4. QED
    BY <1>1, <1>2, <1>3, <1>13, <2>3 DEF DrainReadsCount
<1>14. CASE DrainCancels
  <2>1. killed = {}
    BY <1>14 DEF DrainCancels
  <2>2. QED
    BY <1>1, <1>2, <1>3, <1>4, <1>14, <2>1 DEF DrainCancels
<1>15. CASE DrainForced
  <2>1. \A c \in Conns : conn[c] \in {"new", "gone"}
    BY <1>15, SendersGoneEmpty DEF DrainForced
  <2>2. Live = {}
    BY <2>1 DEF Live
  <2>3. QED
    BY <1>1, <1>2, <1>3, <1>15, <2>1, <2>2 DEF DrainForced
<1>16. QED
  BY <1>5, <1>6, <1>7, <1>8, <1>9, <1>10, <1>11, <1>12, <1>13, <1>14, <1>15
  DEF Owning

(* Every step keeps the invariant. *)
LEMMA NextIInv == IInv /\ [Next]_vars => IInv'
<1> SUFFICES ASSUME IInv, [Next]_vars PROVE IInv'
  OBVIOUS
<1>1. CASE UNCHANGED vars
  BY <1>1 DEF vars, IInv, TypeOK, CountExact, Counted, OneRegistration,
     LoopBeforeCohort, DeadlineInv, TokenInv, Live, KilledInv, DrainedInv,
     UpdateKeepsConnections, ForcedCoversKilled
<1>2. QED
  BY <1>1, AcceptingIInv, RelayingIInv, OwningIInv DEF Next, Terminated

(* Every behaviour of the cohort satisfies the inductive invariant. *)
LEMMA Invariance == Spec => []IInv
BY InitIInv, NextIInv, PTL DEF Spec

-------------------------------------------------------------------------------
(* The theorems. *)

(* The variables of the cohort keep their types: in particular the counter of
   cohort.rs, an unsigned integer that guards decrement, never wraps. *)
THEOREM TypeCorrect == Spec => []TypeOK
<1>1. IInv => TypeOK
  BY DEF IInv
<1>2. QED
  BY <1>1, Invariance, PTL

(* Cohort::count is at every moment the number of registered connections
   whose guard is not released, for any number of connections. *)
THEOREM CounterIsExact == Spec => []CountExact
<1>1. IInv => CountExact
  BY DEF IInv
<1>2. QED
  BY <1>1, Invariance, PTL

(* When a drain reports an outcome, finished or forced, no connection is left
   in any stage and the counter is zero. *)
THEOREM DrainedMeansEmpty == Spec => []DrainedIsEmpty
<1>1. ASSUME IInv PROVE DrainedIsEmpty
  <2>1. SUFFICES ASSUME owner = "drained"
                 PROVE  (\A c \in Conns : conn[c] \in {"new", "gone"}) /\ count = 0
    BY DEF DrainedIsEmpty
  <2>2. \A c \in Conns : conn[c] \in {"new", "gone"}
    BY <1>1, <2>1 DEF IInv, DrainedInv
  <2>3. Counted = {}
    BY <2>2 DEF Counted
  <2>4. count = 0
    BY <1>1, <2>3, FS_EmptySet DEF IInv, CountExact
  <2>5. QED
    BY <2>2, <2>4
<1>2. QED
  BY <1>1, Invariance, PTL

(* Cohort::drain without a deadline terminates no connection. *)
THEOREM OnlyDeadlinesDisconnect == Spec => []UpdateKeepsConnections
<1>1. IInv => UpdateKeepsConnections
  BY DEF IInv
<1>2. QED
  BY <1>1, Invariance, PTL

(* The number that DrainOutcome::Forced carries is at least the number of
   connections the expired deadline terminated. *)
THEOREM ForcedNeverUnderReports == Spec => []ForcedCoversKilled
<1>1. IInv => ForcedCoversKilled
  BY DEF IInv
<1>2. QED
  BY <1>1, Invariance, PTL

(* After start_draining no connection is registered in the cohort. *)
THEOREM ClosedToNewcomers == Spec => NoAdmissionWhileDraining
<1> DEFINE Stays == ~ownerAlive => \A c \in Conns : conn[c] = "new" => conn'[c] = "new"
<1>1. ASSUME IInv, [Next]_vars PROVE [Stays]_vars
  <2>1. CASE UNCHANGED vars
    BY <2>1
  <2>2. SUFFICES ASSUME Next, ~ownerAlive, NEW c \in Conns, conn[c] = "new"
                 PROVE  conn'[c] = "new"
    BY <1>1, <2>1
  <2>3. loop = "exited" /\ conn \in [Conns -> ConnState]
    BY <1>1, <2>2 DEF IInv, LoopBeforeCohort, TypeOK
  <2>4. CASE Accepting
    BY <2>3, <2>4 DEF Accepting, PollShutdown, AcceptNothing, AcceptFails,
       Accept, SpawnRelay
  <2>5. ASSUME NEW d \in Conns, Relaying(d) PROVE conn'[c] = "new"
    BY <2>2, <2>3, <2>5 DEF Relaying, RelayEnds, RelayCancelled, ReleaseGuard,
       DropSender
  <2>6. CASE Owning \/ Terminated
    BY <2>2, <2>6 DEF Owning, StopActive, Join, RebuildCancel, RebuildDone,
       SpawnDrain, RefreshExited, DrainFinished, DrainTimesOut,
       DrainReadsCount, DrainCancels, DrainForced, Terminated, envVars, vars
  <2>7. QED
    BY <2>2, <2>4, <2>5, <2>6 DEF Next
<1>2. QED
  BY <1>1, Invariance, PTL DEF Spec, NoAdmissionWhileDraining

-------------------------------------------------------------------------------
(* Refinement.  Inside and Phase name the two sides of the mapping. *)

Inside == {c \in Conns : conn[c] \notin {"new", "gone"}}

Phase == IF owner = "drained" THEN "drained"
         ELSE IF ownerAlive THEN "open" ELSE "closed"

(* A step of the accept loop is a stutter of the contract, or an Enter. *)
LEMMA AcceptingKeepsContract ==
    IInv /\ Accepting => [Contract!ContractNext]_(Contract!contractVars)
<1> SUFFICES ASSUME IInv, Accepting
             PROVE  [Contract!ContractNext]_(Contract!contractVars)
  OBVIOUS
<1> USE DEF Contract!ContractNext, Contract!contractVars
<1>1. owner' = owner /\ ownerAlive' = ownerAlive
  BY DEF Accepting, PollShutdown, AcceptNothing, AcceptFails, Accept,
     SpawnRelay, ownerVars
<1>2. Phase' = Phase
  BY <1>1 DEF Phase
<1>3. conn \in [Conns -> ConnState]
  BY DEF IInv, TypeOK
<1>4. CASE PollShutdown \/ AcceptNothing \/ AcceptFails
  <2>1. Inside' = Inside
    BY <1>4 DEF PollShutdown, AcceptNothing, AcceptFails, Inside
  <2>2. QED
    BY <1>2, <2>1 DEF Inside, Phase
<1>5. ASSUME NEW c \in Conns, Accept(c)
      PROVE  [Contract!ContractNext]_(Contract!contractVars)
  <2>1. owner \in {"serving", "joining"} /\ ownerAlive
    BY <1>5 DEF Accept, IInv, LoopBeforeCohort
  <2>2. Inside' = Inside \cup {c} /\ c \notin Inside
    BY <1>3, <1>5 DEF Accept, Inside
  <2>3. Phase = "open"
    BY <2>1 DEF Phase
  <2>4. Contract!Enter(c)
    BY <1>2, <2>2, <2>3 DEF Contract!Enter, Inside, Phase
  <2>5. QED
    BY <2>4
<1>6. ASSUME NEW c \in Conns, SpawnRelay(c)
      PROVE  [Contract!ContractNext]_(Contract!contractVars)
  <2>1. Inside' = Inside
    BY <1>3, <1>6 DEF SpawnRelay, Inside
  <2>2. QED
    BY <1>2, <2>1 DEF Inside, Phase
<1>7. QED
  BY <1>4, <1>5, <1>6 DEF Accepting

(* A step of a connection's task is a stutter of the contract, or a Leave. *)
LEMMA RelayingKeepsContract ==
    ASSUME NEW c \in Conns, IInv, Relaying(c)
    PROVE  [Contract!ContractNext]_(Contract!contractVars)
<1> USE DEF Contract!ContractNext, Contract!contractVars
<1>1. owner' = owner /\ ownerAlive' = ownerAlive
  BY DEF Relaying, RelayEnds, RelayCancelled, ReleaseGuard, DropSender, ownerVars
<1>2. Phase' = Phase
  BY <1>1 DEF Phase
<1>3. conn \in [Conns -> ConnState]
  BY DEF IInv, TypeOK
<1>4. CASE RelayEnds(c) \/ RelayCancelled(c) \/ ReleaseGuard(c)
  <2>1. Inside' = Inside
    BY <1>3, <1>4 DEF RelayEnds, RelayCancelled, ReleaseGuard, Inside
  <2>2. QED
    BY <1>2, <2>1 DEF Inside, Phase
<1>5. CASE DropSender(c)
  <2>1. Inside' = Inside \ {c} /\ c \in Inside
    BY <1>3, <1>5 DEF DropSender, Inside
  <2>2. Contract!Leave(c)
    BY <1>2, <2>1 DEF Contract!Leave, Inside, Phase
  <2>3. QED
    BY <2>2
<1>6. QED
  BY <1>4, <1>5 DEF Relaying

(* A step of the owner is a stutter of the contract, a Close or a
   ReportDrained. *)
LEMMA OwningKeepsContract ==
    IInv /\ Owning => [Contract!ContractNext]_(Contract!contractVars)
<1> SUFFICES ASSUME IInv, Owning
             PROVE  [Contract!ContractNext]_(Contract!contractVars)
  OBVIOUS
<1> USE DEF Contract!ContractNext, Contract!contractVars
<1>1. conn' = conn
  BY DEF Owning, StopActive, Join, RebuildCancel, RebuildDone, SpawnDrain,
     RefreshExited, DrainFinished, DrainTimesOut, DrainReadsCount,
     DrainCancels, DrainForced, envVars
<1>2. Inside' = Inside
  BY <1>1 DEF Inside
<1>3. CASE DrainFinished \/ DrainForced
  <2>1. SendersGone /\ owner \in {"waiting", "forcing"} /\ owner' = "drained"
    BY <1>3 DEF DrainFinished, DrainForced
  <2>2. Inside = {}
    BY <2>1, SendersGoneEmpty DEF Inside
  <2>3. Phase = "closed" /\ Phase' = "drained"
    BY <2>1 DEF Phase, SendersGone
  <2>4. Contract!ReportDrained
    BY <1>2, <2>2, <2>3 DEF Contract!ReportDrained, Inside, Phase
  <2>5. QED
    BY <2>4
<1>4. CASE ~(DrainFinished \/ DrainForced)
  <2>1. /\ owner # "drained" /\ owner' # "drained"
        /\ (ownerAlive' = ownerAlive) \/ ~ownerAlive'
    BY <1>4 DEF Owning, StopActive, Join, RebuildCancel, RebuildDone,
       SpawnDrain, RefreshExited, DrainTimesOut, DrainReadsCount,
       DrainCancels, IInv, TypeOK
  <2>2. Phase' = Phase \/ (Phase = "open" /\ Phase' = "closed")
    BY <2>1 DEF Phase
  <2>3. CASE Phase' = Phase
    BY <1>2, <2>3 DEF Inside, Phase
  <2>4. CASE Phase = "open" /\ Phase' = "closed"
    <3>1. Contract!Close
      BY <1>2, <2>4 DEF Contract!Close, Inside, Phase
    <3>2. QED
      BY <3>1
  <2>5. QED
    BY <2>2, <2>3, <2>4
<1>5. QED
  BY <1>3, <1>4

(* The cohort with its accept loop and its owner implements DrainContract for
   any number of connections. *)
THEOREM CohortKeepsContract == Spec => KeepsContract
<1>1. Init => Contract!ContractInit
  BY DEF Init, Contract!ContractInit
<1>2. ASSUME IInv, [Next]_vars
      PROVE  [Contract!ContractNext]_(Contract!contractVars)
  <2>1. CASE UNCHANGED vars
    BY <2>1 DEF vars, Contract!contractVars
  <2>2. QED
    BY <1>2, <2>1, AcceptingKeepsContract, RelayingKeepsContract,
       OwningKeepsContract DEF Next, Terminated
<1>3. QED
  BY <1>1, <1>2, Invariance, PTL DEF Spec, KeepsContract, Contract!ContractSpec
===============================================================================
