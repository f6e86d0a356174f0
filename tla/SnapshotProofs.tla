---------------------------- MODULE SnapshotProofs ----------------------------
(***************************************************************************)
(* Proofs about SnapshotStore, for every set of snapshots and process ids  *)
(* and every bound on the sequence numbers.                                *)
(***************************************************************************)
EXTENDS SnapshotStore, TLAPS

Writing == {"write", "sync", "rename", "discard"}

(* store was given a snapshot, and the search for a name ends at a free one. *)
SearchInv ==
    /\ pc # "idle" => arg \in Snapshots
    /\ pc \in {"prepare", "open"} =>
         \E k \in seq .. MaxSeq : temps[<<pid, k>>] = None

(* What store knows of its temporary file at each step. *)
TempInv ==
    /\ pc \in Writing => tmp \in Names
    /\ pc \in {"sync", "rename"} => temps[tmp] = arg
    /\ pc = "rename" => synced

(* Every other temporary file was abandoned. *)
LeftoverInv ==
    \A n \in Names :
      temps[n] # None /\ n \notin abandoned => pc \in Writing /\ n = tmp

IInv ==
    /\ TypeOK
    /\ SearchInv
    /\ TempInv
    /\ LeftoverInv
    /\ NeverTorn

(* The inductive invariant holds before the first store. *)
LEMMA InitIInv == Init => IInv
  <1> SUFFICES ASSUME Init PROVE IInv
    OBVIOUS
  <1>1. TypeOK
    <2>1. synced \in BOOLEAN
      BY Zenon DEF Init
    <2>2. temps \in [Names -> Content]
      BY DEF Init, Content, Complete
    <2> QED
      BY <2>1, <2>2, MaxSeqIsNat DEF Init, TypeOK, Content, Complete
  <1>2. SearchInv /\ TempInv /\ LeftoverInv /\ NeverTorn
    BY DEF Init, SearchInv, TempInv, LeftoverInv, NeverTorn, Writing, Complete
  <1> QED
    BY <1>1, <1>2 DEF IInv

(* Every step of store, every crash and every power failure preserves it. *)
LEMMA NextIInv == IInv /\ [Next]_vars => IInv'
  <1> SUFFICES ASSUME IInv, [Next]_vars PROVE IInv'
    OBVIOUS
  <1> USE SnapshotsAreComplete, TornIsAFile, MaxSeqIsNat
  <1> USE DEF IInv, TypeOK, SearchInv, TempInv, LeftoverInv, NeverTorn, Writing,
              Content, Complete, process, disk
  <1>1. ASSUME NEW s \in Snapshots, Store(s) PROVE IInv'
    BY <1>1 DEF Store
  <1>2. CASE Prepare
    BY <1>2 DEF Prepare
  <1>3. ASSUME pc = "open" PROVE seq \in 0 .. MaxSeq /\ Name \in Names
    <2>1. PICK k \in seq .. MaxSeq : temps[<<pid, k>>] = None
      BY <1>3
    <2>2. seq \in 0 .. MaxSeq
      BY <2>1
    <2> QED
      BY <2>2 DEF Name, Names
  <1>4. CASE Open
    <2>1. seq \in 0 .. MaxSeq /\ Name \in Names
      BY <1>4, <1>3 DEF Open
    <2>2. temps' \in [Names -> Content] /\ seq' \in 0 .. MaxSeq + 1
      BY <1>4, <2>1 DEF Open
    <2>3. synced' \in BOOLEAN
      BY <1>4, Zenon DEF Open
    <2>4. TypeOK'
      BY <1>4, <2>1, <2>2, <2>3 DEF Open
    <2>5. LeftoverInv'
      BY <1>4, <2>1 DEF Open
    <2> QED
      BY <1>4, <2>1, <2>4, <2>5 DEF Open
  <1>5. CASE OpenTaken
    <2>1. PICK k \in seq .. MaxSeq : temps[<<pid, k>>] = None
      BY <1>5 DEF OpenTaken
    <2>2. k # seq
      BY <2>1, <1>5 DEF OpenTaken, Name
    <2>3. k \in seq' .. MaxSeq /\ temps'[<<pid', k>>] = None
      BY <2>1, <2>2, <1>5 DEF OpenTaken
    <2> QED
      BY <2>3, <1>5, <1>3 DEF OpenTaken
  <1>6. CASE OpenFails
    BY <1>6, <1>3 DEF OpenFails
  <1>7. CASE WriteAll
    BY <1>7 DEF WriteAll
  <1>8. CASE SyncFile
    BY <1>8 DEF SyncFile
  <1>9. CASE Rename
    BY <1>9 DEF Rename
  <1>10. CASE StepFails
    BY <1>10 DEF StepFails
  <1>11. CASE Discard
    BY <1>11 DEF Discard
  <1>12. CASE SyncDir
    BY <1>12 DEF SyncDir
  <1>13. CASE Crash
    BY <1>13 DEF Crash, Restarted, Files
  <1>14. CASE PowerFailure
    BY <1>14 DEF PowerFailure, Restarted, Files
  <1>15. CASE UNCHANGED vars
    BY <1>15 DEF vars
  <1> QED
    BY <1>1, <1>2, <1>4, <1>5, <1>6, <1>7, <1>8, <1>9, <1>10, <1>11, <1>12, <1>13,
       <1>14, <1>15 DEF Next, Progress, Failure

(* The invariant of store holds throughout, crashes and power failures
   included. *)
LEMMA Invariance == Spec => []IInv
  BY InitIInv, NextIInv, PTL DEF Spec

(* The store and its directory keep their types; in particular the search for
   a free name stays in range. *)
THEOREM TypeCorrect == Spec => []TypeOK
  BY Invariance, PTL DEF IInv

(* A crash, an error or a power failure between any two system calls of store
   leaves a complete snapshot at the path (the header of snapshot.rs). *)
THEOREM SnapshotNeverTorn == Spec => []NeverTorn
  BY Invariance, PTL DEF IInv

(* When store has returned, only crashes and failed removals have left
   temporary files. *)
THEOREM ErrorsLeaveNothing == Spec => []NoLeftovers
  <1>1. IInv => NoLeftovers
    BY DEF IInv, LeftoverInv, NoLeftovers, Writing, Files
  <1> QED
    BY <1>1, Invariance, PTL

(* A temporary file that store finds in its way is never written to. *)
THEOREM LeftoversSafe == Spec => LeftoversUntouched
  <1>1. IInv /\ [Next]_vars =>
          [\A n \in Files : pc = "open" => temps'[n] \in {temps[n], None}]_vars
    <2> SUFFICES ASSUME IInv, Next, NEW n \in Files, pc = "open"
                 PROVE  temps'[n] \in {temps[n], None}
      OBVIOUS
    <2> USE DEF IInv, TypeOK, Files, process, disk
    <2>1. CASE Open
      BY <2>1 DEF Open
    <2>2. CASE PowerFailure
      BY <2>2 DEF PowerFailure
    <2>3. CASE temps' = temps
      BY <2>3
    <2> QED
      BY <2>1, <2>2, <2>3 DEF Next, Progress, Failure, Store, Prepare, OpenTaken,
         OpenFails, WriteAll, SyncFile, Rename, StepFails, Discard, SyncDir, Crash
  <1> QED
    BY <1>1, Invariance, PTL DEF Spec, LeftoversUntouched

(* The store implements the cell that the reconciler persists to: one instant
   of replacement, an error exactly when there was none. *)
THEOREM StoreKeepsContract == Spec => KeepsContract
  <1> USE DEF Contract!contractVars, call
  <1>1. Init => Contract!ContractInit
    BY DEF Init, Contract!ContractInit
  <1>2. IInv /\ [Next]_vars => [Contract!ContractNext]_(Contract!contractVars)
    <2> SUFFICES ASSUME IInv, [Next]_vars
                 PROVE  Contract!ContractNext \/ UNCHANGED Contract!contractVars
      OBVIOUS
    <2> USE DEF IInv, TypeOK, process, disk
    <2>1. ASSUME NEW s \in Snapshots, Store(s) PROVE Contract!Call(s)
      BY <2>1 DEF Store, Contract!Call
    <2>2. CASE Prepare
      BY <2>2 DEF Prepare, Contract!ContractNext, Contract!ReturnErr
    <2>3. CASE Open \/ OpenTaken \/ WriteAll \/ SyncFile \/ StepFails
      BY <2>3 DEF Open, OpenTaken, WriteAll, SyncFile, StepFails
    <2>4. CASE OpenFails \/ Discard
      BY <2>4 DEF OpenFails, Discard, Contract!ContractNext, Contract!ReturnErr
    <2>5. CASE Rename
      BY <2>5 DEF Rename, TempInv, Contract!ContractNext, Contract!Replace
    <2>6. CASE SyncDir
      BY <2>6 DEF SyncDir, Contract!ContractNext, Contract!ReturnOk
    <2>7. CASE Crash
      BY <2>7 DEF Crash, Restarted, Contract!ContractNext, Contract!ProcessCrash
    <2>8. CASE PowerFailure
      BY <2>8 DEF PowerFailure, Restarted, Contract!ContractNext, Contract!PowerFailure
    <2>9. CASE UNCHANGED vars
      BY <2>9 DEF vars
    <2> QED
      BY <2>1, <2>2, <2>3, <2>4, <2>5, <2>6, <2>7, <2>8, <2>9
         DEF Next, Progress, Failure, Contract!ContractNext
  <1> QED
    BY <1>1, <1>2, Invariance, PTL DEF Spec, KeepsContract, Contract!ContractSpec
==============================================================================
