---------------------------- MODULE SnapshotStore ----------------------------
(***************************************************************************)
(* The snapshot file: SnapshotStore::store, one system call per step, with *)
(* a process crash or a power failure between any two.                     *)
(*                                                                         *)
(*   realm_core/src/lifecycle/snapshot.rs   store                          *)
(*                                                                         *)
(* The file system is external and is assumed to do what POSIX says: a     *)
(* rename replaces the entry at once for every process; fsync of a file    *)
(* puts its data on the disk and fsync of a directory its entries; what    *)
(* was not synced may or may not survive a power failure.  Temporary files *)
(* are named after the process id and a counter, and a process id comes    *)
(* back (in a container every run of realm may have the same one), so the  *)
(* names a run picks may be taken by what an earlier run left behind.      *)
(***************************************************************************)
EXTENDS Naturals, FiniteSets

CONSTANTS
    Snapshots,          \* what the reconciler may store
    Pids,               \* process ids a run may get
    MaxSeq,             \* bound: sequence numbers of one run are 0..MaxSeq
    Torn,               \* a file whose data is incomplete
    None                \* no file, no snapshot

ASSUME SnapshotsAreComplete == Torn \notin Snapshots /\ None \notin Snapshots
ASSUME TornIsAFile == Torn # None
ASSUME MaxSeqIsNat == MaxSeq \in Nat
ASSUME NoneIsNoName == None \notin Pids \X (0 .. MaxSeq)

Names    == Pids \X (0 .. MaxSeq)
Complete == Snapshots \cup {None}
Content  == Complete \cup {Torn}

VARIABLES
    pc,                 \* the next thing store does
    arg,                \* the snapshot it was given
    pid,                \* std::process::id()
    seq,                \* SnapshotStore::tmp_counter
    tmp,                \* the name of the last temporary file, or None
    synced,             \* the temporary file's data is on the disk
    temps,              \* temps[n]: what the temporary file n holds
    entry,              \* what the snapshot's path holds
    older,              \* what a power failure may put there instead
    abandoned           \* history: names a crash or a failed remove left

process == <<arg, pid, seq, tmp, synced>>
disk    == <<temps, entry, older, abandoned>>
vars    == <<pc, process, disk>>

Files == {n \in Names : temps[n] # None}

Init ==
    /\ pc = "idle"
    /\ arg = None
    /\ pid \in Pids
    /\ seq = 0
    /\ tmp = None
    /\ synced = FALSE
    /\ temps = [n \in Names |-> None]
    /\ entry = None
    /\ older = {}
    /\ abandoned = {}

-------------------------------------------------------------------------------
(* Reconciler::persist calls store.  (Bound: a name is left; the counter of
   the code has 64 bits.) *)
Store(s) ==
    /\ pc = "idle"
    /\ \E k \in seq .. MaxSeq : temps[<<pid, k>>] = None
    /\ pc' = "prepare"
    /\ arg' = s
    /\ UNCHANGED <<pid, seq, tmp, synced, disk>>

(* create_dir_owner_only and the serialization; either may fail *)
Prepare ==
    /\ pc = "prepare"
    /\ pc' \in {"open", "idle"}
    /\ UNCHANGED <<process, disk>>

(* fetch_add returns the counter before it bumps it *)
Name == <<pid, seq>>

Open_NotExclusive ==
    /\ pc = "open"
    /\ pc' = "write"
    /\ seq' = seq + 1
    /\ tmp' = Name
    /\ synced' = FALSE
    /\ temps' = [temps EXCEPT ![Name] = Torn]
    /\ UNCHANGED <<arg, pid, entry, older, abandoned>>

(* create_new: the file did not exist, and is empty now *)
Open ==
    /\ pc = "open"
    /\ temps[Name] = None
    /\ pc' = "write"
    /\ seq' = seq + 1
    /\ tmp' = Name
    /\ synced' = FALSE
    /\ temps' = [temps EXCEPT ![Name] = Torn]
    /\ UNCHANGED <<arg, pid, entry, older, abandoned>>

OpenTaken_SameName ==
    /\ pc = "open"
    /\ temps[Name] # None
    /\ UNCHANGED vars

(* AlreadyExists: the next name is tried *)
OpenTaken ==
    /\ pc = "open"
    /\ temps[Name] # None
    /\ seq' = seq + 1
    /\ UNCHANGED <<pc, arg, pid, tmp, synced, disk>>

(* any other error is returned, and there is nothing to clean up *)
OpenFails ==
    /\ pc = "open"
    /\ pc' = "idle"
    /\ seq' = seq + 1
    /\ UNCHANGED <<arg, pid, tmp, synced, disk>>

WriteAll ==
    /\ pc = "write"
    /\ pc' = "sync"
    /\ temps' = [temps EXCEPT ![tmp] = arg]
    /\ UNCHANGED <<process, entry, older, abandoned>>

SyncFile_Skipped ==
    /\ pc = "sync"
    /\ pc' = "rename"
    /\ UNCHANGED <<process, disk>>

SyncFile ==
    /\ pc = "sync"
    /\ pc' = "rename"
    /\ synced' = TRUE
    /\ UNCHANGED <<arg, pid, seq, tmp, disk>>

Rename ==
    /\ pc = "rename"
    /\ pc' = "syncdir"
    /\ entry' = temps[tmp]
    /\ temps' = [temps EXCEPT ![tmp] = None]
    /\ older' = older \cup {entry} \cup (IF synced THEN {} ELSE {Torn})
    /\ UNCHANGED <<process, abandoned>>

StepFails_Returns ==
    /\ pc \in {"write", "sync", "rename"}
    /\ pc' = IF pc = "rename" THEN "idle" ELSE "discard"
    /\ UNCHANGED <<process, disk>>

(* the write, the sync or the rename returns an error *)
StepFails ==
    /\ pc \in {"write", "sync", "rename"}
    /\ pc' = "discard"
    /\ UNCHANGED <<process, disk>>

(* remove_file on the way out of an error; its own error is ignored *)
Discard ==
    /\ pc = "discard"
    /\ pc' = "idle"
    /\ \/ /\ temps' = [temps EXCEPT ![tmp] = None]
          /\ UNCHANGED abandoned
       \/ /\ abandoned' = abandoned \cup {tmp}
          /\ UNCHANGED temps
    /\ UNCHANGED <<process, entry, older>>

SyncDir_Reported ==
    /\ pc = "syncdir"
    /\ \/ pc' = "idle" /\ older' = {}
       \/ pc' = "discard" /\ UNCHANGED older
    /\ UNCHANGED <<process, temps, entry, abandoned>>

(* make the rename durable; a failure of it is ignored *)
SyncDir ==
    /\ pc = "syncdir"
    /\ pc' = "idle"
    /\ older' \in {{}, older}
    /\ UNCHANGED <<process, temps, entry, abandoned>>

-------------------------------------------------------------------------------
(* The process dies and another one starts: the kernel keeps what it holds. *)
Restarted ==
    /\ pc' = "idle"
    /\ pid' \in Pids
    /\ seq' = 0
    /\ UNCHANGED <<arg, tmp, synced>>

Crash ==
    /\ Restarted
    /\ abandoned' = abandoned \cup Files
    /\ UNCHANGED <<temps, entry, older>>

(* The machine dies.  Temporary files may vanish; what is left in the others
   is never read again. *)
PowerFailure ==
    /\ Restarted
    /\ entry' \in {entry} \cup older
    /\ older' = {}
    /\ \E lost \in SUBSET Files :
         temps' = [n \in Names |-> IF n \in lost THEN None ELSE temps[n]]
    /\ abandoned' = abandoned \cup Files

Progress ==
    \/ Prepare
    \/ Open
    \/ OpenTaken
    \/ WriteAll
    \/ SyncFile
    \/ Rename
    \/ Discard
    \/ SyncDir

Failure ==
    \/ OpenFails
    \/ StepFails

Next ==
    \/ \E s \in Snapshots : Store(s)
    \/ Progress
    \/ Failure
    \/ Crash
    \/ PowerFailure

Spec == Init /\ [][Next]_vars

(* Every system call returns; none of them has to fail. *)
FairSpec == Spec /\ WF_vars(Progress)

-------------------------------------------------------------------------------
(* Properties *)

(* Type invariant of the store and of the directory it writes to. *)
TypeOK ==
    /\ pc \in {"idle", "prepare", "open", "write", "sync", "rename", "discard", "syncdir"}
    /\ arg \in Complete
    /\ pid \in Pids
    /\ seq \in 0 .. MaxSeq + 1
    /\ tmp \in Names \cup {None}
    /\ synced \in BOOLEAN
    /\ temps \in [Names -> Content]
    /\ entry \in Content
    /\ older \subseteq Content
    /\ abandoned \subseteq Names

(* Whatever happens between two system calls of store, a crash, an error or a
   power failure, the snapshot's path holds a complete snapshot, or nothing
   when nothing was ever stored there. *)
NeverTorn == entry \in Complete /\ older \subseteq Complete

(* When store has returned, the only temporary files in the directory are
   those a crash interrupted or that could not be removed: an error on any
   later step removes the file ("any failure after the temp file exists must
   not leave it behind"). *)
NoLeftovers == pc = "idle" => Files \subseteq abandoned

(* A temporary file that is there when store looks for a name is never
   written to, although a restarted process may come up with the same names. *)
LeftoversUntouched ==
    [][\A n \in Files : pc = "open" => temps'[n] \in {temps[n], None}]_vars

(* The store returns: names that are taken are skipped, not retried. *)
StoreReturns == pc # "idle" ~> pc = "idle"

(* What the reconciler sees of the store. *)
call == IF pc = "idle" THEN "idle"
        ELSE IF pc = "syncdir" THEN "stored"
        ELSE "storing"

Contract == INSTANCE SnapshotContract WITH
    cell <- entry, given <- arg

(* The store replaces the snapshot in one instant, returns an error exactly
   when it did not, and loses at most replacements whose directory sync did
   not go through. *)
KeepsContract == Contract!ContractSpec
==============================================================================
