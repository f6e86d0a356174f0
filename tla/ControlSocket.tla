--------------------------- MODULE ControlSocket ---------------------------
(***************************************************************************)
(* The control socket's path and the processes that come and go on it:     *)
(* how a starting realm claims the path, how its accept loop survives      *)
(* errors, and how it leaves.                                              *)
(*                                                                         *)
(*   src/control/server.rs   bind, serve                                   *)
(*   src/bin.rs              run, which exits when the bind fails          *)
(*                                                                         *)
(* The file system is shared and has no lock, so every system call of      *)
(* bind is a step of its own.  A path names at most one socket; a socket   *)
(* whose path was removed still listens, and nobody can reach it.          *)
(***************************************************************************)
EXTENDS Naturals

CONSTANTS
    Procs,              \* processes configured with the same socket path
    Backlog,            \* connections the kernel queues before it refuses
    BackoffMin,         \* BACKOFF_MIN of serve
    BackoffMax,         \* BACKOFF_MAX of serve
    Nothing,            \* no file at the path
    Dead                \* a socket file whose process is gone

ASSUME BacklogNonempty == Backlog \in Nat \ {0}
ASSUME BackoffOrdered == BackoffMin \in Nat \ {0} /\ BackoffMax \in Nat
                         /\ BackoffMin <= BackoffMax
ASSUME NotProcesses == Nothing \notin Procs /\ Dead \notin Procs /\ Nothing # Dead

VARIABLES
    path,               \* what the path names: Nothing, Dead, or a process
    pc,                 \* where each process is
    queue,              \* connections its listener has not accepted yet
    backoff,            \* serve's backoff
    exhausted,          \* accept would fail: no file descriptor is left
    raced               \* history: two starts overlapped, or a probe met a full queue

vars == <<path, pc, queue, backoff, exhausted, raced>>

(* Ends of a process: refused by the owner of the path, failed on a step of
   its own bind, crashed, stopped in order. *)
Ended == {"off", "refused", "failed", "crashed", "stopped"}
Binding == {"metadata", "probe", "remove", "bind"}
Serving == {"accept", "sleep"}
Listening == Serving \cup {"stopping"}

Init ==
    /\ path \in {Nothing, Dead}
    /\ pc = [p \in Procs |-> "off"]
    /\ queue = [p \in Procs |-> 0]
    /\ backoff = [p \in Procs |-> BackoffMin]
    /\ exhausted = [p \in Procs |-> FALSE]
    /\ raced = FALSE

-----------------------------------------------------------------------------
(* bind.  Any error of it ends the process. *)

Goto(p, l) == pc' = [pc EXCEPT ![p] = l]

(* run reaches the bind, after the listeners of the snapshot and of the file
   are up. *)
Start(p) ==
    /\ pc[p] \in Ended
    /\ Goto(p, "metadata")
    /\ raced' = (raced \/ \E q \in Procs \ {p} : pc[q] \in Binding)
    /\ UNCHANGED <<path, queue, backoff, exhausted>>

(* symlink_metadata: is there anything at the path. *)
Metadata(p) ==
    /\ pc[p] = "metadata"
    /\ Goto(p, IF path = Nothing THEN "bind" ELSE "probe")
    /\ UNCHANGED <<path, queue, backoff, exhausted, raced>>

Answers(l) == l \in Procs /\ queue[l] < Backlog

(* UnixStream::connect succeeded: another realm owns the path.  The probe is
   dropped, and stays in the owner's queue until it is accepted. *)
ProbeAnswered(p) ==
    /\ pc[p] = "probe"
    /\ Answers(path)
    /\ queue' = [queue EXCEPT ![path] = @ + 1]
    /\ Goto(p, "refused")
    /\ UNCHANGED <<path, backoff, exhausted, raced>>

ProbeUnanswered_Fails(p) ==
    /\ pc[p] = "probe"
    /\ ~Answers(path)
    /\ Goto(p, "failed")
    /\ raced' = (raced \/ path \in Procs)
    /\ UNCHANGED <<path, queue, backoff, exhausted>>

(* Any error of connect counts as a dead socket: nobody listens, the file has
   gone, or the owner's queue is full. *)
ProbeUnanswered(p) ==
    /\ pc[p] = "probe"
    /\ ~Answers(path)
    /\ Goto(p, "remove")
    /\ raced' = (raced \/ path \in Procs)
    /\ UNCHANGED <<path, queue, backoff, exhausted>>

(* remove_file, of whatever the path names by now. *)
RemoveStale(p) ==
    /\ pc[p] = "remove"
    /\ Goto(p, IF path = Nothing THEN "failed" ELSE "bind")
    /\ path' = Nothing
    /\ UNCHANGED <<queue, backoff, exhausted, raced>>

(* UnixListener::bind fails with an address in use when the path exists. *)
Bind(p) ==
    /\ pc[p] = "bind"
    /\ IF path = Nothing
       THEN /\ path' = p
            /\ queue' = [queue EXCEPT ![p] = 0]
            /\ backoff' = [backoff EXCEPT ![p] = BackoffMin]
            /\ Goto(p, "accept")
       ELSE /\ Goto(p, "failed")
            /\ UNCHANGED <<path, queue, backoff>>
    /\ UNCHANGED <<exhausted, raced>>

-----------------------------------------------------------------------------
(* serve. *)

(* A connection is taken, and given a task of its own. *)
Accept(p) ==
    /\ pc[p] = "accept"
    /\ queue[p] > 0
    /\ ~exhausted[p]
    /\ queue' = [queue EXCEPT ![p] = @ - 1]
    /\ backoff' = [backoff EXCEPT ![p] = BackoffMin]
    /\ UNCHANGED <<path, pc, exhausted, raced>>

(* ConnectionAborted: the client left while it was queued; accept again. *)
AcceptAborted(p) ==
    /\ pc[p] = "accept"
    /\ queue[p] > 0
    /\ queue' = [queue EXCEPT ![p] = @ - 1]
    /\ UNCHANGED <<path, pc, backoff, exhausted, raced>>

(* Any other error: the connection stays queued, and serve sleeps. *)
AcceptFails(p) ==
    /\ pc[p] = "accept"
    /\ queue[p] > 0
    /\ exhausted[p]
    /\ Goto(p, "sleep")
    /\ UNCHANGED <<path, queue, backoff, exhausted, raced>>

Wake_GivesUp(p) ==
    /\ pc[p] = "sleep"
    /\ backoff[p] < BackoffMax
    /\ Goto(p, "accept")
    /\ backoff' = [backoff EXCEPT ![p] = IF 2 * @ < BackoffMax THEN 2 * @ ELSE BackoffMax]
    /\ UNCHANGED <<path, queue, exhausted, raced>>

Wake(p) ==
    /\ pc[p] = "sleep"
    /\ Goto(p, "accept")
    /\ backoff' = [backoff EXCEPT ![p] = IF 2 * @ < BackoffMax THEN 2 * @ ELSE BackoffMax]
    /\ UNCHANGED <<path, queue, exhausted, raced>>

Shutdown_ClosesFirst(p) ==
    /\ pc[p] \in Serving
    /\ Goto(p, "stopping")
    /\ path' = IF path = p THEN Dead ELSE path
    /\ UNCHANGED <<queue, backoff, exhausted, raced>>

(* The shutdown token fires, and serve leaves its loop. *)
Shutdown(p) ==
    /\ pc[p] \in Serving
    /\ Goto(p, "stopping")
    /\ UNCHANGED <<path, queue, backoff, exhausted, raced>>

(* remove_file, whatever the path names; then the listener is dropped. *)
Unlink(p) ==
    /\ pc[p] = "stopping"
    /\ path' = Nothing
    /\ queue' = [queue EXCEPT ![p] = 0]
    /\ Goto(p, "stopped")
    /\ UNCHANGED <<backoff, exhausted, raced>>

-----------------------------------------------------------------------------
(* The world: a process dies without removing its file, clients connect, and
   file descriptors run out and come back. *)

Crash(p) ==
    /\ pc[p] \notin Ended
    /\ path' = IF path = p THEN Dead ELSE path
    /\ queue' = [queue EXCEPT ![p] = 0]
    /\ Goto(p, "crashed")
    /\ UNCHANGED <<backoff, exhausted, raced>>

ClientConnects(p) ==
    /\ path = p
    /\ Answers(p)
    /\ queue' = [queue EXCEPT ![p] = @ + 1]
    /\ UNCHANGED <<path, pc, backoff, exhausted, raced>>

Descriptors(p) ==
    /\ exhausted' = [exhausted EXCEPT ![p] = ~@]
    /\ UNCHANGED <<path, pc, queue, backoff, raced>>

Claim(p) ==
    \/ Metadata(p)
    \/ ProbeAnswered(p)
    \/ ProbeUnanswered(p)
    \/ RemoveStale(p)
    \/ Bind(p)

Serve(p) ==
    \/ Accept(p)
    \/ AcceptFails(p)
    \/ Wake(p)
    \/ Unlink(p)

Next == \E p \in Procs :
    \/ Start(p)
    \/ Claim(p)
    \/ Serve(p)
    \/ AcceptAborted(p)
    \/ Shutdown(p)
    \/ Crash(p)
    \/ ClientConnects(p)
    \/ Descriptors(p)

(* A process that is alive is scheduled, and a sleep ends. *)
Fairness == \A p \in Procs : WF_vars(Claim(p)) /\ WF_vars(Serve(p))

Spec == Init /\ [][Next]_vars

FairSpec == Spec /\ Fairness

-----------------------------------------------------------------------------

(* One type invariant: the path names nothing, a leftover or a process, and
   the accept loop's delay stays between its two bounds. *)
TypeOK ==
    /\ path \in Procs \cup {Nothing, Dead}
    /\ pc \in [Procs -> Ended \cup Binding \cup Listening]
    /\ queue \in [Procs -> 0..Backlog]
    /\ backoff \in [Procs -> BackoffMin..BackoffMax]
    /\ exhausted \in [Procs -> BOOLEAN]
    /\ raced \in BOOLEAN

(* "if something answers, another realm owns this path and binding fails ...
   if nothing does, the stale file is removed" (server.rs:64-66).  A process
   that serves keeps its path: no start, crash or stop of another process
   takes it away.  The exception is part of the statement: bind's probe and
   its removal are not atomic and take any error for a dead socket, so a start
   that overlaps another, or that probes while the owner's queue is full, can
   displace a live owner, which then serves where nobody reaches it. *)
OwnerKeepsPath ==
    raced \/ \A p \in Procs : pc[p] \in Serving => path = p

(* "a leftover socket from a crashed process is probed and, if dead, replaced
   (R30)" (server.rs:6-7).  A process that starts over a leftover ends up
   serving, unless it crashes or races with another. *)
LeftoverReplaced ==
    \A p \in Procs :
        (pc[p] = "metadata" /\ path = Dead)
            ~> (raced \/ pc[p] = "crashed" \/ (pc[p] = "accept" /\ path = p))

(* The accept loop outlives its errors: once descriptors are free for good, a
   full queue of clients is served again, or the process is on its way out. *)
ServesAgain ==
    \A p \in Procs :
        <>[]~exhausted[p] =>
            ((pc[p] \in Serving /\ queue[p] = Backlog)
                ~> (queue[p] < Backlog \/ pc[p] \notin Serving))
=============================================================================
