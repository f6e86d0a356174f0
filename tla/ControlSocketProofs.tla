------------------------ MODULE ControlSocketProofs ------------------------
(***************************************************************************)
(* For every number of processes, queue length and pair of delays: a       *)
(* serving process keeps its path until two starts race or a queue fills.  *)
(*                                                                         *)
(* OwnerKeepsPath is not inductive: that nobody serves while a start is    *)
(* about to remove or to bind follows from what the start saw earlier and  *)
(* from its being the only one.  ClaimInv adds those facts.                *)
(***************************************************************************)
EXTENDS ControlSocket, TLAPS

(* Until a race: one start at a time, a listener owns its path, and a start
   that has found the path dead or empty is still right about it. *)
ClaimInv ==
    /\ path \in Procs => pc[path] \in Listening
    /\ raced \/ \A p, q \in Procs : pc[p] \in Binding /\ pc[q] \in Binding => p = q
    /\ raced \/ \A p \in Procs : pc[p] \in Listening => path = p
    /\ raced \/ \A p \in Procs : pc[p] = "remove" => path \notin Procs
    /\ raced \/ \A p \in Procs : pc[p] = "bind" => path = Nothing

IInv == TypeOK /\ ClaimInv

(* A process that moves leaves every other where it was. *)
LEMMA GotoMoves ==
    ASSUME TypeOK, NEW p \in Procs, NEW l \in Ended \cup Binding \cup Listening, Goto(p, l)
    PROVE  /\ pc' \in [Procs -> Ended \cup Binding \cup Listening]
           /\ pc'[p] = l
           /\ \A q \in Procs \ {p} : pc'[q] = pc[q]
BY DEF TypeOK, Goto

(* No start, accept, stop or crash takes the state out of its types. *)
LEMMA TypeStep == TypeOK /\ [Next]_vars => TypeOK'
<1> SUFFICES ASSUME TypeOK, [Next]_vars PROVE TypeOK'
  OBVIOUS
<1> USE BacklogNonempty, BackoffOrdered DEF TypeOK
<1>1. ASSUME NEW p \in Procs, Start(p) PROVE TypeOK'
  BY <1>1, GotoMoves DEF Start, Binding
<1>2. ASSUME NEW p \in Procs, Metadata(p) PROVE TypeOK'
  BY <1>2, GotoMoves DEF Metadata, Binding
<1>3. ASSUME NEW p \in Procs, ProbeAnswered(p) PROVE TypeOK'
  <2>1. queue' \in [Procs -> 0..Backlog]
    BY <1>3 DEF ProbeAnswered, Answers
  <2> QED BY <1>3, <2>1, GotoMoves DEF ProbeAnswered, Ended
<1>4. ASSUME NEW p \in Procs, ProbeUnanswered(p) PROVE TypeOK'
  BY <1>4, GotoMoves DEF ProbeUnanswered, Binding
<1>5. ASSUME NEW p \in Procs, RemoveStale(p) PROVE TypeOK'
  BY <1>5, GotoMoves DEF RemoveStale, Binding, Ended
<1>6. ASSUME NEW p \in Procs, Bind(p) PROVE TypeOK'
  BY <1>6, GotoMoves DEF Bind, Ended, Listening, Serving
<1>7. ASSUME NEW p \in Procs, Accept(p) PROVE TypeOK'
  BY <1>7 DEF Accept
<1>8. ASSUME NEW p \in Procs, AcceptAborted(p) PROVE TypeOK'
  BY <1>8 DEF AcceptAborted
<1>9. ASSUME NEW p \in Procs, AcceptFails(p) PROVE TypeOK'
  BY <1>9, GotoMoves DEF AcceptFails, Listening, Serving
<1>10. ASSUME NEW p \in Procs, Wake(p) PROVE TypeOK'
  <2>1. backoff' \in [Procs -> BackoffMin..BackoffMax]
    BY <1>10 DEF Wake
  <2> QED BY <1>10, <2>1, GotoMoves DEF Wake, Listening, Serving
<1>11. ASSUME NEW p \in Procs, Shutdown(p) PROVE TypeOK'
  BY <1>11, GotoMoves DEF Shutdown, Listening
<1>12. ASSUME NEW p \in Procs, Unlink(p) PROVE TypeOK'
  BY <1>12, GotoMoves DEF Unlink, Ended
<1>13. ASSUME NEW p \in Procs, Crash(p) PROVE TypeOK'
  BY <1>13, GotoMoves DEF Crash, Ended
<1>14. ASSUME NEW p \in Procs, ClientConnects(p) PROVE TypeOK'
  BY <1>14 DEF ClientConnects, Answers
<1>15. ASSUME NEW p \in Procs, Descriptors(p) PROVE TypeOK'
  BY <1>15 DEF Descriptors
<1>16. CASE UNCHANGED vars
  BY <1>16 DEF vars
<1> QED
  BY <1>1, <1>2, <1>3, <1>4, <1>5, <1>6, <1>7, <1>8, <1>9, <1>10, <1>11, <1>12,
     <1>13, <1>14, <1>15, <1>16 DEF Next, Claim, Serve

(* Each step keeps what a lone start knows about the path. *)
LEMMA ClaimStep == IInv /\ [Next]_vars => ClaimInv'
<1> SUFFICES ASSUME TypeOK, ClaimInv, [Next]_vars PROVE ClaimInv'
  BY DEF IInv
<1> USE NotProcesses DEF ClaimInv, Ended, Binding, Serving, Listening
<1>0. raced \in BOOLEAN /\ pc \in [Procs -> Ended \cup Binding \cup Listening]
  BY DEF TypeOK
<1>1. ASSUME NEW p \in Procs, Start(p) PROVE ClaimInv'
  <2>1. pc'[p] = "metadata" /\ \A q \in Procs \ {p} : pc'[q] = pc[q]
    BY <1>1, GotoMoves DEF Start
  <2>2. raced' \/ (~raced /\ \A q \in Procs \ {p} : pc[q] \notin Binding)
    BY <1>1, Zenon DEF Start
  <2>3. path' = path /\ pc[p] \in Ended
    BY <1>1 DEF Start
  <2> QED BY <2>1, <2>2, <2>3
<1>2. ASSUME NEW p \in Procs, Metadata(p) PROVE ClaimInv'
  BY <1>0, <1>2, GotoMoves DEF Metadata
<1>3. ASSUME NEW p \in Procs, ProbeAnswered(p) PROVE ClaimInv'
  BY <1>0, <1>3, GotoMoves DEF ProbeAnswered
<1>4. ASSUME NEW p \in Procs, ProbeUnanswered(p) PROVE ClaimInv'
  <2>1. pc'[p] = "remove" /\ \A q \in Procs \ {p} : pc'[q] = pc[q]
    BY <1>4, GotoMoves DEF ProbeUnanswered
  <2>2. raced' \/ (~raced /\ path \notin Procs)
    BY <1>4, Zenon DEF ProbeUnanswered
  <2>3. path' = path /\ pc[p] = "probe"
    BY <1>4 DEF ProbeUnanswered
  <2> QED BY <2>1, <2>2, <2>3
<1>5. ASSUME NEW p \in Procs, RemoveStale(p) PROVE ClaimInv'
  BY <1>0, <1>5, GotoMoves DEF RemoveStale
<1>6. ASSUME NEW p \in Procs, Bind(p) PROVE ClaimInv'
  BY <1>0, <1>6, GotoMoves DEF Bind
<1>7. ASSUME NEW p \in Procs, Accept(p) \/ AcceptAborted(p) \/ ClientConnects(p) \/ Descriptors(p)
      PROVE  ClaimInv'
  BY <1>7 DEF Accept, AcceptAborted, ClientConnects, Descriptors
<1>8. ASSUME NEW p \in Procs, AcceptFails(p) \/ Wake(p) \/ Shutdown(p) PROVE ClaimInv'
  BY <1>0, <1>8, GotoMoves DEF AcceptFails, Wake, Shutdown
<1>9. ASSUME NEW p \in Procs, Unlink(p) PROVE ClaimInv'
  BY <1>0, <1>9, GotoMoves DEF Unlink
<1>10. ASSUME NEW p \in Procs, Crash(p) PROVE ClaimInv'
  <2>1. pc'[p] = "crashed" /\ \A q \in Procs \ {p} : pc'[q] = pc[q]
    BY <1>10, GotoMoves DEF Crash
  <2>2. path' = IF path = p THEN Dead ELSE path
    BY <1>10 DEF Crash
  <2>3. raced' \/ ~raced
    BY <1>10 DEF Crash
  <2>4. path' \in Procs => pc'[path'] \in Listening
    BY <2>1, <2>2
  <2>5. CASE ~raced
    <3>1. \A q \in Procs : pc'[q] \in Listening => path' = q
      BY <2>1, <2>2, <2>5
    <3>2. \A q \in Procs : pc'[q] \in Binding => pc[q] \in Binding /\ q # p
      BY <2>1
    <3>3. \A q \in Procs : pc'[q] = "remove" => path' \notin Procs
      BY <2>1, <2>2, <2>5
    <3>4. \A q \in Procs : pc'[q] = "bind" => path' = Nothing
      BY <2>1, <2>2, <2>5
    <3> QED BY <2>4, <2>5, <3>1, <3>2, <3>3, <3>4
  <2> QED BY <2>3, <2>4, <2>5
<1>11. CASE UNCHANGED vars
  <2>1. path' = path /\ pc' = pc /\ (raced' \/ ~raced)
    BY <1>11 DEF vars
  <2> QED BY <2>1
<1> HIDE DEF ClaimInv, Ended, Binding, Serving, Listening
<1> QED
  BY <1>1, <1>2, <1>3, <1>4, <1>5, <1>6, <1>7, <1>8, <1>9, <1>10, <1>11
  DEF Next, Claim, Serve

(* The invariant of the control socket, for every instance. *)
THEOREM ControlSocketInv == Spec => []IInv
<1>1. Init => IInv
  <2> SUFFICES ASSUME Init PROVE TypeOK /\ ClaimInv
    BY DEF IInv
  <2>1. TypeOK
    <3>1. queue \in [Procs -> 0..Backlog] /\ backoff \in [Procs -> BackoffMin..BackoffMax]
      BY BacklogNonempty, BackoffOrdered DEF Init
    <3>2. exhausted \in [Procs -> BOOLEAN] /\ raced \in BOOLEAN
      BY Zenon DEF Init
    <3>3. path \in Procs \cup {Nothing, Dead} /\ pc \in [Procs -> Ended \cup Binding \cup Listening]
      BY DEF Init, Ended
    <3> QED BY <3>1, <3>2, <3>3 DEF TypeOK
  <2>2. path \notin Procs /\ \A p \in Procs : pc[p] = "off"
    BY NotProcesses DEF Init
  <2>3. ClaimInv
    BY <2>2 DEF ClaimInv, Binding, Listening, Serving
  <2> QED BY <2>1, <2>3
<1>2. IInv /\ [Next]_vars => IInv'
  BY TypeStep, ClaimStep DEF IInv
<1> QED
  BY <1>1, <1>2, PTL DEF Spec

(* bind and serve: a process that serves keeps its path until two starts race
   or a probe meets a full queue. *)
THEOREM OwnerKeepsPathHolds == Spec => []OwnerKeepsPath
<1>1. IInv => OwnerKeepsPath
  BY DEF IInv, ClaimInv, OwnerKeepsPath, Listening
<1> QED
  BY <1>1, ControlSocketInv, PTL
=============================================================================
