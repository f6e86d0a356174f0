------------------------------ MODULE UdpProofs ------------------------------
(***************************************************************************)
(* Proofs about UdpRelay, for any clients, sockets and batches.            *)
(*                                                                         *)
(* First the associations: what the map offers, who reads for a client,    *)
(* and what a drained cohort leaves.  That argument never looks at what    *)
(* grouping computes: Find may pick any client at all.                     *)
(*                                                                         *)
(* Then the batch: what group_by_inner computes, by induction over its two *)
(* loops, and what becomes of the datagrams it regroups.  That argument    *)
(* needs nothing of the first, and holds however early a task ends.        *)
(***************************************************************************)
EXTENDS UdpRelay, WellFoundedInduction, TLAPS

(* the task of s still owns its entry, if it has one *)
Owns(s, c) ==
    /\ assoc[s] # None
    /\ assoc[s].client = c
    /\ assoc[s].at \in {"reading", "left"}

(* The map and the tasks are functions of clients and sockets. *)
Shape ==
    /\ loop \in LoopState
    /\ sockmap \in [Clients -> Socks \cup {None}]
    /\ assoc = [s \in Socks |-> assoc[s]]
    /\ \A s \in Socks :
         assoc[s] # None => assoc[s] \in [client: {assoc[s].client}, at: TaskState]

(* While the loop runs, an association that owns its entry is in the map, or
   is the one about to be inserted; and there is one per client. *)
OwnersMapped ==
    \A c \in Clients, s \in Socks :
      Owns(s, c) => \/ sockmap[c] = s
                    \/ loop = "insert" /\ rsock = s
                    \/ loop = "exited"

SoleOwner ==
    \A c \in Clients : \A r, s \in Socks : Owns(r, c) /\ Owns(s, c) => r = s

(* What the loop found is still so when it acts on it. *)
Pending ==
    /\ loop = "create" /\ client \in Clients => sockmap[client] = None
    /\ loop = "insert" =>
         /\ rsock \in Socks
         /\ assoc[rsock] = [client |-> client, at |-> "reading"]
         /\ client \in Clients => sockmap[client] = None

(* Tokens fire and drains are reported only once the loop is gone, and the
   map with it. *)
Stopped ==
    /\ owner \in {"stopped", "rebuilding", "waiting", "drained"} => loop = "exited"
    /\ token => loop = "exited"
    /\ loop = "exited" => \A c \in Clients : sockmap[c] = None
    /\ owner = "drained" => GuardsGone

IInv ==
    /\ Shape
    /\ MapEntriesLive
    /\ OwnersMapped
    /\ SoleOwner
    /\ Pending
    /\ Stopped

(* The relay starts with an empty map and no association (serve_udp). *)
LEMMA InitEstablishes == Init => IInv
BY NoneIsNobody
   DEF Init, IInv, Shape, LoopState, MapEntriesLive, OwnersMapped, SoleOwner, Owns,
       Pending, Stopped

(* The receive loop of serve_udp keeps the invariant, creation and insertion
   of an association included. *)
LEMMA LoopKeeps ==
    ASSUME IInv, Relaying
    PROVE  IInv'
<1> USE NoneIsNobody DEF IInv
<1>1. CASE \E b \in Batches : Receive(b)
  BY <1>1 DEF Receive, Shape, LoopState, MapEntriesLive, OwnersMapped, SoleOwner, Owns,
              Pending, Stopped, GuardsGone, At
<1>2. CASE Resolve
  BY <1>2 DEF Resolve, Shape, LoopState, MapEntriesLive, OwnersMapped, SoleOwner, Owns,
              Pending, Stopped, GuardsGone, At
<1>3. CASE Find
  <2>1. /\ loop = "find" /\ loop' = IF rsock' = None THEN "create" ELSE "send"
        /\ rsock' = sockmap[client']
        /\ UNCHANGED <<sockmap, assoc, owner, token>>
    BY <1>3 DEF Find
  <2>2. Shape' /\ MapEntriesLive' /\ Pending'
    BY <2>1 DEF Shape, LoopState, MapEntriesLive, Pending
  <2>3. OwnersMapped' /\ SoleOwner'
    BY <2>1 DEF OwnersMapped, SoleOwner, Owns
  <2>4. Stopped'
    BY <2>1 DEF Stopped, GuardsGone, At
  <2> QED
    BY <2>2, <2>3, <2>4
<1>4. ASSUME NEW s \in Socks, Create(s) PROVE IInv'
  <2> DEFINE task == [client |-> client, at |-> "reading"]
  <2>1. /\ loop = "create" /\ loop' = "insert" /\ rsock' = s
        /\ assoc[s] = None
        /\ assoc' = [assoc EXCEPT ![s] = task]
        /\ UNCHANGED <<sockmap, client, owner, token>>
        /\ \A c \in Clients : sockmap[c] # s
    BY <1>4 DEF Create
  <2>2. /\ assoc'[s] = task
        /\ \A r \in Socks \ {s} : assoc'[r] = assoc[r]
        /\ assoc' = [r \in Socks |-> assoc'[r]]
    BY <2>1 DEF Shape
  <2>3. task \in [client: {task.client}, at: TaskState]
    BY DEF TaskState
  <2>4. Shape'
    BY <2>1, <2>2, <2>3 DEF Shape, LoopState
  <2>5. MapEntriesLive'
    BY <2>1, <2>2 DEF MapEntriesLive, Shape
  <2>6. \A c \in Clients : Owns(s, c)' => c = client
    BY <2>2 DEF Owns
  <2>7. \A c \in Clients : \A r \in Socks \ {s} : Owns(r, c)' => Owns(r, c) /\ sockmap[c] = r
    BY <2>1, <2>2 DEF Owns, OwnersMapped
  <2>8. OwnersMapped' /\ SoleOwner'
    <3>1. client \in Clients => sockmap[client] = None
      BY <2>1 DEF Pending
    <3>2. OwnersMapped'
      BY <2>1, <2>7 DEF OwnersMapped
    <3>3. SoleOwner'
      BY <2>1, <2>6, <2>7, <3>1 DEF SoleOwner
    <3> QED
      BY <3>2, <3>3
  <2>9. Pending'
    BY <2>1, <2>2 DEF Pending
  <2>10. Stopped'
    BY <2>1 DEF Stopped
  <2> QED
    BY <2>4, <2>5, <2>8, <2>9, <2>10
<1>5. CASE Insert
  <2>1. /\ loop = "insert" /\ loop' = "send"
        /\ sockmap' = [sockmap EXCEPT ![client] = rsock]
        /\ UNCHANGED <<assoc, owner, token>>
    BY <1>5 DEF Insert
  <2>2. /\ rsock \in Socks
        /\ assoc[rsock] = [client |-> client, at |-> "reading"]
    BY <2>1 DEF Pending
  <2>3. sockmap' \in [Clients -> Socks \cup {None}]
    BY <2>1, <2>2, Zenon DEF Shape
  <2>4. \A c \in Clients : sockmap'[c] = IF c = client THEN rsock ELSE sockmap[c]
    BY <2>1 DEF Shape
  <2>5. client \in Clients => assoc[rsock] # None
    BY <2>2 DEF TaskState
  <2>6. Shape'
    BY <2>1, <2>3 DEF Shape, LoopState
  <2>7. MapEntriesLive'
    BY <2>1, <2>2, <2>4, <2>5 DEF MapEntriesLive
  <2>8. OwnersMapped'
    <3> SUFFICES ASSUME NEW c \in Clients, NEW s \in Socks, Owns(s, c)
                 PROVE  sockmap'[c] = s
      BY <2>1 DEF OwnersMapped, Owns
    <3>1. CASE s = rsock
      BY <3>1, <2>2, <2>4 DEF Owns
    <3>2. CASE s # rsock
      <4>1. sockmap[c] = s
        BY <3>2, <2>1 DEF OwnersMapped
      <4>2. c # client
        BY <4>1, <2>1 DEF Pending
      <4> QED
        BY <4>1, <4>2, <2>4
    <3> QED
      BY <3>1, <3>2
  <2>9. SoleOwner'
    BY <2>1 DEF SoleOwner, Owns
  <2>10. Pending' /\ Stopped'
    BY <2>1 DEF Pending, Stopped
  <2> QED
    BY <2>6, <2>7, <2>8, <2>9, <2>10
<1>6. CASE Send
  <2>1. /\ loop = "send" /\ loop' \in {"recv", "find"}
        /\ UNCHANGED <<sockmap, assoc, owner, token>>
    BY <1>6 DEF Send
  <2> QED
    BY <2>1 DEF Shape, LoopState, MapEntriesLive, OwnersMapped, SoleOwner, Owns,
                Pending, Stopped, GuardsGone, At
<1>7. CASE BatchFails
  <2>1. /\ loop \notin {"insert", "exited"} /\ loop' = "recv"
        /\ UNCHANGED <<sockmap, assoc, owner, token>>
    BY <1>7 DEF BatchFails
  <2>2. Shape' /\ MapEntriesLive' /\ Pending'
    BY <2>1 DEF Shape, LoopState, MapEntriesLive, Pending
  <2>3. OwnersMapped' /\ SoleOwner'
    BY <2>1 DEF OwnersMapped, SoleOwner, Owns
  <2>4. Stopped'
    BY <2>1 DEF Stopped, GuardsGone, At
  <2> QED
    BY <2>2, <2>3, <2>4
<1>8. CASE ExitLoop
  BY <1>8 DEF ExitLoop, DropBatch, Shape, LoopState, MapEntriesLive, OwnersMapped,
              SoleOwner, Owns, Pending, Stopped, GuardsGone, At
<1> QED
  BY <1>1, <1>2, <1>3, <1>4, <1>5, <1>6, <1>7, <1>8 DEF Relaying

(* The task of an association, from the end of its loop to the drop of its
   sockets (send_back), keeps the invariant, unless it may end before its
   association is inserted. *)
LEMMA TasksKeep ==
    ASSUME IInv, Early = FALSE, NEW s \in Socks, Answering(s)
    PROVE  IInv'
<1> USE NoneIsNobody DEF IInv
<1>1. CASE AssociationEnds(s) \/ AssociationCancelled(s)
  <2>1. /\ assoc[s] # None /\ assoc[s].at = "reading"
        /\ ~(loop = "insert" /\ rsock = s)
        /\ assoc' = [assoc EXCEPT ![s].at = "left"]
        /\ UNCHANGED <<loop, rsock, client, sockmap, owner, token>>
    <3>1. CASE AssociationEnds(s)
      BY <3>1 DEF AssociationEnds, At, taskVars, loopVars
    <3>2. CASE AssociationCancelled(s)
      <4>1. loop = "exited"
        BY <3>2 DEF AssociationCancelled, Stopped
      <4> QED
        BY <3>2, <4>1 DEF AssociationCancelled, At, taskVars, loopVars
    <3> QED
      BY <1>1, <3>1, <3>2
  <2>2. /\ assoc'[s] = [client |-> assoc[s].client, at |-> "left"]
        /\ \A r \in Socks \ {s} : assoc'[r] = assoc[r]
        /\ assoc' = [r \in Socks |-> assoc'[r]]
    BY <2>1 DEF Shape
  <2>3. Shape'
    BY <2>1, <2>2 DEF Shape, TaskState
  <2>4. MapEntriesLive'
    <3> SUFFICES ASSUME NEW c \in Clients, sockmap[c] = s
                 PROVE  assoc'[s] # None /\ assoc'[s].client = c
      BY SMTT(40), <2>1, <2>2 DEF MapEntriesLive, Shape
    <3>1. assoc[s].client = c
      BY DEF MapEntriesLive
    <3> QED
      BY <3>1, <2>2 DEF TaskState
  <2>5. \A c \in Clients, r \in Socks : Owns(r, c)' => Owns(r, c)
    BY <2>1, <2>2 DEF Owns
  <2>6. OwnersMapped' /\ SoleOwner'
    BY <2>1, <2>5 DEF OwnersMapped, SoleOwner
  <2>7. Pending'
    BY <2>1, <2>2 DEF Pending
  <2>8. Stopped'
    BY <2>1 DEF Stopped, GuardsGone, At
  <2> QED
    BY <2>3, <2>4, <2>6, <2>7, <2>8
<1>2. CASE RemoveEntry(s)
  <2> DEFINE c0 == assoc[s].client
  <2>1. /\ assoc[s] # None /\ assoc[s].at = "left"
        /\ sockmap' = [sockmap EXCEPT ![c0] = None]
        /\ assoc' = [assoc EXCEPT ![s].at = "removed"]
        /\ UNCHANGED <<loop, rsock, client, owner, token>>
    BY <1>2 DEF RemoveEntry, At, taskVars, loopVars
  <2>2. /\ assoc'[s] = [client |-> c0, at |-> "removed"]
        /\ \A r \in Socks \ {s} : assoc'[r] = assoc[r]
        /\ assoc' = [r \in Socks |-> assoc'[r]]
    BY <2>1 DEF Shape
  <2>3. /\ sockmap' \in [Clients -> Socks \cup {None}]
        /\ \A c \in Clients : sockmap'[c] = IF c = c0 THEN None ELSE sockmap[c]
    BY <2>1, Zenon DEF Shape
  <2>4. Shape'
    BY <2>1, <2>2, <2>3 DEF Shape, TaskState
  <2>5. MapEntriesLive'
    BY <2>1, <2>2, <2>3 DEF MapEntriesLive, Shape
  <2>6. \A c \in Clients, r \in Socks : Owns(r, c)' => r # s /\ Owns(r, c)
    BY <2>2 DEF Owns
  <2>7. \A c \in Clients, r \in Socks : Owns(r, c)' => c # c0
    BY <2>1, <2>6 DEF SoleOwner, Owns
  <2>8. OwnersMapped' /\ SoleOwner'
    BY <2>1, <2>3, <2>6, <2>7 DEF OwnersMapped, SoleOwner
  <2>9. Pending'
    BY <2>1, <2>2, <2>3 DEF Pending
  <2>10. Stopped'
    BY <2>1, <2>3 DEF Stopped, GuardsGone, At
  <2> QED
    BY <2>4, <2>5, <2>8, <2>9, <2>10
<1>3. CASE DropGuard(s) \/ DropSockets(s)
  <2>1. /\ assoc[s] # None /\ assoc[s].at \in {"removed", "released"}
        /\ UNCHANGED <<loop, rsock, client, sockmap, owner, token>>
        /\ \/ assoc' = [assoc EXCEPT ![s].at = "released"]
           \/ assoc' = [assoc EXCEPT ![s] = None]
    BY <1>3 DEF DropGuard, DropSockets, At, taskVars, loopVars
  <2>2. /\ assoc'[s] \in {None, [client |-> assoc[s].client, at |-> "released"]}
        /\ \A r \in Socks \ {s} : assoc'[r] = assoc[r]
        /\ assoc' = [r \in Socks |-> assoc'[r]]
    BY <2>1 DEF Shape
  <2>3. Shape'
    BY <2>1, <2>2 DEF Shape, TaskState
  <2>4. MapEntriesLive'
    BY <2>1, <2>2 DEF MapEntriesLive, Shape
  <2>5. \A c \in Clients, r \in Socks : Owns(r, c)' => Owns(r, c)
    BY <2>2 DEF Owns
  <2>6. OwnersMapped' /\ SoleOwner'
    BY <2>1, <2>5 DEF OwnersMapped, SoleOwner
  <2>7. Pending'
    BY <2>1, <2>2 DEF Pending
  <2>8. Stopped'
    BY <2>1, <2>2 DEF Stopped, GuardsGone, At
  <2> QED
    BY <2>3, <2>4, <2>6, <2>7, <2>8
<1> QED
  BY <1>1, <1>2, <1>3 DEF Answering

(* What the manager does with a generation (stop_active, the rebuild and the
   drain) keeps the invariant. *)
LEMMA OwnerKeeps ==
    ASSUME IInv, Owning
    PROVE  IInv'
<1>1. /\ UNCHANGED <<loop, rsock, client, sockmap, assoc>>
      /\ Stopped'
  BY DEF IInv, Owning, StopActive, Join, Rebuild, Drain, DrainExpires, Drained,
         ownerVars, loopVars, Stopped, GuardsGone, At
<1> QED
  BY <1>1 DEF IInv, Shape, MapEntriesLive, OwnersMapped, SoleOwner, Owns, Pending

(* Every behaviour of the relay keeps the invariant, provided no task ends
   between the spawn and the insert of find_or_insert. *)
LEMMA Invariance ==
    ASSUME Early = FALSE
    PROVE  Spec => []IInv
<1>1. ASSUME IInv, [Next]_vars PROVE IInv'
  <2>1. CASE UNCHANGED vars
    BY <1>1, <2>1
    DEF IInv, Shape, MapEntriesLive, OwnersMapped, SoleOwner, Owns, Pending, Stopped,
        GuardsGone, At, vars, loopVars
  <2>2. CASE Terminated
    BY <2>1, <2>2 DEF Terminated
  <2> QED
    BY <1>1, <2>1, <2>2, LoopKeeps, TasksKeep, OwnerKeeps, Zenon DEF Next
<1> QED
  BY <1>1, InitEstablishes, PTL DEF Spec

(* The map never offers an association whose task is gone or belongs to
   another client (SockMap under send_back and associate_and_relay), for any
   number of clients and associations. *)
THEOREM EntriesAreLive ==
    ASSUME Early = FALSE
    PROVE  Spec => []MapEntriesLive
BY Invariance, PTL DEF IInv

(* No client ever has two tasks that route answers back to it. *)
THEOREM SingleReader ==
    ASSUME Early = FALSE
    PROVE  Spec => []OneReaderPerClient
<1>1. IInv => OneReaderPerClient
  BY DEF IInv, SoleOwner, Owns, OneReaderPerClient, At
<1> QED
  BY <1>1, Invariance, PTL

(* A cohort reported as drained leaves no entry in the map and no task that
   still reads. *)
THEOREM DrainedIsFinal ==
    ASSUME Early = FALSE
    PROVE  Spec => []DrainedLeavesNothing
<1>1. IInv => DrainedLeavesNothing
  BY DEF IInv, Stopped, GuardsGone, DrainedLeavesNothing
<1> QED
  BY <1>1, Invariance, PTL

-------------------------------------------------------------------------------
(* Recursive functions. *)

(* Induction over a set of numbers, from the well-foundedness of < on Nat: the
   loops of group_by_inner are counted with it. *)
LEMMA SetInduction ==
    ASSUME NEW S, 0 \in S, \A n \in Nat : n \in S => n + 1 \in S
    PROVE  Nat \subseteq S
<1> DEFINE R == OpToRel(<, Nat)
           T == Nat \ S
<1>1. IsWellFoundedOn(R, Nat)
  BY NatLessThanWellFounded, Zenon
<1>2. ASSUME T # {} PROVE FALSE
  <2>1. PICK x \in T : \A y \in T : ~(<<y, x>> \in R)
    <3> HIDE DEF R
    <3> QED
      BY <1>1, <1>2, WFMin, Zenon
  <2>2. x \in Nat /\ x # 0 /\ x - 1 \in Nat /\ x - 1 < x
    OBVIOUS
  <2>3. <<x - 1, x>> \in R
    BY <2>2, Zenon DEF OpToRel
  <2>4. x - 1 \in S
    BY <2>1, <2>2, <2>3, Zenon
  <2>5. (x - 1) + 1 = x
    BY <2>2
  <2> QED
    BY <2>2, <2>4, <2>5
<1> QED
  BY <1>2

(* Induction from a up to b. *)
LEMMA IntervalInduction ==
    ASSUME NEW S, NEW a \in Nat, NEW b \in Nat, a \in S,
           \A p \in a .. b : p # b /\ p \in S => p + 1 \in S
    PROVE  a .. b \subseteq S
<1> DEFINE T == {k \in Nat : a + k <= b => a + k \in S}
<1>1. 0 \in T
  OBVIOUS
<1>2. ASSUME NEW k \in Nat, k \in T PROVE k + 1 \in T
  <2> SUFFICES ASSUME a + (k + 1) <= b PROVE a + (k + 1) \in S
    OBVIOUS
  <2>1. a + k \in a .. b /\ a + k # b /\ a + k \in S
    BY <1>2
  <2>2. (a + k) + 1 \in S
    BY <2>1
  <2> QED
    BY <2>2
<1>3. Nat \subseteq T
  <2> HIDE DEF T
  <2> QED
    BY <1>1, <1>2, SetInduction
<1>4. ASSUME NEW p \in a .. b PROVE p \in S
  <2>1. p - a \in T
    BY <1>3
  <2> QED
    BY <2>1
<1> QED
  BY <1>4

(* f is the recursive function on a .. b that starts with c and applies K[p] to
   its value at p - 1. *)
Iterates(f, a, b, c, K) == f = [p \in a .. b |-> IF p = a THEN c ELSE K[p][f[p - 1]]]

(* Such a function exists, so what a recursive definition of this form chooses
   satisfies its own equation. *)
LEMMA RecursionExists ==
    ASSUME NEW a \in Nat, NEW b \in Nat, a <= b, NEW c, NEW K
    PROVE  \E f : Iterates(f, a, b, c, K)
<1> USE DEF Iterates
<1> DEFINE Runs(f, m) == f = [p \in a .. m |-> IF p = a THEN c ELSE K[p][f[p - 1]]]
           S == {m \in Nat : \E f : Runs(f, m)}
<1>1. a \in S
  <2> DEFINE f == [p \in a .. a |-> c]
  <2>1. f = [p \in a .. a |-> IF p = a THEN c ELSE K[p][f[p - 1]]]
    OBVIOUS
  <2> QED
    BY <2>1, Zenon
<1>2. ASSUME NEW m \in a .. b, m # b, m \in S PROVE m + 1 \in S
  <2>1. PICK f : Runs(f, m)
    BY <1>2
  <2> DEFINE g == [p \in a .. (m + 1) |-> IF p = m + 1 THEN K[p][f[m]] ELSE f[p]]
             h == [p \in a .. (m + 1) |-> IF p = a THEN c ELSE K[p][g[p - 1]]]
  <2>2. ASSUME NEW p \in a .. (m + 1) PROVE g[p] = h[p]
    <3>1. CASE p = m + 1
      <4>1. p # a /\ p - 1 = m /\ g[p] = K[p][f[m]] /\ g[m] = f[m]
        BY <3>1
      <4> QED
        BY <4>1
    <3>2. CASE p # m + 1
      <4>1. p \in a .. m /\ g[p] = f[p]
        BY <3>2
      <4>2. f[p] = IF p = a THEN c ELSE K[p][f[p - 1]]
        BY <2>1, <4>1
      <4>3. p # a => g[p - 1] = f[p - 1]
        BY <3>2
      <4> QED
        BY <4>1, <4>2, <4>3
    <3> QED
      BY <3>1, <3>2
  <2>3. g = [p \in a .. (m + 1) |-> g[p]] /\ h = [p \in a .. (m + 1) |-> h[p]]
    OBVIOUS
  <2>4. g = h
    <3> HIDE DEF g, h
    <3> QED
      BY <2>2, <2>3
  <2>5. Runs(g, m + 1)
    BY <2>4, Zenon
  <2>6. m + 1 \in Nat
    OBVIOUS
  <2> HIDE DEF Runs, g
  <2> QED
    BY <2>5, <2>6
<1>3. a .. b \subseteq S
  <2> HIDE DEF S
  <2> QED
    BY <1>1, <1>2, IntervalInduction
<1>4. b \in S
  <2> HIDE DEF S
  <2> QED
    BY <1>3
<1> QED
  BY <1>4, Zenon

(* Gather is the last value of the inner loop of group_by_inner. *)
LEMMA GatherIterates ==
    ASSUME NEW s, NEW beg \in Nat, NEW n \in Nat, n = Len(s), beg <= n
    PROVE  \E u : /\ u[beg] = [pkts |-> s, end |-> beg + 1]
                  /\ \A p \in (beg + 1) .. n : u[p] = Probe(beg, p)[u[p - 1]]
                  /\ Gather(s, beg) = u[n]
<1> DEFINE c == [pkts |-> s, end |-> beg + 1]
           K == [p \in beg .. n |-> Probe(beg, p)]
           Runs(f) == f = [p \in beg .. n |->
                             IF p = beg THEN c ELSE Probe(beg, p)[f[p - 1]]]
           u == CHOOSE f : Runs(f)
<1>1. Runs(u)
  <2>1. PICK f : Iterates(f, beg, n, c, K)
    <3> HIDE DEF c, K
    <3> QED
      BY RecursionExists, Zenon
  <2>2. Runs(f)
    <3> HIDE DEF c
    <3> QED
      BY <2>1 DEF Iterates
  <2> QED
    BY <2>2, Zenon
<1>2. Gather(s, beg) = u[n]
  BY Zenon DEF Gather
<1>3. /\ u[beg] = c
      /\ \A p \in (beg + 1) .. n : u[p] = Probe(beg, p)[u[p - 1]]
  <2> HIDE DEF c, u
  <2> QED
    BY <1>1
<1> QED
  BY <1>2, <1>3, Zenon

(* GroupByAddr is the last value of the outer loop of group_by_inner. *)
LEMMA GroupsIterate ==
    ASSUME NEW s, NEW n \in Nat, n = Len(s)
    PROVE  \E u : /\ u[0] = [pkts |-> s, beg |-> 1, groups |-> <<>>]
                  /\ \A m \in 1 .. n : u[m] = NextGroup[u[m - 1]]
                  /\ GroupByAddr(s) = u[n]
<1> DEFINE c == [pkts |-> s, beg |-> 1, groups |-> <<>>]
           K == [p \in 0 .. n |-> NextGroup]
           Runs(f) == f = [p \in 0 .. n |-> IF p = 0 THEN c ELSE NextGroup[f[p - 1]]]
           u == CHOOSE f : Runs(f)
<1>1. Runs(u)
  <2>1. PICK f : Iterates(f, 0, n, c, K)
    <3>1. 0 \in Nat /\ 0 <= n
      OBVIOUS
    <3> HIDE DEF c, K
    <3> QED
      BY <3>1, RecursionExists, Zenon
  <2>2. Runs(f)
    <3> HIDE DEF c
    <3> QED
      BY <2>1 DEF Iterates
  <2> QED
    BY <2>2, Zenon
<1>2. GroupByAddr(s) = u[n]
  BY Zenon DEF GroupByAddr
<1>3. /\ u[0] = c
      /\ \A m \in 1 .. n : u[m] = NextGroup[u[m - 1]]
  <2> HIDE DEF c, u
  <2> QED
    BY <1>1
<1> QED
  BY <1>2, <1>3, Zenon

-------------------------------------------------------------------------------
(* group_by_inner *)

(* No two datagrams of a batch have the same place in it. *)
Distinct(s) == \A j, k \in 1 .. Len(s) : s[j].n = s[k].n => j = k

(* t has the datagrams of s, each as often as s has it if s has no duplicates. *)
Rearranged(s, t) ==
    /\ t \in Seq(Packet)
    /\ Len(t) = Len(s)
    /\ \A j \in 1 .. Len(s) : \E k \in 1 .. Len(s) : t[k] = s[j]
    /\ \A k \in 1 .. Len(s) : \E j \in 1 .. Len(s) : t[k] = s[j]
    /\ Distinct(s) => Distinct(t)

(* The inner loop has looked at beg .. p: the client of beg fills beg .. end - 1,
   nobody at end .. p is that client, and nothing moved across beg. *)
Collected(s, beg, p, t, end) ==
    /\ Rearranged(s, t)
    /\ end \in (beg + 1) .. (p + 1)
    /\ \A k \in 1 .. beg : t[k] = s[k]
    /\ \A k \in beg .. Len(s) : \E j \in beg .. Len(s) : t[k] = s[j]
    /\ \A k \in beg .. (end - 1) : t[k].addr = s[beg].addr
    /\ \A k \in end .. p : t[k].addr # s[beg].addr

Gathered(s, beg, p, g) == g \in Gathering /\ Collected(s, beg, p, g.pkts, g.end)

(* What slice::swap leaves at each index. *)
LEMMA SwapAt ==
    ASSUME NEW s \in Seq(Packet), NEW i \in 1 .. Len(s), NEW j \in 1 .. Len(s)
    PROVE  /\ Swap(s, i, j) \in Seq(Packet)
           /\ Len(Swap(s, i, j)) = Len(s)
           /\ \A k \in 1 .. Len(s) :
                Swap(s, i, j)[k] = s[IF k = j THEN i ELSE IF k = i THEN j ELSE k]
<1>1. Len(s) \in Nat /\ s \in [1 .. Len(s) -> Packet]
  OBVIOUS
<1>2. /\ Swap(s, i, j) \in [1 .. Len(s) -> Packet]
      /\ \A k \in 1 .. Len(s) :
            Swap(s, i, j)[k] = s[IF k = j THEN i ELSE IF k = i THEN j ELSE k]
  BY <1>1 DEF Swap
<1> QED
  BY <1>1, <1>2

(* slice::swap neither loses nor duplicates a datagram. *)
LEMMA SwapRearranges ==
    ASSUME NEW s \in Seq(Packet), NEW i \in 1 .. Len(s), NEW j \in 1 .. Len(s)
    PROVE  Rearranged(s, Swap(s, i, j))
<1> DEFINE t == Swap(s, i, j)
           q(k) == IF k = j THEN i ELSE IF k = i THEN j ELSE k
<1>1. /\ t \in Seq(Packet) /\ Len(t) = Len(s)
      /\ \A k \in 1 .. Len(s) : t[k] = s[q(k)]
  BY SwapAt
<1>2. \A k \in 1 .. Len(s) : q(k) \in 1 .. Len(s) /\ q(q(k)) = k
  OBVIOUS
<1> HIDE DEF t, q
<1>3. \A k \in 1 .. Len(s) : t[q(k)] = s[k]
  BY <1>1, <1>2
<1>4. ASSUME Distinct(s), NEW k \in 1 .. Len(s), NEW l \in 1 .. Len(s), t[k].n = t[l].n
      PROVE  k = l
  <2>1. s[q(k)].n = s[q(l)].n /\ q(k) \in 1 .. Len(s) /\ q(l) \in 1 .. Len(s)
    BY <1>1, <1>2, <1>4
  <2>2. q(k) = q(l)
    BY <1>4, <2>1 DEF Distinct
  <2> QED
    BY <1>2, <2>2
<1>5. Rearranged(s, t)
  BY <1>1, <1>2, <1>3, <1>4, SMTT(30) DEF Rearranged, Distinct
<1> QED
  BY <1>5 DEF t

(* A rearrangement of a rearrangement is one. *)
LEMMA RearrangedTransitive ==
    ASSUME NEW r, NEW s, NEW t, Rearranged(r, s), Rearranged(s, t)
    PROVE  Rearranged(r, t)
BY DEF Rearranged

(* A datagram of the group's client is swapped to the end of the group
   (group_by_inner). *)
LEMMA SwapCollects ==
    ASSUME NEW s \in Seq(Packet), NEW beg \in 1 .. Len(s), NEW p \in beg .. Len(s),
           p # Len(s), NEW t \in Seq(Packet), NEW end, Collected(s, beg, p, t, end),
           t[p + 1].addr = s[beg].addr
    PROVE  Collected(s, beg, p + 1, Swap(t, p + 1, end), end + 1)
<1> DEFINE n == Len(s)
           q == p + 1
           u == Swap(t, q, end)
<1>1. /\ n \in Nat /\ beg \in Nat /\ p \in Nat /\ 1 <= beg /\ beg <= p /\ p < n
      /\ Len(t) = n
      /\ end \in Nat /\ beg + 1 <= end /\ end <= q
  BY DEF Collected, Rearranged
<1>2. /\ u \in Seq(Packet) /\ Len(u) = n
      /\ \A k \in 1 .. n : u[k] = t[IF k = end THEN q ELSE IF k = q THEN end ELSE k]
      /\ Rearranged(t, u)
  <2>1. q \in 1 .. Len(t) /\ end \in 1 .. Len(t)
    BY <1>1
  <2> QED
    BY <1>1, <2>1, SwapAt, SwapRearranges
<1>3. /\ \A k \in 1 .. beg : t[k] = s[k]
      /\ \A k \in beg .. n : \E j \in beg .. n : t[k] = s[j]
      /\ \A k \in beg .. (end - 1) : t[k].addr = s[beg].addr
      /\ \A k \in end .. p : t[k].addr # s[beg].addr
      /\ t[q].addr = s[beg].addr
  BY DEF Collected
<1>4. Rearranged(s, u)
  BY <1>2, RearrangedTransitive DEF Collected
<1> HIDE DEF n, u
<1>5. end + 1 \in (beg + 1) .. (q + 1)
  BY <1>1
<1>6. \A k \in 1 .. beg : u[k] = s[k]
  <2> TAKE k \in 1 .. beg
  <2>1. k \in 1 .. n /\ k # end /\ k # q
    BY <1>1
  <2>2. u[k] = t[k]
    BY <1>2, <2>1
  <2> QED
    BY <1>3, <2>2
<1>7. \A k \in beg .. n : \E j \in beg .. n : u[k] = s[j]
  <2> TAKE k \in beg .. n
  <2>1. PICK i \in beg .. n : u[k] = t[i]
    <3> DEFINE i == IF k = end THEN q ELSE IF k = q THEN end ELSE k
    <3>1. i \in beg .. n /\ k \in 1 .. n
      BY <1>1
    <3> QED
      BY <1>2, <3>1
  <2> QED
    BY <1>3, <2>1
<1>8. \A k \in beg .. (end + 1 - 1) : u[k].addr = s[beg].addr
  <2> TAKE k \in beg .. (end + 1 - 1)
  <2>1. CASE k = end
    <3>1. k \in 1 .. n
      BY <1>1, <2>1
    <3>2. u[k] = t[q]
      BY <1>2, <2>1, <3>1
    <3> QED
      BY <1>3, <3>2
  <2>2. CASE k # end
    <3>1. k \in 1 .. n /\ k # q /\ k \in beg .. (end - 1)
      BY <1>1, <2>2
    <3> QED
      BY <1>2, <1>3, <2>2, <3>1, Zenon
  <2> QED
    BY <2>1, <2>2
<1>9. \A k \in (end + 1) .. q : u[k].addr # s[beg].addr
  <2> TAKE k \in (end + 1) .. q
  <2>1. PICK i \in end .. p : u[k] = t[i]
    <3> DEFINE i == IF k = q THEN end ELSE k
    <3>1. i \in end .. p /\ k \in 1 .. n /\ k # end
      BY <1>1
    <3> QED
      BY <1>2, <3>1
  <2> QED
    BY <1>3, <2>1
<1>10. Collected(s, beg, q, u, end + 1)
  <2> HIDE DEF q
  <2> QED
    BY <1>4, <1>5, <1>6, <1>7, <1>8, <1>9 DEF Collected, n
<1> QED
  BY <1>10 DEF u

(* A datagram of another client stays where it is. *)
LEMMA PassedCollects ==
    ASSUME NEW s \in Seq(Packet), NEW beg \in 1 .. Len(s), NEW p \in beg .. Len(s),
           NEW t, NEW end, Collected(s, beg, p, t, end),
           t[p + 1].addr # s[beg].addr
    PROVE  Collected(s, beg, p + 1, t, end)
<1>1. end \in (beg + 1) .. (p + 1 + 1)
  BY DEF Collected
<1>2. \A k \in end .. (p + 1) : t[k].addr # s[beg].addr
  <2> TAKE k \in end .. (p + 1)
  <2>1. k = p + 1 \/ k \in end .. p
    BY <1>1
  <2> QED
    BY <2>1, Zenon DEF Collected
<1> QED
  BY <1>1, <1>2, Zenon DEF Collected

(* One round of the inner loop of group_by_inner keeps its invariant. *)
LEMMA ProbeKeeps ==
    ASSUME NEW s \in Seq(Packet), NEW beg \in 1 .. Len(s), NEW p \in beg .. Len(s),
           p # Len(s), NEW g, Gathered(s, beg, p, g)
    PROVE  Gathered(s, beg, p + 1, Probe(beg, p + 1)[g])
<1> DEFINE q == p + 1
           h == Probe(beg, q)[g]
<1>1. /\ g \in Gathering /\ g.pkts \in Seq(Packet) /\ g.end \in Nat
      /\ Collected(s, beg, p, g.pkts, g.end)
      /\ g.pkts[beg] = s[beg]
  <2>1. g \in Gathering /\ Collected(s, beg, p, g.pkts, g.end)
    BY DEF Gathered
  <2>2. g.pkts \in Seq(Packet) /\ g.end \in Nat
    BY <2>1 DEF Gathering
  <2>3. \A k \in 1 .. beg : g.pkts[k] = s[k]
    BY <2>1, Zenon DEF Collected
  <2>4. beg \in 1 .. beg
    OBVIOUS
  <2> QED
    BY <2>1, <2>2, <2>3, <2>4, Zenon
<1>2. h = IF g.pkts[q].addr = g.pkts[beg].addr
          THEN [pkts |-> Swap(g.pkts, q, g.end), end |-> g.end + 1] ELSE g
  BY <1>1, Zenon DEF Probe
<1>3. CASE g.pkts[q].addr # s[beg].addr
  <2>1. h = g
    BY <1>1, <1>2, <1>3
  <2>2. Collected(s, beg, q, g.pkts, g.end)
    BY <1>1, <1>3, PassedCollects
  <2> QED
    BY <1>1, <2>1, <2>2, Zenon DEF Gathered
<1>4. CASE g.pkts[q].addr = s[beg].addr
  <2>1. Collected(s, beg, q, Swap(g.pkts, q, g.end), g.end + 1)
    BY <1>1, <1>4, SwapCollects
  <2>2. h = [pkts |-> Swap(g.pkts, q, g.end), end |-> g.end + 1]
    BY <1>1, <1>2, <1>4
  <2>3. Swap(g.pkts, q, g.end) \in Seq(Packet) /\ g.end + 1 \in Nat
    <3>1. Swap(g.pkts, q, g.end) \in Seq(Packet)
      BY <2>1, Zenon DEF Collected, Rearranged
    <3>2. g.end + 1 \in Nat
      BY <1>1
    <3> QED
      BY <3>1, <3>2
  <2>4. h \in Gathering /\ h.pkts = Swap(g.pkts, q, g.end) /\ h.end = g.end + 1
    <3> HIDE DEF h
    <3> QED
      BY <2>2, <2>3 DEF Gathering
  <2> QED
    BY <2>1, <2>4, Zenon DEF Gathered
<1> QED
  BY <1>3, <1>4

(* The inner loop gathers exactly the datagrams of the client at beg, and only
   moves datagrams behind beg. *)
LEMMA GatherCollects ==
    ASSUME NEW s \in Seq(Packet), NEW beg \in 1 .. Len(s)
    PROVE  Gathered(s, beg, Len(s), Gather(s, beg))
<1> DEFINE n == Len(s)
<1>1. n \in Nat /\ beg \in Nat /\ beg <= n
  OBVIOUS
<1>2. PICK u : /\ u[beg] = [pkts |-> s, end |-> beg + 1]
               /\ \A p \in (beg + 1) .. n : u[p] = Probe(beg, p)[u[p - 1]]
               /\ Gather(s, beg) = u[n]
  BY <1>1, GatherIterates
<1> DEFINE S == {p \in Nat : Gathered(s, beg, p, u[p])}
<1>3. beg \in S
  BY <1>1, <1>2 DEF Gathered, Gathering, Collected, Rearranged, Distinct
<1>4. ASSUME NEW p \in beg .. n, p # n, p \in S PROVE p + 1 \in S
  <2>1. p + 1 \in (beg + 1) .. n /\ p + 1 \in Nat /\ (p + 1) - 1 = p
    BY <1>1, <1>4
  <2>2. u[p + 1] = Probe(beg, p + 1)[u[p]]
    BY <1>2, <2>1
  <2>3. Gathered(s, beg, p + 1, u[p + 1])
    BY <1>4, <2>2, ProbeKeeps
  <2> QED
    BY <2>1, <2>3
<1>5. n \in S
  <2> HIDE DEF S, n
  <2>1. beg .. n \subseteq S
    BY <1>1, <1>3, <1>4, IntervalInduction, Zenon
  <2> QED
    BY <1>1, <2>1
<1> QED
  BY <1>2, <1>5

(* The ranges gs are in order, disjoint and together exactly a .. b. *)
Tiles(gs, a, b) ==
    /\ gs \in Seq(Nat \X Nat)
    /\ \A m \in 1 .. Len(gs) : a <= gs[m][1] /\ gs[m][1] <= gs[m][2] /\ gs[m][2] <= b
    /\ \A l, m \in 1 .. Len(gs) : l < m => gs[l][2] < gs[m][1]
    /\ \A k \in a .. b : \E m \in 1 .. Len(gs) : k \in gs[m][1] .. gs[m][2]

(* A range holds all the datagrams of its first one's client, and no other. *)
ByClient(t, gs) ==
    \A m \in 1 .. Len(gs) : \A k \in 1 .. Len(t) :
      k \in gs[m][1] .. gs[m][2] <=> t[k].addr = t[gs[m][1]].addr

(* The outer loop has grouped what is before beg. *)
Grouped(s, t, gs, beg) ==
    /\ Rearranged(s, t)
    /\ beg \in 1 .. (Len(s) + 1)
    /\ Tiles(gs, 1, beg - 1)
    /\ ByClient(t, gs)

(* The bounds of a group are numbers. *)
LEMMA RangeIsPair ==
    ASSUME NEW gs \in Seq(Nat \X Nat), NEW m \in 1 .. Len(gs)
    PROVE  gs[m][1] \in Nat /\ gs[m][2] \in Nat
<1>1. gs[m] \in Nat \X Nat
  OBVIOUS
<1> QED
  BY <1>1

(* A range that starts where the others end continues them (the push of
   group_by_inner). *)
LEMMA TilesAppend ==
    ASSUME NEW gs, NEW a \in Nat, NEW b \in Nat, NEW c \in Nat,
           a <= b + 1, b + 1 <= c, Tiles(gs, a, b)
    PROVE  Tiles(Append(gs, <<b + 1, c>>), a, c)
<1> DEFINE n == Len(gs)
           hs == Append(gs, <<b + 1, c>>)
<1>1. gs \in Seq(Nat \X Nat) /\ n \in Nat
  BY DEF Tiles
<1>2. /\ hs \in Seq(Nat \X Nat) /\ Len(hs) = n + 1
      /\ \A m \in 1 .. n : hs[m] = gs[m]
      /\ hs[n + 1] = <<b + 1, c>>
  BY <1>1
<1>3. hs[n + 1][1] = b + 1 /\ hs[n + 1][2] = c
  BY <1>2
<1>4. \A m \in 1 .. n : /\ gs[m][1] \in Nat /\ gs[m][2] \in Nat
                        /\ a <= gs[m][1] /\ gs[m][1] <= gs[m][2] /\ gs[m][2] <= b
  BY <1>1, RangeIsPair DEF Tiles
<1>5. /\ \A l, m \in 1 .. n : l < m => gs[l][2] < gs[m][1]
      /\ \A k \in a .. b : \E m \in 1 .. n : k \in gs[m][1] .. gs[m][2]
  BY DEF Tiles
<1> HIDE DEF hs, n
<1>6. \A m \in 1 .. (n + 1) : a <= hs[m][1] /\ hs[m][1] <= hs[m][2] /\ hs[m][2] <= c
  <2> TAKE m \in 1 .. (n + 1)
  <2>1. CASE m = n + 1
    BY <1>3, <2>1
  <2>2. CASE m # n + 1
    <3>1. m \in 1 .. n
      BY <1>1, <2>2
    <3>2. hs[m] = gs[m]
      BY <1>2, <3>1
    <3>3. /\ gs[m][1] \in Nat /\ gs[m][2] \in Nat
          /\ a <= gs[m][1] /\ gs[m][1] <= gs[m][2] /\ gs[m][2] <= b
      BY <1>4, <3>1
    <3> QED
      BY <3>2, <3>3
  <2> QED
    BY <2>1, <2>2
<1>7. \A l, m \in 1 .. (n + 1) : l < m => hs[l][2] < hs[m][1]
  <2> SUFFICES ASSUME NEW l \in 1 .. (n + 1), NEW m \in 1 .. (n + 1), l < m
               PROVE  hs[l][2] < hs[m][1]
    OBVIOUS
  <2>1. l \in 1 .. n
    BY <1>1
  <2>2. CASE m = n + 1
    BY <1>2, <1>3, <1>4, <2>1, <2>2, SMTT(30)
  <2>3. CASE m # n + 1
    <3>1. m \in 1 .. n
      BY <1>1, <2>3
    <3> QED
      BY <1>2, <1>5, <2>1, <3>1, Zenon
  <2> QED
    BY <2>2, <2>3
<1>8. \A k \in a .. c : \E m \in 1 .. (n + 1) : k \in hs[m][1] .. hs[m][2]
  <2> TAKE k \in a .. c
  <2>1. CASE k > b
    <3>1. k \in hs[n + 1][1] .. hs[n + 1][2] /\ n + 1 \in 1 .. (n + 1)
      BY <1>1, <1>3, <2>1
    <3> QED
      BY <3>1
  <2>2. CASE ~(k > b)
    <3> k \in a .. b
      BY <2>2
    <3>1. PICK m \in 1 .. n : k \in gs[m][1] .. gs[m][2]
      BY <1>5, Zenon
    <3>2. m \in 1 .. (n + 1) /\ k \in hs[m][1] .. hs[m][2]
      BY <1>1, <1>2, <3>1, SMTT(30)
    <3> QED
      BY <3>2
  <2> QED
    BY <2>1, <2>2
<1>9. Tiles(hs, a, c)
  BY <1>2, <1>6, <1>7, <1>8, Zenon DEF Tiles
<1> QED
  BY <1>9 DEF hs

(* The first range starts at a, and the others continue behind it. *)
LEMMA TilesTail ==
    ASSUME NEW gs, NEW a \in Nat, NEW b \in Nat, Tiles(gs, a, b), gs # <<>>
    PROVE  /\ Head(gs)[1] \in Nat /\ Head(gs)[2] \in Nat
           /\ a <= b => Head(gs)[1] = a
           /\ a <= Head(gs)[1] /\ Head(gs)[1] <= Head(gs)[2] /\ Head(gs)[2] <= b
           /\ Tiles(Tail(gs), Head(gs)[2] + 1, b)
<1> DEFINE n == Len(gs)
           hs == Tail(gs)
<1>1. gs \in Seq(Nat \X Nat) /\ n \in Nat /\ n > 0 /\ Head(gs) = gs[1] /\ 1 \in 1 .. n
  BY DEF Tiles
<1>2. /\ hs \in Seq(Nat \X Nat) /\ Len(hs) = n - 1
      /\ \A m \in 1 .. (n - 1) : hs[m] = gs[m + 1]
  BY <1>1
<1>4. \A m \in 1 .. n : /\ gs[m][1] \in Nat /\ gs[m][2] \in Nat
                        /\ a <= gs[m][1] /\ gs[m][1] <= gs[m][2] /\ gs[m][2] <= b
  BY <1>1, RangeIsPair DEF Tiles
<1>5. /\ \A l, m \in 1 .. n : l < m => gs[l][2] < gs[m][1]
      /\ \A k \in a .. b : \E m \in 1 .. n : k \in gs[m][1] .. gs[m][2]
  BY DEF Tiles
<1> HIDE DEF hs, n
<1>6. a <= b => gs[1][1] = a
  <2> SUFFICES ASSUME a <= b PROVE gs[1][1] = a
    OBVIOUS
  <2>1. PICK m \in 1 .. n : a \in gs[m][1] .. gs[m][2]
    BY <1>5
  <2>2. m = 1
    <3> SUFFICES ASSUME m # 1 PROVE FALSE
      OBVIOUS
    <3>1. 1 < m
      BY <1>1
    <3>2. gs[1][2] < gs[m][1]
      BY <1>1, <1>5, <3>1
    <3> QED
      BY <1>1, <1>4, <2>1, <3>2
  <2> QED
    BY <1>1, <1>4, <2>1, <2>2
<1> DEFINE e == gs[1][2]
<1>7. e \in Nat /\ e <= b /\ \A m \in 2 .. n : e < gs[m][1]
  <2>1. e \in Nat /\ e <= b
    BY <1>1, <1>4
  <2>2. ASSUME NEW m \in 2 .. n PROVE e < gs[m][1]
    <3>1. m \in 1 .. n /\ 1 < m
      OBVIOUS
    <3> QED
      BY <1>1, <1>5, <3>1
  <2> QED
    BY <2>1, <2>2
<1>8. \A m \in 1 .. (n - 1) : m + 1 \in 2 .. n /\ m + 1 \in 1 .. n
  BY <1>1
<1>9. Tiles(hs, e + 1, b)
  <2> HIDE DEF e
  <2>1. \A m \in 1 .. (n - 1) : e + 1 <= hs[m][1] /\ hs[m][1] <= hs[m][2] /\ hs[m][2] <= b
    <3> TAKE m \in 1 .. (n - 1)
    <3>1. e < gs[m + 1][1] /\ gs[m + 1][1] \in Nat /\ gs[m + 1][1] <= gs[m + 1][2]
          /\ gs[m + 1][2] <= b /\ hs[m] = gs[m + 1]
      BY <1>2, <1>4, <1>7, <1>8
    <3> QED
      BY <1>7, <3>1
  <2>2. \A l, m \in 1 .. (n - 1) : l < m => hs[l][2] < hs[m][1]
    <3> SUFFICES ASSUME NEW l \in 1 .. (n - 1), NEW m \in 1 .. (n - 1), l < m
                 PROVE  hs[l][2] < hs[m][1]
      OBVIOUS
    <3>1. l + 1 < m + 1 /\ l + 1 \in 1 .. n /\ m + 1 \in 1 .. n
      BY <1>1
    <3> QED
      BY <1>2, <1>5, <3>1, Zenon
  <2>3. \A k \in (e + 1) .. b : \E m \in 1 .. (n - 1) : k \in hs[m][1] .. hs[m][2]
    <3> TAKE k \in (e + 1) .. b
    <3>1. k \in a .. b /\ k > e
      BY <1>1, <1>4, <1>7 DEF e
    <3>2. PICK m \in 1 .. n : k \in gs[m][1] .. gs[m][2]
      BY <1>5, <3>1
    <3>3. m # 1
      BY <3>1, <3>2, <1>7 DEF e
    <3>4. m - 1 \in 1 .. (n - 1) /\ hs[m - 1] = gs[m]
      BY <1>1, <1>2, <3>3
    <3> QED
      BY <3>2, <3>4
  <2> QED
    BY <1>2, <2>1, <2>2, <2>3, Zenon DEF Tiles
<1> QED
  BY <1>1, <1>4, <1>6, <1>9 DEF hs, e

(* The group the outer loop pushes has all the datagrams of its client, and takes
   none from an earlier group. *)
LEMMA GroupedByClient ==
    ASSUME NEW s \in Seq(Packet), NEW t, NEW gs, NEW beg \in 1 .. Len(s),
           Grouped(s, t, gs, beg), NEW u, NEW end, Collected(t, beg, Len(s), u, end)
    PROVE  ByClient(u, Append(gs, <<beg, end - 1>>))
<1> DEFINE n == Len(s)
           g == Len(gs)
           hs == Append(gs, <<beg, end - 1>>)
<1>1. /\ gs \in Seq(Nat \X Nat) /\ g \in Nat /\ n \in Nat
      /\ Len(t) = n
      /\ \A m \in 1 .. g : \A k \in 1 .. n :
           k \in gs[m][1] .. gs[m][2] <=> t[k].addr = t[gs[m][1]].addr
      /\ \A m \in 1 .. g : 1 <= gs[m][1] /\ gs[m][1] <= gs[m][2] /\ gs[m][2] <= beg - 1
      /\ \A k \in 1 .. (beg - 1) : \E m \in 1 .. g : k \in gs[m][1] .. gs[m][2]
  BY DEF Grouped, Rearranged, Tiles, ByClient
<1>2. /\ Len(u) = n /\ end \in (beg + 1) .. (n + 1)
      /\ \A k \in 1 .. beg : u[k] = t[k]
      /\ \A k \in beg .. n : \E j \in beg .. n : u[k] = t[j]
      /\ \A k \in beg .. (end - 1) : u[k].addr = t[beg].addr
      /\ \A k \in end .. n : u[k].addr # t[beg].addr
  BY <1>1 DEF Collected, Rearranged
<1>3. /\ Len(hs) = g + 1
      /\ \A m \in 1 .. g : hs[m] = gs[m]
      /\ hs[g + 1] = <<beg, end - 1>>
  BY <1>1, <1>2
<1>4. hs[g + 1][1] = beg /\ hs[g + 1][2] = end - 1
  BY <1>3
<1>5. \A m \in 1 .. g : gs[m][1] \in Nat /\ gs[m][2] \in Nat
  BY <1>1, RangeIsPair
<1>0. beg \in Nat /\ 1 <= beg /\ beg <= n
  OBVIOUS
<1> HIDE DEF n, g, hs
<1>6. ASSUME NEW m \in 1 .. g, NEW k \in 1 .. n
      PROVE  k \in gs[m][1] .. gs[m][2] <=> u[k].addr = u[gs[m][1]].addr
  <2>1. /\ gs[m][1] \in Nat /\ gs[m][2] \in Nat
        /\ 1 <= gs[m][1] /\ gs[m][1] <= gs[m][2] /\ gs[m][2] <= beg - 1
    BY <1>1, <1>5
  <2>2. u[gs[m][1]] = t[gs[m][1]]
    <3>1. gs[m][1] \in 1 .. beg
      BY <1>0, <2>1
    <3> QED
      BY <1>2, <3>1, Zenon
  <2>3. CASE k < beg
    <3>1. k \in 1 .. beg
      BY <1>0, <2>3
    <3>2. u[k] = t[k]
      BY <1>2, <3>1, Zenon
    <3> QED
      BY <1>1, <2>2, <3>2, Zenon
  <2>4. CASE ~(k < beg)
    <3>1. PICK j \in beg .. n : u[k] = t[j]
      <4>1. k \in beg .. n
        BY <1>1, <1>0, <2>4
      <4> QED
        BY <1>2, <4>1, Zenon
    <3>2. j \in 1 .. n /\ j \notin gs[m][1] .. gs[m][2] /\ k \notin gs[m][1] .. gs[m][2]
      BY <2>1, <2>4
    <3> QED
      BY <1>1, <2>2, <3>1, <3>2
  <2> QED
    BY <2>3, <2>4
<1>7. ASSUME NEW k \in 1 .. n
      PROVE  k \in beg .. (end - 1) <=> u[k].addr = u[beg].addr
  <2>1. u[beg] = t[beg]
    BY <1>2
  <2>2. CASE k < beg
    <3>1. PICK m \in 1 .. g : k \in gs[m][1] .. gs[m][2]
      <4>1. k \in 1 .. (beg - 1)
        BY <1>1, <1>0, <2>2
      <4> QED
        BY <1>1, <4>1, Zenon
    <3>2. beg \in 1 .. n /\ beg \notin gs[m][1] .. gs[m][2]
      BY <1>1, <1>5 DEF n
    <3>3. t[k].addr # t[beg].addr
      BY <1>1, <3>1, <3>2
    <3>4. u[k] = t[k] /\ k \notin beg .. (end - 1)
      BY <1>2, <2>2
    <3> QED
      BY <2>1, <3>3, <3>4
  <2>3. CASE k \in beg .. (end - 1)
    BY <1>2, <2>1, <2>3
  <2>4. CASE k \in end .. n
    <3>1. k \notin beg .. (end - 1)
      BY <1>2, <2>4
    <3> QED
      BY <1>2, <2>1, <2>4, <3>1
  <2> QED
    BY <1>1, <1>2, <2>2, <2>3, <2>4
<1>8. ASSUME NEW m \in 1 .. (g + 1), NEW k \in 1 .. n
      PROVE  k \in hs[m][1] .. hs[m][2] <=> u[k].addr = u[hs[m][1]].addr
  <2>1. CASE m = g + 1
    BY <1>4, <1>7, <2>1
  <2>2. CASE m # g + 1
    <3>1. m \in 1 .. g /\ hs[m] = gs[m]
      BY <1>1, <1>3, <2>2
    <3> QED
      BY <1>6, <3>1
  <2> QED
    BY <2>1, <2>2
<1>9. ByClient(u, hs)
  BY <1>2, <1>3, <1>8 DEF ByClient
<1> QED
  BY <1>9 DEF hs

(* Pushing what the inner loop gathered keeps the invariant of the outer loop. *)
LEMMA PushGroups ==
    ASSUME NEW s \in Seq(Packet), NEW t, NEW gs, NEW beg \in 1 .. Len(s),
           Grouped(s, t, gs, beg), NEW u, NEW end, Collected(t, beg, Len(s), u, end)
    PROVE  Grouped(s, u, Append(gs, <<beg, end - 1>>), end)
<1>1. Rearranged(s, u)
  BY RearrangedTransitive, Zenon DEF Grouped, Collected
<1>2. /\ end \in 1 .. (Len(s) + 1) /\ end - 1 \in Nat /\ beg - 1 \in Nat
      /\ 1 <= beg - 1 + 1 /\ beg - 1 + 1 <= end - 1 /\ beg - 1 + 1 = beg
  BY DEF Collected
<1>3. Tiles(Append(gs, <<beg, end - 1>>), 1, end - 1)
  BY <1>2, TilesAppend DEF Grouped
<1> QED
  BY <1>1, <1>2, <1>3, GroupedByClient DEF Grouped

(* After m rounds the outer loop is past m, or through. *)
Formed(s, m, r) ==
    /\ r \in Grouping
    /\ Grouped(s, r.pkts, r.groups, r.beg)
    /\ r.beg > m \/ r.beg = Len(s) + 1

(* One round of the outer loop keeps its invariant and gets further. *)
LEMMA NextGroupKeeps ==
    ASSUME NEW s \in Seq(Packet), NEW m \in Nat, m < Len(s), NEW r, Formed(s, m, r)
    PROVE  Formed(s, m + 1, NextGroup[r])
<1> DEFINE t == r.pkts
           b == r.beg
           gs == r.groups
           g == Gather(t, b)
<1>1. /\ r \in Grouping /\ Grouped(s, t, gs, b)
      /\ t \in Seq(Packet) /\ b \in Nat /\ gs \in Seq(Nat \X Nat)
  BY DEF Formed, Grouping
<1>2. Len(t) = Len(s) /\ b \in 1 .. (Len(s) + 1) /\ Len(s) \in Nat
  BY <1>1 DEF Grouped, Rearranged
<1>3. b > m \/ b = Len(s) + 1
  BY DEF Formed
<1>4. NextGroup[r] = IF b > Len(t) THEN r ELSE Push(r)[g]
  BY <1>1, Zenon DEF NextGroup
<1>5. CASE b > Len(t)
  <2>1. b = Len(s) + 1 /\ NextGroup[r] = r
    BY <1>2, <1>4, <1>5
  <2> QED
    BY <1>1, <2>1 DEF Formed
<1>6. CASE ~(b > Len(t))
  <2>1. b \in 1 .. Len(t)
    BY <1>2, <1>6
  <2>2. Gathered(t, b, Len(t), g)
    BY <1>1, <2>1, GatherCollects, Zenon
  <2>3. g \in Gathering /\ Collected(t, b, Len(s), g.pkts, g.end)
    BY <1>2, <2>2 DEF Gathered
  <2> DEFINE q == [pkts |-> g.pkts, beg |-> g.end, groups |-> Append(gs, <<b, g.end - 1>>)]
  <2>4. NextGroup[r] = q
    <3>1. Push(r)[g] = q
      BY <2>3, Zenon DEF Push
    <3> QED
      BY <1>4, <1>6, <3>1, Zenon
  <2>5. Grouped(s, g.pkts, Append(gs, <<b, g.end - 1>>), g.end)
    BY <1>1, <1>2, <2>1, <2>3, PushGroups
  <2> HIDE DEF g, gs, b, t
  <2>6. g.pkts \in Seq(Packet) /\ g.end \in Nat /\ g.end > m + 1
    <3>1. g.end \in (b + 1) .. (Len(s) + 1)
      BY <2>3, Zenon DEF Collected
    <3>2. g.pkts \in Seq(Packet)
      BY <2>3 DEF Gathering
    <3> QED
      BY <1>2, <1>3, <1>6, <3>1, <3>2
  <2>7. Append(gs, <<b, g.end - 1>>) \in Seq(Nat \X Nat)
    BY <2>5, Zenon DEF Grouped, Tiles
  <2>8. q \in Grouping /\ q.pkts = g.pkts /\ q.beg = g.end
        /\ q.groups = Append(gs, <<b, g.end - 1>>)
    BY <2>6, <2>7 DEF Grouping
  <2> HIDE DEF q
  <2> QED
    BY <2>4, <2>5, <2>6, <2>8 DEF Formed
<1> QED
  BY <1>5, <1>6

(* group_by_inner, on any batch: it loses and duplicates no datagram, its groups
   cover the batch from the first datagram to the last without a gap or an
   overlap, and each group is all the datagrams of one client. *)
THEOREM GroupingIsByClient ==
    ASSUME NEW s \in Seq(Packet)
    PROVE  /\ Rearranged(s, GroupByAddr(s).pkts)
           /\ Tiles(GroupByAddr(s).groups, 1, Len(s))
           /\ ByClient(GroupByAddr(s).pkts, GroupByAddr(s).groups)
<1> DEFINE n == Len(s)
<1>1. n \in Nat /\ 0 \in Nat /\ 0 <= n
  OBVIOUS
<1>2. PICK u : /\ u[0] = [pkts |-> s, beg |-> 1, groups |-> <<>>]
               /\ \A m \in 1 .. n : u[m] = NextGroup[u[m - 1]]
               /\ GroupByAddr(s) = u[n]
  BY <1>1, GroupsIterate
<1> DEFINE S == {m \in Nat : Formed(s, m, u[m])}
<1>3. 0 \in S
  <2>1. Tiles(<<>>, 1, 0) /\ ByClient(s, <<>>)
    BY DEF Tiles, ByClient
  <2>2. Rearranged(s, s)
    BY DEF Rearranged, Distinct
  <2>3. Grouped(s, s, <<>>, 1)
    BY <1>1, <2>1, <2>2 DEF Grouped
  <2>4. /\ u[0] \in Grouping /\ u[0].pkts = s /\ u[0].beg = 1 /\ u[0].groups = <<>>
    BY <1>2 DEF Grouping
  <2> QED
    BY <2>3, <2>4 DEF Formed
<1>4. ASSUME NEW m \in 0 .. n, m # n, m \in S PROVE m + 1 \in S
  <2>1. m + 1 \in 1 .. n /\ m + 1 \in Nat /\ (m + 1) - 1 = m /\ m \in Nat /\ m < n
    BY <1>1, <1>4
  <2>2. u[m + 1] = NextGroup[u[m]]
    BY <1>2, <2>1
  <2>3. Formed(s, m + 1, u[m + 1])
    BY <1>4, <2>1, <2>2, NextGroupKeeps
  <2> QED
    BY <2>1, <2>3
<1>5. n \in S
  <2> HIDE DEF S, n
  <2>1. 0 .. n \subseteq S
    BY <1>1, <1>3, <1>4, IntervalInduction, SMTT(30)
  <2> QED
    BY <1>1, <2>1
<1>6. /\ Grouped(s, u[n].pkts, u[n].groups, u[n].beg)
      /\ u[n].beg > n \/ u[n].beg = n + 1
  BY <1>5 DEF Formed
<1>7. u[n].beg - 1 = n
  BY <1>1, <1>6 DEF Grouped
<1> QED
  BY <1>2, <1>6, <1>7 DEF Grouped

-------------------------------------------------------------------------------
(* Forwarding a batch. *)

(* The groups not sent yet are the rest of the batch, one per client. *)
Remaining ==
    /\ groups # <<>>
    /\ Tiles(groups, Len(sent) + 1, Len(pkts))
    /\ ByClient(pkts, groups)

(* What was sent is the regrouped batch, from its start, each for its sender. *)
SentInOrder ==
    /\ Distinct(pkts)
    /\ Len(sent) <= Len(pkts)
    /\ \A k \in 1 .. Len(sent) : sent[k].pkt = pkts[k] /\ sent[k].from = pkts[k].addr

(* What the loop knows at each of its awaits. *)
Progress ==
    /\ loop = "resolve" => sent = <<>> /\ pkts # <<>>
    /\ loop \in {"find", "create", "insert", "send"} => Remaining
    /\ loop \in {"create", "insert", "send"} => client = pkts[Head(groups)[1]].addr
    /\ loop \in {"insert", "send"} => rsock \in Socks
    /\ loop = "recv" => Len(sent) = Len(pkts)

BatchInv == TypeOK /\ SentInOrder /\ Progress

(* A received batch is not empty, and numbers its datagrams. *)
LEMMA BatchesAreDistinct ==
    ASSUME NEW b \in Batches
    PROVE  b \in Seq(Packet) /\ b # <<>> /\ Distinct(b)
<1>1. PICK n \in 1 .. MaxBatch : \E c \in [1 .. n -> Clients] :
        b = [k \in DOMAIN c |-> [addr |-> c[k], n |-> k]]
  BY DEF Batches
<1>2. PICK c \in [1 .. n -> Clients] : b = [k \in DOMAIN c |-> [addr |-> c[k], n |-> k]]
  BY <1>1
<1>3. n \in Nat /\ n > 0
  BY BatchesExist
<1>4. b = [k \in 1 .. n |-> [addr |-> c[k], n |-> k]]
  BY <1>2
<1>5. b \in [1 .. n -> Packet] /\ \A k \in 1 .. n : b[k].n = k
  BY <1>3, <1>4 DEF Packet
<1>6. b \in Seq(Packet) /\ Len(b) = n
  BY <1>3, <1>5
<1> QED
  BY <1>3, <1>5, <1>6 DEF Distinct

(* What is left after a group is still grouped by client. *)
LEMMA ByClientTail ==
    ASSUME NEW t, NEW gs \in Seq(Nat \X Nat), gs # <<>>, ByClient(t, gs)
    PROVE  ByClient(t, Tail(gs))
<1>1. /\ Len(gs) \in Nat /\ Len(gs) > 0 /\ Len(Tail(gs)) = Len(gs) - 1
      /\ \A m \in 1 .. (Len(gs) - 1) : Tail(gs)[m] = gs[m + 1] /\ m + 1 \in 1 .. Len(gs)
  OBVIOUS
<1> QED
  BY <1>1 DEF ByClient

Delivery == [pkt: Packet, from: Clients, via: Socks]

(* A function on 1 .. n is a sequence of length n. *)
LEMMA FunctionIsSeq ==
    ASSUME NEW S, NEW n \in Nat, NEW f \in [1 .. n -> S]
    PROVE  f \in Seq(S) /\ Len(f) = n
OBVIOUS

(* The parts of a concatenation. *)
LEMMA ConcatParts ==
    ASSUME NEW S, NEW d \in Seq(S), NEW x \in Seq(S)
    PROVE  /\ d \o x \in Seq(S)
           /\ Len(d \o x) = Len(d) + Len(x)
           /\ \A k \in 1 .. Len(d) : (d \o x)[k] = d[k]
           /\ \A k \in (Len(d) + 1) .. (Len(d) + Len(x)) : (d \o x)[k] = x[k - Len(d)]
OBVIOUS

Deliveries(g, c, r) == [k \in DOMAIN g |-> [pkt |-> g[k], from |-> c, via |-> r]]

(* send_all appends the next datagrams of the batch, in order. *)
LEMMA SentAppended ==
    ASSUME NEW t \in Seq(Packet), NEW d \in Seq(Delivery), NEW n \in Nat, n = Len(d),
           NEW e \in Nat, n + 1 <= e, e <= Len(t), NEW c \in Clients, NEW r \in Socks
    PROVE  LET out == d \o Deliveries(SubSeq(t, n + 1, e), c, r)
           IN  /\ out \in Seq(Delivery)
               /\ Len(out) = e
               /\ \A k \in 1 .. n : out[k] = d[k]
               /\ \A k \in (n + 1) .. e : out[k] = [pkt |-> t[k], from |-> c, via |-> r]
<1> DEFINE g == SubSeq(t, n + 1, e)
           new == Deliveries(g, c, r)
<1> DEFINE l == e - n
<1>1. /\ l \in Nat /\ g \in Seq(Packet) /\ Len(g) = l
      /\ \A k \in 1 .. l : g[k] = t[n + k]
  <2>1. l \in Nat /\ e - (n + 1) + 1 = l
    OBVIOUS
  <2>2. \A k \in 1 .. l : n + 1 + k - 1 = n + k
    OBVIOUS
  <2> HIDE DEF l
  <2>3. n + 1 \in 1 .. Len(t) /\ e \in 1 .. Len(t)
    OBVIOUS
  <2> QED
    BY <2>1, <2>2, <2>3
<1>2. DOMAIN g = 1 .. l /\ \A k \in 1 .. l : g[k] \in Packet
  BY <1>1
<1>3. new = [k \in 1 .. l |-> [pkt |-> g[k], from |-> c, via |-> r]]
  BY <1>2 DEF Deliveries
<1> HIDE DEF new, g
<1>4. new \in [1 .. l -> Delivery]
  <2> HIDE DEF l
  <2>1. \A k \in 1 .. l : [pkt |-> g[k], from |-> c, via |-> r] \in Delivery
    BY <1>2, Zenon DEF Delivery
  <2> QED
    BY <1>3, <2>1, Zenon
<1>5. new \in Seq(Delivery) /\ Len(new) = l
  <2> HIDE DEF l
  <2> QED
    BY <1>1, <1>4, FunctionIsSeq, Zenon
<1>6. \A k \in 1 .. l : new[k] = [pkt |-> t[n + k], from |-> c, via |-> r]
  <2> HIDE DEF l
  <2> QED
    BY <1>1, <1>3
<1>7. /\ d \o new \in Seq(Delivery) /\ Len(d \o new) = n + l
      /\ \A k \in 1 .. n : (d \o new)[k] = d[k]
      /\ \A k \in (n + 1) .. (n + l) : (d \o new)[k] = new[k - n]
  <2> HIDE DEF l
  <2> QED
    BY <1>5, ConcatParts, ZenonT(40)
<1>8. n + l = e /\ \A k \in (n + 1) .. e : k - n \in 1 .. l /\ n + (k - n) = k
  OBVIOUS
<1> HIDE DEF l
<1>9. \A k \in (n + 1) .. e : (d \o new)[k] = [pkt |-> t[k], from |-> c, via |-> r]
  BY <1>6, <1>7, <1>8
<1> QED
  BY <1>7, <1>8, <1>9, Zenon DEF new, g

(* The next group starts behind what was sent, and is one client's. *)
LEMMA HeadOfRemaining ==
    ASSUME TypeOK, SentInOrder, Remaining
    PROVE  /\ Head(groups)[1] = Len(sent) + 1
           /\ Head(groups)[2] \in Nat
           /\ Len(sent) + 1 <= Head(groups)[2]
           /\ Head(groups)[2] <= Len(pkts)
           /\ Tiles(Tail(groups), Head(groups)[2] + 1, Len(pkts))
           /\ \A k \in (Len(sent) + 1) .. Head(groups)[2] :
                pkts[k].addr = pkts[Len(sent) + 1].addr
           /\ pkts[Len(sent) + 1].addr \in Clients
<1> DEFINE n == Len(sent)
           len == Len(pkts)
           a == Head(groups)[1]
           e == Head(groups)[2]
<1>1. /\ pkts \in Seq(Packet) /\ n \in Nat /\ len \in Nat
      /\ groups \in Seq(Nat \X Nat) /\ groups # <<>>
      /\ Tiles(groups, n + 1, len) /\ ByClient(pkts, groups)
  BY DEF TypeOK, SentInOrder, Remaining
<1>2. /\ a \in Nat /\ e \in Nat
      /\ n + 1 <= len => a = n + 1
      /\ n + 1 <= a /\ a <= e /\ e <= len
      /\ Tiles(Tail(groups), e + 1, len)
  <2>1. n + 1 \in Nat
    BY <1>1
  <2> HIDE DEF n, len
  <2> QED
    BY <1>1, <2>1, TilesTail, Zenon
<1> HIDE DEF n, len, e, a
<1>3. a = n + 1 /\ n + 1 <= e
  BY <1>1, <1>2
<1>4. \A k \in (n + 1) .. e : pkts[k].addr = pkts[n + 1].addr
  <2>1. 1 \in 1 .. Len(groups) /\ groups[1] = Head(groups)
    BY <1>1
  <2>2. \A k \in 1 .. len : k \in a .. e <=> pkts[k].addr = pkts[a].addr
    BY <1>1, <2>1 DEF ByClient, a, e, len
  <2> QED
    BY <1>1, <1>2, <1>3, <2>2
<1>5. pkts[n + 1].addr \in Clients
  <2>1. n + 1 \in 1 .. Len(pkts)
    BY <1>1, <1>2, <1>3 DEF len
  <2>2. pkts[n + 1] \in Packet
    BY <1>1, <2>1
  <2> QED
    BY <2>2 DEF Packet
<1> QED
  BY <1>2, <1>3, <1>4, <1>5 DEF n, len, a, e

(* Sending a group (batched::send_all) keeps the order, and the last group
   completes the batch. *)
LEMMA SendKeeps ==
    ASSUME BatchInv, Send
    PROVE  BatchInv'
<1> DEFINE n == Len(sent)
           e == Head(groups)[2]
           c == client
           new == Deliveries(SubSeq(pkts, n + 1, e), c, rsock)
           d == sent \o new
<1>1. /\ TypeOK /\ SentInOrder /\ Remaining
      /\ client = pkts[Head(groups)[1]].addr /\ rsock \in Socks
  BY DEF BatchInv, Progress, Send
<1>2. /\ pkts \in Seq(Packet) /\ sent \in Seq(Delivery) /\ n \in Nat
      /\ groups \in Seq(Nat \X Nat) /\ groups # <<>> /\ ByClient(pkts, groups)
  BY <1>1 DEF TypeOK, Delivery, Remaining
<1>3. /\ Head(groups)[1] = n + 1
      /\ e \in Nat /\ n + 1 <= e /\ e <= Len(pkts)
      /\ Tiles(Tail(groups), e + 1, Len(pkts))
      /\ \A k \in (n + 1) .. e : pkts[k].addr = c
      /\ c \in Clients
  BY <1>1, HeadOfRemaining
<1>4. /\ d \in Seq(Delivery)
      /\ Len(d) = e
      /\ \A k \in 1 .. n : d[k] = sent[k]
      /\ \A k \in (n + 1) .. e : d[k] = [pkt |-> pkts[k], from |-> c, via |-> rsock]
  <2>1. n = Len(sent)
    OBVIOUS
  <2> HIDE DEF n, e, c
  <2> QED
    BY <1>1, <1>2, <1>3, <2>1, SentAppended, SMTT(30)
<1>5. /\ sent' = d /\ pkts' = pkts /\ groups' = Tail(groups)
      /\ loop' = IF groups' = <<>> THEN "recv" ELSE "find"
      /\ rsock' = None /\ client' = None
      /\ UNCHANGED <<sockmap, assoc, shutdown, token, owner>>
  <2>1. Group = SubSeq(pkts, n + 1, e)
    BY <1>3 DEF Group
  <2> QED
    BY <2>1, Zenon DEF Send, Deliveries
<1> HIDE DEF new, n, e, c, d
<1>6. \A k \in 1 .. e : d[k].pkt = pkts[k] /\ d[k].from = pkts[k].addr
  <2> TAKE k \in 1 .. e
  <2>1. CASE k <= n
    <3>1. k \in 1 .. n
      BY <1>2, <2>1
    <3> QED
      BY <1>1, <1>4, <3>1 DEF SentInOrder, n
  <2>2. CASE ~(k <= n)
    <3>1. k \in (n + 1) .. e
      BY <1>2, <1>3, <2>2
    <3>2. d[k] = [pkt |-> pkts[k], from |-> c, via |-> rsock]
      BY <1>4, <3>1, Zenon
    <3>3. pkts[k].addr = c
      BY <1>3, <3>1
    <3> QED
      BY <3>2, <3>3
  <2> QED
    BY <2>1, <2>2
<1>7. SentInOrder'
  BY <1>1, <1>3, <1>4, <1>5, <1>6 DEF SentInOrder, Distinct
<1>8. groups' \in Seq(Nat \X Nat)
  BY <1>2, <1>5
<1>9. groups' # <<>> => Remaining'
  <2>1. ByClient(pkts, Tail(groups))
    BY <1>2, ByClientTail
  <2> QED
    BY <1>3, <1>4, <1>5, <2>1 DEF Remaining
<1>10. groups' = <<>> => e = Len(pkts)
  <2> SUFFICES ASSUME groups' = <<>> PROVE e = Len(pkts)
    OBVIOUS
  <2>1. Len(Tail(groups)) = 0
    BY <1>5, Len(<<>>) = 0, Zenon
  <2>2. \A k \in (e + 1) .. Len(pkts) : \E m \in 1 .. 0 : TRUE
    BY <1>3, <2>1, Zenon DEF Tiles
  <2>3. \A k \in (e + 1) .. Len(pkts) : FALSE
    BY <2>2, 1 .. 0 = {}, Zenon
  <2> QED
    BY <1>2, <1>3, <2>3
<1>11. TypeOK'
  BY <1>1, <1>2, <1>4, <1>5, <1>8, Zenon DEF TypeOK, LoopState, Delivery
<1>12. Progress'
  BY <1>4, <1>5, <1>9, <1>10 DEF Progress
<1> QED
  BY <1>7, <1>11, <1>12 DEF BatchInv

(* Grouping a batch before anything of it is sent keeps the invariant. *)
LEMMA ResolveKeeps ==
    ASSUME BatchInv, Resolve
    PROVE  BatchInv'
<1> DEFINE t == GroupByAddr(pkts).pkts
           gs == GroupByAddr(pkts).groups
<1>1. /\ TypeOK /\ pkts \in Seq(Packet) /\ Distinct(pkts) /\ sent = <<>> /\ pkts # <<>>
      /\ loop = "resolve"
  BY DEF BatchInv, TypeOK, SentInOrder, Progress, Resolve
<1>2. /\ pkts' = t /\ groups' = gs /\ loop' = "find"
      /\ UNCHANGED <<client, rsock, sockmap, assoc, shutdown, token, owner, sent>>
  BY DEF Resolve
<1>3. Rearranged(pkts, t) /\ Tiles(gs, 1, Len(pkts)) /\ ByClient(t, gs)
  BY <1>1, GroupingIsByClient
<1> HIDE DEF t, gs
<1>4. /\ t \in Seq(Packet) /\ Distinct(t) /\ Len(t) = Len(pkts) /\ gs \in Seq(Nat \X Nat)
  BY <1>1, <1>3 DEF Rearranged, Tiles
<1>5. Len(pkts) \in Nat /\ Len(pkts) > 0
  BY <1>1
<1>6. gs # <<>>
  <2> SUFFICES ASSUME gs = <<>> PROVE FALSE
    OBVIOUS
  <2>1. 1 \in 1 .. Len(pkts)
    BY <1>5
  <2>2. \E m \in 1 .. 0 : TRUE
    BY <1>3, <2>1, Len(<<>>) = 0, Zenon DEF Tiles
  <2> QED
    BY <2>2, 1 .. 0 = {}, Zenon
<1>7. Len(sent) = 0
  BY <1>1, Len(<<>>) = 0, Zenon
<1>8. Remaining'
  BY <1>2, <1>3, <1>4, <1>6, <1>7 DEF Remaining
<1>9. SentInOrder'
  BY <1>2, <1>4, <1>5, <1>7 DEF SentInOrder, Distinct
<1>10. TypeOK'
  BY <1>1, <1>2, <1>4 DEF TypeOK, LoopState
<1> QED
  BY <1>2, <1>8, <1>9, <1>10 DEF BatchInv, Progress

(* Every step of the receive loop of serve_udp keeps the invariant, an abandoned
   batch included. *)
LEMMA ForwardingKeeps ==
    ASSUME BatchInv, Relaying
    PROVE  BatchInv'
<1> USE NoneIsNobody
<1>1. ASSUME NEW b \in Batches, Receive(b) PROVE BatchInv'
  <2>1. b \in Seq(Packet) /\ b # <<>> /\ Distinct(b)
    BY BatchesAreDistinct
  <2>2. /\ pkts' = b /\ sent' = <<>> /\ loop' = "resolve"
        /\ UNCHANGED <<groups, client, rsock, sockmap, assoc, shutdown, token, owner>>
    BY <1>1 DEF Receive
  <2>3. TypeOK'
    BY <2>1, <2>2 DEF BatchInv, TypeOK, LoopState
  <2>4. SentInOrder'
    BY <2>1, <2>2 DEF SentInOrder, Distinct
  <2> QED
    BY <2>1, <2>2, <2>3, <2>4 DEF BatchInv, Progress
<1>2. CASE Resolve
  BY <1>2, ResolveKeeps
<1>3. CASE Find
  <2>1. /\ loop = "find" /\ client' = pkts[Head(groups)[1]].addr
        /\ rsock' = sockmap[client']
        /\ loop' = IF rsock' = None THEN "create" ELSE "send"
        /\ UNCHANGED <<pkts, groups, sockmap, assoc, shutdown, token, owner, sent>>
    BY <1>3 DEF Find
  <2>2. TypeOK /\ SentInOrder /\ Remaining
    BY <2>1 DEF BatchInv, Progress
  <2>3. client' \in Clients
    BY <2>1, <2>2, HeadOfRemaining
  <2>4. rsock' \in Socks \cup {None}
    BY <2>1, <2>2, <2>3 DEF TypeOK
  <2>5. TypeOK'
    BY <2>1, <2>2, <2>3, <2>4 DEF TypeOK, LoopState
  <2>6. SentInOrder'
    BY <2>1, <2>2 DEF SentInOrder, Distinct
  <2>7. Remaining'
    BY <2>1, <2>2 DEF Remaining, Tiles, ByClient
  <2>8. Progress'
    BY <2>1, <2>4, <2>7 DEF Progress
  <2> QED
    BY <2>5, <2>6, <2>8 DEF BatchInv
<1>4. ASSUME NEW s \in Socks, Create(s) PROVE BatchInv'
  <2>1. /\ loop = "create" /\ loop' = "insert" /\ rsock' = s
        /\ assoc' = [assoc EXCEPT ![s] = [client |-> client, at |-> "reading"]]
        /\ UNCHANGED <<pkts, groups, client, sockmap, shutdown, token, owner, sent>>
    BY <1>4 DEF Create
  <2>2. TypeOK /\ SentInOrder /\ Remaining /\ client = pkts[Head(groups)[1]].addr
    BY <2>1 DEF BatchInv, Progress
  <2>3. client \in Clients
    BY <2>2, HeadOfRemaining
  <2>4. assoc' \in [Socks -> [client: Clients, at: TaskState] \cup {None}]
    <3>1. [client |-> client, at |-> "reading"] \in [client: Clients, at: TaskState]
      BY <2>3 DEF TaskState
    <3> QED
      BY <2>1, <2>2, <3>1, Zenon DEF TypeOK
  <2>5. TypeOK'
    BY <2>1, <2>2, <2>4 DEF TypeOK, LoopState
  <2>6. SentInOrder'
    BY <2>1, <2>2 DEF SentInOrder, Distinct
  <2>7. Remaining'
    BY <2>1, <2>2 DEF Remaining, Tiles, ByClient
  <2>8. Progress'
    BY <2>1, <2>2, <2>7 DEF Progress
  <2> QED
    BY <2>5, <2>6, <2>8 DEF BatchInv
<1>5. CASE Insert
  <2>1. /\ loop = "insert" /\ loop' = "send"
        /\ sockmap' = [sockmap EXCEPT ![client] = rsock]
        /\ UNCHANGED <<pkts, groups, client, rsock, assoc, shutdown, token, owner, sent>>
    BY <1>5 DEF Insert
  <2>2. /\ TypeOK /\ SentInOrder /\ Remaining /\ client = pkts[Head(groups)[1]].addr
        /\ rsock \in Socks
    BY <2>1 DEF BatchInv, Progress
  <2>3. sockmap' \in [Clients -> Socks \cup {None}]
    BY <2>1, <2>2, Zenon DEF TypeOK
  <2>4. TypeOK'
    BY <2>1, <2>2, <2>3 DEF TypeOK, LoopState
  <2>5. SentInOrder'
    BY <2>1, <2>2 DEF SentInOrder, Distinct
  <2>6. Remaining'
    BY <2>1, <2>2 DEF Remaining, Tiles, ByClient
  <2>7. Progress'
    BY <2>1, <2>2, <2>6 DEF Progress
  <2> QED
    BY <2>4, <2>5, <2>7 DEF BatchInv
<1>6. CASE Send
  BY <1>6, SendKeeps
<1>7. CASE BatchFails \/ ExitLoop
  <2>1. /\ loop' \in {"recv", "exited"} /\ pkts' = <<>> /\ groups' = <<>> /\ rsock' = None
        /\ client' = None /\ sent' = <<>>
        /\ UNCHANGED <<assoc, shutdown, token, owner>>
        /\ sockmap' \in {sockmap, [c \in Clients |-> None]}
    BY <1>7 DEF BatchFails, ExitLoop, DropBatch
  <2>2. TypeOK'
    BY <2>1 DEF BatchInv, TypeOK, LoopState
  <2>3. SentInOrder' /\ Progress'
    BY <2>1 DEF SentInOrder, Distinct, Progress
  <2> QED
    BY <2>2, <2>3 DEF BatchInv
<1> QED
  BY <1>1, <1>2, <1>3, <1>4, <1>5, <1>6, <1>7 DEF Relaying

(* Associations and the manager never touch the batch. *)
LEMMA OthersKeepBatch ==
    ASSUME BatchInv, (\E s \in Socks : Answering(s)) \/ Owning \/ UNCHANGED vars
    PROVE  BatchInv'
<1>1. UNCHANGED loopVars
  BY DEF Answering, AssociationEnds, AssociationCancelled, RemoveEntry, DropGuard,
         DropSockets, Owning, StopActive, Join, Rebuild, Drain, DrainExpires, Drained,
         taskVars, ownerVars, vars
<1>2. SentInOrder' /\ Progress'
  <2>1. UNCHANGED <<loop, pkts, groups, client, rsock, sent>>
    BY <1>1 DEF loopVars
  <2> QED
    BY <2>1, Zenon
       DEF BatchInv, SentInOrder, Distinct, Progress, Remaining, Tiles, ByClient
<1>3. /\ sockmap' \in [Clients -> Socks \cup {None}]
      /\ assoc' \in [Socks -> [client: Clients, at: TaskState] \cup {None}]
      /\ shutdown' \in BOOLEAN /\ token' \in BOOLEAN /\ owner' \in OwnerState
  <2>1. CASE Owning \/ UNCHANGED vars
    BY <2>1, Zenon
       DEF BatchInv, TypeOK, OwnerState, Owning, StopActive, Join, Rebuild, Drain,
           DrainExpires, Drained, ownerVars, vars
  <2>2. ASSUME NEW s \in Socks, Answering(s) PROVE <1>3
    <3>1. /\ UNCHANGED <<shutdown, token, owner>>
          /\ assoc[s] # None
          /\ sockmap' = sockmap \/ sockmap' = [sockmap EXCEPT ![assoc[s].client] = None]
          /\ \/ assoc' = [assoc EXCEPT ![s] = None]
             \/ \E a \in TaskState : assoc' = [assoc EXCEPT ![s].at = a]
      BY <2>2 DEF Answering, AssociationEnds, AssociationCancelled, RemoveEntry,
                  DropGuard, DropSockets, taskVars, At, TaskState
    <3>2. sockmap' \in [Clients -> Socks \cup {None}]
      BY <3>1, Zenon DEF BatchInv, TypeOK
    <3>3. assoc' \in [Socks -> [client: Clients, at: TaskState] \cup {None}]
      <4>1. assoc[s] \in [client: Clients, at: TaskState]
        BY <3>1 DEF BatchInv, TypeOK
      <4>2. \A a \in TaskState :
              [assoc[s] EXCEPT !.at = a] \in [client: Clients, at: TaskState]
        BY <4>1
      <4> QED
        BY <3>1, <4>2 DEF BatchInv, TypeOK
    <3> QED
      BY <3>1, <3>2, <3>3 DEF BatchInv, TypeOK
  <2> QED
    BY <2>1, <2>2
<1> QED
  BY <1>1, <1>2, <1>3 DEF BatchInv, TypeOK, loopVars

(* The invariant of the batch holds in every behaviour, early ends of
   associations included. *)
LEMMA BatchInvariance == Spec => []BatchInv
<1>1. Init => BatchInv
  <2> SUFFICES ASSUME Init PROVE BatchInv
    OBVIOUS
  <2>1. TypeOK
    <3>1. /\ sockmap \in [Clients -> Socks \cup {None}]
          /\ assoc \in [Socks -> [client: Clients, at: TaskState] \cup {None}]
          /\ shutdown \in BOOLEAN /\ token \in BOOLEAN
      BY Zenon DEF Init
    <3>2. /\ loop \in LoopState /\ owner \in OwnerState
          /\ client \in Clients \cup {None} /\ rsock \in Socks \cup {None}
      BY Zenon DEF Init, LoopState, OwnerState
    <3>3. /\ pkts \in Seq(Packet) /\ groups \in Seq(Nat \X Nat)
          /\ sent \in Seq([pkt: Packet, from: Clients, via: Socks])
      BY DEF Init
    <3> QED
      BY <3>1, <3>2, <3>3, Zenon DEF TypeOK
  <2> QED
    BY <2>1 DEF Init, BatchInv, SentInOrder, Distinct, Progress
<1>2. BatchInv /\ [Next]_vars => BatchInv'
  BY ForwardingKeeps, OthersKeepBatch, Zenon DEF Next, Terminated
<1> QED
  BY <1>1, <1>2, PTL DEF Spec

(* Every variable of the relay keeps its type; in particular a datagram is never
   sent without an association socket (associate_and_relay). *)
THEOREM Types == Spec => []TypeOK
BY BatchInvariance, PTL DEF BatchInv

(* A batch forwarded to its end sends each datagram it received exactly once, and
   through its own client's association, for batches of any size and any number
   of clients (group_by_inner, associate_and_relay). *)
THEOREM ForwardedOnce == Spec => []BatchSentOnce
<1>1. BatchInv => BatchSentOnce
  <2> SUFFICES ASSUME BatchInv PROVE BatchSentOnce
    OBVIOUS
  <2>1. /\ sent \in Seq(Delivery) /\ pkts \in Seq(Packet) /\ DOMAIN sent = 1 .. Len(sent)
        /\ Len(sent) \in Nat /\ Len(pkts) \in Nat
    BY DEF BatchInv, TypeOK, Delivery
  <2>2. /\ Distinct(pkts) /\ Len(sent) <= Len(pkts)
        /\ \A k \in 1 .. Len(sent) : sent[k].pkt = pkts[k] /\ sent[k].from = pkts[k].addr
    BY DEF BatchInv, SentInOrder
  <2>3. \A k \in 1 .. Len(sent) : k \in 1 .. Len(pkts)
    BY <2>1, <2>2
  <2>4. \A j, k \in 1 .. Len(sent) : sent[j].pkt.n = sent[k].pkt.n => j = k
    BY <2>2, <2>3 DEF Distinct
  <2> QED
    BY <2>1, <2>2, <2>4 DEF BatchSentOnce, BatchInv, Progress
<1> QED
  BY <1>1, BatchInvariance, PTL
=============================================================================
