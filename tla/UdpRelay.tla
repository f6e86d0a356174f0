------------------------------ MODULE UdpRelay ------------------------------
(***************************************************************************)
(* One generation of a udp slot: the receive loop that forwards batches of *)
(* datagrams, the map from clients to associations, and the task of each   *)
(* association, which routes answers back and ends by itself.              *)
(*                                                                         *)
(*   realm_core/src/udp/mod.rs       serve_udp                             *)
(*   realm_core/src/udp/middle.rs    associate_and_relay, send_back        *)
(*   realm_core/src/udp/sockmap.rs   the map, one lock per operation       *)
(*                                                                         *)
(* Loop and tasks run on different threads and share the map, so each use  *)
(* of its lock is a step, and so is everything between two awaits that     *)
(* another thread can see.  An association owns a reference to the entry   *)
(* socket and a guard of the cohort (module Cohort has the guard's inside).*)
(***************************************************************************)
EXTENDS Naturals, Sequences

CONSTANTS
    Clients,            \* addresses that datagrams come from
    Socks,              \* bound: association sockets that exist at one time
    MaxBatch,           \* bound: datagrams of one batch
    None,               \* Option::None
    Early               \* may a task end before its association is inserted

(* A task reads answers, has left its loop, has removed its entry, or has
   dropped its guard and is about to drop its sockets. *)
TaskState == {"reading", "left", "removed", "released"}

ASSUME BatchesExist == MaxBatch \in Nat /\ Clients # {}
ASSUME NoneIsNobody ==
    /\ None \notin Socks
    /\ None \notin Clients
    /\ None \notin [client: Clients, at: TaskState]
ASSUME EarlyIsChoice == Early \in BOOLEAN

VARIABLES
    loop,               \* where serve_udp is
    pkts,               \* Registry: the received datagrams, regrouped
    groups,             \* Registry: ranges of pkts not forwarded yet
    client,             \* laddr of the group being forwarded
    rsock,              \* the association socket it goes out on
    sockmap,            \* SockMap: None or a socket per client
    assoc,              \* assoc[s]: None or the task that reads from s
    shutdown,           \* the loop's shutdown token has fired
    token,              \* the cohort's token has fired
    owner,              \* what the manager is doing with this generation
    sent                \* history: what was sent of this batch, and for whom

loopVars == <<loop, pkts, groups, client, rsock, sent>>
vars == <<loopVars, sockmap, assoc, shutdown, token, owner>>

(* A datagram: who sent it, and its place in the batch. *)
Packet == [addr: Clients, n: Nat]

LoopState == {"recv", "resolve", "find", "create", "insert", "send", "exited"}

OwnerState == {"serving", "joining", "stopped", "rebuilding", "waiting", "drained"}

Init ==
    /\ loop = "recv"
    /\ pkts = <<>>
    /\ groups = <<>>
    /\ client = None
    /\ rsock = None
    /\ sockmap = [c \in Clients |-> None]
    /\ assoc = [s \in Socks |-> None]
    /\ shutdown = FALSE
    /\ token = FALSE
    /\ owner = "serving"
    /\ sent = <<>>

-------------------------------------------------------------------------------
(* group_by_inner, on a batch that is never empty. *)

Swap_Skipped(s, i, j) == s

Swap(s, i, j) == [s EXCEPT ![i] = s[j], ![j] = s[i]]

(* The inner loop: the batch, and the first index behind the group. *)
Gathering == [pkts: Seq(Packet), end: Nat]

(* It collects every datagram of the client at beg. *)
Probe(beg, p) ==
    [g \in Gathering |->
        IF g.pkts[p].addr = g.pkts[beg].addr
        THEN [pkts |-> Swap(g.pkts, p, g.end), end |-> g.end + 1]
        ELSE g]

Gather(s, beg) ==
    LET upTo[p \in beg..Len(s)] ==
          IF p = beg THEN [pkts |-> s, end |-> beg + 1]
          ELSE Probe(beg, p)[upTo[p - 1]]
    IN  upTo[Len(s)]

(* The outer loop: the batch, the first index in no group, and the groups. *)
Grouping == [pkts: Seq(Packet), beg: Nat, groups: Seq(Nat \X Nat)]

Push(r) ==
    [g \in Gathering |->
        [pkts   |-> g.pkts,
         beg    |-> g.end,
         groups |-> Append(r.groups, <<r.beg, g.end - 1>>)]]

NextGroup[r \in Grouping] ==
    IF r.beg > Len(r.pkts) THEN r ELSE Push(r)[Gather(r.pkts, r.beg)]

GroupByAddr(s) ==
    LET after[n \in 0..Len(s)] ==
          IF n = 0 THEN [pkts |-> s, beg |-> 1, groups |-> <<>>]
          ELSE NextGroup[after[n - 1]]
    IN  after[Len(s)]

-------------------------------------------------------------------------------
(* serve_udp and associate_and_relay.  An error abandons what is left of the
   batch; the loop logs it and receives the next one. *)

Batches ==
    {[k \in DOMAIN b |-> [addr |-> b[k], n |-> k]] :
     b \in UNION {[1 .. n -> Clients] : n \in 1 .. MaxBatch}}

Receive(b) ==
    /\ loop = "recv"
    /\ pkts' = b
    /\ sent' = <<>>
    /\ loop' = "resolve"
    /\ UNCHANGED <<groups, client, rsock, sockmap, assoc, shutdown, token, owner>>

Resolve ==
    /\ loop = "resolve"
    /\ pkts' = GroupByAddr(pkts).pkts
    /\ groups' = GroupByAddr(pkts).groups
    /\ loop' = "find"
    /\ UNCHANGED <<client, rsock, sockmap, assoc, shutdown, token, owner, sent>>

(* SockMap::find for the client of the next group *)
Find ==
    /\ loop = "find"
    /\ client' = pkts[Head(groups)[1]].addr
    /\ rsock' = sockmap[client']
    /\ loop' = IF rsock' = None THEN "create" ELSE "send"
    /\ UNCHANGED <<pkts, groups, sockmap, assoc, shutdown, token, owner, sent>>

(* the closure of find_or_insert: a new socket, its guard and its task; the
   socket exists while a task, the map or the loop refers to it *)
Create(s) ==
    /\ loop = "create"
    /\ assoc[s] = None
    /\ \A c \in Clients : sockmap[c] # s
    /\ assoc' = [assoc EXCEPT ![s] = [client |-> client, at |-> "reading"]]
    /\ rsock' = s
    /\ loop' = "insert"
    /\ UNCHANGED <<pkts, groups, client, sockmap, shutdown, token, owner, sent>>

Insert_Skipped ==
    /\ loop = "insert"
    /\ loop' = "send"
    /\ UNCHANGED <<pkts, groups, client, rsock, sockmap, assoc, shutdown, token, owner,
                   sent>>

Insert ==
    /\ loop = "insert"
    /\ sockmap' = [sockmap EXCEPT ![client] = rsock]
    /\ loop' = "send"
    /\ UNCHANGED <<pkts, groups, client, rsock, assoc, shutdown, token, owner, sent>>

Group == SubSeq(pkts, Head(groups)[1], Head(groups)[2])

(* batched::send_all for the group *)
Send ==
    /\ loop = "send"
    /\ sent' = sent \o [k \in DOMAIN Group |->
                         [pkt |-> Group[k], from |-> client, via |-> rsock]]
    /\ groups' = Tail(groups)
    /\ loop' = IF groups' = <<>> THEN "recv" ELSE "find"
    /\ rsock' = None
    /\ client' = None
    /\ UNCHANGED <<pkts, sockmap, assoc, shutdown, token, owner>>

(* what the relay future held is dropped with it *)
DropBatch ==
    /\ pkts' = <<>>
    /\ groups' = <<>>
    /\ rsock' = None
    /\ client' = None
    /\ sent' = <<>>

(* the resolver, the new socket or a send failed *)
BatchFails ==
    /\ loop \in {"resolve", "create", "send"}
    /\ loop' = "recv"
    /\ DropBatch
    /\ UNCHANGED <<sockmap, assoc, shutdown, token, owner>>

(* biased select: a fired shutdown drops the relay future at its next await,
   and the map is cleared *)
ExitLoop ==
    /\ shutdown
    /\ loop \in {"recv", "resolve", "send"}
    /\ loop' = "exited"
    /\ DropBatch
    /\ sockmap' = [c \in Clients |-> None]
    /\ UNCHANGED <<assoc, shutdown, token, owner>>

-------------------------------------------------------------------------------
(* send_back, the task of one association. *)

taskVars == <<loopVars, shutdown, token, owner>>

At(s, state) == assoc[s] # None /\ assoc[s].at = state

(* the idle timeout, a failed receive or a failed send *)
AssociationEnds(s) ==
    /\ At(s, "reading")
    /\ Early \/ ~(loop = "insert" /\ rsock = s)
    /\ assoc' = [assoc EXCEPT ![s].at = "left"]
    /\ UNCHANGED <<taskVars, sockmap>>

AssociationCancelled(s) ==
    /\ At(s, "reading")
    /\ token
    /\ assoc' = [assoc EXCEPT ![s].at = "left"]
    /\ UNCHANGED <<taskVars, sockmap>>

RemoveEntry_Skipped(s) ==
    /\ At(s, "left")
    /\ assoc' = [assoc EXCEPT ![s].at = "removed"]
    /\ UNCHANGED <<taskVars, sockmap>>

(* SockMap::remove takes out whatever the client's entry is *)
RemoveEntry(s) ==
    /\ At(s, "left")
    /\ sockmap' = [sockmap EXCEPT ![assoc[s].client] = None]
    /\ assoc' = [assoc EXCEPT ![s].at = "removed"]
    /\ UNCHANGED taskVars

DropGuard(s) ==
    /\ At(s, "removed")
    /\ assoc' = [assoc EXCEPT ![s].at = "released"]
    /\ UNCHANGED <<taskVars, sockmap>>

(* the task returns and drops its references to both sockets *)
DropSockets(s) ==
    /\ At(s, "released")
    /\ assoc' = [assoc EXCEPT ![s] = None]
    /\ UNCHANGED <<taskVars, sockmap>>

-------------------------------------------------------------------------------
(* The manager: stop_active, then a rebuild of the same address, which cancels
   the associations and waits for them, or a drain in the background. *)

ownerVars == <<loopVars, sockmap, assoc>>

GuardsGone == \A s \in Socks : assoc[s] = None \/ At(s, "released")

StopActive ==
    /\ owner = "serving"
    /\ shutdown' = TRUE
    /\ owner' = "joining"
    /\ UNCHANGED <<ownerVars, token>>

Join ==
    /\ owner = "joining"
    /\ loop = "exited"
    /\ owner' = "stopped"
    /\ UNCHANGED <<ownerVars, shutdown, token>>

Rebuild_NoCancel ==
    /\ owner = "stopped"
    /\ owner' = "rebuilding"
    /\ UNCHANGED <<ownerVars, shutdown, token>>

Rebuild ==
    /\ owner = "stopped"
    /\ token' = TRUE
    /\ owner' = "rebuilding"
    /\ UNCHANGED <<ownerVars, shutdown>>

Drain ==
    /\ owner = "stopped"
    /\ owner' = "waiting"
    /\ UNCHANGED <<ownerVars, shutdown, token>>

(* the deadline of a deletion *)
DrainExpires ==
    /\ owner = "waiting"
    /\ token' = TRUE
    /\ UNCHANGED <<ownerVars, shutdown, owner>>

Drained_NoWait ==
    /\ owner \in {"rebuilding", "waiting"}
    /\ owner' = "drained"
    /\ UNCHANGED <<ownerVars, shutdown, token>>

Drained ==
    /\ owner \in {"rebuilding", "waiting"}
    /\ GuardsGone
    /\ owner' = "drained"
    /\ UNCHANGED <<ownerVars, shutdown, token>>

(* nothing is left of this generation *)
Terminated ==
    /\ owner = "drained"
    /\ \A s \in Socks : assoc[s] = None
    /\ UNCHANGED vars

-------------------------------------------------------------------------------

Relaying ==
    \/ \E b \in Batches : Receive(b)
    \/ Resolve
    \/ Find
    \/ \E s \in Socks : Create(s)
    \/ Insert
    \/ Send
    \/ BatchFails
    \/ ExitLoop

Answering(s) ==
    \/ AssociationEnds(s)
    \/ AssociationCancelled(s)
    \/ RemoveEntry(s)
    \/ DropGuard(s)
    \/ DropSockets(s)

Owning ==
    \/ StopActive
    \/ Join
    \/ Rebuild
    \/ Drain
    \/ DrainExpires
    \/ Drained

Next ==
    \/ Relaying
    \/ \E s \in Socks : Answering(s)
    \/ Owning
    \/ Terminated

Spec == Init /\ [][Next]_vars

(***************************************************************************)
(* The runtime polls every woken task.  Datagrams need not arrive and      *)
(* associations need not time out (a timeout of 0 means never); a fired    *)
(* token wakes its task, and a task that left its loop runs to its end.    *)
(* The loop's own steps are fair, a batch that fails included: once it     *)
(* cannot create a socket there is no other way on.                        *)
(***************************************************************************)
Forwarding ==
    \/ Resolve
    \/ Find
    \/ \E s \in Socks : Create(s)
    \/ Insert
    \/ Send
    \/ BatchFails

Finishing(s) ==
    \/ AssociationCancelled(s)
    \/ RemoveEntry(s)
    \/ DropGuard(s)
    \/ DropSockets(s)

Fairness ==
    /\ WF_vars(Forwarding)
    /\ WF_vars(ExitLoop)
    /\ \A s \in Socks : WF_vars(Finishing(s))
    /\ WF_vars(Join)
    /\ WF_vars(Drained)

FairSpec == Spec /\ Fairness

-------------------------------------------------------------------------------
(* Properties *)

(* Type invariant of the relay, its associations and its owner. *)
TypeOK ==
    /\ loop \in LoopState
    /\ pkts \in Seq(Packet)
    /\ groups \in Seq(Nat \X Nat)
    /\ client \in Clients \cup {None}
    /\ rsock \in Socks \cup {None}
    /\ sockmap \in [Clients -> Socks \cup {None}]
    /\ assoc \in [Socks -> [client: Clients, at: TaskState] \cup {None}]
    /\ shutdown \in BOOLEAN
    /\ token \in BOOLEAN
    /\ owner \in OwnerState
    /\ sent \in Seq([pkt: Packet, from: Clients, via: Socks])

(* The map never offers an association that is not there any more: the task
   of every entry belongs to that client and has yet to remove the entry.  An
   entry that outlived its task would swallow the client's datagrams for as
   long as the listener lives, since nobody reads the answers. *)
MapEntriesLive ==
    \A c \in Clients :
      sockmap[c] # None =>
        /\ assoc[sockmap[c]] # None
        /\ assoc[sockmap[c]].client = c
        /\ assoc[sockmap[c]].at \in {"reading", "left"}

(* A client never has two associations that route answers back: a second one
   is created only when the first has taken itself out of the map. *)
OneReaderPerClient ==
    \A c \in Clients : \A r, s \in Socks :
      /\ At(r, "reading") /\ assoc[r].client = c
      /\ At(s, "reading") /\ assoc[s].client = c
      => r = s

(* A batch that is forwarded to its end sends every datagram it received
   exactly once and through its own client's association, although grouping
   swaps datagrams around in place (group_by_inner). *)
BatchSentOnce ==
    /\ \A k \in DOMAIN sent : sent[k].pkt.addr = sent[k].from
    /\ \A j, k \in DOMAIN sent : sent[j].pkt.n = sent[k].pkt.n => j = k
    /\ loop = "recv" => Len(sent) = Len(pkts)

(* When the cohort is reported as drained no association reads any more and
   none can be found in the map ("released last: the cohort reports this
   association as gone only once the task has actually finished"). *)
DrainedLeavesNothing ==
    owner = "drained" =>
      /\ \A c \in Clients : sockmap[c] = None
      /\ \A s \in Socks : assoc[s] = None \/ At(s, "released")

(* A rebuild of the same address always gets the entry socket back: the loop
   and every association drop their reference to it, even those that never
   time out. *)
RebuildFreesSocket ==
    owner = "rebuilding" ~>
      (loop = "exited" /\ \A s \in Socks : assoc[s] = None)
==============================================================================
