------------------------------ MODULE Balancer ------------------------------
(***************************************************************************)
(* The load balancer that picks the remote peer of a connection.           *)
(*                                                                         *)
(*   realm_lb/src/balancer.rs      Strategy, Balancer                      *)
(*   realm_lb/src/round_robin.rs   smooth weighted round robin, one mutex  *)
(*   realm_lb/src/ip_hash.rs       a ring of virtual nodes                 *)
(*                                                                         *)
(* A token is the index of a peer: 0 is the endpoint's remote, and token n *)
(* the n-th of its extra remotes.  The module has the balancer's state and *)
(* operations; the connection that uses them is in TcpRelay.               *)
(***************************************************************************)
EXTENDS Integers, Sequences

CONSTANTS
    Half,               \* counters are integers from -Half to Half-1 (i16: 2^15)
    MinReplica,         \* MIN_REPLICA
    Vnodes,             \* bound: indices of virtual nodes
    HashOfVnode,        \* chash of a virtual node's name, by its index
    Ips,                \* client addresses
    HashOfIp            \* chash_for_ip of a client address

ASSUME HalfPositive == Half \in Nat \ {0}
ASSUME HashesAreNumbers == HashOfVnode \in [Vnodes -> Nat] /\ HashOfIp \in [Ips -> Nat]

VARIABLES
    balancer,           \* strategy and weights of the endpoint, and the ring
    cw,                 \* RoundRobin: the nodes' current weights
    picked              \* history: round robin: how often each peer came up in this cycle

balancerVars == <<balancer, cw, picked>>

(* Arithmetic of an i16, which wraps in a release build. *)
Wrap(x) == ((x + Half) % (2 * Half)) - Half

Sum(w) ==
    LET upTo[n \in 0..Len(w)] == IF n = 0 THEN 0 ELSE upTo[n - 1] + w[n]
    IN  upTo[Len(w)]

Largest(w) == CHOOSE x \in {w[i] : i \in DOMAIN w} : \A i \in DOMAIN w : w[i] <= x

-----------------------------------------------------------------------------
(* IpHash::new.  A virtual node is named by its index alone, so all peers     *)
(* have their nodes at the same places, and each has one even at weight zero. *)

(* As many virtual nodes per unit of weight as bring the largest to
   MIN_REPLICA; a division by zero is the largest u8. *)
ReplicaRatio(w) ==
    LET max == Largest(w)
    IN  IF max >= MinReplica THEN 1
        ELSE IF max = 0 THEN 255
        ELSE (MinReplica + max - 1) \div max

NodesAt(w, h) ==
    {i \in DOMAIN w : \E v \in 0..(w[i] * ReplicaRatio(w)) : HashOfVnode[v] = h}

Places(w) == {h \in {HashOfVnode[v] : v \in Vnodes} : NodesAt(w, h) # {}}

(* An unstable sort puts any of the nodes with equal hashes first, and a
   binary search that hits their hash may return any of them: both are
   choices made once, for the ring as it was built. *)
Rings(w) ==
    LET atEach == {f \in [Places(w) -> DOMAIN w] : \A h \in Places(w) : f[h] \in NodesAt(w, h)}
    IN  [first: atEach, hit: atEach]

(* IpHash::next: the node at the client's hash, or the first one after it, or
   the first of all. *)
IpHashNext(w, ring, ip) ==
    LET h     == HashOfIp[ip]
        after == {x \in Places(w) : x > h}
        Least(S) == CHOOSE x \in S : \A y \in S : x <= y
    IN  IF Len(w) <= 1 THEN 1
        ELSE IF h \in Places(w) THEN ring.hit[h]
        ELSE ring.first[Least(IF after # {} THEN after ELSE Places(w))]

-----------------------------------------------------------------------------
(* RoundRobin::next, under its mutex.  The effective weight equals the weight
   from the start and nothing lowers it. *)

Raised(w) == [i \in DOMAIN w |-> Wrap(cw[i] + w[i])]

(* The first of the nodes with the largest current weight. *)
Best(w) ==
    CHOOSE i \in DOMAIN w : \A j \in DOMAIN w :
        /\ Raised(w)[j] <= Raised(w)[i]
        /\ j < i => Raised(w)[j] < Raised(w)[i]

RoundRobinNext_OwnWeight(w) ==
    IF Len(w) <= 1
    THEN cw' = cw
    ELSE cw' = [Raised(w) EXCEPT ![Best(w)] = Wrap(@ - w[Best(w)])]

RoundRobinNext(w) ==
    IF Len(w) <= 1
    THEN cw' = cw
    ELSE cw' = [Raised(w) EXCEPT ![Best(w)] = Wrap(@ - Wrap(Sum(w)))]

RoundRobinPick(w) == IF Len(w) <= 1 THEN 1 ELSE Best(w)

-----------------------------------------------------------------------------

(* Balancer::new, for the weights that the endpoint's build accepted. *)
BalancerInit(strategy, w) ==
    /\ \E ring \in (IF strategy = "iphash" /\ Len(w) > 1
                    THEN Rings(w)
                    ELSE {[first |-> <<>>, hit |-> <<>>]}) :
           balancer = [strategy |-> strategy, weights |-> w, ring |-> ring]
    /\ cw = [i \in DOMAIN w |-> 0]
    /\ picked = [i \in DOMAIN w |-> 0]

(* The counts start again when a cycle is complete. *)
Count(i) ==
    LET w == balancer.weights
        before == IF Sum(picked) >= Sum(w) THEN [j \in DOMAIN w |-> 0] ELSE picked
    IN  picked' = [j \in DOMAIN w |-> before[j] + (IF i = j THEN 1 ELSE 0)]

(* Balancer::next: the position, from one, of the peer that ip is given. *)
Pick(ip) ==
    CASE balancer.strategy = "off" -> 1
      [] balancer.strategy = "iphash" -> IpHashNext(balancer.weights, balancer.ring, ip)
      [] balancer.strategy = "roundrobin" -> RoundRobinPick(balancer.weights)

BalancerNext(ip) ==
    /\ IF balancer.strategy = "roundrobin"
       THEN RoundRobinNext(balancer.weights) /\ Count(Pick(ip))
       ELSE UNCHANGED <<cw, picked>>
    /\ UNCHANGED balancer

-----------------------------------------------------------------------------

(* The most that any n - j of the n counters of the round robin add up to
   between two picks. *)
Together(w) ==
    LET n == Len(w)
        most[j \in 0..(n - 1)] ==
          IF j = 0 THEN 0 ELSE ((n - j) * (most[j - 1] + Sum(w))) \div (n - j + 1)
    IN  most

(* The most that one counter reaches: for n peers about 1/2 + ... + 1/n of the
   sum of their weights. *)
Lag(w) == Together(w)[Len(w) - 1]

(* The counters hold what next adds up.  The sum of the weights alone may fit
   and a counter still overflow: a peer that has waited long is raised by its
   weight once more. *)
WeightsFit ==
    /\ Sum(balancer.weights) < Half
    /\ Lag(balancer.weights) + Largest(balancer.weights) < Half

(* The shares that realm_lb's tests measure to one in a thousand
   (round_robin.rs:96-150), at every moment, in units of a pick divided by the
   sum of the weights: a peer is ahead of its share by less than a pick, which
   excludes a peer of weight zero, and behind it by no more than Lag, which is
   less than a pick for up to three peers.  At the end of a cycle the shares
   are exact.  It needs weights that fit, as next adds them up without a check. *)
PicksFollowWeights ==
    LET w == balancer.weights
    IN  balancer.strategy = "roundrobin" /\ Len(w) > 1 /\ Sum(w) > 0 /\ WeightsFit =>
            /\ \A i \in DOMAIN w :
                   LET lead == Sum(w) * picked[i] - Sum(picked) * w[i]
                   IN  lead < Sum(w) /\ -lead <= Lag(w)
            /\ Sum(picked) = Sum(w) => picked = w
=============================================================================
